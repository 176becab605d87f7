--------------------------- MODULE Library_proofs ---------------------------
(***************************************************************************)
(* What memcpy, memset and memcmp write and answer, for every length and   *)
(* every address; then what PredictPathType answers, for every path.       *)
(***************************************************************************)
EXTENDS Memory, Paths, Recursion, WellFoundedInduction, FiniteSetTheorems,
        SequenceTheorems, TLAPS

(* A strip of adjoining blocks, from first on, with the block that ends at *)
(* limit + 32 covers all between.                                          *)
LEMMA StripCovers ==
  ASSUME NEW first \in Int, NEW limit \in Int
  PROVE  /\ first .. limit - 1 \subseteq Strip(first, 32, limit)
         /\ Strip(first, 32, limit) \subseteq first .. limit + 30
<1>1. ASSUME NEW b \in first .. limit - 1
      PROVE  b \in Strip(first, 32, limit)
  <2> DEFINE o == b - ((b - first) % 32)
  <2>1. /\ o \in first .. limit - 1
        /\ (o - first) % 32 = 0
        /\ b \in o .. o + 32 - 1
    OBVIOUS
  <2> HIDE DEF o
  <2> QED BY <2>1 DEF Strip, Block
<1>2. ASSUME NEW b \in Strip(first, 32, limit)
      PROVE  b \in first .. limit + 30
  BY <1>2 DEF Strip, Block
<1> QED BY <1>1, <1>2

(* A first and a last block that meet.                                     *)
LEMMA FirstLastCovers ==
  ASSUME NEW size \in Nat, NEW len \in Nat, size <= len, len <= 2 * size
  PROVE  FirstLast(size, len) = 0 .. len - 1
BY DEF FirstLast, Block

LEMMA BlockFromZero == ASSUME NEW len \in Nat PROVE Block(0, len) = 0 .. len - 1
BY DEF Block

(* memcpy writes each byte and none beside.                                *)
LEMMA MemcpyExact ==
  ASSUME NEW dst \in Nat, NEW len \in Nat
  PROVE  memcpy(dst, len) = 0 .. len - 1
<1> DEFINE offla == dst % 32
<1>1. offla \in 0 .. 31
  OBVIOUS
<1> HIDE DEF offla
<1>2. CASE len < 128
  <2>1. CASE len < 5
    BY <2>1, BlockFromZero DEF memcpy
  <2>2. CASE len >= 5
    BY <1>2, <2>2, FirstLastCovers DEF memcpy
  <2> QED BY <2>1, <2>2
<1>3. CASE len >= 128
  <2>1. /\ 32 - offla .. len - 33 \subseteq Strip(32 - offla, 32, len - 32)
        /\ Strip(32 - offla, 32, len - 32) \subseteq 32 - offla .. len - 2
    BY <1>1, <1>3, StripCovers
  <2>2. copy_aligned_blocks(dst, len) =
          FirstLast(32, len) \cup Strip(32 - offla, 32, len - 32)
    BY DEF copy_aligned_blocks, offla
  <2>3. memcpy(dst, len) = copy_aligned_blocks(dst, len)
    BY <1>3 DEF memcpy
  <2>4. FirstLast(32, len) = (0 .. 31) \cup (len - 32 .. len - 1)
    BY <1>3 DEF FirstLast, Block
  <2> QED BY <1>1, <1>3, <2>1, <2>2, <2>3, <2>4
<1> QED BY <1>2, <1>3

(* The loop of memset, begun at off and run to the end of len bytes.       *)
LEMMA LoopCovers ==
  ASSUME NEW a \in Int, NEW len \in Nat, NEW off \in Nat, off + 32 <= len
  PROVE  set_loop_and_last(a, len, off) = a + off .. a + len - 1
<1>1. /\ a + off .. a + len - 33 \subseteq Strip(a + off, 32, a + len - 32)
      /\ Strip(a + off, 32, a + len - 32) \subseteq a + off .. a + len - 2
  BY StripCovers
<1> QED BY <1>1 DEF set_loop_and_last, Block

LEMMA NextAligned ==
  ASSUME NEW dst \in Nat
  PROVE  offset_from_last_align(dst, 32) \in 1 .. 32
BY DEF offset_from_last_align

(* Up to 64 bytes both builds do the same.                                 *)
LEMMA MemsetShort ==
  ASSUME NEW len \in Nat, len <= 64
  PROVE  memset_to_64(len) = 0 .. len - 1
<1>1. CASE len < 5
  BY <1>1, BlockFromZero DEF memset_to_64
<1>2. CASE len >= 5
  BY <1>2, FirstLastCovers DEF memset_to_64
<1> QED BY <1>1, <1>2

(* Without prefetching memset writes each byte and none beside.            *)
LEMMA MemsetExact ==
  ASSUME NEW dst \in Nat, NEW len \in Nat
  PROVE  memset(dst, len) = 0 .. len - 1
<1>1. CASE len <= 64
  BY <1>1, MemsetShort DEF memset
<1>2. CASE len > 64 /\ len <= 128
  BY <1>2, FirstLastCovers DEF memset
<1>3. CASE len > 128
  <2>1. PICK a : a = offset_from_last_align(dst, 32)
    OBVIOUS
  <2>2. a \in 1 .. 32
    BY <2>1, NextAligned
  <2>3. memset(dst, len) = Block(0, 32) \cup set_loop_and_last(a, len - a, 0)
    BY <1>3, <2>1 DEF memset
  <2>4. set_loop_and_last(a, len - a, 0) = a + 0 .. a + (len - a) - 1
    <3>1. len - a \in Nat /\ 0 + 32 <= len - a
      BY <1>3, <2>2
    <3> QED BY <2>2, <3>1, LoopCovers
  <2>5. a + 0 = a /\ a + (len - a) - 1 = len - 1
    BY <2>2
  <2>6. Block(0, 32) = 0 .. 31
    BY DEF Block
  <2>7. memset(dst, len) = (0 .. 31) \cup (a .. len - 1)
    BY <2>3, <2>4, <2>5, <2>6
  <2>8. (0 .. 31) \cup (a .. len - 1) = 0 .. len - 1
    BY <1>3, <2>2
  <2> QED BY <2>7, <2>8
<1> QED BY <1>1, <1>2, <1>3

(* Behind the first block, up to where the rounds begin.                   *)
LEMMA PrefetchRest ==
  ASSUME NEW a \in Nat, NEW len \in 96 .. 287
  PROVE  prefetching_rest(a, len) = a .. a + len - 1
<1>1. CASE len <= 192
  <2>1. set_loop_and_last(a, len, 0) = a + 0 .. a + len - 1
    BY LoopCovers
  <2> QED BY <1>1, <2>1 DEF prefetching_rest
<1>2. CASE len > 192
  <2>1. Reached(len) = 96
    BY DEF Reached
  <2>2. prefetching_rest(a, len) =
          Block(a, 96) \cup Strip(a + 96, 64, a + 96) \cup set_loop_and_last(a, len, 96)
    BY <1>2, <2>1 DEF prefetching_rest
  <2>3. Strip(a + 96, 64, a + 96) = {}
    BY DEF Strip
  <2>4. set_loop_and_last(a, len, 96) = a + 96 .. a + len - 1
    BY <1>2, LoopCovers
  <2>5. Block(a, 96) = a .. a + 95
    BY DEF Block
  <2>6. prefetching_rest(a, len) = (a .. a + 95) \cup (a + 96 .. a + len - 1)
    BY <2>2, <2>3, <2>4, <2>5
  <2> QED BY <1>2, <2>6
<1> QED BY <1>1, <1>2

(* With prefetching memset writes each byte too, up to there.              *)
LEMMA PrefetchExact ==
  ASSUME NEW dst \in Nat, NEW len \in Nat,
         len - offset_from_last_align(dst, 32) < 288
  PROVE  memset_prefetch(dst, len) = 0 .. len - 1
<1>1. CASE len <= 64
  BY <1>1, MemsetShort DEF memset_prefetch
<1>2. CASE len > 64 /\ len <= 128
  <2>1. memset_prefetch(dst, len) = FirstLast(64, len)
    BY <1>2 DEF memset_prefetch, prefetching_memset
  <2> QED BY <1>2, <2>1, FirstLastCovers
<1>3. CASE len > 128
  <2>1. PICK a : a = offset_from_last_align(dst, 32)
    OBVIOUS
  <2>2. a \in 1 .. 32 /\ len - a \in 96 .. 287
    <3>1. a \in 1 .. 32
      BY <2>1, NextAligned
    <3>2. len - a < 288
      BY <2>1
    <3> QED BY <1>3, <3>1, <3>2
  <2>3. memset_prefetch(dst, len) = Block(0, 64) \cup prefetching_rest(a, len - a)
    BY <1>3, <2>1 DEF memset_prefetch, prefetching_memset
  <2>4. prefetching_rest(a, len - a) = a .. a + (len - a) - 1
    <3>1. a \in Nat
      BY <2>2
    <3> QED BY <2>2, <3>1, PrefetchRest
  <2>5. a + (len - a) - 1 = len - 1
    BY <2>2
  <2>6. Block(0, 64) = 0 .. 63
    BY DEF Block
  <2>7. memset_prefetch(dst, len) = (0 .. 63) \cup (a .. len - 1)
    BY <2>3, <2>4, <2>5, <2>6
  <2>8. (0 .. 63) \cup (a .. len - 1) = 0 .. len - 1
    BY <1>3, <2>2
  <2> QED BY <2>7, <2>8
<1> QED BY <1>1, <1>2, <1>3

(* A strip with blocks 64 apart holds the first half of every 64 bytes.    *)
LEMMA StripMember ==
  ASSUME NEW first \in Int, NEW limit \in Int, NEW b \in Strip(first, 64, limit)
  PROVE  /\ b \in first .. limit + 30
         /\ (b - first) % 64 < 32
<1>1. PICK x \in first .. limit - 1 : (x - first) % 64 = 0 /\ b \in x .. x + 32 - 1
  BY DEF Strip, Block
<1> QED BY <1>1

LEMMA ReachedBounds ==
  ASSUME NEW len \in Nat, len >= 288
  PROVE  Reached(len) \in 224 .. len - 64
BY DEF Reached

(* From the first round on, the byte 128 behind the aligned address is not *)
(* set, and nothing outside is.                                            *)
LEMMA PrefetchGap ==
  ASSUME NEW dst \in Nat, NEW len \in Nat,
         len - offset_from_last_align(dst, 32) >= 288
  PROVE  /\ memset_prefetch(dst, len) \subseteq 0 .. len - 1
         /\ offset_from_last_align(dst, 32) + 128 \notin memset_prefetch(dst, len)
<1>1. PICK a : a = offset_from_last_align(dst, 32)
  OBVIOUS
<1>2. a \in 1 .. 32 /\ len - a >= 288 /\ len > 288
  <2>1. a \in 1 .. 32
    BY <1>1, NextAligned
  <2>2. len - a >= 288
    BY <1>1
  <2> QED BY <2>1, <2>2
<1>3. memset_prefetch(dst, len) = Block(0, 64) \cup prefetching_rest(a, len - a)
  BY <1>1, <1>2 DEF memset_prefetch, prefetching_memset
<1>4. PICK off : off = Reached(len - a)
  OBVIOUS
<1>5. off \in 224 .. (len - a) - 64
  <2>1. len - a \in Nat
    BY <1>2
  <2> QED BY <1>2, <1>4, <2>1, ReachedBounds
<1>6. prefetching_rest(a, len - a) =
        Block(a, 96) \cup Strip(a + 96, 64, a + off)
                     \cup set_loop_and_last(a, len - a, off)
  BY <1>2, <1>4 DEF prefetching_rest
<1>7. set_loop_and_last(a, len - a, off) = a + off .. len - 1
  <2>1. len - a \in Nat /\ off \in Nat /\ off + 32 <= len - a
    BY <1>2, <1>5
  <2>2. set_loop_and_last(a, len - a, off) = a + off .. a + (len - a) - 1
    BY <1>2, <2>1, LoopCovers
  <2>3. a + (len - a) - 1 = len - 1
    BY <1>2
  <2> QED BY <2>2, <2>3
<1>8. Block(0, 64) = 0 .. 63 /\ Block(a, 96) = a .. a + 95
  BY <1>2 DEF Block
<1>9. ASSUME NEW b \in Strip(a + 96, 64, a + off)
      PROVE  b \in a .. len - 1 /\ b # a + 128
  <2>1. a + 96 \in Int /\ a + off \in Int
    BY <1>2, <1>5
  <2>2. PICK lo : lo = a + 96
    OBVIOUS
  <2>3. b \in lo .. (a + off) + 30 /\ (b - lo) % 64 < 32
    BY <1>9, <2>1, <2>2, StripMember
  <2> QED BY <1>2, <1>5, <2>2, <2>3
<1>10. memset_prefetch(dst, len) =
         Block(0, 64) \cup (Block(a, 96) \cup Strip(a + 96, 64, a + off)
                           \cup set_loop_and_last(a, len - a, off))
  BY <1>3, <1>6, Zenon
<1>11. ASSUME NEW b \in memset_prefetch(dst, len)
       PROVE  b \in 0 .. len - 1 /\ b # a + 128
  <2>1. CASE b \in Block(0, 64)
    <3>1. b \in 0 .. 63
      BY <1>8, <2>1
    <3> QED BY <1>2, <3>1
  <2>2. CASE b \in Block(a, 96)
    <3>1. b \in a .. a + 95
      BY <1>8, <2>2
    <3> QED BY <1>2, <3>1
  <2>3. CASE b \in Strip(a + 96, 64, a + off)
    <3>1. b \in a .. len - 1 /\ b # a + 128
      BY <1>9, <2>3
    <3> QED BY <1>2, <3>1
  <2>4. CASE b \in set_loop_and_last(a, len - a, off)
    <3>1. b \in a + off .. len - 1
      BY <1>7, <2>4
    <3> QED BY <1>2, <1>5, <3>1
  <2> QED BY <1>10, <1>11, <2>1, <2>2, <2>3, <2>4, Zenon
<1> QED BY <1>1, <1>11

-----------------------------------------------------------------------------
LEMMA LeastExists ==
  ASSUME NEW S, S \subseteq Nat, S # {}
  PROVE  Least(S) \in S /\ \A y \in S : Least(S) <= y
<1>1. PICK x \in S : \A y \in S : ~(y < x)
  <2>1. PICK x \in S : \A y \in S : <<y, x>> \notin OpToRel(<, Nat)
    BY NatLessThanWellFounded, WFMin
  <2> QED BY <2>1 DEF OpToRel
<1>2. \A y \in S : x <= y
  BY <1>1
<1> QED BY <1>2 DEF Least

LEMMA LeastIs ==
  ASSUME NEW S, S \subseteq Nat, NEW x \in S, \A y \in S : x <= y
  PROVE  Least(S) = x
<1>1. Least(S) \in S /\ \A y \in S : Least(S) <= y
  BY LeastExists
<1>2. Least(S) <= x /\ x <= Least(S) /\ Least(S) \in Nat /\ x \in Nat
  BY <1>1
<1> QED BY <1>2

LEMMA GreatestExists ==
  ASSUME NEW S, S \subseteq Nat, S # {}, NEW n \in Nat, \A y \in S : y <= n
  PROVE  \E x \in S : \A y \in S : y <= x
<1> DEFINE T == {n - y : y \in S}
<1>1. \A y \in S : y \in Nat /\ n - y \in Nat
  OBVIOUS
<1>2. T \subseteq Nat /\ T # {}
  BY <1>1
<1>3. PICK t \in T : \A u \in T : t <= u
  BY <1>2, LeastExists
<1>4. PICK x \in S : t = n - x
  OBVIOUS
<1>5. ASSUME NEW y \in S PROVE y <= x
  <2>1. t <= n - y
    BY <1>3
  <2> QED BY <1>1, <1>4, <2>1
<1> QED BY <1>5

(* The blocks of a comparison: they span its operands, and a later one     *)
(* holds nothing that lies before an offset of an earlier one, unless the  *)
(* earlier one holds it too.                                               *)
Spans(blocks, lo, hi) ==
  /\ \A i \in DOMAIN blocks : blocks[i] \subseteq lo .. hi
  /\ \A p \in lo .. hi : \E i \in DOMAIN blocks : p \in blocks[i]

Ordered(blocks) ==
  \A i, j \in DOMAIN blocks : i <= j =>
    \A p \in blocks[j], q \in blocks[i] : p < q => p \in blocks[i]

(* The byte that decides in a block that differs.                          *)
LEMMA DecidesIn ==
  ASSUME NEW block, block \subseteq Nat, NEW sgn, NEW p \in block, sgn[p] # 0,
         \A o \in block : sgn[o] # 0 => p <= o,
         NEW n \in Nat, \A o \in block : o <= n, NEW W \in {8, 16}
  PROVE  LET o == Decides(block, sgn, W)
         IN  /\ o \in block /\ sgn[o] # 0
             /\ o <= p + (IF W = 16 THEN 7 ELSE 0)
<1> DEFINE D == {o \in block : sgn[o] # 0}
           b == Least(block)
           Lane(o) == (o - b) \div 8
           lane == {o \in D : Lane(o) = Lane(Least(D))}
           o == Decides(block, sgn, W)
<1>1. D \subseteq Nat /\ p \in D /\ Least(D) = p
  <2>1. D \subseteq Nat /\ p \in D /\ \A y \in D : p <= y
    OBVIOUS
  <2> HIDE DEF D
  <2> QED BY <2>1, LeastIs
<1>2. b \in Nat
  BY LeastExists
<1>3. o = IF W = 16 THEN CHOOSE x \in lane : \A y \in lane : y <= x ELSE Least(D)
  BY DEF Decides
<1>4. CASE W = 8
  <2>1. o = p
    BY <1>1, <1>3, <1>4
  <2> QED BY <1>1, <1>4, <2>1
<1>5. CASE W = 16
  <2>2. lane \subseteq Nat /\ p \in lane /\ \A y \in lane : y <= n
    BY <1>1
  <2>3. PICK x \in lane : \A y \in lane : y <= x
    <3> HIDE DEF lane
    <3> QED BY <2>2, GreatestExists
  <2>4. o \in lane
    BY <1>3, <1>5, <2>3
  <2>5. o \in D /\ Lane(o) = Lane(p)
    BY <1>1, <2>4
  <2>6. o \in Nat /\ p \in Nat
    BY <1>1, <2>5
  <2> HIDE DEF o, b
  <2>7. o <= p + 7
    BY <1>2, <2>5, <2>6
  <2> QED BY <1>5, <2>5, <2>7 DEF o
<1> QED BY <1>4, <1>5

(* An answer that tells equal operands from others by one of the bytes in  *)
(* D, the ones that differ, at most late behind the first of them.         *)
Answers(answer, sgn, D, late) ==
  /\ answer = 0 <=> D = {}
  /\ D # {} => \E o \in D : answer = sgn[o] /\ o <= Least(D) + late

(* Then the first block that differs holds the first byte that differs.    *)
LEMMA FirstDecides ==
  ASSUME NEW len \in Nat, NEW n \in Nat, NEW blocks, DOMAIN blocks = 1 .. n,
         Spans(blocks, 0, len - 1), Ordered(blocks),
         NEW sgn \in [0 .. len - 1 -> {-1, 0, 1}], NEW W \in {8, 16},
         NEW Diff, Diff = {o \in 0 .. len - 1 : sgn[o] # 0}
  PROVE  Answers(Verdict(blocks, sgn, W), sgn, Diff, IF W = 16 THEN 7 ELSE 0)
<1> DEFINE D(i) == {o \in blocks[i] : sgn[o] # 0}
           hits == {i \in DOMAIN blocks : \E o \in blocks[i] : sgn[o] # 0}
           answer == Verdict(blocks, sgn, W)
<1>1. answer = IF hits = {} THEN 0 ELSE sgn[Decides(blocks[Least(hits)], sgn, W)]
  BY DEF Verdict
<1>3. CASE Diff = {}
  <2>1. hits = {}
    BY <1>3 DEF Spans
  <2> QED BY <1>1, <1>3, <2>1 DEF Answers
<1>4. CASE Diff # {}
  <2>1. PICK p : p = Least(Diff)
    OBVIOUS
  <2>2. p \in Diff /\ \A y \in Diff : p <= y
    <3>1. Diff \subseteq Nat
      OBVIOUS
    <3> QED BY <1>4, <2>1, <3>1, LeastExists
  <2>3. PICK j \in DOMAIN blocks : p \in blocks[j]
    BY <2>2 DEF Spans
  <2>4. j \in hits
    BY <2>2, <2>3
  <2>5. PICK k : k = Least(hits)
    OBVIOUS
  <2>6. k \in hits /\ k <= j
    <3>1. hits \subseteq Nat
      OBVIOUS
    <3> HIDE DEF hits
    <3> QED BY <2>4, <2>5, <3>1, LeastExists
  <2>7. D(k) \subseteq Diff /\ blocks[k] \subseteq 0 .. len - 1
    BY <2>6 DEF Spans
  <2>8. p \in D(k)
    <3>1. PICK q \in D(k) : TRUE
      BY <2>6
    <3>2. p <= q /\ p \in Nat /\ q \in Nat
      BY <2>2, <2>7, <3>1
    <3>3. p \in blocks[k]
      BY <2>3, <2>6, <3>1, <3>2 DEF Ordered
    <3> QED BY <2>2, <3>3
  <2>9. PICK o : o = Decides(blocks[k], sgn, W)
    OBVIOUS
  <2>10. hits # {}
    BY <2>4
  <2>11. /\ o \in blocks[k] /\ sgn[o] # 0
         /\ o <= p + (IF W = 16 THEN 7 ELSE 0)
    <3>1. blocks[k] \subseteq Nat /\ \A x \in blocks[k] : x <= len
      BY <2>7
    <3>2. \A x \in blocks[k] : sgn[x] # 0 => p <= x
      BY <2>2, <2>7
    <3>3. p \in blocks[k] /\ sgn[p] # 0
      BY <2>8
    <3> QED BY <2>9, <3>1, <3>2, <3>3, DecidesIn
  <2>12. answer = sgn[o] /\ o \in Diff
    BY <1>1, <2>5, <2>7, <2>9, <2>10, <2>11
  <2>13. answer # 0
    BY <2>12
  <2> HIDE DEF answer
  <2> QED BY <1>4, <2>1, <2>11, <2>12, <2>13 DEF answer, Answers
<1> QED BY <1>3, <1>4

(* The blocks of the loop and the last one.                                *)
LEMMA LoopBlocks ==
  ASSUME NEW a \in Nat, NEW len \in Nat, NEW W \in {8, 16}, len >= W
  PROVE  /\ (len - 1) \div W \in Nat
         /\ cmp_loop_and_last(a, len, W) \in
              [1 .. ((len - 1) \div W) + 1 -> SUBSET Int]
         /\ Spans(cmp_loop_and_last(a, len, W), a, a + len - 1)
         /\ Ordered(cmp_loop_and_last(a, len, W))
<1>1. PICK n : n = (len - 1) \div W
  OBVIOUS
<1>2. n \in Nat /\ W * n <= len - 1 /\ len - 1 < W * n + W
  BY <1>1
<1>3. PICK f : f = cmp_loop_and_last(a, len, W)
  OBVIOUS
<1>4. f = [i \in 1 .. n + 1 |->
             IF i <= n THEN Block(a + (W * (i - 1)), W) ELSE Block(a + len - W, W)]
  BY <1>1, <1>3, Zenon DEF cmp_loop_and_last
<1>5. DOMAIN f = 1 .. n + 1
  BY <1>4
<1>6. /\ \A i \in 1 .. n : f[i] = a + W * (i - 1) .. a + W * (i - 1) + W - 1
      /\ f[n + 1] = a + len - W .. a + len - 1
  BY <1>2, <1>4 DEF Block
<1>7. f \in [1 .. n + 1 -> SUBSET Int]
  BY <1>2, <1>4 DEF Block
<1>8. Spans(f, a, a + len - 1)
  <2>1. ASSUME NEW i \in 1 .. n + 1, NEW p \in f[i]
        PROVE  p \in a .. a + len - 1
    <3>1. CASE i = n + 1
      BY <1>6, <2>1, <3>1
    <3>2. CASE i \in 1 .. n
      BY <1>2, <1>6, <2>1, <3>2
    <3> QED BY <1>2, <3>1, <3>2
  <2>2. ASSUME NEW p \in a .. a + len - 1
        PROVE  \E i \in 1 .. n + 1 : p \in f[i]
    <3>1. CASE p >= a + len - W
      BY <1>2, <1>6, <3>1
    <3>2. CASE p < a + len - W
      <4>1. PICK k : k = (p - a) \div W
        OBVIOUS
      <4>2. k \in Nat /\ W * k <= p - a /\ p - a < W * k + W
        BY <4>1
      <4>3. k + 1 \in 1 .. n /\ (k + 1) - 1 = k
        BY <1>2, <3>2, <4>2
      <4>4. f[k + 1] = a + W * k .. a + W * k + W - 1
        BY <1>6, <4>3
      <4>5. p \in f[k + 1]
        BY <4>2, <4>4
      <4> QED BY <1>2, <4>3, <4>5
    <3> QED BY <3>1, <3>2
  <2> QED BY <1>5, <2>1, <2>2 DEF Spans
<1>9. Ordered(f)
  <2>1. ASSUME NEW i \in 1 .. n + 1, NEW j \in 1 .. n + 1, i <= j,
               NEW p \in f[j], NEW q \in f[i], p < q
        PROVE  p \in f[i]
    <3>1. CASE i = j
      BY <2>1, <3>1
    <3>2. CASE i < j /\ j = n + 1
      BY <1>2, <1>6, <2>1, <3>2
    <3>3. CASE i < j /\ j <= n
      BY <1>2, <1>6, <2>1, <3>3
    <3> QED BY <1>2, <2>1, <3>1, <3>2, <3>3
  <2> QED BY <1>5, <2>1 DEF Ordered
<1> QED BY <1>1, <1>2, <1>3, <1>7, <1>8, <1>9

(* A block in front of blocks that begin inside it or where it ends.       *)
LEMMA BlockInFront ==
  ASSUME NEW a \in Nat, NEW hi \in Int, NEW size \in Nat, a <= size, size <= hi + 1,
         NEW n \in Nat, NEW rest \in [1 .. n -> SUBSET Int],
         Spans(rest, a, hi), Ordered(rest)
  PROVE  /\ DOMAIN (<<Block(0, size)>> \o rest) = 1 .. n + 1
         /\ Spans(<<Block(0, size)>> \o rest, 0, hi)
         /\ Ordered(<<Block(0, size)>> \o rest)
<1>1. PICK f : f = <<Block(0, size)>> \o rest
  OBVIOUS
<1>2. /\ DOMAIN f = 1 .. n + 1
      /\ f[1] = 0 .. size - 1
      /\ \A i \in 2 .. n + 1 : f[i] = rest[i - 1] /\ i - 1 \in 1 .. n
  <2>1. rest \in Seq(SUBSET Int) /\ Len(rest) = n
    OBVIOUS
  <2>2. <<Block(0, size)>> \in Seq(SUBSET Int) /\ Len(<<Block(0, size)>>) = 1
    BY DEF Block
  <2> QED BY <1>1, <2>1, <2>2 DEF Block
<1>3. DOMAIN rest = 1 .. n
  OBVIOUS
<1>4. ASSUME NEW i \in 2 .. n + 1
      PROVE  f[i] \subseteq a .. hi
  BY <1>2, <1>3 DEF Spans
<1>5. Spans(f, 0, hi)
  <2>1. ASSUME NEW i \in 1 .. n + 1
        PROVE  f[i] \subseteq 0 .. hi
    <3>1. CASE i = 1
      BY <1>2, <3>1
    <3>2. CASE i # 1
      <4>1. i \in 2 .. n + 1
        BY <3>2
      <4> QED BY <1>4, <4>1
    <3> QED BY <3>1, <3>2
  <2>2. ASSUME NEW p \in 0 .. hi
        PROVE  \E i \in 1 .. n + 1 : p \in f[i]
    <3>1. CASE p < size
      BY <1>2, <3>1
    <3>2. CASE p >= size
      <4>1. PICK i \in 1 .. n : p \in rest[i]
        BY <1>3, <3>2 DEF Spans
      <4>2. i + 1 \in 2 .. n + 1 /\ (i + 1) - 1 = i
        OBVIOUS
      <4>3. f[i + 1] = rest[i]
        BY <1>2, <4>2
      <4> QED BY <4>1, <4>2, <4>3
    <3> QED BY <3>1, <3>2
  <2> QED BY <1>2, <2>1, <2>2 DEF Spans
<1>6. Ordered(f)
  <2>1. ASSUME NEW i \in 1 .. n + 1, NEW j \in 1 .. n + 1, i <= j,
               NEW p \in f[j], NEW q \in f[i], p < q
        PROVE  p \in f[i]
    <3>1. CASE i = 1
      <4>1. p \in 0 .. hi
        BY <1>2, <1>5 DEF Spans
      <4> QED BY <1>2, <2>1, <3>1, <4>1
    <3>2. CASE i # 1
      <4>1. i \in 2 .. n + 1 /\ j \in 2 .. n + 1 /\ i - 1 <= j - 1
        BY <2>1, <3>2
      <4>2. /\ f[i] = rest[i - 1] /\ f[j] = rest[j - 1]
            /\ i - 1 \in 1 .. n /\ j - 1 \in 1 .. n
        BY <1>2, <4>1
      <4> QED BY <1>3, <2>1, <4>1, <4>2 DEF Ordered
    <3> QED BY <3>1, <3>2
  <2> QED BY <1>2, <2>1 DEF Ordered
<1> QED BY <1>1, <1>2, <1>5, <1>6

(* Blocks that compare len bytes rightly.                                  *)
Compare(blocks, len) ==
  /\ \E n \in Nat : DOMAIN blocks = 1 .. n
  /\ Spans(blocks, 0, len - 1)
  /\ Ordered(blocks)

(* So it is for every length memcmp meets.                                 *)
LEMMA AlignedBlocks ==
  ASSUME NEW lhs \in Nat, NEW len \in Nat, NEW W \in {8, 16}, len > 16
  PROVE  Compare(cmp_loop_and_last_align(lhs, len, W), len)
<1>1. PICK a : a = offset_from_last_align(lhs, W)
  OBVIOUS
<1>2. a \in 1 .. W
  BY <1>1 DEF offset_from_last_align
<1>3. CASE len >= 384 /\ a # W
  <2>1. len - a \in Nat /\ len - a >= W /\ a \in Nat /\ a <= W /\ W <= (len - 1) + 1
        /\ W \in Nat /\ len - 1 \in Int
    BY <1>2, <1>3
  <2>2. PICK n, rest : n = (len - a - 1) \div W /\ rest = cmp_loop_and_last(a, len - a, W)
    OBVIOUS
  <2>3. /\ n \in Nat /\ rest \in [1 .. n + 1 -> SUBSET Int]
        /\ Spans(rest, a, a + (len - a) - 1) /\ Ordered(rest)
    BY <2>1, <2>2, LoopBlocks
  <2>4. a + (len - a) - 1 = len - 1
    BY <2>1
  <2>5. cmp_loop_and_last_align(lhs, len, W) = <<Block(0, W)>> \o rest
    BY <1>1, <1>3, <2>2 DEF cmp_loop_and_last_align
  <2>6. /\ DOMAIN (<<Block(0, W)>> \o rest) = 1 .. (n + 1) + 1
        /\ Spans(<<Block(0, W)>> \o rest, 0, len - 1)
        /\ Ordered(<<Block(0, W)>> \o rest)
    <3>1. n + 1 \in Nat
      BY <2>3
    <3>2. Spans(rest, a, len - 1)
      BY <2>3, <2>4
    <3> HIDE DEF Spans, Ordered
    <3> QED BY <2>1, <2>3, <3>1, <3>2, BlockInFront
  <2>7. (n + 1) + 1 \in Nat
    BY <2>3
  <2> QED BY <2>5, <2>6, <2>7 DEF Compare
<1>4. CASE ~(len >= 384 /\ a # W)
  <2>1. cmp_loop_and_last_align(lhs, len, W) = cmp_loop_and_last(0, len, W)
    BY <1>1, <1>4 DEF cmp_loop_and_last_align
  <2>2. PICK n : n = (len - 1) \div W
    OBVIOUS
  <2>3. /\ n \in Nat /\ cmp_loop_and_last(0, len, W) \in [1 .. n + 1 -> SUBSET Int]
        /\ Spans(cmp_loop_and_last(0, len, W), 0, 0 + len - 1)
        /\ Ordered(cmp_loop_and_last(0, len, W))
    <3>1. len >= W /\ 0 \in Nat
      OBVIOUS
    <3> QED BY <2>2, <3>1, LoopBlocks
  <2>4. 0 + len - 1 = len - 1 /\ n + 1 \in Nat
    BY <2>3
  <2>5. DOMAIN cmp_loop_and_last(0, len, W) = 1 .. n + 1
    BY <2>3
  <2> QED BY <2>1, <2>3, <2>4, <2>5 DEF Compare
<1> QED BY <1>3, <1>4

LEMMA OneBlock ==
  ASSUME NEW len \in Nat
  PROVE  Compare(<<Block(0, len)>>, len)
<1>1. DOMAIN <<Block(0, len)>> = 1 .. 1 /\ 1 \in Nat
  OBVIOUS
<1> QED BY <1>1 DEF Compare, Spans, Ordered, Block

LEMMA TwoBlocks ==
  ASSUME NEW w \in Nat, NEW o \in Nat, NEW v \in Nat, o <= w, w <= o + v
  PROVE  Compare(<<Block(0, w), Block(o, v)>>, o + v)
<1>1. PICK f : f = <<Block(0, w), Block(o, v)>>
  OBVIOUS
<1>2. DOMAIN f = 1 .. 2 /\ f[1] = 0 .. w - 1 /\ f[2] = o .. o + v - 1
  BY <1>1 DEF Block
<1>3. Spans(f, 0, o + v - 1)
  BY <1>2 DEF Spans
<1>4. Ordered(f)
  BY <1>2 DEF Ordered
<1> QED BY <1>1, <1>2, <1>3, <1>4 DEF Compare

LEMMA AllBlocks ==
  ASSUME NEW lhs \in Nat, NEW len \in Nat, NEW W \in {8, 16}
  PROVE  Compare(CmpBlocks(lhs, len, W), len)
<1>1. CASE len = 0
  <2>1. CmpBlocks(lhs, len, W) = <<>>
    BY <1>1 DEF CmpBlocks
  <2>2. Compare(<<>>, 0)
    <3>1. DOMAIN <<>> = 1 .. 0 /\ 0 \in Nat
      OBVIOUS
    <3> QED BY <3>1 DEF Compare, Spans, Ordered
  <2> QED BY <1>1, <2>1, <2>2
<1>2. CASE len \in 1 .. 8
  <2>1. CmpBlocks(lhs, len, W) = CmpSmall[len]
    BY <1>2 DEF CmpBlocks
  <2>2. CASE len \in {1, 2, 4, 8}
    <3>1. CmpSmall[len] = <<Block(0, len)>>
      BY <2>2 DEF CmpSmall
    <3>2. Compare(<<Block(0, len)>>, len)
      BY OneBlock
    <3> QED BY <2>1, <3>1, <3>2
  <2>3. CASE len = 3
    <3>1. CmpSmall[len] = <<Block(0, 2), Block(2, 1)>>
      BY <2>3 DEF CmpSmall
    <3>2. Compare(<<Block(0, 2), Block(2, 1)>>, 2 + 1)
      BY TwoBlocks
    <3>3. 2 + 1 = len
      BY <2>3
    <3> QED BY <2>1, <3>1, <3>2, <3>3
  <2>4. CASE len = 5
    <3>1. CmpSmall[len] = <<Block(0, 4), Block(4, 1)>>
      BY <2>4 DEF CmpSmall
    <3>2. Compare(<<Block(0, 4), Block(4, 1)>>, 4 + 1)
      BY TwoBlocks
    <3>3. 4 + 1 = len
      BY <2>4
    <3> QED BY <2>1, <3>1, <3>2, <3>3
  <2>5. CASE len = 6
    <3>1. CmpSmall[len] = <<Block(0, 4), Block(4, 2)>>
      BY <2>5 DEF CmpSmall
    <3>2. Compare(<<Block(0, 4), Block(4, 2)>>, 4 + 2)
      BY TwoBlocks
    <3>3. 4 + 2 = len
      BY <2>5
    <3> QED BY <2>1, <3>1, <3>2, <3>3
  <2>6. CASE len = 7
    <3>1. CmpSmall[len] = <<Block(0, 4), Block(3, 4)>>
      BY <2>6 DEF CmpSmall
    <3>2. Compare(<<Block(0, 4), Block(3, 4)>>, 3 + 4)
      BY TwoBlocks
    <3>3. 3 + 4 = len
      BY <2>6
    <3> QED BY <2>1, <3>1, <3>2, <3>3
  <2> QED BY <1>2, <2>2, <2>3, <2>4, <2>5, <2>6
<1>3. CASE len \in 9 .. 16
  <2>1. CmpBlocks(lhs, len, W) = <<Block(0, 8), Block(len - 8, 8)>>
    BY <1>3 DEF CmpBlocks
  <2>2. len - 8 \in Nat /\ len - 8 <= 8 /\ 8 <= (len - 8) + 8 /\ (len - 8) + 8 = len
    BY <1>3
  <2>3. Compare(<<Block(0, 8), Block(len - 8, 8)>>, (len - 8) + 8)
    BY <2>2, TwoBlocks
  <2> QED BY <2>1, <2>2, <2>3
<1>4. CASE len > 16
  <2>1. CmpBlocks(lhs, len, W) = cmp_loop_and_last_align(lhs, len, W)
    BY <1>4 DEF CmpBlocks
  <2> QED BY <1>4, <2>1, AlignedBlocks
<1>5. len = 0 \/ len \in 1 .. 8 \/ len \in 9 .. 16 \/ len > 16
  OBVIOUS
<1> QED BY <1>1, <1>2, <1>3, <1>4, <1>5, Zenon

-----------------------------------------------------------------------------
(* The call under way is one that a client makes.                          *)
CallOK == call \in Calls \cup {NoCall}

LEMMA CallOKHolds == MemSpec => []CallOK
<1>1. MemInit => CallOK
  BY DEF MemInit, CallOK
<1>2. CallOK /\ [MemNext]_call => CallOK'
  BY DEF CallOK, MemNext, MakeCall, Return
<1> QED BY <1>1, <1>2, PTL DEF MemSpec

LEMMA CallFields ==
  ASSUME CallOK
  PROVE  /\ call.dst \in Nat /\ call.len \in Nat
         /\ call.sgn \in [0 .. call.len - 1 -> {-1, 0, 1}]
<1>1. CASE call \in Calls
  BY <1>1, CallsAssumption
<1>2. CASE call = NoCall
  <2>1. call.dst = 0 /\ call.len = 0 /\ call.sgn = <<>>
    BY <1>2 DEF NoCall
  <2>2. <<>> \in [0 .. 0 - 1 -> {-1, 0, 1}]
    OBVIOUS
  <2> QED BY <2>1, <2>2
<1> QED BY <1>1, <1>2 DEF CallOK

(* For every length and every address, memcpy and memset write each byte   *)
(* of the memory they are given and none beside (with prefetching, up to   *)
(* the first round).                                                       *)
THEOREM MemWritesExactly == MemSpec => []WritesExactly
<1>1. CallOK => WritesExactly
  <2> SUFFICES ASSUME CallOK PROVE WritesExactly
    OBVIOUS
  <2>1. PICK dst, len : dst = call.dst /\ len = call.len
    OBVIOUS
  <2>2. dst \in Nat /\ len \in Nat
    BY <2>1, CallFields
  <2>3. memcpy(dst, len) = 0 .. len - 1 /\ memset(dst, len) = 0 .. len - 1
    BY <2>2, MemcpyExact, MemsetExact
  <2>4. offset_from_last_align(dst, 32) \in Int
    BY <2>2, NextAligned
  <2>5. len - offset_from_last_align(dst, 32) < 288 =>
          memset_prefetch(dst, len) = 0 .. len - 1
    BY <2>2, PrefetchExact
  <2>6. len - offset_from_last_align(dst, 32) >= 288 =>
          memset_prefetch(dst, len) \subseteq 0 .. len - 1
    BY <2>2, PrefetchGap
  <2> QED BY <2>1, <2>2, <2>3, <2>4, <2>5, <2>6 DEF WritesExactly, Whole, Rest
<1> QED BY <1>1, CallOKHolds, PTL

(* For every length, address and contents, memcmp tells equal operands     *)
(* from others, reads nothing outside them, and answers by the first byte  *)
(* that differs or, in blocks of 16, by one at most seven behind it.       *)
THEOREM MemComparesFirst == MemSpec => []ComparesFirst
<1>1. CallOK => ComparesFirst
  <2> SUFFICES ASSUME CallOK, NEW W \in {8, 16}
               PROVE  LET D      == {o \in Whole : call.sgn[o] # 0}
                          blocks == CmpBlocks(call.dst, call.len, W)
                          answer == memcmp(call.dst, call.len, W, call.sgn)
                          late   == IF W = 16 /\ call.len > 16 THEN 7 ELSE 0
                      IN  /\ \A i \in DOMAIN blocks : blocks[i] \subseteq Whole
                          /\ answer = 0 <=> D = {}
                          /\ D # {} => \E o \in D : answer = call.sgn[o] /\ o <= Least(D) + late
    BY DEF ComparesFirst
  <2>1. PICK f, dst, len, sgn, V : /\ dst = call.dst /\ len = call.len /\ sgn = call.sgn
                                  /\ f = CmpBlocks(dst, len, W)
                                  /\ V = IF len > 16 THEN W ELSE 8
    OBVIOUS
  <2>2. dst \in Nat /\ len \in Nat /\ sgn \in [0 .. len - 1 -> {-1, 0, 1}] /\ V \in {8, 16}
    BY <2>1, CallFields
  <2>3. Compare(f, len)
    <3>1. Compare(CmpBlocks(dst, len, W), len)
      BY <2>2, AllBlocks
    <3> QED BY <2>1, <3>1
  <2>4. PICK n \in Nat : DOMAIN f = 1 .. n
    BY <2>3 DEF Compare
  <2>5. Spans(f, 0, len - 1) /\ Ordered(f)
    BY <2>3 DEF Compare
  <2> DEFINE D == {o \in 0 .. len - 1 : sgn[o] # 0}
  <2>6. Answers(Verdict(f, sgn, V), sgn, D, IF V = 16 THEN 7 ELSE 0)
    <3> DEFINE E == D
    <3>1. E = {o \in 0 .. len - 1 : sgn[o] # 0}
      OBVIOUS
    <3> HIDE DEF E
    <3>2. Answers(Verdict(f, sgn, V), sgn, E, IF V = 16 THEN 7 ELSE 0)
      BY <2>2, <2>4, <2>5, <3>1, FirstDecides, Zenon
    <3> QED BY <3>2 DEF E
  <2>7. \A i \in DOMAIN f : f[i] \subseteq 0 .. len - 1
    BY <2>5 DEF Spans
  <2>8. memcmp(dst, len, W, sgn) = Verdict(f, sgn, V)
    BY <2>1 DEF memcmp
  <2>9. V = 16 <=> W = 16 /\ len > 16
    BY <2>1
  <2> QED BY <2>1, <2>6, <2>7, <2>8, <2>9 DEF Whole, Answers
<1> QED BY <1>1, CallOKHolds, PTL

(* And in blocks of 16 such a byte does decide, at every address and every *)
(* length that has them: operands that differ in their first two bytes,    *)
(* one either way, are ordered by the second (Immintrin.hpp:59-61).        *)
THEOREM SseAnswersByLane ==
  ASSUME NEW lhs \in Nat, NEW len \in Nat, len > 16,
         NEW sgn, sgn = [o \in 0 .. len - 1 |-> IF o = 0 THEN 1 ELSE IF o = 1 THEN -1 ELSE 0]
  PROVE  memcmp(lhs, len, 16, sgn) = -1
<1> DEFINE blocks == CmpBlocks(lhs, len, 16)
           a == offset_from_last_align(lhs, 16)
           hits == {i \in DOMAIN blocks : \E o \in blocks[i] : sgn[o] # 0}
<1>1. blocks[1] = 0 .. 15 /\ 1 \in DOMAIN blocks
  <2>1. blocks = cmp_loop_and_last_align(lhs, len, 16)
    BY DEF CmpBlocks
  <2>2. CASE len >= 384 /\ a # 16
    <3> DEFINE rest == cmp_loop_and_last(a, len - a, 16)
    <3>1. a \in 1 .. 16
      BY DEF offset_from_last_align
    <3>2. rest \in Seq(SUBSET Int)
      <4>1. (len - a - 1) \div 16 + 1 \in Nat
        <5> HIDE DEF a
        <5>1. len - a - 1 \in Nat
          BY <2>2, <3>1
        <5> QED BY <5>1
      <4>2. rest \in [1 .. (len - a - 1) \div 16 + 1 -> SUBSET Int]
        <5> HIDE DEF a
        <5> QED BY <2>2, <3>1 DEF cmp_loop_and_last, Block
      <4> HIDE DEF rest
      <4> QED BY <4>1, <4>2
    <3>3. blocks = <<Block(0, 16)>> \o rest
      BY <2>1, <2>2 DEF cmp_loop_and_last_align
    <3>4. Block(0, 16) = 0 .. 15
      BY DEF Block
    <3> HIDE DEF rest, blocks
    <3> QED BY <3>2, <3>3, <3>4
  <2>3. CASE ~(len >= 384 /\ a # 16)
    <3>1. blocks = cmp_loop_and_last(0, len, 16)
      BY <2>1, <2>3 DEF cmp_loop_and_last_align
    <3>2. (len - 1) \div 16 >= 1 /\ (len - 1) \div 16 \in Nat
      OBVIOUS
    <3> HIDE DEF blocks
    <3> QED BY <3>1, <3>2 DEF cmp_loop_and_last, Block
  <2> QED BY <2>2, <2>3
<1>2. DOMAIN blocks \subseteq Nat
  <2>1. Compare(blocks, len)
    BY AllBlocks
  <2> HIDE DEF blocks
  <2> QED BY <2>1 DEF Compare
<1>3. sgn[0] = 1 /\ sgn[1] = -1 /\ \A o \in 0 .. 15 : sgn[o] # 0 <=> o \in {0, 1}
  OBVIOUS
<1>4. Least(hits) = 1 /\ hits # {}
  <2>1. Compare(blocks, len)
    BY AllBlocks
  <2> HIDE DEF blocks
  <2>2. hits \subseteq Nat \ {0}
    BY <2>1 DEF Compare
  <2>3. 1 \in hits
    <3>1. 0 \in blocks[1] /\ sgn[0] # 0 /\ 1 \in DOMAIN blocks
      BY <1>1, <1>3
    <3> QED BY <3>1, Zenon
  <2> HIDE DEF hits
  <2>4. hits \subseteq Nat /\ \A y \in hits : 1 <= y
    BY <2>2
  <2>5. Least(hits) = 1
    BY <2>3, <2>4, LeastIs
  <2> QED BY <2>3, <2>5
<1>5. Decides(0 .. 15, sgn, 16) = 1
  <2> DEFINE Lane(o) == (o - Least(0 .. 15)) \div 8
             D == {o \in 0 .. 15 : sgn[o] # 0}
             lane == {o \in D : Lane(o) = Lane(Least(D))}
  <2>1. Least(0 .. 15) = 0 /\ Least({0, 1}) = 0
    <3>1. ASSUME NEW S, S \subseteq Nat, 0 \in S PROVE Least(S) = 0
      <4>1. \A y \in S : 0 <= y
        BY <3>1
      <4> QED BY <3>1, <4>1, LeastIs
    <3> QED BY <3>1
  <2>2. D = {0, 1}
    BY <1>3
  <2>3. lane = {0, 1}
    <3>1. Lane(0) = 0 /\ Lane(1) = 0 /\ Least(D) = 0
      <4>1. PICK z : z = Least(0 .. 15)
        OBVIOUS
      <4>2. (0 - z) \div 8 = 0 /\ (1 - z) \div 8 = 0
        BY <2>1, <4>1
      <4>3. Least(D) = 0
        <5> HIDE DEF D
        <5> QED BY <2>1, <2>2
      <4> QED BY <4>1, <4>2, <4>3
    <3> HIDE DEF D, Lane
    <3> QED BY <2>2, <3>1
  <2>4. Decides(0 .. 15, sgn, 16) = CHOOSE o \in lane : \A x \in lane : x <= o
    BY DEF Decides
  <2>5. \A o \in {0, 1} : (\A x \in {0, 1} : x <= o) <=> o = 1
    OBVIOUS
  <2> HIDE DEF lane
  <2>6. PICK o : o = CHOOSE z \in lane : \A x \in lane : x <= z
    OBVIOUS
  <2>7. o \in {0, 1} /\ \A x \in {0, 1} : x <= o
    BY <2>3, <2>5, <2>6
  <2> QED BY <2>4, <2>5, <2>6, <2>7
<1>6. memcmp(lhs, len, 16, sgn) = Verdict(blocks, sgn, 16)
  BY DEF memcmp
<1>7. Verdict(blocks, sgn, 16) = sgn[Decides(blocks[Least(hits)], sgn, 16)]
  BY <1>4 DEF Verdict
<1> HIDE DEF blocks, hits
<1> QED BY <1>1, <1>3, <1>4, <1>5, <1>6, <1>7

(* With prefetching, memset does leave bytes unset whenever 288 bytes or   *)
(* more lie behind the first aligned address: the 32 from 128 beyond that  *)
(* address on are in none of its blocks (InlineMemset.hpp:98-105).         *)
THEOREM MemsetLeavesGaps ==
  ASSUME NEW dst \in Nat, NEW len \in Nat,
         len - offset_from_last_align(dst, 32) >= 288
  PROVE  memset_prefetch(dst, len) # 0 .. len - 1
<1>1. offset_from_last_align(dst, 32) \in 1 .. 32
  BY NextAligned
<1>2. PICK a : a = offset_from_last_align(dst, 32)
  OBVIOUS
<1>3. a + 128 \in 0 .. len - 1
  <2>1. len - a >= 288 /\ a \in 1 .. 32
    BY <1>1, <1>2
  <2> QED BY <2>1
<1> QED BY <1>2, <1>3, PrefetchGap

-----------------------------------------------------------------------------
(* Texts: what is left when some are dropped, and where a set is met first.*)
Text == Seq(Char)

LEMMA DropIs ==
  ASSUME NEW p \in Text, NEW n \in 0 .. Len(p)
  PROVE  /\ Drop(p, n) \in Text /\ Len(Drop(p, n)) = Len(p) - n
         /\ \A i \in 1 .. Len(p) - n : Drop(p, n)[i] = p[n + i]
<1> DEFINE z == Len(p)
           a == n + 1
           q == SubSeq(p, a, z)
<1>1. z \in Nat /\ \A i \in 1 .. z : p[i] \in Char
  BY LenProperties, ElementOfSeq DEF Text
<1>2. a \in Int /\ z \in Int /\ \A i \in a .. z : p[i] \in Char
  BY <1>1
<1>3. /\ q \in Seq(Char) /\ Len(q) = IF a <= z THEN z - a + 1 ELSE 0
      /\ \A i \in 1 .. z - a + 1 : q[i] = p[a + i - 1]
  <2> HIDE DEF z, a
  <2> QED BY <1>2, SubSeqProperties
<1>4. Drop(p, n) = q
  BY DEF Drop
<1> HIDE DEF q
<1>5. ASSUME NEW i \in 1 .. z - n PROVE q[i] = p[n + i]
  <2>1. i \in 1 .. z - a + 1 /\ a + i - 1 = n + i
    BY <1>1
  <2> QED BY <1>3, <2>1
<1> QED BY <1>1, <1>3, <1>4, <1>5 DEF Text

LEMMA SameText ==
  ASSUME NEW p \in Text, NEW q \in Text, Len(p) = Len(q),
         \A i \in 1 .. Len(p) : p[i] = q[i]
  PROVE  p = q
BY SeqEqual DEF Text

LEMMA DropDrop ==
  ASSUME NEW p \in Text, NEW a \in Nat, NEW b \in Nat, a + b <= Len(p)
  PROVE  Drop(Drop(p, a), b) = Drop(p, a + b)
<1> DEFINE q == Drop(p, a)
           z == Len(p)
<1>1. z \in Nat
  BY LenProperties DEF Text
<1> HIDE DEF z
<1>2. a \in 0 .. z /\ a + b \in 0 .. z /\ b \in 0 .. z - a
  BY <1>1 DEF z
<1>3. q \in Text /\ Len(q) = z - a /\ \A i \in 1 .. z - a : q[i] = p[a + i]
  BY <1>2, DropIs DEF z
<1> HIDE DEF q
<1>4. /\ Drop(q, b) \in Text /\ Len(Drop(q, b)) = z - a - b
      /\ \A i \in 1 .. z - a - b : Drop(q, b)[i] = q[b + i]
  <2>1. b \in 0 .. Len(q) /\ Len(q) - b = z - a - b
    BY <1>2, <1>3
  <2>2. /\ Drop(q, b) \in Text /\ Len(Drop(q, b)) = Len(q) - b
        /\ \A i \in 1 .. Len(q) - b : Drop(q, b)[i] = q[b + i]
    BY <1>3, <2>1, DropIs, Zenon
  <2> QED BY <2>1, <2>2
<1>5. /\ Drop(p, a + b) \in Text /\ Len(Drop(p, a + b)) = z - (a + b)
      /\ \A i \in 1 .. z - (a + b) : Drop(p, a + b)[i] = p[a + b + i]
  BY <1>2, DropIs DEF z
<1>6. ASSUME NEW i \in 1 .. z - a - b PROVE Drop(q, b)[i] = Drop(p, a + b)[i]
  <2>1. i \in 1 .. z - (a + b) /\ b + i \in 1 .. z - a /\ a + (b + i) = a + b + i
    BY <1>1
  <2> QED BY <1>3, <1>4, <1>5, <2>1
<1>7. z - a - b = z - (a + b)
  BY <1>1
<1>8. Drop(q, b) = Drop(p, a + b)
  BY <1>4, <1>5, <1>6, <1>7, SameText
<1> QED BY <1>8 DEF q

(* Until() is the length of the longest beginning without one of S.        *)
Free(p, S, n) == n \in 0 .. Len(p) /\ \A i \in 1 .. n : p[i] \notin S
Stops(p, S, n) == Free(p, S, n) /\ (n < Len(p) => p[n + 1] \in S)

LEMMA UntilStops == ASSUME NEW p \in Text, NEW S PROVE Stops(p, S, Until(p, S))
<1> DEFINE z == Len(p)
           T == {n \in 0 .. z : n < z => p[n + 1] \in S}
<1>1. z \in Nat
  BY LenProperties DEF Text
<1> HIDE DEF z
<1>2. PICK n \in T : \A m \in T : n <= m
  <2>1. z \in T /\ T \subseteq Nat
    BY <1>1
  <2> HIDE DEF T
  <2> QED BY <2>1, LeastElement
<1>3. ASSUME NEW i \in 1 .. n PROVE p[i] \notin S
  <2> SUFFICES ASSUME p[i] \in S PROVE FALSE
    OBVIOUS
  <2>1. i - 1 \in 0 .. z /\ (i - 1) + 1 = i
    BY <1>1
  <2>2. i - 1 \in T
    BY <2>1
  <2>3. n <= i - 1
    BY <1>2, <2>2
  <2> QED BY <1>1, <2>3
<1>4. n \in 0 .. Len(p) /\ (\A i \in 1 .. n : p[i] \notin S) /\ (n < Len(p) => p[n + 1] \in S)
  BY <1>3 DEF z
<1>5. LET m == Until(p, S)
      IN  m \in 0 .. Len(p) /\ (\A i \in 1 .. m : p[i] \notin S) /\ (m < Len(p) => p[m + 1] \in S)
  BY <1>4, Zenon DEF Until
<1> QED BY <1>5, Zenon DEF Stops, Free

LEMMA StopsOnce ==
  ASSUME NEW p \in Text, NEW S, NEW m, NEW n, Stops(p, S, m), Free(p, S, n),
         n < Len(p) => p[n + 1] \in S
  PROVE  m = n
<1>1. m \in Int /\ n \in Int /\ Len(p) \in Int
  BY LenProperties DEF Text, Stops, Free
<1>2. CASE m < n
  <2>1. m < Len(p) /\ m + 1 \in 1 .. n
    BY <1>1, <1>2 DEF Stops, Free
  <2> QED BY <2>1 DEF Stops, Free
<1>3. CASE n < m
  <2>1. n < Len(p) /\ n + 1 \in 1 .. m
    BY <1>1, <1>3 DEF Stops, Free
  <2> QED BY <2>1 DEF Stops, Free
<1> QED BY <1>1, <1>2, <1>3

LEMMA UntilIs ==
  ASSUME NEW p \in Text, NEW S, NEW n, Stops(p, S, n) PROVE Until(p, S) = n
<1>1. Free(p, S, n) /\ (n < Len(p) => p[n + 1] \in S)
  BY DEF Stops
<1> QED BY <1>1, UntilStops, StopsOnce, Zenon

(* The first n of a text.                                                  *)
LEMMA FirstIs ==
  ASSUME NEW p \in Text, NEW n \in 0 .. Len(p)
  PROVE  /\ SubSeq(p, 1, n) \in Text /\ Len(SubSeq(p, 1, n)) = n
         /\ \A i \in 1 .. n : SubSeq(p, 1, n)[i] = p[i]
<1> DEFINE q == SubSeq(p, 1, n)
<1>1. Len(p) \in Nat /\ \A i \in 1 .. Len(p) : p[i] \in Char
  BY LenProperties, ElementOfSeq DEF Text
<1>2. 1 \in Int /\ n \in Int /\ \A i \in 1 .. n : p[i] \in Char
  BY <1>1
<1>3. /\ q \in Seq(Char) /\ Len(q) = IF 1 <= n THEN n - 1 + 1 ELSE 0
      /\ \A i \in 1 .. n - 1 + 1 : q[i] = p[1 + i - 1]
  BY <1>2, SubSeqProperties
<1> HIDE DEF q
<1>4. ASSUME NEW i \in 1 .. n PROVE q[i] = p[i]
  <2>1. i \in 1 .. n - 1 + 1 /\ 1 + i - 1 = i
    OBVIOUS
  <2> QED BY <1>3, <2>1
<1>5. Len(q) = n
  BY <1>1, <1>3
<1> QED BY <1>3, <1>4, <1>5 DEF Text, q

LEMMA PrefixIs ==
  ASSUME NEW s \in Text, NEW p \in Text
  PROVE  IsPrefix(s, p) <=> Len(s) <= Len(p) /\ \A i \in 1 .. Len(s) : s[i] = p[i]
<1>1. Len(s) \in Nat /\ Len(p) \in Nat
  BY LenProperties DEF Text
<1>2. SUFFICES ASSUME Len(s) <= Len(p)
               PROVE  SubSeq(s, 1, Len(s)) = SubSeq(p, 1, Len(s)) <=> \A i \in 1 .. Len(s) : s[i] = p[i]
  BY Zenon DEF IsPrefix
<1> DEFINE a == SubSeq(s, 1, Len(s))
           b == SubSeq(p, 1, Len(s))
<1>3. Len(s) \in 0 .. Len(s) /\ Len(s) \in 0 .. Len(p)
  BY <1>1, <1>2
<1>4. a \in Text /\ Len(a) = Len(s) /\ \A i \in 1 .. Len(s) : a[i] = s[i]
  BY <1>3, FirstIs
<1>5. b \in Text /\ Len(b) = Len(s) /\ \A i \in 1 .. Len(s) : b[i] = p[i]
  BY <1>3, FirstIs
<1> HIDE DEF a, b
<1>6. (\A i \in 1 .. Len(s) : s[i] = p[i]) => a = b
  BY <1>4, <1>5, SameText
<1>7. a = b => \A i \in 1 .. Len(s) : s[i] = p[i]
  BY <1>4, <1>5
<1> QED BY <1>6, <1>7 DEF a, b

-----------------------------------------------------------------------------
(* The forms, by the places of their characters.                           *)
HasLen(S, k) == S \subseteq Text /\ k \in Nat /\ \A s \in S : Len(s) = k

LEMMA OneText == ASSUME NEW c \in Char PROVE <<c>> \in Text /\ Len(<<c>>) = 1 /\ <<c>>[1] = c
BY DEF Text

LEMMA CharSets ==
  /\ Sep \subseteq Char /\ Letter \subseteq Char /\ Digit \subseteq Char
  /\ {":"} \subseteq Char /\ {"."} \subseteq Char /\ {"?"} \subseteq Char
  /\ {"UNC"} \subseteq Char /\ {"GLOBAL"} \subseteq Char /\ {"CON"} \subseteq Char
  /\ {"COM", "LPT"} \subseteq Char /\ {"PRN"} \subseteq Char /\ {".", "?"} \subseteq Char /\ {"\\"} \subseteq Char
<1>1. /\ Sep \subseteq Char /\ Alnum \subseteq Char /\ Other \subseteq Char
      /\ Letter \subseteq Alnum /\ Digit \subseteq Alnum /\ Words \subseteq Alnum
  BY Zenon DEF Char, Alnum, Alpha
<1>2. "\\" \in Sep
  BY Zenon DEF Sep
<1>3. ":" \in Other /\ "." \in Other /\ "?" \in Other
  BY Zenon DEF Other
<1>4. /\ "UNC" \in Words /\ "GLOBAL" \in Words /\ "CON" \in Words /\ "COM" \in Words
      /\ "PRN" \in Words /\ "LPT" \in Words
  BY Zenon DEF Words, HexWords
<1> QED BY <1>1, <1>2, <1>3, <1>4

LEMMA OneLen == ASSUME NEW S, S \subseteq Char PROVE HasLen(One(S), 1)
<1>1. ASSUME NEW s \in One(S) PROVE s \in Text /\ Len(s) = 1
  <2>1. PICK c \in S : s = <<c>>
    BY Zenon DEF One
  <2> QED BY <2>1, OneText
<1> QED BY <1>1 DEF HasLen

LEMMA JoinLen ==
  ASSUME NEW S, NEW k, NEW T, NEW l, HasLen(S, k), HasLen(T, l)
  PROVE  HasLen(S \odot T, k + l)
<1>1. k \in Nat /\ l \in Nat
  BY DEF HasLen
<1>2. ASSUME NEW u \in S \odot T PROVE u \in Text /\ Len(u) = k + l
  <2>1. PICK s \in S, t \in T : u = s \o t
    BY DEF \odot
  <2>2. s \in Seq(Char) /\ Len(s) = k /\ t \in Seq(Char) /\ Len(t) = l
    BY DEF HasLen, Text
  <2>3. s \o t \in Seq(Char) /\ Len(s \o t) = Len(s) + Len(t)
    BY <2>2, ConcatProperties, Zenon
  <2> QED BY <2>1, <2>2, <2>3 DEF Text
<1> QED BY <1>1, <1>2 DEF HasLen

LEMMA JoinText ==
  ASSUME NEW S, NEW T, S \subseteq Text, T \subseteq Text PROVE S \odot T \subseteq Text
<1>2. ASSUME NEW u \in S \odot T PROVE u \in Text
  <2>1. PICK s \in S, t \in T : u = s \o t
    BY DEF \odot
  <2>2. s \in Seq(Char) /\ t \in Seq(Char)
    BY DEF Text
  <2> QED BY <2>1, <2>2, ConcatProperties DEF Text
<1> QED BY <1>2

(* A text begins with s \o t.                                              *)
LEMMA PrefixJoin ==
  ASSUME NEW s \in Text, NEW t \in Text, NEW p \in Text
  PROVE  IsPrefix(s \o t, p) <=> IsPrefix(s, p) /\ IsPrefix(t, Drop(p, Len(s)))
<1> DEFINE u == s \o t
           k == Len(s)
           l == Len(t)
           z == Len(p)
           q == Drop(p, k)
<1>1. k \in Nat /\ l \in Nat /\ z \in Nat
  BY LenProperties DEF Text
<1>2. u \in Text /\ Len(u) = k + l /\ \A i \in 1 .. k + l : u[i] = IF i <= k THEN s[i] ELSE t[i - k]
  BY ConcatProperties DEF Text
<1>3. IsPrefix(u, p) <=> k + l <= z /\ \A i \in 1 .. k + l : u[i] = p[i]
  <2> HIDE DEF u
  <2> QED BY <1>2, PrefixIs
<1>4. IsPrefix(s, p) <=> k <= z /\ \A i \in 1 .. k : s[i] = p[i]
  BY PrefixIs
<1>5. ASSUME k <= z PROVE q \in Text /\ Len(q) = z - k /\ \A i \in 1 .. z - k : q[i] = p[k + i]
  <2>1. k \in 0 .. z
    BY <1>1, <1>5
  <2> QED BY <2>1, DropIs
<1> HIDE DEF u, k, l, z, q
<1>6. ASSUME k <= z PROVE IsPrefix(t, q) <=> l <= z - k /\ \A i \in 1 .. l : t[i] = q[i]
  <2>1. IsPrefix(t, q) <=> Len(t) <= Len(q) /\ \A i \in 1 .. Len(t) : t[i] = q[i]
    BY <1>5, <1>6, PrefixIs, Zenon
  <2> QED BY <1>5, <1>6, <2>1 DEF l
<1>7. ASSUME IsPrefix(u, p) PROVE IsPrefix(s, p) /\ IsPrefix(t, q)
  <2>1. k + l <= z /\ k <= z /\ l <= z - k
    BY <1>1, <1>3, <1>7
  <2>2. ASSUME NEW i \in 1 .. k PROVE s[i] = p[i]
    <3>1. i \in 1 .. k + l /\ i <= k
      BY <1>1
    <3> QED BY <1>2, <1>3, <1>7, <3>1
  <2>3. ASSUME NEW i \in 1 .. l PROVE t[i] = q[i]
    <3>1. k + i \in 1 .. k + l /\ ~(k + i <= k) /\ k + i - k = i /\ i \in 1 .. z - k
      BY <1>1, <2>1
    <3> DEFINE j == k + i
    <3>2. u[j] = t[i] /\ u[j] = p[j]
      <4>1. j \in 1 .. k + l /\ ~(j <= k) /\ j - k = i
        BY <1>1
      <4> HIDE DEF j
      <4> QED BY <1>2, <1>3, <1>7, <4>1
    <3> QED BY <1>5, <2>1, <3>1, <3>2
  <2> QED BY <1>4, <1>6, <2>1, <2>2, <2>3
<1>8. ASSUME IsPrefix(s, p), IsPrefix(t, q) PROVE IsPrefix(u, p)
  <2>1. k <= z /\ l <= z - k /\ k + l <= z
    BY <1>1, <1>4, <1>6, <1>8
  <2>2. ASSUME NEW i \in 1 .. k + l PROVE u[i] = p[i]
    <3>1. CASE i <= k
      BY <1>1, <1>2, <1>4, <1>8, <3>1
    <3>2. CASE ~(i <= k)
      <4>1. i - k \in 1 .. l /\ i - k \in 1 .. z - k /\ k + (i - k) = i
        BY <1>1, <2>1, <3>2
      <4>2. t[i - k] = q[i - k] /\ q[i - k] = p[i]
        BY <1>5, <1>6, <1>8, <2>1, <4>1
      <4> QED BY <1>2, <3>2, <4>2
    <3> QED BY <3>1, <3>2
  <2> QED BY <1>3, <2>1, <2>2
<1> QED BY <1>7, <1>8 DEF u, q, k

LEMMA UnderJoin ==
  ASSUME NEW S, NEW k, HasLen(S, k), NEW T, T \subseteq Text, NEW p \in Text
  PROVE  Under(S \odot T, p) <=> Under(S, p) /\ Under(T, Drop(p, k))
<1>1. ASSUME NEW s \in S, NEW t \in T
      PROVE  IsPrefix(s \o t, p) <=> IsPrefix(s, p) /\ IsPrefix(t, Drop(p, k))
  <2>1. s \in Text /\ t \in Text /\ Len(s) = k
    BY DEF HasLen
  <2> QED BY <2>1, PrefixJoin
<1>2. Under(S \odot T, p) <=> \E s \in S, t \in T : IsPrefix(s \o t, p)
  <2> DEFINE U == S \odot T
  <2>1. ASSUME NEW s \in S, NEW t \in T PROVE s \o t \in U
    BY DEF \odot
  <2>2. ASSUME NEW u \in U PROVE \E s \in S, t \in T : u = s \o t
    BY DEF \odot
  <2> HIDE DEF U
  <2>3. Under(U, p) <=> \E s \in S, t \in T : IsPrefix(s \o t, p)
    BY <2>1, <2>2, Zenon DEF Under
  <2> QED BY <2>3 DEF U
<1> QED BY <1>1, <1>2, Zenon DEF Under

LEMMA UnderLen ==
  ASSUME NEW S, NEW k, HasLen(S, k), NEW p \in Text, Under(S, p)
  PROVE  k \in 0 .. Len(p)
<1>1. PICK s \in S : IsPrefix(s, p)
  BY Zenon DEF Under
<1>2. s \in Text /\ Len(s) = k /\ k \in Nat /\ Len(p) \in Nat
  BY LenProperties DEF HasLen, Text
<1>3. Len(s) <= Len(p)
  BY <1>1, <1>2, PrefixIs
<1> QED BY <1>2, <1>3

LEMMA UnderWhole ==
  ASSUME NEW S, NEW k, HasLen(S, k), NEW p \in Text
  PROVE  p \in S <=> Under(S, p) /\ Len(p) = k
<1>1. ASSUME p \in S PROVE Under(S, p) /\ Len(p) = k
  <2>1. Len(p) = k /\ Len(p) <= Len(p)
    BY <1>1, LenProperties DEF HasLen, Text
  <2>2. IsPrefix(p, p)
    BY <2>1, PrefixIs
  <2> QED BY <1>1, <2>1, <2>2, Zenon DEF Under
<1>2. ASSUME Under(S, p), Len(p) = k PROVE p \in S
  <2>1. PICK s \in S : IsPrefix(s, p)
    BY <1>2, Zenon DEF Under
  <2>2. s \in Text /\ Len(s) = Len(p)
    BY <1>2 DEF HasLen
  <2>3. s = p
    BY <2>1, <2>2, PrefixIs, SameText
  <2> QED BY <2>3
<1> QED BY <1>1, <1>2

LEMMA BeginsIs ==
  ASSUME NEW p \in Text, NEW S PROVE Begins(p, S) <=> Len(p) >= 1 /\ p[1] \in S
<1>1. p # <<>> <=> Len(p) >= 1
  BY EmptySeq DEF Text
<1> QED BY <1>1, Zenon DEF Begins

LEMMA UnderOne ==
  ASSUME NEW S, S \subseteq Char, NEW p \in Text PROVE Under(One(S), p) <=> Begins(p, S)
<1>1. ASSUME NEW c \in S PROVE IsPrefix(<<c>>, p) <=> Len(p) >= 1 /\ p[1] = c
  <2>1. <<c>> \in Text /\ Len(<<c>>) = 1 /\ <<c>>[1] = c /\ Len(p) \in Nat
    BY OneText, LenProperties DEF Text
  <2>2. IsPrefix(<<c>>, p) <=> Len(<<c>>) <= Len(p) /\ \A i \in 1 .. Len(<<c>>) : <<c>>[i] = p[i]
    BY <2>1, PrefixIs, Zenon
  <2> DEFINE w == <<c>>
  <2>3. w[1] = c /\ Len(w) = 1 /\ (IsPrefix(w, p) <=> Len(w) <= Len(p) /\ \A i \in 1 .. Len(w) : w[i] = p[i])
    BY <2>1, <2>2
  <2> HIDE DEF w
  <2>4. IsPrefix(w, p) <=> 1 <= Len(p) /\ \A i \in 1 .. 1 : w[i] = p[i]
    BY <2>3
  <2>5. (\A i \in 1 .. 1 : w[i] = p[i]) <=> p[1] = c
    BY <2>3
  <2>6. IsPrefix(w, p) <=> Len(p) >= 1 /\ p[1] = c
    BY <2>1, <2>4, <2>5
  <2> QED BY <2>6 DEF w
<1>2. Under(One(S), p) <=> \E c \in S : IsPrefix(<<c>>, p)
  BY Zenon DEF Under, One
<1> QED BY <1>1, <1>2, BeginsIs, Zenon

(* One more character.                                                     *)
LEMMA UnderMore ==
  ASSUME NEW S, NEW k, HasLen(S, k), NEW C, C \subseteq Char, NEW p \in Text
  PROVE  Under(S \odot One(C), p) <=> Under(S, p) /\ Len(p) >= k + 1 /\ p[k + 1] \in C
<1>1. k \in Nat /\ Len(p) \in Nat
  BY LenProperties DEF HasLen, Text
<1>2. One(C) \subseteq Text
  BY OneLen DEF HasLen
<1>3. Under(S \odot One(C), p) <=> Under(S, p) /\ Under(One(C), Drop(p, k))
  BY <1>2, UnderJoin
<1>4. ASSUME Under(S, p)
      PROVE  Under(One(C), Drop(p, k)) <=> Len(p) >= k + 1 /\ p[k + 1] \in C
  <2>1. k \in 0 .. Len(p)
    BY <1>4, UnderLen
  <2>2. /\ Drop(p, k) \in Text /\ Len(Drop(p, k)) = Len(p) - k
        /\ (Len(p) - k >= 1 => Drop(p, k)[1] = p[k + 1])
    BY <1>1, <2>1, DropIs
  <2>3. Under(One(C), Drop(p, k)) <=> Len(Drop(p, k)) >= 1 /\ Drop(p, k)[1] \in C
    BY <2>2, UnderOne, BeginsIs, Zenon
  <2>4. Len(p) - k >= 1 <=> Len(p) >= k + 1
    BY <1>1
  <2> QED BY <2>2, <2>3, <2>4, Zenon
<1> QED BY <1>3, <1>4, Zenon

LEMMA DeviceForm ==
  ASSUME NEW S, S \subseteq Char
  PROVE  /\ HasLen(Device(S), 4)
         /\ \A p \in Text : Under(Device(S), p) <=>
              Len(p) >= 4 /\ p[1] \in Sep /\ p[2] \in Sep /\ p[3] \in S /\ p[4] \in Sep
<1> DEFINE A == One(Sep)
           B == A \odot One(Sep)
           C == B \odot One(S)
<1>1. Sep \subseteq Char
  BY CharSets
<1>2. HasLen(A, 1)
  BY <1>1, OneLen
<1>3. HasLen(One(S), 1)
  BY OneLen
<1>4. Device(S) = C \odot One(Sep)
  BY DEF Device
<1> HIDE DEF A
<1>5. HasLen(B, 2)
  <2>1. HasLen(B, 1 + 1)
    BY <1>2, JoinLen DEF A
  <2> QED BY <2>1
<1> HIDE DEF B
<1>6. HasLen(C, 3)
  <2>1. HasLen(C, 2 + 1)
    BY <1>3, <1>5, JoinLen
  <2> QED BY <2>1
<1> HIDE DEF C
<1>7. HasLen(Device(S), 4)
  <2>1. HasLen(C \odot One(Sep), 3 + 1)
    BY <1>2, <1>6, JoinLen DEF A
  <2> QED BY <1>4, <2>1
<1>8. ASSUME NEW p \in Text
      PROVE  Under(Device(S), p) <=>
              Len(p) >= 4 /\ p[1] \in Sep /\ p[2] \in Sep /\ p[3] \in S /\ p[4] \in Sep
  <2>1. Under(A, p) <=> Len(p) >= 1 /\ p[1] \in Sep
    BY <1>1, UnderOne, BeginsIs, Zenon DEF A
  <2>2. Under(B, p) <=> Under(A, p) /\ Len(p) >= 1 + 1 /\ p[1 + 1] \in Sep
    BY <1>1, <1>2, UnderMore DEF B
  <2>3. Under(C, p) <=> Under(B, p) /\ Len(p) >= 2 + 1 /\ p[2 + 1] \in S
    BY <1>5, UnderMore DEF C
  <2>4. Under(Device(S), p) <=> Under(C, p) /\ Len(p) >= 3 + 1 /\ p[3 + 1] \in Sep
    BY <1>1, <1>4, <1>6, UnderMore
  <2>5. Len(p) \in Nat
    BY LenProperties DEF Text
  <2>6. 1 + 1 = 2 /\ 2 + 1 = 3 /\ 3 + 1 = 4
    OBVIOUS
  <2>7. Len(p) >= 4 => Len(p) >= 3 /\ Len(p) >= 2 /\ Len(p) >= 1
    BY <2>5
  <2> QED BY <2>1, <2>2, <2>3, <2>4, <2>6, <2>7, Zenon
<1> QED BY <1>7, <1>8

LEMMA VolumesForm ==
  /\ HasLen(Volumes, 2)
  /\ \A p \in Text : Under(Volumes, p) <=> is_volume(p)
  /\ \A p \in Text : p \in Volumes <=> is_volume(p) /\ Len(p) = 2
<1>1. Letter \subseteq Char /\ {":"} \subseteq Char
  BY CharSets
<1>2. HasLen(One(Letter), 1)
  BY <1>1, OneLen
<1>3. HasLen(Volumes, 2)
  <2>1. HasLen(Volumes, 1 + 1)
    BY <1>1, <1>2, OneLen, JoinLen, Zenon DEF Volumes
  <2> QED BY <2>1
<1>4. ASSUME NEW p \in Text PROVE Under(Volumes, p) <=> is_volume(p)
  <2>1. Under(One(Letter), p) <=> Len(p) >= 1 /\ p[1] \in Letter
    BY <1>1, UnderOne, BeginsIs, Zenon
  <2>2. Under(Volumes, p) <=> Under(One(Letter), p) /\ Len(p) >= 1 + 1 /\ p[1 + 1] \in {":"}
    BY <1>1, <1>2, UnderMore, Zenon DEF Volumes
  <2>3. Len(p) \in Nat
    BY LenProperties DEF Text
  <2>4. 1 + 1 = 2 /\ (Len(p) >= 2 => Len(p) >= 1)
    BY <2>3
  <2> QED BY <2>1, <2>2, <2>4, Zenon DEF is_volume
<1> QED BY <1>3, <1>4, UnderWhole, Zenon

-----------------------------------------------------------------------------
(* FormTells.                                                              *)
LEMMA NtAt ==
  ASSUME NEW p \in Text
  PROVE  is_nt_path(p) <=>
           \/ Len(p) >= 4 /\ p[1] \in Sep /\ p[2] = "?" /\ p[3] = "?" /\ p[4] \in Sep
           \/ /\ Len(p) >= 5 /\ p[1] \in Sep /\ p[2] = "GLOBAL"
              /\ p[3] = "?" /\ p[4] = "?" /\ p[5] \in Sep
<1> DEFINE n == IF Len(p) > 1 /\ p[2] = "GLOBAL" THEN 2 ELSE 1
           q == Drop(p, n)
<1>1. Len(p) \in Nat
  BY LenProperties DEF Text
<1>2. is_nt_path(p) <=> Begins(p, Sep) /\ Len(q) >= 3 /\ q[1] = "?" /\ q[2] = "?" /\ q[3] \in Sep
  BY Zenon DEF is_nt_path
<1>3. Begins(p, Sep) <=> Len(p) >= 1 /\ p[1] \in Sep
  BY BeginsIs
<1>4. CASE Len(p) >= 1
  <2>1. n \in 0 .. Len(p)
    BY <1>1, <1>4
  <2> HIDE DEF n
  <2>2. Len(q) = Len(p) - n /\ \A i \in 1 .. Len(p) - n : q[i] = p[n + i]
    BY <2>1, DropIs
  <2> HIDE DEF q
  <2>3. CASE Len(p) > 1 /\ p[2] = "GLOBAL"
    <3>1. n = 2 /\ p[2] # "?"
      BY <2>3 DEF n
    <3>2. Len(p) >= 5 => q[1] = p[3] /\ q[2] = p[4] /\ q[3] = p[5]
      BY <1>1, <2>2, <3>1
    <3>3. Len(q) >= 3 <=> Len(p) >= 5
      BY <1>1, <2>2, <3>1
    <3> QED BY <1>2, <1>3, <1>4, <2>3, <3>1, <3>2, <3>3, Zenon
  <2>4. CASE ~(Len(p) > 1 /\ p[2] = "GLOBAL")
    <3>1. n = 1
      BY <2>4 DEF n
    <3>2. Len(p) >= 4 => q[1] = p[2] /\ q[2] = p[3] /\ q[3] = p[4]
      BY <1>1, <2>2, <3>1
    <3>3. (Len(q) >= 3 <=> Len(p) >= 4) /\ (Len(p) >= 5 => Len(p) > 1)
      BY <1>1, <2>2, <3>1
    <3> QED BY <1>2, <1>3, <1>4, <2>4, <3>2, <3>3, Zenon
  <2> QED BY <2>3, <2>4
<1>5. CASE ~(Len(p) >= 1)
  <2>1. ~(Len(p) >= 4) /\ ~(Len(p) >= 5)
    BY <1>1, <1>5
  <2> QED BY <1>2, <1>3, <1>5, <2>1, Zenon
<1> QED BY <1>4, <1>5

LEMMA JoinBoth ==
  ASSUME NEW S, NEW T, NEW U PROVE S \odot (T \cup U) = (S \odot T) \cup (S \odot U)
<1>1. ASSUME NEW x PROVE x \in S \odot (T \cup U) <=> x \in S \odot T \/ x \in S \odot U
  BY DEF \odot
<1> QED BY <1>1, Zenon

LEMMA BothJoin ==
  ASSUME NEW S, NEW T, NEW U PROVE (T \cup U) \odot S = (T \odot S) \cup (U \odot S)
<1>1. ASSUME NEW x PROVE x \in (T \cup U) \odot S <=> x \in T \odot S \/ x \in U \odot S
  BY DEF \odot
<1> QED BY <1>1, Zenon

(* The forms of a path of the kernel.                                      *)
Nt == One(Sep) \odot {<<"?", "?">>, <<"GLOBAL", "?", "?">>} \odot One(Sep)

LEMMA TwoThree ==
  ASSUME NEW a \in Char, NEW b \in Char, NEW c \in Char
  PROVE  /\ HasLen({<<a, b>>}, 2) /\ HasLen({<<a, b, c>>}, 3)
         /\ \A p \in Text : Under({<<a, b>>}, p) <=> Len(p) >= 2 /\ p[1] = a /\ p[2] = b
         /\ \A p \in Text : Under({<<a, b, c>>}, p) <=>
              Len(p) >= 3 /\ p[1] = a /\ p[2] = b /\ p[3] = c
<1> DEFINE v == <<a, b>>
           w == <<a, b, c>>
<1>1. v \in Text /\ Len(v) = 2 /\ v[1] = a /\ v[2] = b
  BY DEF Text
<1>2. w \in Text /\ Len(w) = 3 /\ w[1] = a /\ w[2] = b /\ w[3] = c
  BY DEF Text
<1> HIDE DEF v, w
<1>3. HasLen({v}, 2) /\ HasLen({w}, 3)
  BY <1>1, <1>2 DEF HasLen
<1>4. ASSUME NEW p \in Text PROVE Under({v}, p) <=> Len(p) >= 2 /\ p[1] = a /\ p[2] = b
  <2>1. IsPrefix(v, p) <=> Len(v) <= Len(p) /\ \A i \in 1 .. Len(v) : v[i] = p[i]
    BY <1>1, PrefixIs
  <2>2. Len(p) \in Nat
    BY LenProperties DEF Text
  <2>3. (\A i \in 1 .. 2 : v[i] = p[i]) <=> v[1] = p[1] /\ v[2] = p[2]
    <3>1. \A i \in 1 .. 2 : i = 1 \/ i = 2
      OBVIOUS
    <3>2. 1 \in 1 .. 2 /\ 2 \in 1 .. 2
      OBVIOUS
    <3> QED BY <3>1, <3>2, Zenon
  <2>4. 2 <= Len(p) <=> Len(p) >= 2
    BY <2>2
  <2> QED BY <1>1, <2>1, <2>3, <2>4, Zenon DEF Under
<1>5. ASSUME NEW p \in Text
      PROVE  Under({w}, p) <=> Len(p) >= 3 /\ p[1] = a /\ p[2] = b /\ p[3] = c
  <2>1. IsPrefix(w, p) <=> Len(w) <= Len(p) /\ \A i \in 1 .. Len(w) : w[i] = p[i]
    BY <1>2, PrefixIs
  <2>2. Len(p) \in Nat
    BY LenProperties DEF Text
  <2>3. (\A i \in 1 .. 3 : w[i] = p[i]) <=> w[1] = p[1] /\ w[2] = p[2] /\ w[3] = p[3]
    <3>1. \A i \in 1 .. 3 : i = 1 \/ i = 2 \/ i = 3
      OBVIOUS
    <3>2. 1 \in 1 .. 3 /\ 2 \in 1 .. 3 /\ 3 \in 1 .. 3
      OBVIOUS
    <3> QED BY <3>1, <3>2, Zenon
  <2>4. 3 <= Len(p) <=> Len(p) >= 3
    BY <2>2
  <2> QED BY <1>2, <2>1, <2>3, <2>4, Zenon DEF Under
<1> QED BY <1>3, <1>4, <1>5 DEF v, w

LEMMA NtForm == ASSUME NEW p \in Text PROVE Under(Nt, p) <=> is_nt_path(p)
<1> DEFINE x == <<"?", "?">>
           y == <<"GLOBAL", "?", "?">>
           X == One(Sep) \odot {x}
           Y == One(Sep) \odot {y}
<1>1. "?" \in Char /\ "GLOBAL" \in Char /\ Sep \subseteq Char
  BY CharSets
<1>2. /\ HasLen({x}, 2) /\ HasLen({y}, 3)
      /\ \A r \in Text : Under({x}, r) <=> Len(r) >= 2 /\ r[1] = "?" /\ r[2] = "?"
      /\ \A r \in Text : Under({y}, r) <=> Len(r) >= 3 /\ r[1] = "GLOBAL" /\ r[2] = "?" /\ r[3] = "?"
  BY <1>1, TwoThree, Zenon
<1> HIDE DEF x, y
<1>3. HasLen(One(Sep), 1)
  BY <1>1, OneLen
<1>4. Nt = (X \odot One(Sep)) \cup (Y \odot One(Sep))
  <2>1. One(Sep) \odot {x, y} = X \cup Y
    <3>1. {x, y} = {x} \cup {y}
      OBVIOUS
    <3>2. One(Sep) \odot ({x} \cup {y}) = (One(Sep) \odot {x}) \cup (One(Sep) \odot {y})
      BY JoinBoth
    <3> QED BY <3>1, <3>2
  <2> HIDE DEF X, Y
  <2>2. (X \cup Y) \odot One(Sep) = (X \odot One(Sep)) \cup (Y \odot One(Sep))
    BY BothJoin, Zenon
  <2> QED BY <2>1, <2>2, Zenon DEF Nt, x, y
<1>5. HasLen(X, 3)
  <2>1. HasLen(X, 1 + 2)
    BY <1>2, <1>3, JoinLen, Zenon
  <2> QED BY <2>1
<1>6. HasLen(Y, 4)
  <2>1. HasLen(Y, 1 + 3)
    BY <1>2, <1>3, JoinLen, Zenon
  <2> QED BY <2>1
<1>7. Under({x}, Drop(p, 1)) \in BOOLEAN
  BY DEF Under
<1>8. Under(One(Sep), p) <=> Len(p) >= 1 /\ p[1] \in Sep
  BY <1>1, UnderOne, BeginsIs, Zenon
<1>9. Under(X, p) <=> Under(One(Sep), p) /\ Under({x}, Drop(p, 1))
  BY <1>2, <1>3, UnderJoin, Zenon DEF HasLen
<1>10. Under(Y, p) <=> Under(One(Sep), p) /\ Under({y}, Drop(p, 1))
  BY <1>2, <1>3, UnderJoin, Zenon DEF HasLen
<1> HIDE DEF X, Y
<1>11. Under(X \odot One(Sep), p) <=> Under(X, p) /\ Len(p) >= 3 + 1 /\ p[3 + 1] \in Sep
  BY <1>1, <1>5, UnderMore
<1>12. Under(Y \odot One(Sep), p) <=> Under(Y, p) /\ Len(p) >= 4 + 1 /\ p[4 + 1] \in Sep
  BY <1>1, <1>6, UnderMore
<1>13. Under(Nt, p) <=> Under(X \odot One(Sep), p) \/ Under(Y \odot One(Sep), p)
  BY <1>4, Zenon DEF Under
<1>14. Len(p) \in Nat
  BY LenProperties DEF Text
<1>15. ASSUME Len(p) >= 1
       PROVE  /\ Under({x}, Drop(p, 1)) <=> Len(p) >= 3 /\ p[2] = "?" /\ p[3] = "?"
              /\ Under({y}, Drop(p, 1)) <=> Len(p) >= 4 /\ p[2] = "GLOBAL" /\ p[3] = "?" /\ p[4] = "?"
  <2> DEFINE q == Drop(p, 1)
  <2>1. q \in Text /\ Len(q) = Len(p) - 1 /\ \A i \in 1 .. Len(p) - 1 : q[i] = p[1 + i]
    <3>1. 1 \in 0 .. Len(p)
      BY <1>14, <1>15
    <3> QED BY <3>1, DropIs
  <2> HIDE DEF q
  <2>2. /\ Len(q) >= 2 <=> Len(p) >= 3
        /\ Len(q) >= 3 <=> Len(p) >= 4
        /\ Len(p) >= 3 => q[1] = p[2] /\ q[2] = p[3]
        /\ Len(p) >= 4 => q[1] = p[2] /\ q[2] = p[3] /\ q[3] = p[4]
    BY <1>14, <2>1
  <2>3. /\ Under({x}, q) <=> Len(q) >= 2 /\ q[1] = "?" /\ q[2] = "?"
        /\ Under({y}, q) <=> Len(q) >= 3 /\ q[1] = "GLOBAL" /\ q[2] = "?" /\ q[3] = "?"
    BY <1>2, <2>1, Zenon
  <2>4. /\ Under({x}, q) <=> Len(p) >= 3 /\ p[2] = "?" /\ p[3] = "?"
        /\ Under({y}, q) <=> Len(p) >= 4 /\ p[2] = "GLOBAL" /\ p[3] = "?" /\ p[4] = "?"
    BY <2>2, <2>3, Zenon
  <2> QED BY <2>4 DEF q
<1>16. /\ 3 + 1 = 4 /\ 4 + 1 = 5 /\ (Len(p) >= 4 => Len(p) >= 1 /\ Len(p) >= 3)
       /\ Len(p) >= 5 => Len(p) >= 1 /\ Len(p) >= 4
  BY <1>14
<1> QED BY <1>8, <1>9, <1>10, <1>11, <1>12, <1>13, <1>15, <1>16, NtAt, Zenon

LEMMA NineSeq ==
  ASSUME NEW S, NEW a \in S, NEW b \in S, NEW c \in S, NEW d \in S
  PROVE  <<a, d, b, d, b, d, b, d, c>> \in Seq(S)
OBVIOUS

LEMMA JoinFirst ==
  ASSUME NEW s \in Text, NEW t \in Text, Len(s) >= 1
  PROVE  s \o t \in Text /\ Len(s \o t) >= 1 /\ (s \o t)[1] = s[1]
<1> DEFINE u == s \o t
<1>1. /\ u \in Seq(Char) /\ Len(u) = Len(s) + Len(t)
      /\ \A i \in 1 .. Len(s) + Len(t) : u[i] = IF i <= Len(s) THEN s[i] ELSE t[i - Len(s)]
  BY ConcatProperties DEF Text
<1> HIDE DEF u
<1>2. Len(s) \in Nat /\ Len(t) \in Nat
  BY LenProperties DEF Text
<1>3. 1 \in 1 .. Len(s) + Len(t) /\ 1 <= Len(s)
  BY <1>2
<1>4. u[1] = s[1]
  BY <1>1, <1>3
<1>5. Len(u) >= 1
  BY <1>1, <1>2
<1> QED BY <1>1, <1>4, <1>5 DEF Text, u

GuidText == <<"Volume{">> \o guid \o <<"}">>

LEMMA GuidIs == GuidText \in Text /\ Len(GuidText) >= 1 /\ GuidText[1] = "Volume{"
<1> DEFINE a == <<"Volume{">>
           c == <<"}">>
           b == a \o guid
<1>1. /\ "Volume{" \in Char /\ "}" \in Char
      /\ "8x" \in Char /\ "4x" \in Char /\ "12x" \in Char /\ "-" \in Char
  BY Zenon DEF Char, Other, Blocks
<1>2. a \in Text /\ Len(a) = 1 /\ a[1] = "Volume{"
  BY <1>1, OneText, Zenon
<1>3. guid \in Text
  BY <1>1, NineSeq, Zenon DEF guid, Text
<1>4. c \in Text
  BY <1>1, OneText, Zenon
<1> HIDE DEF a, c
<1>5. Len(a) >= 1
  <2>1. Len(a) = 1
    BY <1>2, Zenon
  <2> QED BY <2>1
<1>6. b \in Text /\ Len(b) >= 1 /\ b[1] = a[1]
  BY <1>2, <1>3, <1>5, JoinFirst, Zenon
<1> HIDE DEF b
<1>7. b \o c \in Text /\ Len(b \o c) >= 1 /\ (b \o c)[1] = b[1]
  BY <1>4, <1>6, JoinFirst, Zenon
<1>8. GuidText = b \o c
  BY Zenon DEF GuidText, a, b, c
<1> QED BY <1>2, <1>6, <1>7, <1>8, Zenon

LEMMA GuidBegins ==
  ASSUME NEW q \in Text, is_volume_guid(q) PROVE Len(q) >= 1 /\ q[1] = "Volume{"
<1>1. IsPrefix(GuidText, q)
  BY Zenon DEF is_volume_guid, GuidText
<1>2. Len(GuidText) <= Len(q) /\ \A i \in 1 .. Len(GuidText) : GuidText[i] = q[i]
  BY <1>1, GuidIs, PrefixIs
<1>3. Len(GuidText) \in Nat /\ Len(q) \in Nat
  BY GuidIs, LenProperties DEF Text
<1>4. 1 \in 1 .. Len(GuidText) /\ Len(q) >= 1
  <2>1. Len(GuidText) >= 1
    BY GuidIs, Zenon
  <2> QED BY <1>2, <1>3, <2>1
<1> QED BY <1>2, <1>4, GuidIs, Zenon

(* What each form says of a device.                                        *)
LEMMA DeviceForms ==
  ASSUME NEW p \in Text, NEW q, q = Drop(p, 4)
  PROVE  /\ Under(Device({".", "?"}), p) <=> is_device_path(p)
         /\ Under(Device({"."}), p) <=> is_device_path(p) /\ p[3] = "."
         /\ is_device_path(p) => Len(p) >= 4 /\ q \in Text /\ p[3] \in {".", "?"}
         /\ Under(Device({".", "?"}) \odot {GuidText}, p) <=> is_device_path(p) /\ is_volume_guid(q)
         /\ Under(Device({".", "?"}) \odot Volumes \odot One(Sep), p) <=>
              is_device_path(p) /\ is_volume(q) /\ Begins(Drop(q, 2), Sep)
         /\ Under(Device({"."}) \odot {<<"UNC">>}, p) <=>
              is_device_path(p) /\ p[3] = "." /\ Begins(q, {"UNC"})
<1> DEFINE A == Device({".", "?"})
           B == Device({"."})
           D == is_device_path(p)
<1>1. {".", "?"} \subseteq Char /\ {"."} \subseteq Char /\ Sep \subseteq Char /\ {"UNC"} \subseteq Char
  BY CharSets
<1>2. HasLen(A, 4) /\ HasLen(B, 4)
  BY <1>1, DeviceForm
<1>3. Under(A, p) <=> Len(p) >= 4 /\ p[1] \in Sep /\ p[2] \in Sep /\ p[3] \in {".", "?"} /\ p[4] \in Sep
  BY <1>1, DeviceForm
<1>4. Under(B, p) <=> Len(p) >= 4 /\ p[1] \in Sep /\ p[2] \in Sep /\ p[3] \in {"."} /\ p[4] \in Sep
  BY <1>1, DeviceForm
<1>5. Under(A, p) <=> D
  BY <1>3, Zenon DEF is_device_path
<1>6. Under(B, p) <=> D /\ p[3] = "."
  BY <1>4, Zenon DEF is_device_path
<1>7. D => Len(p) >= 4 /\ p[3] \in {".", "?"}
  BY Zenon DEF is_device_path
<1>8. D => q \in Text /\ Len(q) = Len(p) - 4 /\ \A i \in 1 .. Len(p) - 4 : q[i] = p[4 + i]
  <2>1. SUFFICES ASSUME D PROVE 4 \in 0 .. Len(p)
    BY DropIs
  <2> QED BY <1>7, <2>1, LenProperties DEF Text
<1> HIDE DEF A, B, D
<1>9. Under(A \odot {GuidText}, p) <=> D /\ is_volume_guid(q)
  <2>1. {GuidText} \subseteq Text
    BY GuidIs
  <2>2. Under(A \odot {GuidText}, p) <=> Under(A, p) /\ Under({GuidText}, q)
    BY <1>2, <2>1, UnderJoin, Zenon
  <2>3. Under({GuidText}, q) <=> is_volume_guid(q)
    BY Zenon DEF Under, is_volume_guid, GuidText
  <2> QED BY <1>5, <2>2, <2>3, Zenon
<1>10. Under(A \odot Volumes, p) <=> D /\ is_volume(q)
  <2>1. Volumes \subseteq Text
    BY VolumesForm, Zenon DEF HasLen
  <2>2. Under(A \odot Volumes, p) <=> Under(A, p) /\ Under(Volumes, q)
    BY <1>2, <2>1, UnderJoin, Zenon
  <2> QED BY <1>5, <1>8, <2>2, VolumesForm, Zenon
<1>11. Under(A \odot Volumes \odot One(Sep), p) <=> D /\ is_volume(q) /\ Begins(Drop(q, 2), Sep)
  <2>1. HasLen(A \odot Volumes, 4 + 2)
    BY <1>2, VolumesForm, JoinLen, Zenon
  <2>2. HasLen(A \odot Volumes, 6)
    BY <2>1
  <2>3. Under(A \odot Volumes \odot One(Sep), p) <=>
          Under(A \odot Volumes, p) /\ Len(p) >= 6 + 1 /\ p[6 + 1] \in Sep
    BY <1>1, <2>2, UnderMore
  <2>4. ASSUME D, is_volume(q) PROVE Begins(Drop(q, 2), Sep) <=> Len(p) >= 6 + 1 /\ p[6 + 1] \in Sep
    <3>1. Len(q) >= 2
      BY <2>4, Zenon DEF is_volume
    <3>2. q \in Text /\ Len(q) \in Nat /\ 2 \in 0 .. Len(q)
      BY <1>8, <2>4, <3>1, LenProperties DEF Text
    <3> DEFINE r == Drop(q, 2)
    <3>3. r \in Text /\ Len(r) = Len(q) - 2 /\ \A i \in 1 .. Len(q) - 2 : r[i] = q[2 + i]
      BY <3>2, DropIs
    <3> HIDE DEF r
    <3>4. Begins(r, Sep) <=> Len(r) >= 1 /\ r[1] \in Sep
      BY <3>3, BeginsIs
    <3>5. Len(p) \in Nat /\ Len(q) = Len(p) - 4
      BY <1>8, <2>4, LenProperties DEF Text
    <3>6. Len(r) >= 1 <=> Len(p) >= 6 + 1
      BY <3>3, <3>5
    <3>7. Len(r) >= 1 => r[1] = q[3] /\ q[3] = p[6 + 1]
      <4>1. SUFFICES ASSUME Len(r) >= 1 PROVE r[1] = q[3] /\ q[3] = p[6 + 1]
        OBVIOUS
      <4>2. 1 \in 1 .. Len(q) - 2 /\ 3 \in 1 .. Len(p) - 4 /\ 2 + 1 = 3 /\ 4 + 3 = 6 + 1
        BY <3>3, <3>5, <4>1
      <4>3. r[1] = q[2 + 1]
        BY <3>3, <4>2, Zenon
      <4>4. q[3] = p[4 + 3]
        BY <1>8, <2>4, <4>2, Zenon
      <4> QED BY <4>2, <4>3, <4>4
    <3> QED BY <3>4, <3>6, <3>7, Zenon DEF r
  <2> QED BY <1>10, <2>3, <2>4, Zenon
<1>12. Under(B \odot {<<"UNC">>}, p) <=> D /\ p[3] = "." /\ Begins(q, {"UNC"})
  <2>1. One({"UNC"}) = {<<"UNC">>}
    BY DEF One
  <2>2. One({"UNC"}) \subseteq Text
    BY <1>1, OneLen DEF HasLen
  <2>3. Under(B \odot One({"UNC"}), p) <=> Under(B, p) /\ Under(One({"UNC"}), q)
    BY <1>2, <2>2, UnderJoin, Zenon
  <2>4. D => (Under(One({"UNC"}), q) <=> Begins(q, {"UNC"}))
    BY <1>1, <1>8, UnderOne, Zenon
  <2>5. Under(B \odot {<<"UNC">>}, p) <=> Under(B, p) /\ Under(One({"UNC"}), q)
    BY <2>1, <2>3, Zenon
  <2> QED BY <1>6, <2>4, <2>5, Zenon
<1> QED BY <1>5, <1>6, <1>7, <1>8, <1>9, <1>11, <1>12 DEF A, B, D

(* The answer, by what the path begins with.                               *)
DosTypes == {"Unknown", "Undefined", "LegacyDevice", "DosDrive"}

LEMMA RootIs ==
  ASSUME NEW p \in Text
  PROVE  /\ Begins(p, Sep) <=> Under(One(Sep), p)
         /\ is_volume(p) => ~Begins(p, Sep)
         /\ is_device_path(p) => Begins(p, Sep)
         /\ is_nt_path(p) => Begins(p, Sep) /\ ~is_device_path(p)
         /\ Begins(p, Sep) => (Begins(Tail(p), Sep) <=> Len(p) >= 2 /\ p[2] \in Sep)
<1>1. Sep \subseteq Char
  BY CharSets
<1>2. Begins(p, Sep) <=> Len(p) >= 1 /\ p[1] \in Sep
  BY BeginsIs
<1>3. Begins(p, Sep) <=> Under(One(Sep), p)
  BY <1>1, UnderOne
<1>4. \A c \in Letter : c \notin Sep
  BY Zenon DEF Letter, Sep
<1>5. is_volume(p) => ~Begins(p, Sep)
  BY <1>2, <1>4, Zenon DEF is_volume
<1>6. Len(p) \in Nat
  BY LenProperties DEF Text
<1>7. Len(p) >= 4 => Len(p) >= 1
  BY <1>6
<1>8. is_device_path(p) => Begins(p, Sep)
  BY <1>2, <1>7, Zenon DEF is_device_path
<1>9. is_nt_path(p) => Begins(p, Sep)
  BY Zenon DEF is_nt_path
<1>10. is_nt_path(p) => ~is_device_path(p)
  <2>1. "?" \notin Sep /\ "GLOBAL" \notin Sep
    BY Zenon DEF Sep
  <2> QED BY <2>1, NtAt, Zenon DEF is_device_path
<1>11. ASSUME Begins(p, Sep) PROVE Begins(Tail(p), Sep) <=> Len(p) >= 2 /\ p[2] \in Sep
  <2> DEFINE q == Tail(p)
  <2>1. p # <<>>
    BY <1>11, Zenon DEF Begins
  <2>2. q \in Text /\ Len(q) = Len(p) - 1 /\ \A i \in 1 .. Len(q) : q[i] = p[i + 1]
    BY <2>1, HeadTailProperties DEF Text
  <2> HIDE DEF q
  <2>3. Begins(q, Sep) <=> Len(q) >= 1 /\ q[1] \in Sep
    BY <2>2, BeginsIs
  <2>4. (Len(q) >= 1 <=> Len(p) >= 2) /\ (Len(q) >= 1 => q[1] = p[2])
    BY <1>6, <2>2
  <2> QED BY <2>3, <2>4, Zenon DEF q
<1> QED BY <1>3, <1>5, <1>8, <1>9, <1>10, <1>11, Zenon

LEMMA DeviceKinds ==
  ASSUME NEW q \in Text
  PROVE  /\ is_volume(q) => ~is_volume_guid(q) /\ ~Begins(q, {"UNC"})
         /\ is_volume_guid(q) => ~Begins(q, {"UNC"})
<1>1. Begins(q, {"UNC"}) => q[1] = "UNC"
  BY Zenon DEF Begins
<1>2. is_volume_guid(q) => q[1] = "Volume{"
  BY GuidBegins, Zenon
<1>3. is_volume(q) => q[1] \in Letter
  BY Zenon DEF is_volume
<1>4. "UNC" \notin Letter /\ "Volume{" \notin Letter
  BY Zenon DEF Letter
<1> QED BY <1>1, <1>2, <1>3, <1>4, Zenon

LEMMA FormsHold ==
  ASSUME NEW p \in Text, \A q \in Text : deduce_dos_drive_type(q) \in DosTypes
  PROVE  FormTells(p, deduce_path_type(p))
<1> DEFINE t == deduce_path_type(p)
           R == Begins(p, Sep)
           V == is_volume(p)
           D == is_device_path(p)
           N == is_nt_path(p)
           q == Drop(p, 4)
           d == deduce_dos_drive_type(q)
           x == deduce_device_path_type(q, p[3])
<1>1. /\ Under(One(Sep), p) <=> R
      /\ V => ~R
      /\ D => R
      /\ N => R /\ ~D
      /\ R => (Begins(Tail(p), Sep) <=> Len(p) >= 2 /\ p[2] \in Sep)
  BY RootIs, Zenon
<1>2. /\ Under(Volumes, p) <=> V
      /\ p \in Volumes <=> V /\ Len(p) = 2
  BY VolumesForm, Zenon
<1>3. Under(Volumes \odot One(Sep), p) <=> V /\ Len(p) >= 3 /\ p[3] \in Sep
  <2>1. Under(Volumes \odot One(Sep), p) <=> Under(Volumes, p) /\ Len(p) >= 2 + 1 /\ p[2 + 1] \in Sep
    BY VolumesForm, CharSets, UnderMore
  <2>2. 2 + 1 = 3
    OBVIOUS
  <2> QED BY <1>2, <2>1, <2>2, Zenon
<1>4. V => Len(p) = 2 \/ Len(p) >= 3
  <2> DEFINE z == Len(p)
  <2>1. z \in Nat
    BY LenProperties DEF Text
  <2> HIDE DEF z
  <2>2. z >= 2 => z = 2 \/ z >= 3
    BY <2>1
  <2> USE DEF z
  <2> QED BY <2>2, Zenon DEF is_volume
<1>5. V => ~(Len(p) = 2 /\ Len(p) >= 3)
  <2>1. Len(p) = 2 => ~(Len(p) >= 3)
    OBVIOUS
  <2> QED BY <2>1
<1>6. Under(One(Sep) \odot One(Sep), p) <=> R /\ Len(p) >= 2 /\ p[2] \in Sep
  <2>1. HasLen(One(Sep), 1) /\ Sep \subseteq Char
    BY CharSets, OneLen, Zenon
  <2>2. Under(One(Sep) \odot One(Sep), p) <=> Under(One(Sep), p) /\ Len(p) >= 1 + 1 /\ p[1 + 1] \in Sep
    BY <2>1, UnderMore
  <2>3. 1 + 1 = 2
    OBVIOUS
  <2> QED BY <1>1, <2>2, <2>3, Zenon
<1>7. Under(One(Sep) \odot {<<"?", "?">>, <<"GLOBAL", "?", "?">>} \odot One(Sep), p) <=> N
  BY NtForm, Zenon DEF Nt
<1>8. /\ Under(Device({"."}), p) <=> D /\ p[3] = "."
      /\ D => q \in Text
      /\ Under(Device({".", "?"}) \odot {<<"Volume{">> \o guid \o <<"}">>}, p) <=> D /\ is_volume_guid(q)
      /\ Under(Device({".", "?"}) \odot Volumes \odot One(Sep), p) <=>
           D /\ is_volume(q) /\ Begins(Drop(q, 2), Sep)
      /\ Under(Device({"."}) \odot {<<"UNC">>}, p) <=> D /\ p[3] = "." /\ Begins(q, {"UNC"})
  BY DeviceForms, Zenon DEF GuidText
<1>9. D => /\ is_volume(q) => ~is_volume_guid(q) /\ ~Begins(q, {"UNC"})
           /\ is_volume_guid(q) => ~Begins(q, {"UNC"})
           /\ d \in DosTypes
  BY <1>8, DeviceKinds, Zenon
<1>10. x = IF is_volume(q) THEN IF Begins(Drop(q, 2), Sep) THEN "DosVolume" ELSE "Unknown"
           ELSE IF is_volume_guid(q) THEN "GUIDVolume"
           ELSE IF p[3] # "." THEN "Unknown"
           ELSE IF Begins(q, {"UNC"}) THEN "DeviceUNC" ELSE d
  BY Zenon DEF deduce_device_path_type
<1>11. ~R => t = IF ~V THEN "DirRel" ELSE IF Len(p) = 2 \/ p[3] \in Sep THEN "QualDOS" ELSE "DriveRel"
  BY Zenon DEF deduce_path_type
<1>12. R /\ D => t = x
  BY Zenon DEF deduce_path_type
<1>13. R /\ ~D => t = IF N THEN "NtNamespace"
                      ELSE IF is_unc_path(p) = "Undefined" THEN "Undefined"
                      ELSE IF is_unc_path(p) = "yes" THEN "UNCNamespace"
                      ELSE IF ~Begins(Tail(p), Sep) THEN "CurrDriveRel" ELSE "Unknown"
  BY Zenon DEF deduce_path_type
<1> HIDE DEF t, R, V, D, N, q, d, x
<1>14. ~R => t \in {"DirRel", "QualDOS", "DriveRel"}
  BY <1>11, Zenon
<1>15. R /\ ~D => t \in {"NtNamespace", "Undefined", "UNCNamespace", "CurrDriveRel", "Unknown"}
  BY <1>13, Zenon
<1>16. R /\ D => /\ t = "DosVolume" <=> is_volume(q) /\ Begins(Drop(q, 2), Sep)
                 /\ t = "GUIDVolume" <=> is_volume_guid(q)
                 /\ t = "DeviceUNC" <=> p[3] = "." /\ Begins(q, {"UNC"})
                 /\ t \in {"DosDrive", "LegacyDevice"} => p[3] = "."
                 /\ t \in DosTypes \cup {"DosVolume", "GUIDVolume", "DeviceUNC"}
  BY <1>9, <1>10, <1>12, Zenon DEF DosTypes
<1>17. t = "NtNamespace" <=> N
  BY <1>1, <1>13, <1>14, <1>16, Zenon DEF DosTypes
<1>18. t = "GUIDVolume" <=> D /\ is_volume_guid(q)
  BY <1>1, <1>14, <1>15, <1>16, Zenon
<1>19. t = "DosVolume" <=> D /\ is_volume(q) /\ Begins(Drop(q, 2), Sep)
  BY <1>1, <1>14, <1>15, <1>16, Zenon
<1>20. t = "DeviceUNC" <=> D /\ p[3] = "." /\ Begins(q, {"UNC"})
  BY <1>1, <1>14, <1>15, <1>16, Zenon
<1>21. t = "QualDOS" <=> V /\ (Len(p) = 2 \/ p[3] \in Sep)
  BY <1>1, <1>11, <1>15, <1>16, Zenon DEF DosTypes
<1>22. t = "QualDOS" <=> p \in Volumes \/ Under(Volumes \odot One(Sep), p)
  BY <1>2, <1>3, <1>4, <1>21, Zenon
<1>23. t = "DriveRel" <=> V /\ t # "QualDOS"
  BY <1>1, <1>11, <1>15, <1>16, Zenon DEF DosTypes
<1>24. t = "DirRel" <=> ~R /\ ~V
  BY <1>1, <1>11, <1>15, <1>16, Zenon DEF DosTypes
<1>25. t = "CurrDriveRel" => R /\ ~(Len(p) >= 2 /\ p[2] \in Sep)
  BY <1>1, <1>13, <1>14, <1>16, Zenon DEF DosTypes
<1>26. t \in {"DosDrive", "LegacyDevice"} => D /\ p[3] = "."
  BY <1>14, <1>15, <1>16, Zenon
<1> QED
  BY <1>1, <1>2, <1>6, <1>7, <1>8, <1>17, <1>18, <1>19, <1>20, <1>22, <1>23, <1>24, <1>25, <1>26,
     Zenon DEF FormTells, t

-----------------------------------------------------------------------------
(* The name at the front of a path, and names that are reserved.           *)
LEMMA NameIs ==
  ASSUME NEW q \in Text, NEW n, n = Until(q, Sep)
  PROVE  /\ Stops(q, Sep, n) /\ n \in 0 .. Len(q)
         /\ DriveName(q) \in Text /\ Len(DriveName(q)) = n
         /\ \A i \in 1 .. n : DriveName(q)[i] = q[i]
<1>1. Stops(q, Sep, n)
  BY UntilStops
<1>2. n \in 0 .. Len(q)
  BY <1>1, Zenon DEF Stops, Free
<1>3. DriveName(q) = SubSeq(q, 1, n)
  BY Zenon DEF DriveName
<1> QED BY <1>1, <1>2, <1>3, FirstIs

Ends(r, n) == Len(r) > n => r[n + 1] \in Sep

LEMMA NameOf ==
  ASSUME NEW w \in Text, \A i \in 1 .. Len(w) : w[i] \notin Sep, NEW r \in Text
  PROVE  DriveName(r) = w <=> IsPrefix(w, r) /\ Ends(r, Len(w))
<1> DEFINE n == Len(w)
           z == Len(r)
           u == Until(r, Sep)
           S == DriveName(r)
<1>1. n \in Nat /\ z \in Nat
  BY LenProperties DEF Text
<1>2. IsPrefix(w, r) <=> n <= z /\ \A i \in 1 .. n : w[i] = r[i]
  BY PrefixIs
<1>3. /\ Stops(r, Sep, u) /\ u \in 0 .. z
      /\ S \in Text /\ Len(S) = u /\ \A i \in 1 .. u : S[i] = r[i]
  BY NameIs, Zenon
<1> HIDE DEF S, u, z, n
<1>4. ASSUME S = w PROVE IsPrefix(w, r) /\ Ends(r, n)
  <2>1. u = n
    BY <1>3, <1>4 DEF n
  <2>2. IsPrefix(w, r)
    BY <1>1, <1>2, <1>3, <1>4, <2>1
  <2>3. n < Len(r) => r[n + 1] \in Sep
    BY <1>3, <2>1, Zenon DEF Stops
  <2>4. Len(r) > n <=> n < Len(r)
    BY <1>1 DEF z
  <2> QED BY <2>2, <2>3, <2>4, Zenon DEF Ends
<1>5. ASSUME IsPrefix(w, r), Ends(r, n) PROVE S = w
  <2>1. n <= z /\ \A i \in 1 .. n : w[i] = r[i]
    BY <1>2, <1>5
  <2>2. Free(r, Sep, n)
    <3>1. \A i \in 1 .. n : w[i] \notin Sep
      BY DEF n
    <3>2. \A i \in 1 .. n : r[i] \notin Sep
      BY <2>1, <3>1
    <3>3. n \in 0 .. Len(r)
      BY <1>1, <2>1 DEF z
    <3> QED BY <3>2, <3>3 DEF Free
  <2>3. n < Len(r) => r[n + 1] \in Sep
    BY <1>1, <1>5 DEF Ends, z
  <2>4. u = n
    BY <2>2, <2>3, UntilIs, Zenon DEF Stops, u
  <2>5. Len(S) = Len(w) /\ \A i \in 1 .. Len(S) : S[i] = w[i]
    BY <1>3, <2>1, <2>4 DEF n
  <2> QED BY <1>3, <2>5, SameText
<1> QED BY <1>4, <1>5 DEF S, n

Coms == One({"COM", "LPT"}) \odot One(Digit)

(* What a reserved name begins with.                                       *)
Reserves == {"CON", "PRN", "COM", "LPT"}

LEMMA ReservedIs ==
  /\ Reserved \subseteq Text
  /\ \A S \in Text : is_legacy_device(S) <=> S \in Reserved
  /\ \A w \in Reserved : /\ Len(w) >= 1 /\ w[1] \in Reserves
                         /\ \A i \in 1 .. Len(w) : w[i] \in Alnum /\ w[i] \notin Sep
<1>1. "CON" \in Char /\ "PRN" \in Char /\ {"COM", "LPT"} \subseteq Char /\ Digit \subseteq Char
  BY CharSets
<1>2. HasLen(One({"COM", "LPT"}), 1) /\ HasLen(One(Digit), 1)
  BY <1>1, OneLen
<1>3. HasLen(Coms, 2)
  <2>1. HasLen(Coms, 1 + 1)
    BY <1>2, JoinLen, Zenon DEF Coms
  <2> QED BY <2>1
<1>4. ASSUME NEW c \in {"CON", "PRN"}
      PROVE  <<c>> \in Text /\ Len(<<c>>) = 1 /\ <<c>>[1] = c
  BY <1>1, OneText, Zenon
<1>5. Reserved = One({"CON", "PRN"}) \cup Coms
  BY Zenon DEF Reserved, Coms
<1>13. \A x : x \in One({"CON", "PRN"}) <=> x \in {<<"CON">>, <<"PRN">>}
  BY Zenon DEF One
<1>6. ASSUME NEW S \in Text
      PROVE  S \in Coms <=> Len(S) = 2 /\ S[1] \in {"COM", "LPT"} /\ S[2] \in Digit
  <2>1. S \in Coms <=> Under(Coms, S) /\ Len(S) = 2
    BY <1>3, UnderWhole
  <2>2. Under(Coms, S) <=> Under(One({"COM", "LPT"}), S) /\ Len(S) >= 1 + 1 /\ S[1 + 1] \in Digit
    BY <1>1, <1>2, UnderMore DEF Coms
  <2>3. Under(One({"COM", "LPT"}), S) <=> Len(S) >= 1 /\ S[1] \in {"COM", "LPT"}
    BY <1>1, UnderOne, BeginsIs, Zenon
  <2>4. 1 + 1 = 2
    OBVIOUS
  <2>5. Len(S) = 2 => Len(S) >= 1 /\ Len(S) >= 2
    OBVIOUS
  <2> QED BY <2>1, <2>2, <2>3, <2>4, <2>5, Zenon
<1>7. (\A c \in Reserves : c \notin Sep) /\ \A c \in Digit : c \notin Sep
  BY Zenon DEF Sep, Digit, Value, Reserves
<1>8. Reserves \subseteq Alnum /\ Digit \subseteq Alnum
  BY Zenon DEF Alnum, Alpha, Words, HexWords, Reserves
<1>9. Coms \subseteq Text
  BY <1>3, Zenon DEF HasLen
<1>10. ASSUME NEW S \in Text PROVE is_legacy_device(S) <=> S \in Reserved
  BY <1>5, <1>6, <1>13, Zenon DEF is_legacy_device
<1>11. ASSUME NEW w \in Coms
       PROVE  /\ Len(w) >= 1 /\ w[1] \in Reserves
              /\ \A i \in 1 .. Len(w) : w[i] \in Alnum /\ w[i] \notin Sep
  <2>1. Len(w) = 2 /\ w[1] \in {"COM", "LPT"} /\ w[2] \in Digit
    BY <1>6, <1>9, Zenon
  <2>2. Len(w) = 2
    BY <2>1, Zenon
  <2>3. Len(w) >= 1 /\ \A i \in 1 .. Len(w) : i = 1 \/ i = 2
    BY <2>2
  <2>4. w[1] \in Reserves
    BY <2>1, Zenon DEF Reserves
  <2> QED BY <1>7, <1>8, <2>1, <2>3, <2>4, Zenon
<1>12. ASSUME NEW c \in {"CON", "PRN"}, NEW w, w = <<c>>
       PROVE  /\ Len(w) >= 1 /\ w[1] \in Reserves
              /\ \A i \in 1 .. Len(w) : w[i] \in Alnum /\ w[i] \notin Sep
  <2>1. w[1] \in Reserves
    BY <1>4, <1>12, Zenon DEF Reserves
  <2>2. Len(w) = 1
    BY <1>4, <1>12, Zenon
  <2>3. Len(w) >= 1 /\ \A i \in 1 .. Len(w) : i = 1
    BY <2>2
  <2> QED BY <1>7, <1>8, <2>1, <2>3, Zenon
<1>14. \A w \in Reserved : w \in Coms \/ \E c \in {"CON", "PRN"} : w = <<c>>
  BY <1>5, Zenon DEF One
<1>15. Reserved \subseteq Text
  BY <1>4, <1>9, <1>14, Zenon
<1> QED BY <1>10, <1>11, <1>12, <1>14, <1>15, Zenon

LEMMA JoinIn == ASSUME NEW S, NEW T, NEW s \in S, NEW t \in T PROVE s \o t \in S \odot T
BY DEF \odot

(* A reserved name alone or before a separator.                            *)
IsReserved(r) == r \in Reserved \/ Under(Reserved \odot One(Sep), r)

LEMMA ReservedName ==
  ASSUME NEW r \in Text PROVE IsReserved(r) <=> DriveName(r) \in Reserved
<1>1. ASSUME NEW w \in Reserved PROVE w \in Text /\ \A i \in 1 .. Len(w) : w[i] \notin Sep
  BY ReservedIs, Zenon
<1>2. ASSUME NEW w \in Reserved
      PROVE  DriveName(r) = w <=> r = w \/ \E c \in Sep : IsPrefix(w \o <<c>>, r)
  <2> DEFINE n == Len(w)
             z == Len(r)
             q == Drop(r, n)
  <2>1. w \in Text /\ n \in Nat /\ z \in Nat
    BY <1>1, LenProperties DEF Text
  <2>2. DriveName(r) = w <=> IsPrefix(w, r) /\ Ends(r, n)
    BY <1>1, NameOf
  <2>3. IsPrefix(w, r) <=> n <= z /\ \A i \in 1 .. n : w[i] = r[i]
    BY <2>1, PrefixIs
  <2>4. r = w <=> IsPrefix(w, r) /\ z = n
    <3>1. r = w => z = n /\ n <= z /\ \A i \in 1 .. n : w[i] = r[i]
      BY <2>1
    <3>2. ASSUME z = n, \A i \in 1 .. n : w[i] = r[i] PROVE r = w
      BY <2>1, <3>2, SameText
    <3> QED BY <2>3, <3>1, <3>2
  <2>5. ASSUME NEW c \in Sep
        PROVE  IsPrefix(w \o <<c>>, r) <=> IsPrefix(w, r) /\ IsPrefix(<<c>>, q)
    <3>1. <<c>> \in Text
      BY CharSets, OneText, Zenon
    <3> QED BY <2>1, <3>1, PrefixJoin
  <2>6. ASSUME IsPrefix(w, r)
        PROVE  (\E c \in Sep : IsPrefix(<<c>>, q)) <=> z > n /\ r[n + 1] \in Sep
    <3>1. n \in 0 .. z
      BY <2>1, <2>3, <2>6
    <3>2. q \in Text /\ Len(q) = z - n /\ \A i \in 1 .. z - n : q[i] = r[n + i]
      BY <3>1, DropIs
    <3> HIDE DEF q, n, z
    <3>3. (\E c \in Sep : IsPrefix(<<c>>, q)) <=> Len(q) >= 1 /\ q[1] \in Sep
      <4>1. Under(One(Sep), q) <=> Len(q) >= 1 /\ q[1] \in Sep
        BY <3>2, CharSets, UnderOne, BeginsIs, Zenon
      <4> QED BY <4>1, Zenon DEF Under, One
    <3>4. (Len(q) >= 1 <=> z > n) /\ (z > n => q[1] = r[n + 1])
      BY <2>1, <3>2
    <3> QED BY <3>3, <3>4, Zenon
  <2>7. IsPrefix(w, r) => z = n \/ z > n
    BY <2>1, <2>3
  <2>8. Ends(r, n) <=> (z > n => r[n + 1] \in Sep)
    BY Zenon DEF Ends
  <2>9. z = n => ~(z > n)
    BY <2>1
  <2> HIDE DEF q, n, z
  <2> QED BY <2>2, <2>4, <2>5, <2>6, <2>7, <2>8, <2>9, Zenon
<1>3. Under(Reserved \odot One(Sep), r) <=> \E w \in Reserved : \E c \in Sep : IsPrefix(w \o <<c>>, r)
  <2> DEFINE U == Reserved \odot One(Sep)
  <2>1. ASSUME NEW w \in Reserved, NEW c \in Sep PROVE w \o <<c>> \in U
    <3>1. <<c>> \in One(Sep)
      BY Zenon DEF One
    <3> QED BY <3>1, JoinIn, Zenon
  <2>2. ASSUME NEW u \in U PROVE \E w \in Reserved : \E c \in Sep : u = w \o <<c>>
    <3>1. PICK w \in Reserved, s \in One(Sep) : u = w \o s
      BY DEF \odot
    <3>2. PICK c \in Sep : s = <<c>>
      BY Zenon DEF One
    <3> QED BY <3>1, <3>2, Zenon
  <2> HIDE DEF U
  <2>3. Under(U, r) <=> \E w \in Reserved : \E c \in Sep : IsPrefix(w \o <<c>>, r)
    BY <2>1, <2>2, Zenon DEF Under
  <2> QED BY <2>3 DEF U
<1> QED BY <1>2, <1>3, Zenon DEF IsReserved

-----------------------------------------------------------------------------
(* deduce_dos_drive_type(): the equation of the module and the loop.       *)
Unnamed(q)   == DriveName(q) = <<>> \/ \E i \in 1 .. Len(DriveName(q)) : DriveName(q)[i] \notin Alnum
IsLink(q)    == ~Unnamed(q) /\ DriveName(q) = <<"DosDevices">> /\ q # DriveName(q)
DosDomain(p) == 0 .. Len(p)
DosStops(p)  == {k \in DosDomain(p) : ~IsLink(Drop(p, k))}
DosGo(p)     == [k \in DosDomain(p) |-> k + 2]
DosLeft(p)   == [k \in DosDomain(p) |-> Len(p) - k]
DosSays(q)   == IF Unnamed(q) THEN "Unknown"
                ELSE IF DriveName(q) = <<"DosDevices">> THEN "Undefined"
                ELSE IF is_legacy_device(DriveName(q)) THEN "LegacyDevice" ELSE "DosDrive"
DosAnswer(p) == [k \in DosDomain(p) |-> DosSays(Drop(p, k))]

DosFrom(f, p) ==
  f = [k \in 0 .. Len(p) |->
         IF DriveName(Drop(p, k)) = <<>>
              \/ \E i \in 1 .. Len(DriveName(Drop(p, k))) : DriveName(Drop(p, k))[i] \notin Alnum
         THEN "Unknown"
         ELSE IF DriveName(Drop(p, k)) = <<"DosDevices">>
         THEN IF Drop(p, k) = DriveName(Drop(p, k)) THEN "Undefined" ELSE f[k + 2]
         ELSE IF is_legacy_device(DriveName(Drop(p, k))) THEN "LegacyDevice" ELSE "DosDrive"]

LEMMA DosFromLoops ==
  ASSUME NEW p, NEW f
  PROVE  DosFrom(f, p) <=> Loops(f, DosDomain(p), DosStops(p), DosAnswer(p), DosGo(p))
<1> DEFINE Here(k) == IF Unnamed(Drop(p, k)) THEN "Unknown"
                      ELSE IF DriveName(Drop(p, k)) = <<"DosDevices">>
                      THEN IF Drop(p, k) = DriveName(Drop(p, k)) THEN "Undefined" ELSE f[k + 2]
                      ELSE IF is_legacy_device(DriveName(Drop(p, k))) THEN "LegacyDevice"
                      ELSE "DosDrive"
           There(k) == IF k \in DosStops(p) THEN DosAnswer(p)[k] ELSE f[DosGo(p)[k]]
<1>1. ASSUME NEW k \in DosDomain(p) PROVE Here(k) = There(k)
  <2>1. k \in DosStops(p) <=> ~IsLink(Drop(p, k))
    BY Zenon DEF DosStops
  <2>2. DosAnswer(p)[k] = DosSays(Drop(p, k)) /\ DosGo(p)[k] = k + 2
    BY Zenon DEF DosAnswer, DosGo
  <2> QED BY <2>1, <2>2, Zenon DEF IsLink, DosSays
<1>2. DosFrom(f, p) <=> f = [k \in DosDomain(p) |-> Here(k)]
  BY Zenon DEF DosFrom, DosDomain, Unnamed
<1>3. Loops(f, DosDomain(p), DosStops(p), DosAnswer(p), DosGo(p)) <=>
        f = [k \in DosDomain(p) |-> There(k)]
  BY Zenon DEF Loops
<1> HIDE DEF Here, There
<1>4. [k \in DosDomain(p) |-> Here(k)] = [k \in DosDomain(p) |-> There(k)]
  BY <1>1, Zenon
<1> QED BY <1>2, <1>3, <1>4, Zenon

(* The characters of a link.                                               *)
LEMMA LinkIs ==
  ASSUME NEW q \in Text
  PROVE  /\ IsLink(q) <=> Len(q) >= 2 /\ q[1] = "DosDevices" /\ q[2] \in Sep
         /\ DriveName(q) = <<"DosDevices">> => q[1] = "DosDevices"
<1> DEFINE w == <<"DosDevices">>
           S == DriveName(q)
<1>1. "DosDevices" \in Char /\ "DosDevices" \notin Sep /\ "DosDevices" \in Alnum
  BY Zenon DEF Char, Alnum, Alpha, Words, HexWords, Sep
<1>2. w \in Text /\ Len(w) = 1 /\ w[1] = "DosDevices"
  BY <1>1, OneText, Zenon
<1>3. w # <<>>
  OBVIOUS
<1>4. q = S <=> Len(q) = Len(S)
  <2>1. S \in Text /\ Len(S) = Until(q, Sep) /\ \A i \in 1 .. Until(q, Sep) : S[i] = q[i]
    BY NameIs, Zenon
  <2> HIDE DEF S
  <2>2. ASSUME Len(q) = Len(S) PROVE q = S
    <3>1. \A i \in 1 .. Len(q) : q[i] = S[i]
      BY <2>1, <2>2
    <3> QED BY <2>1, <2>2, <3>1, SameText
  <2> QED BY <2>2, Zenon
<1>5. Len(q) \in Nat
  BY LenProperties DEF Text
<1> HIDE DEF w
<1>6. Len(w) = 1
  BY <1>2, Zenon
<1>7. \A i \in 1 .. Len(w) : i = 1
  BY <1>6
<1>8. \A i \in 1 .. Len(w) : w[i] \notin Sep /\ w[i] \in Alnum
  BY <1>1, <1>2, <1>7, Zenon
<1>9. S = w <=> IsPrefix(w, q) /\ Ends(q, Len(w))
  BY <1>2, <1>8, NameOf, Zenon
<1>10. IsPrefix(w, q) <=> Len(q) >= 1 /\ q[1] = "DosDevices"
  <2>1. IsPrefix(w, q) <=> Len(w) <= Len(q) /\ \A i \in 1 .. Len(w) : w[i] = q[i]
    BY <1>2, PrefixIs, Zenon
  <2>2. (Len(w) <= Len(q) <=> Len(q) >= 1) /\ 1 \in 1 .. Len(w)
    BY <1>5, <1>6
  <2> QED BY <1>2, <1>7, <2>1, <2>2, Zenon
<1>11. Ends(q, Len(w)) <=> (Len(q) >= 2 => q[2] \in Sep)
  <2>1. (Len(q) > Len(w) <=> Len(q) >= 2) /\ Len(w) + 1 = 2
    BY <1>5, <1>6
  <2> QED BY <2>1, Zenon DEF Ends
<1>12. S = w => (q # S <=> Len(q) # 1)
  BY <1>4, <1>6, Zenon
<1>13. Len(q) >= 1 /\ Len(q) # 1 <=> Len(q) >= 2
  <2> DEFINE z == Len(q)
  <2> HIDE DEF z
  <2>1. z \in Nat => (z >= 1 /\ z # 1 <=> z >= 2)
    OBVIOUS
  <2> QED BY <1>5, <2>1 DEF z
<1>14. S = w => ~Unnamed(q)
  BY <1>3, <1>8, Zenon DEF Unnamed, w
<1> QED BY <1>9, <1>10, <1>11, <1>12, <1>13, <1>14, Zenon DEF IsLink, w

LEMMA DosShrinks ==
  ASSUME NEW p \in Text PROVE Shrinks(DosDomain(p), DosStops(p), DosGo(p), DosLeft(p))
<1>1. Len(p) \in Nat
  BY LenProperties DEF Text
<1>2. DosLeft(p) \in [DosDomain(p) -> Nat]
  BY <1>1 DEF DosLeft, DosDomain
<1>3. ASSUME NEW k \in DosDomain(p), k \notin DosStops(p)
      PROVE  DosGo(p)[k] \in DosDomain(p) /\ DosLeft(p)[DosGo(p)[k]] < DosLeft(p)[k]
  <2>1. k \in 0 .. Len(p)
    BY DEF DosDomain
  <2>2. Drop(p, k) \in Text /\ Len(Drop(p, k)) = Len(p) - k
    BY <2>1, DropIs
  <2>3. IsLink(Drop(p, k))
    BY <1>3, Zenon DEF DosStops
  <2>4. Len(Drop(p, k)) >= 2
    BY <2>2, <2>3, LinkIs, Zenon
  <2>5. k + 2 \in 0 .. Len(p) /\ Len(p) - (k + 2) < Len(p) - k
    BY <1>1, <2>1, <2>2, <2>4
  <2> QED BY <2>1, <2>5 DEF DosGo, DosLeft, DosDomain
<1> QED BY <1>2, <1>3, Zenon DEF Shrinks

LEMMA DosLoops ==
  ASSUME NEW p \in Text
  PROVE  \E f : /\ Loops(f, DosDomain(p), DosStops(p), DosAnswer(p), DosGo(p))
                /\ deduce_dos_drive_type(p) = f[0]
<1> DEFINE from == CHOOSE f : DosFrom(f, p)
<1>1. DosAnswer(p) \in [DosDomain(p) -> DosTypes]
  <2>1. ASSUME NEW q PROVE DosSays(q) \in DosTypes
    BY Zenon DEF DosSays, DosTypes
  <2> QED BY <2>1 DEF DosAnswer
<1>2. DosTypes # {}
  BY Zenon DEF DosTypes
<1>3. \E f : Loops(f, DosDomain(p), DosStops(p), DosAnswer(p), DosGo(p))
  BY <1>1, <1>2, DosShrinks, LoopExists, Zenon
<1>4. DosFrom(from, p)
  BY <1>3, DosFromLoops, Zenon
<1>5. deduce_dos_drive_type(p) = from[0]
  BY Zenon DEF deduce_dos_drive_type, DosFrom
<1> QED BY <1>4, <1>5, DosFromLoops, Zenon

LEMMA DosTyped == ASSUME NEW p \in Text PROVE deduce_dos_drive_type(p) \in DosTypes
<1> DEFINE D == DosDomain(p)
<1>1. PICK f : /\ Loops(f, D, DosStops(p), DosAnswer(p), DosGo(p))
               /\ deduce_dos_drive_type(p) = f[0]
  BY DosLoops
<1>2. Keeps(D, DosTypes, DosStops(p), DosAnswer(p), DosGo(p))
  <2>1. ASSUME NEW q PROVE DosSays(q) \in DosTypes
    BY Zenon DEF DosSays, DosTypes
  <2>2. ASSUME NEW k \in D PROVE DosAnswer(p)[k] \in DosTypes
    BY <2>1 DEF DosAnswer
  <2>3. ASSUME NEW k \in D, k \notin DosStops(p) PROVE DosGo(p)[k] \in D
    BY <2>3, DosShrinks DEF Shrinks
  <2> QED BY <2>2, <2>3, Zenon DEF Keeps
<1>3. D \subseteq D
  OBVIOUS
<1>4. Gives(f, D, DosTypes)
  BY <1>1, <1>2, <1>3, DosShrinks, LoopAnswers, Zenon
<1>5. 0 \in D
  BY LenProperties DEF Text, DosDomain
<1> QED BY <1>1, <1>4, <1>5, Zenon DEF Gives

(* What is said of a path is said of what follows all its links.           *)
Says(r, v) == ~IsLink(r) /\ DosSays(r) = v

LEMMA DosIs ==
  ASSUME NEW p \in Text, NEW v
  PROVE  deduce_dos_drive_type(p) = v <=> \E n \in Links(p) : Says(Drop(p, 2 * n), v)
<1> DEFINE D == DosDomain(p)
           P == {2 * n : n \in Links(p)}
           Q == DosTypes \ {v}
           z == Len(p)
<1>1. PICK f : /\ Loops(f, D, DosStops(p), DosAnswer(p), DosGo(p))
               /\ deduce_dos_drive_type(p) = f[0]
  BY DosLoops
<1>2. z \in Nat
  BY LenProperties DEF Text
<1>3. \A n \in Links(p) : /\ n \in Nat /\ 2 * n \in D /\ 2 * n \in 0 .. z
                          /\ \A i \in 1 .. n : p[2 * i - 1] = "DosDevices" /\ p[2 * i] \in Sep
  BY <1>2 DEF Links, DosDomain
<1>4. ASSUME NEW k \in 0 .. z
      PROVE  /\ Drop(p, k) \in Text
             /\ IsLink(Drop(p, k)) <=> k + 2 <= z /\ p[k + 1] = "DosDevices" /\ p[k + 2] \in Sep
  <2> DEFINE q == Drop(p, k)
  <2>1. q \in Text /\ Len(q) = z - k /\ \A i \in 1 .. z - k : q[i] = p[k + i]
    BY DropIs
  <2> HIDE DEF q
  <2>2. (Len(q) >= 2 <=> k + 2 <= z) /\ (Len(q) >= 2 => q[1] = p[k + 1] /\ q[2] = p[k + 2])
    BY <1>2, <2>1
  <2> QED BY <2>1, <2>2, LinkIs, Zenon DEF q
<1>5. ASSUME ~\E n \in Links(p) : Says(Drop(p, 2 * n), v) PROVE deduce_dos_drive_type(p) # v
  <2>1. ASSUME NEW k \in P PROVE IF k \in DosStops(p) THEN DosAnswer(p)[k] \in Q ELSE DosGo(p)[k] \in P
    <3>1. PICK n \in Links(p) : k = 2 * n
      OBVIOUS
    <3>2. k \in D /\ k \in 0 .. z /\ n \in Nat
      BY <1>3, <3>1
    <3>3. CASE k \in DosStops(p)
      <4>1. ~IsLink(Drop(p, k)) /\ Drop(p, k) \in Text
        BY <1>4, <3>2, <3>3, Zenon DEF DosStops
      <4>2. DosSays(Drop(p, k)) # v
        BY <1>5, <3>1, <4>1, Zenon DEF Says
      <4>3. DosAnswer(p)[k] = DosSays(Drop(p, k))
        BY <3>2, Zenon DEF DosAnswer
      <4>4. DosSays(Drop(p, k)) \in DosTypes
        BY Zenon DEF DosSays, DosTypes
      <4> QED BY <3>3, <4>2, <4>3, <4>4, Zenon
    <3>4. CASE k \notin DosStops(p)
      <4>1. k + 2 <= z /\ p[k + 1] = "DosDevices" /\ p[k + 2] \in Sep
        BY <1>4, <3>2, <3>4, Zenon DEF DosStops
      <4>2. n + 1 \in Links(p)
        <5>1. n + 1 \in 0 .. z /\ 2 * (n + 1) <= z
          <6>1. k + 2 <= z
            BY <4>1, Zenon
          <6> QED BY <1>2, <3>1, <3>2, <6>1
        <5>2. ASSUME NEW i \in 1 .. n + 1 PROVE p[2 * i - 1] = "DosDevices" /\ p[2 * i] \in Sep
          <6>1. CASE i \in 1 .. n
            BY <1>3, <6>1, Zenon
          <6>2. CASE i = n + 1
            <7>1. 2 * i - 1 = k + 1 /\ 2 * i = k + 2
              BY <3>1, <3>2, <6>2
            <7> QED BY <4>1, <7>1, Zenon
          <6>3. i \in 1 .. n \/ i = n + 1
            BY <3>2
          <6> QED BY <6>1, <6>2, <6>3
        <5> QED BY <5>1, <5>2, Zenon DEF Links
      <4>3. DosGo(p)[k] = k + 2 /\ k + 2 = 2 * (n + 1)
        BY <3>1, <3>2 DEF DosGo
      <4> QED BY <3>4, <4>2, <4>3
    <3> QED BY <3>3, <3>4, Zenon
  <2>2. Keeps(P, Q, DosStops(p), DosAnswer(p), DosGo(p))
    BY <2>1, Zenon DEF Keeps
  <2>3. P \subseteq D
    BY <1>3
  <2>4. 0 \in P
    <3>1. 0 \in Links(p) /\ 0 = 2 * 0
      BY <1>2 DEF Links
    <3> QED BY <3>1
  <2> HIDE DEF P, Q, D
  <2>5. Gives(f, P, Q)
    BY <1>1, <2>2, <2>3, DosShrinks, LoopAnswers, Zenon DEF D
  <2>6. f[0] \in Q
    BY <2>4, <2>5, Zenon DEF Gives
  <2> QED BY <1>1, <2>6, Zenon DEF Q
<1>6. ASSUME NEW n \in Links(p), Says(Drop(p, 2 * n), v) PROVE deduce_dos_drive_type(p) = v
  <2>1. n \in Nat /\ 2 * n \in 0 .. z
    BY <1>3
  <2>2. ASSUME NEW k \in 0 .. z
        PROVE  f[k] = IF IsLink(Drop(p, k)) THEN f[k + 2] ELSE DosSays(Drop(p, k))
    <3>1. k \in D
      BY DEF DosDomain
    <3>2. f[k] = IF k \in DosStops(p) THEN DosAnswer(p)[k] ELSE f[DosGo(p)[k]]
      BY <1>1, <3>1, Zenon DEF Loops
    <3>3. DosAnswer(p)[k] = DosSays(Drop(p, k)) /\ DosGo(p)[k] = k + 2
      BY <3>1, Zenon DEF DosAnswer, DosGo
    <3>4. k \in DosStops(p) <=> ~IsLink(Drop(p, k))
      BY <3>1, Zenon DEF DosStops
    <3> QED BY <3>2, <3>3, <3>4, Zenon
  <2> DEFINE T == {j \in Nat : j <= n => f[2 * (n - j)] = v}
  <2>3. 0 \in T
    <3>1. ~IsLink(Drop(p, 2 * n)) /\ DosSays(Drop(p, 2 * n)) = v
      BY <1>6, Zenon DEF Says
    <3>2. f[2 * n] = DosSays(Drop(p, 2 * n))
      BY <2>1, <2>2, <3>1, Zenon
    <3>3. f[2 * n] = v
      BY <3>1, <3>2, Zenon
    <3>4. 2 * (n - 0) = 2 * n /\ 0 \in Nat
      BY <2>1
    <3> QED BY <3>3, <3>4, Zenon
  <2>4. ASSUME NEW j \in Nat, j \in T PROVE j + 1 \in T
    <3>1. SUFFICES ASSUME j + 1 <= n PROVE f[2 * (n - (j + 1))] = v
      OBVIOUS
    <3> DEFINE k == 2 * (n - (j + 1))
               i == n - j
    <3>2. /\ j <= n /\ k \in 0 .. z /\ i \in 1 .. n /\ k + 1 = 2 * i - 1 /\ k + 2 = 2 * i
          /\ k + 2 <= z /\ k + 2 = 2 * (n - j)
      BY <1>2, <2>1, <3>1
    <3>3. f[2 * (n - j)] = v
      BY <2>4, <3>2, Zenon
    <3>4. p[2 * i - 1] = "DosDevices" /\ p[2 * i] \in Sep
      BY <1>3, <3>2, Zenon
    <3> HIDE DEF k, i
    <3>5. IsLink(Drop(p, k))
      BY <1>4, <3>2, <3>4, Zenon
    <3>6. f[k] = f[k + 2]
      BY <2>2, <3>2, <3>5, Zenon
    <3> QED BY <3>2, <3>3, <3>6, Zenon DEF k
  <2> HIDE DEF T
  <2>5. n \in T
    BY <2>1, <2>3, <2>4, Induct
  <2>6. n <= n /\ 2 * (n - n) = 0
    BY <2>1
  <2>7. f[2 * (n - n)] = v
    BY <2>5, <2>6, Zenon DEF T
  <2> QED BY <1>1, <2>6, <2>7, Zenon
<1> QED BY <1>5, <1>6, Zenon

LEMMA SaysReserved ==
  ASSUME NEW q \in Text PROVE Says(q, "LegacyDevice") <=> IsReserved(q)
<1> DEFINE S == DriveName(q)
<1>1. S \in Text
  BY NameIs, Zenon
<1>2. IsReserved(q) <=> S \in Reserved
  BY ReservedName
<1>3. is_legacy_device(S) <=> S \in Reserved
  BY <1>1, ReservedIs, Zenon
<1> HIDE DEF S
<1>4. ASSUME S \in Reserved PROVE S # <<>> /\ (\A i \in 1 .. Len(S) : S[i] \in Alnum) /\ S # <<"DosDevices">>
  <2>1. /\ Len(S) >= 1 /\ S[1] \in Reserves
        /\ \A i \in 1 .. Len(S) : S[i] \in Alnum
    BY <1>4, ReservedIs, Zenon
  <2>2. S # <<>>
    <3>1. Len(S) >= 1
      BY <2>1, Zenon
    <3> QED BY <3>1
  <2>3. "DosDevices" \in Char
    BY Zenon DEF Char, Alnum, Alpha, Words, HexWords
  <2>4. <<"DosDevices">>[1] = "DosDevices"
    BY <2>3, OneText, Zenon
  <2> QED BY <2>1, <2>2, <2>4, Zenon DEF Reserves
<1> QED BY <1>2, <1>3, <1>4, Zenon DEF Says, IsLink, DosSays, Unnamed, S

(* The reserved names behind links.                                        *)
IsDevice(p) == \E n \in Links(p) : IsReserved(Drop(p, 2 * n))

LEMMA DosReserved ==
  ASSUME NEW p \in Text PROVE deduce_dos_drive_type(p) = "LegacyDevice" <=> IsDevice(p)
<1>1. ASSUME NEW n \in Links(p) PROVE Drop(p, 2 * n) \in Text
  <2>1. 2 * n \in 0 .. Len(p)
    BY LenProperties DEF Text, Links
  <2> QED BY <2>1, DropIs
<1> QED BY <1>1, DosIs, SaysReserved, Zenon DEF IsDevice

LEMMA DeviceFirst ==
  ASSUME NEW q \in Text, IsDevice(q)
  PROVE  ~is_volume(q) /\ ~is_volume_guid(q) /\ ~Begins(q, {"UNC"})
<1>1. PICK n \in Links(q) : IsReserved(Drop(q, 2 * n))
  BY Zenon DEF IsDevice
<1>2. Len(q) \in Nat
  BY LenProperties DEF Text
<1>3. n \in 0 .. Len(q) /\ 2 * n \in 0 .. Len(q)
  BY <1>2 DEF Links
<1>4. q[1] \in {"DosDevices"} \cup Reserves
  <2>1. CASE n = 0
    <3> DEFINE r == Drop(q, 2 * n)
               S == DriveName(r)
    <3>1. r \in Text /\ \A i \in 1 .. Len(q) - 2 * n : r[i] = q[2 * n + i]
      BY <1>3, DropIs
    <3>2. Len(r) = Len(q) - 2 * n
      BY <1>3, DropIs
    <3> HIDE DEF r
    <3>3. S \in Reserved
      BY <1>1, <3>1, ReservedName DEF r
    <3>4. /\ S \in Text /\ Until(r, Sep) \in 0 .. Len(r) /\ Len(S) = Until(r, Sep)
          /\ \A i \in 1 .. Until(r, Sep) : S[i] = r[i]
      BY <3>1, NameIs, Zenon
    <3> HIDE DEF S
    <3>5. Len(S) >= 1 /\ S[1] \in Reserves
      BY <3>3, ReservedIs, Zenon
    <3>6. Len(S) >= 1
      BY <3>5, Zenon
    <3>7. 1 \in 1 .. Until(r, Sep) /\ 1 \in 1 .. Len(q) - 2 * n /\ 2 * n + 1 = 1
      BY <1>2, <2>1, <3>2, <3>4, <3>6
    <3>8. S[1] = r[1] /\ r[1] = q[1]
      BY <3>1, <3>4, <3>7
    <3> QED BY <3>5, <3>8, Zenon
  <2>2. CASE n # 0
    <3>1. 1 \in 1 .. n /\ 2 * 1 - 1 = 1
      BY <1>3, <2>2
    <3>2. q[2 * 1 - 1] = "DosDevices"
      BY <3>1, Zenon DEF Links
    <3> QED BY <3>1, <3>2, Zenon
  <2> QED BY <2>1, <2>2
<1>5. is_volume(q) => q[1] \in Letter
  BY Zenon DEF is_volume
<1>6. is_volume_guid(q) => q[1] = "Volume{"
  BY GuidBegins, Zenon
<1>7. Begins(q, {"UNC"}) => q[1] = "UNC"
  BY Zenon DEF Begins
<1> QED BY <1>4, <1>5, <1>6, <1>7, Zenon DEF Letter, Reserves

LEMMA DeviceHolds ==
  ASSUME NEW p \in Text, FormTells(p, deduce_path_type(p))
  PROVE  DeviceTells(p, deduce_path_type(p))
<1> DEFINE t == deduce_path_type(p)
           D == is_device_path(p)
           q == Drop(p, 4)
           U == Under(Device({"."}), p)
<1>1. U <=> D /\ p[3] = "."
  BY DeviceForms, Zenon
<1>2. D => q \in Text /\ Len(p) >= 4
  BY DeviceForms, Zenon
<1>3. t = "LegacyDevice" => U
  BY Zenon DEF FormTells
<1>4. ASSUME U PROVE t = "LegacyDevice" <=> IsDevice(q)
  <2>1. q \in Text
    BY <1>1, <1>2, <1>4
  <2>2. t = deduce_device_path_type(q, p[3])
    BY <1>1, <1>4, RootIs, Zenon DEF deduce_path_type
  <2>3. deduce_dos_drive_type(q) = "LegacyDevice" <=> IsDevice(q)
    BY <2>1, DosReserved
  <2>4. IsDevice(q) => ~is_volume(q) /\ ~is_volume_guid(q) /\ ~Begins(q, {"UNC"})
    BY <2>1, DeviceFirst
  <2> HIDE DEF q
  <2>5. IsDevice(q) => t = "LegacyDevice"
    BY <1>1, <1>4, <2>2, <2>3, <2>4, Zenon DEF deduce_device_path_type
  <2>6. t = "LegacyDevice" => deduce_dos_drive_type(q) = "LegacyDevice"
    <3> HIDE DEF t
    <3> QED BY <1>1, <1>4, <2>2, Zenon DEF deduce_device_path_type
  <2> QED BY <2>3, <2>5, <2>6, Zenon
<1>5. ASSUME U, NEW n \in Links(q) PROVE Drop(q, 2 * n) = Drop(p, 4 + 2 * n)
  <2>1. Len(p) >= 4 /\ q \in Text /\ Len(p) \in Nat
    BY <1>1, <1>2, <1>5, LenProperties DEF Text
  <2>2. 4 \in 0 .. Len(p)
    BY <2>1
  <2>3. Len(q) = Len(p) - 4
    BY <2>2, DropIs
  <2>4. n \in 0 .. Len(q) /\ 2 * n <= Len(q)
    BY Zenon DEF Links
  <2>5. 2 * n \in Nat /\ 4 \in Nat /\ 4 + 2 * n <= Len(p)
    BY <2>1, <2>3, <2>4
  <2> QED BY <2>5, DropDrop
<1> HIDE DEF t, D
<1>6. IsDevice(q) <=> \E n \in Links(q) : IsReserved(Drop(q, 2 * n))
  BY Zenon DEF IsDevice
<1> HIDE DEF U, q
<1>7. t = "LegacyDevice" <=> U /\ \E n \in Links(q) : IsReserved(Drop(p, 4 + 2 * n))
  BY <1>3, <1>4, <1>5, <1>6, Zenon
<1> QED BY <1>7, Zenon DEF DeviceTells, IsReserved, t, U, q

-----------------------------------------------------------------------------
(* The host of a UNC path.                                                 *)
LEMMA FoundIs == \A type, q : Found(type, q).type = type /\ Found(type, q).path = q
BY DEF Found

LEMMA DigitsIs ==
  ASSUME NEW q \in Text, NEW d, d = Digits(q)
  PROVE  /\ d \in 0 .. Len(q) /\ \A i \in 1 .. d : q[i] \in Digit
         /\ d < Len(q) => q[d + 1] \notin Digit
<1> DEFINE S == {q[i] : i \in 1 .. Len(q)} \ Digit
<1>1. Stops(q, S, d)
  BY UntilStops, Zenon DEF Digits
<1>2. Len(q) \in Nat
  BY LenProperties DEF Text
<1>3. d \in 0 .. Len(q) /\ (\A i \in 1 .. d : q[i] \notin S) /\ (d < Len(q) => q[d + 1] \in S)
  <2> HIDE DEF S
  <2> QED BY <1>1, Zenon DEF Stops, Free
<1>4. ASSUME NEW i \in 1 .. d PROVE q[i] \in Digit
  <2>1. i \in 1 .. Len(q)
    BY <1>2, <1>3
  <2> QED BY <1>3, <2>1
<1> QED BY <1>3, <1>4

LEMMA TailIs ==
  ASSUME NEW q \in Text, Len(q) >= 1
  PROVE  Tail(q) = Drop(q, 1) /\ Tail(q) \in Text
<1>1. q # <<>>
  BY EmptySeq DEF Text
<1>2. Tail(q) = SubSeq(q, 2, Len(q)) /\ Tail(q) \in Text
  BY <1>1, TailIsSubSeq, HeadTailProperties DEF Text
<1>3. 1 + 1 = 2
  OBVIOUS
<1> QED BY <1>2, <1>3, Zenon DEF Drop

(* An address consumes digits and dots.                                    *)
Numeric(h, k) == k \in 0 .. Len(h) /\ \A i \in 1 .. k : h[i] \in Digit \cup {"."}
Reads(h, s)   == s.type = "Undefined" \/ \E k : Numeric(h, k) /\ s.path = Drop(h, k)

LEMMA OctetReads ==
  ASSUME NEW h \in Text, NEW s, Reads(h, s), NEW i PROVE Reads(h, Octet(s, i))
<1> DEFINE q == s.path
           d == Digits(q)
           rest == Drop(q, d)
           r == Octet(s, i)
<1>1. r = IF s.type # "IPv4" THEN s
          ELSE IF q = <<>> \/ consumeUnsigned(q) > 255 THEN Found("Undefined", <<>>)
          ELSE IF i = 4 THEN Found("IPv4", rest)
          ELSE IF Begins(rest, {"."}) THEN Found("IPv4", Tail(rest))
          ELSE Found("Unknown", rest)
  BY Zenon DEF Octet
<1>2. \/ r = s \/ r.type = "Undefined" \/ (s.type = "IPv4" /\ r.path = rest)
      \/ (s.type = "IPv4" /\ Begins(rest, {"."}) /\ r.path = Tail(rest))
  <2> HIDE DEF r, rest
  <2> QED BY <1>1, FoundIs, Zenon
<1>3. ASSUME s.type = "IPv4"
      PROVE  \E k : /\ Numeric(h, k) /\ rest = Drop(h, k)
                    /\ Begins(rest, {"."}) => Numeric(h, k + 1) /\ Tail(rest) = Drop(h, k + 1)
  <2>1. PICK k : Numeric(h, k) /\ q = Drop(h, k)
    BY <1>3, Zenon DEF Reads
  <2>2. Len(h) \in Nat /\ k \in 0 .. Len(h) /\ \A j \in 1 .. k : h[j] \in Digit \cup {"."}
    BY <2>1, LenProperties DEF Text, Numeric
  <2>3. q \in Text /\ Len(q) = Len(h) - k /\ \A j \in 1 .. Len(h) - k : q[j] = h[k + j]
    BY <2>1, <2>2, DropIs
  <2> HIDE DEF q
  <2>4. d \in 0 .. Len(q) /\ \A j \in 1 .. d : q[j] \in Digit
    BY <2>3, DigitsIs
  <2> HIDE DEF d
  <2>5. rest = Drop(h, k + d)
    <3>1. k \in Nat /\ d \in Nat /\ k + d <= Len(h)
      BY <2>2, <2>3, <2>4
    <3> QED BY <2>1, <3>1, DropDrop
  <2>6. Numeric(h, k + d)
    <3>1. k + d \in 0 .. Len(h)
      BY <2>2, <2>3, <2>4
    <3>2. ASSUME NEW j \in 1 .. k + d PROVE h[j] \in Digit \cup {"."}
      <4>1. CASE j \in 1 .. k
        BY <2>2, <4>1
      <4>2. CASE j \notin 1 .. k
        <5>1. j - k \in 1 .. d /\ j - k \in 1 .. Len(h) - k /\ k + (j - k) = j
          BY <2>2, <2>3, <2>4, <4>2
        <5>2. q[j - k] \in Digit /\ q[j - k] = h[j]
          BY <2>3, <2>4, <5>1
        <5> QED BY <5>2
      <4> QED BY <4>1, <4>2
    <3> QED BY <3>1, <3>2 DEF Numeric
  <2> DEFINE m == k + d
  <2>7. rest = Drop(h, m) /\ Numeric(h, m)
    BY <2>5, <2>6
  <2> HIDE DEF m, rest
  <2>8. ASSUME Begins(rest, {"."}) PROVE Numeric(h, m + 1) /\ Tail(rest) = Drop(h, m + 1)
    <3>1. m \in 0 .. Len(h) /\ \A j \in 1 .. m : h[j] \in Digit \cup {"."}
      BY <2>7 DEF Numeric
    <3>2. /\ rest \in Text /\ Len(rest) = Len(h) - m
          /\ \A j \in 1 .. Len(h) - m : rest[j] = h[m + j]
      BY <2>7, <3>1, DropIs
    <3>3. Len(rest) >= 1 /\ rest[1] = "."
      <4>1. Len(rest) >= 1 /\ rest[1] \in {"."}
        BY <2>8, <3>2, BeginsIs
      <4> QED BY <4>1
    <3>4. Len(rest) >= 1
      BY <3>3, Zenon
    <3>5. m + 1 \in 0 .. Len(h) /\ 1 \in 1 .. Len(h) - m
      BY <2>2, <3>1, <3>2, <3>4
    <3>6. h[m + 1] = "."
      BY <3>2, <3>3, <3>5, Zenon
    <3>7. ASSUME NEW j \in 1 .. m + 1 PROVE h[j] \in Digit \cup {"."}
      <4>1. j \in 1 .. m \/ j = m + 1
        BY <3>1
      <4> QED BY <3>1, <3>6, <4>1, Zenon
    <3>8. Tail(rest) = Drop(rest, 1)
      BY <3>2, <3>4, TailIs
    <3>9. m \in Nat /\ 1 \in Nat /\ m + 1 <= Len(h)
      BY <2>2, <3>1, <3>5
    <3>10. Drop(Drop(h, m), 1) = Drop(h, m + 1)
      BY <3>9, DropDrop
    <3> QED BY <2>7, <3>5, <3>7, <3>8, <3>10, Zenon DEF Numeric
  <2> QED BY <2>7, <2>8, Zenon
<1> HIDE DEF r, rest, q
<1>4. ASSUME r = s PROVE Reads(h, r)
  BY <1>4, Zenon
<1>5. ASSUME r.type = "Undefined" PROVE Reads(h, r)
  BY <1>5, Zenon DEF Reads
<1>6. ASSUME s.type = "IPv4", r.path = rest PROVE Reads(h, r)
  BY <1>3, <1>6, Zenon DEF Reads
<1>7. ASSUME s.type = "IPv4", Begins(rest, {"."}), r.path = Tail(rest) PROVE Reads(h, r)
  BY <1>3, <1>7, Zenon DEF Reads
<1>8. Reads(h, r)
  BY <1>2, <1>4, <1>5, <1>6, <1>7, Zenon
<1> QED BY <1>8 DEF r

LEMMA Ipv4Reads == ASSUME NEW h \in Text PROVE Reads(h, consume_unc_ipv4(h))
<1>1. Reads(h, Found("IPv4", h))
  <2>1. Len(h) \in Nat
    BY LenProperties DEF Text
  <2>2. Numeric(h, 0)
    BY <2>1 DEF Numeric
  <2>3. 0 \in 0 .. Len(h)
    BY <2>1
  <2>4. Drop(h, 0) \in Text /\ Len(Drop(h, 0)) = Len(h) - 0 /\ \A i \in 1 .. Len(h) - 0 : Drop(h, 0)[i] = h[0 + i]
    BY <2>3, DropIs
  <2> DEFINE q == Drop(h, 0)
  <2> HIDE DEF q
  <2>5. q \in Text /\ Len(q) = Len(h) /\ \A i \in 1 .. Len(q) : q[i] = h[i]
    BY <2>1, <2>4 DEF q
  <2>6. q = h
    BY <2>5, SameText
  <2> QED BY <2>2, <2>6, FoundIs, Zenon DEF Reads, q
<1> QED BY <1>1, OctetReads, Zenon DEF consume_unc_ipv4

LEMMA Ipv6Is ==
  ASSUME NEW p
  PROVE  consume_unc_ipv6(p) \in {Found("Undefined", <<>>), Found("Unknown", p), Found("IPv6", <<>>)}
BY Zenon DEF consume_unc_ipv6

(* A name ends before a backslash.                                         *)
HostName(p, r) ==
  \E m \in 1 .. Len(p) : /\ r.path = Drop(p, m) /\ \A i \in 1 .. m : p[i] # "\\"
                         /\ Begins(p, AlphaLed) /\ Begins(r.path, {"\\"})

LEMMA AlphaIs ==
  /\ \A c \in AlphaLed : /\ c # "\\" /\ c \notin Digit /\ c # "." /\ c # ":"
                        /\ c \in Alnum \cup {"Volume{"}
  /\ \A c \in Alpha : c \in AlphaLed /\ c \in Alnum
  /\ \A c \in Digit : c # "\\" /\ c \in Alnum
BY Zenon DEF AlphaLed, Alpha, Alnum, Letter, Words, HexWords, Digit, Value

LEMMA ServerHost ==
  ASSUME NEW p \in Text, NEW r, r = consume_unc_server_host(p), r.type = "Host"
  PROVE  HostName(p, r)
<1> DEFINE u == Until(Tail(p), {"\\", "$"})
           n == 1 + u
           name == SubSeq(p, 1, n)
           Marks == {i \in 2 .. n : name[i] \in {"_", "."}}
           dots == Cardinality({i \in 2 .. n : name[i] = "."})
           FQDN == \E i \in Marks : name[i] = "." /\ \A j \in Marks : j <= i
           Marked == n < Len(p) /\ p[n + 1] = "$"
           m == IF Marked THEN n + 1 ELSE n
           rest == Drop(p, m)
           Bad == \/ dots > 2
                  \/ FQDN /\ (name[n] = "." \/ Marked)
<1>1. r = IF ~Begins(p, AlphaLed) THEN Found("Unknown", p)
          ELSE IF Bad THEN Found("Undefined", <<>>)
          ELSE Found(IF ~Begins(rest, {"\\"}) THEN "Unknown" ELSE "Host", rest)
  BY Zenon DEF consume_unc_server_host
<1> HIDE DEF Bad
<1>2. Begins(p, AlphaLed) /\ r.path = rest /\ Begins(rest, {"\\"})
  <2> DEFINE BEG == Begins(rest, {"\\"})
             ALP == Begins(p, AlphaLed)
  <2>1. r = IF ~ALP THEN Found("Unknown", p)
            ELSE IF Bad THEN Found("Undefined", <<>>)
            ELSE Found(IF ~BEG THEN "Unknown" ELSE "Host", rest)
    BY <1>1, Zenon
  <2> HIDE DEF rest, BEG, ALP
  <2>2. ~ALP => r.type = "Unknown"
    BY <2>1, FoundIs, Zenon
  <2>3. ALP /\ Bad => r.type = "Undefined"
    BY <2>1, FoundIs, Zenon
  <2>4. ALP /\ ~Bad /\ ~BEG => r.type = "Unknown"
    BY <2>1, FoundIs, Zenon
  <2>5. ALP /\ ~Bad /\ BEG
    <3>1. "Host" # "Unknown" /\ "Host" # "Undefined"
      BY Zenon
    <3> QED BY <2>2, <2>3, <2>4, <3>1, Zenon
  <2>6. r = Found("Host", rest)
    BY <2>1, <2>5, Zenon
  <2>7. r.path = rest
    BY <2>6, FoundIs, Zenon
  <2> QED BY <2>5, <2>7 DEF ALP, BEG
<1>3. Len(p) >= 1 /\ p[1] \in AlphaLed
  BY <1>2, BeginsIs
<1>4. Len(p) \in Nat /\ 1 \in 0 .. Len(p)
  <2>1. Len(p) >= 1
    BY <1>3
  <2> QED BY <2>1, LenProperties DEF Text
<1> DEFINE q == Drop(p, 1)
<1>5. Tail(p) = q
  BY <1>3, TailIs
<1>6. q \in Text /\ Len(q) = Len(p) - 1 /\ \A i \in 1 .. Len(p) - 1 : q[i] = p[1 + i]
  BY <1>4, DropIs
<1> HIDE DEF q
<1>7. /\ u \in 0 .. Len(q) /\ \A i \in 1 .. u : q[i] \notin {"\\", "$"}
  BY <1>5, <1>6, UntilStops, Zenon DEF Stops, Free
<1> HIDE DEF u
<1>8. n \in 1 .. Len(p)
  BY <1>4, <1>6, <1>7
<1>9. ASSUME NEW i \in 1 .. n PROVE p[i] # "\\"
  <2>1. CASE i = 1
    BY <1>3, <2>1, AlphaIs, Zenon
  <2>2. CASE i # 1
    <3>1. i - 1 \in 1 .. u /\ i - 1 \in 1 .. Len(p) - 1 /\ 1 + (i - 1) = i
      BY <1>4, <1>6, <1>7, <2>2
    <3>2. q[i - 1] = p[i] /\ q[i - 1] \notin {"\\", "$"}
      BY <1>6, <1>7, <3>1
    <3> QED BY <3>2
  <2> QED BY <2>1, <2>2
<1> HIDE DEF n
<1>10. m \in 1 .. Len(p)
  BY <1>4, <1>8
<1>11. ASSUME NEW i \in 1 .. m PROVE p[i] # "\\"
  <2>1. CASE Marked
    <3>1. i \in 1 .. n \/ i = n + 1
      BY <1>8, <2>1
    <3> QED BY <1>9, <2>1, <3>1, Zenon
  <2>2. CASE ~Marked
    BY <1>9, <2>2
  <2> QED BY <2>1, <2>2
<1> HIDE DEF m
<1> QED BY <1>2, <1>10, <1>11, Zenon DEF HostName

LEMMA HostTypes ==
  ASSUME NEW p
  PROVE  consume_unc_server_host(p).type \in {"Unknown", "Undefined", "Host"}
BY FoundIs, Zenon DEF consume_unc_server_host

(* The host that is_unc_path() accepts.                                    *)
Accepts(host) == host.type \notin {"Unknown", "Undefined"} /\ Begins(host.path, {"\\"})

LEMMA AddressFirst ==
  ASSUME NEW h \in Text, is_ipv4(h) = "IPv4" PROVE Len(h) >= 1 /\ (h[1] \in Digit \/ h[1] = ".")
<1> DEFINE d == Digits(h)
<1>1. d \in 0 .. Len(h) /\ \A i \in 1 .. d : h[i] \in Digit
  BY DigitsIs
<1> HIDE DEF d
<1>2. d # Len(h) /\ h[d + 1] = "."
  BY Zenon DEF is_ipv4, d
<1>3. Len(h) \in Nat /\ d \in Nat /\ d # Len(h)
  BY <1>1, <1>2, LenProperties DEF Text
<1>4. Len(h) >= 1
  BY <1>1, <1>3
<1>5. CASE d = 0
  <2>1. d + 1 = 1
    BY <1>5
  <2> QED BY <1>2, <1>4, <2>1, Zenon
<1>6. CASE d # 0
  <2>1. 1 \in 1 .. d
    BY <1>3, <1>6
  <2> QED BY <1>1, <1>4, <2>1, Zenon
<1> QED BY <1>5, <1>6

LEMMA IpIs ==
  ASSUME NEW h \in Text
  PROVE  LET ip == consume_unc_ip(h)
         IN  \/ ip = Found("Unknown", h)
             \/ /\ ~Short(h) /\ is_ipv4(h) = "IPv4" /\ ip = consume_unc_ipv4(h)
             \/ /\ ~Short(h) /\ is_ipv4(h) = "IPv6"
                /\ ip \in {Found("Undefined", <<>>), Found("IPv6", <<>>)}
<1>1. is_ipv4(h) \in {"IPv6", "IPv4", "Unknown"}
  BY Zenon DEF is_ipv4
<1> QED BY <1>1, Ipv6Is, Zenon DEF consume_unc_ip

LEMMA HostIs ==
  ASSUME NEW h \in Text, NEW host, host = consume_unc_prefix(h), Accepts(host)
  PROVE  \E k \in 1 .. Len(h) : /\ host.path = Drop(h, k) /\ \A i \in 1 .. k : h[i] # "\\"
                                /\ h[1] \in Alnum \cup {".", "Volume{"}
<1> DEFINE ip == consume_unc_ip(h)
<1>1. host = IF ip.type = "Unknown" THEN consume_unc_server_host(ip.path) ELSE ip
  BY Zenon DEF consume_unc_prefix
<1>2. ~Begins(<<>>, {"\\"})
  BY Zenon DEF Begins
<1>3. Len(h) \in Nat
  BY LenProperties DEF Text
<1>4. \/ ip = Found("Unknown", h)
      \/ ~Short(h) /\ is_ipv4(h) = "IPv4" /\ ip = consume_unc_ipv4(h)
      \/ ip \in {Found("Undefined", <<>>), Found("IPv6", <<>>)}
  BY IpIs, Zenon
<1> HIDE DEF ip
<1>5. \A c \in Digit \cup {"."} : c # "\\" /\ c \in Alnum \cup {".", "Volume{"}
  BY AlphaIs, Zenon
<1>6. CASE ip = Found("Unknown", h)
  <2>1. host = consume_unc_server_host(h)
    BY <1>1, <1>6, FoundIs, Zenon
  <2>2. host.type = "Host"
    BY <2>1, HostTypes, Zenon DEF Accepts
  <2>3. HostName(h, host)
    BY <2>1, <2>2, ServerHost
  <2>4. h[1] \in Alnum \cup {".", "Volume{"}
    BY <2>3, AlphaIs, Zenon DEF HostName, Begins
  <2> QED BY <2>3, <2>4, Zenon DEF HostName
<1>7. CASE ~Short(h) /\ is_ipv4(h) = "IPv4" /\ ip = consume_unc_ipv4(h)
  <2>1. Len(h) >= 1 /\ (h[1] \in Digit \/ h[1] = ".")
    BY <1>7, AddressFirst
  <2>2. Reads(h, ip)
    BY <1>7, Ipv4Reads
  <2>3. ip.type # "Undefined"
    BY <1>1, Zenon DEF Accepts
  <2>4. PICK k : Numeric(h, k) /\ ip.path = Drop(h, k)
    BY <2>2, <2>3, Zenon DEF Reads
  <2>5. k \in 0 .. Len(h) /\ \A i \in 1 .. k : h[i] \in Digit \cup {"."}
    BY <2>4, Zenon DEF Numeric
  <2>6. h[1] \in Alnum \cup {".", "Volume{"} /\ h[1] # "\\"
    BY <1>5, <2>1, Zenon
  <2> DEFINE q == Drop(h, k)
  <2>7. q \in Text /\ Len(q) = Len(h) - k /\ \A i \in 1 .. Len(h) - k : q[i] = h[k + i]
    BY <2>5, DropIs
  <2> HIDE DEF q
  <2>8. CASE ip.type # "Unknown"
    <3>1. host.path = q
      BY <1>1, <2>4, <2>8, Zenon DEF q
    <3>2. Len(q) >= 1 /\ q[1] = "\\"
      <4>1. Begins(q, {"\\"})
        BY <3>1, Zenon DEF Accepts
      <4>2. Len(q) >= 1 /\ q[1] \in {"\\"}
        BY <2>7, <4>1, BeginsIs, Zenon
      <4> QED BY <4>2, Zenon
    <3>3. k # 0
      <4>1. SUFFICES ASSUME k = 0 PROVE FALSE
        OBVIOUS
      <4>2. Len(q) >= 1
        BY <3>2, Zenon
      <4>3. 1 \in 1 .. Len(h) - k /\ k + 1 = 1
        BY <1>3, <2>7, <4>1, <4>2
      <4>5. q[1] = h[k + 1]
        BY <2>7, <4>3, Zenon
      <4>4. q[1] = h[1]
        BY <4>3, <4>5
      <4> QED BY <2>6, <3>2, <4>4, Zenon
    <3>4. k \in 1 .. Len(h)
      BY <2>5, <3>3
    <3> QED BY <1>5, <2>5, <2>6, <3>1, <3>4, Zenon DEF q
  <2>9. CASE ip.type = "Unknown"
    <3>1. host = consume_unc_server_host(q)
      BY <1>1, <2>4, <2>9, Zenon DEF q
    <3>2. host.type = "Host"
      BY <3>1, HostTypes, Zenon DEF Accepts
    <3>3. HostName(q, host)
      BY <2>7, <3>1, <3>2, ServerHost
    <3>4. PICK m \in 1 .. Len(q) : host.path = Drop(q, m) /\ \A i \in 1 .. m : q[i] # "\\"
      BY <3>3, Zenon DEF HostName
    <3>5. k \in Nat /\ m \in Nat /\ k + m <= Len(h) /\ k + m \in 1 .. Len(h)
      BY <1>3, <2>5, <2>7, <3>4
    <3>6. host.path = Drop(h, k + m)
      BY <3>4, <3>5, DropDrop DEF q
    <3>7. ASSUME NEW i \in 1 .. k + m PROVE h[i] # "\\"
      <4>1. CASE i \in 1 .. k
        BY <1>5, <2>5, <4>1, Zenon
      <4>2. CASE i \notin 1 .. k
        <5>1. i - k \in 1 .. m /\ i - k \in 1 .. Len(h) - k /\ k + (i - k) = i
          BY <3>5, <4>2
        <5>2. q[i - k] = h[k + (i - k)] /\ q[i - k] # "\\"
          BY <2>7, <3>4, <5>1, Zenon
        <5> QED BY <5>1, <5>2, Zenon
      <4> QED BY <4>1, <4>2
    <3> QED BY <2>6, <3>5, <3>6, <3>7, Zenon
  <2> QED BY <2>8, <2>9
<1>8. CASE ip \in {Found("Undefined", <<>>), Found("IPv6", <<>>)}
  <2>1. ip.type = "Undefined" \/ (ip.type = "IPv6" /\ ip.path = <<>>)
    BY <1>8, FoundIs, Zenon
  <2>2. host = ip
    BY <1>1, <2>1, Zenon
  <2> QED BY <1>2, <2>1, <2>2, Zenon DEF Accepts
<1> QED BY <1>4, <1>6, <1>7, <1>8

-----------------------------------------------------------------------------
(* HostTells.                                                              *)
LEMMA TypeUNC ==
  ASSUME NEW p \in Text
  PROVE  deduce_path_type(p) = "UNCNamespace" <=>
           Begins(p, Sep) /\ ~is_device_path(p) /\ ~is_nt_path(p) /\ is_unc_path(p) = "yes"
<1> DEFINE t == deduce_path_type(p)
           R == Begins(p, Sep)
           D == is_device_path(p)
           x == deduce_device_path_type(Drop(p, 4), p[3])
           u == is_unc_path(p)
<1>1. ~R => t \in {"DirRel", "QualDOS", "DriveRel"}
  BY Zenon DEF deduce_path_type
<1>2. R /\ D => t = x
  BY Zenon DEF deduce_path_type
<1>3. R /\ ~D => t = IF is_nt_path(p) THEN "NtNamespace"
                     ELSE IF u = "Undefined" THEN "Undefined"
                     ELSE IF u = "yes" THEN "UNCNamespace"
                     ELSE IF ~Begins(Tail(p), Sep) THEN "CurrDriveRel" ELSE "Unknown"
  BY Zenon DEF deduce_path_type
<1>4. D => Drop(p, 4) \in Text
  BY DeviceForms, Zenon
<1>5. D => x \in DosTypes \cup {"DosVolume", "GUIDVolume", "DeviceUNC"}
  BY <1>4, DosTyped, Zenon DEF deduce_device_path_type, DosTypes
<1> HIDE DEF t, R, D, x, u
<1>6. R /\ D => t # "UNCNamespace"
  BY <1>2, <1>5, Zenon DEF DosTypes
<1>7. ~R => t # "UNCNamespace"
  BY <1>1, Zenon
<1>8. R /\ ~D => (t = "UNCNamespace" <=> ~is_nt_path(p) /\ u = "yes")
  BY <1>3, Zenon
<1> QED BY <1>6, <1>7, <1>8, Zenon DEF t, R, D, u

(* \\ at the front.                                                        *)
LEMMA SlashesIs ==
  ASSUME NEW p \in Text
  PROVE  IsPrefix(<<"\\", "\\">>, p) <=> Len(p) >= 2 /\ p[1] = "\\" /\ p[2] = "\\"
<1>1. "\\" \in Char
  BY CharSets
<1>2. Under({<<"\\", "\\">>}, p) <=> Len(p) >= 2 /\ p[1] = "\\" /\ p[2] = "\\"
  BY <1>1, TwoThree, Zenon
<1> QED BY <1>2, Zenon DEF Under

LEMMA ShareFirst ==
  ASSUME NEW s \in Text, consume_unc_share(s), Len(s) >= 1 PROVE s[1] \in Alnum \cup Sep
<1> DEFINE n == Until(s, Sep)
<1>1. Stops(s, Sep, n)
  BY UntilStops
<1>2. (\A i \in 1 .. n : s[i] \in Alnum) \/ (s[1] \in Alnum)
  BY Zenon DEF consume_unc_share, Alnum, Alpha
<1> HIDE DEF n
<1>3. n \in 0 .. Len(s) /\ (n < Len(s) => s[n + 1] \in Sep)
  BY <1>1, Zenon DEF Stops, Free
<1>4. Len(s) \in Nat
  BY LenProperties DEF Text
<1>5. CASE n = 0
  <2>1. n < Len(s) /\ n + 1 = 1
    BY <1>4, <1>5
  <2> QED BY <1>3, <2>1, Zenon
<1>6. CASE n # 0
  <2>1. 1 \in 1 .. n
    BY <1>3, <1>6
  <2> QED BY <1>2, <2>1, Zenon
<1> QED BY <1>5, <1>6

LEMMA HostBegins ==
  ASSUME NEW p \in Text, is_unc_path(p) = "yes"
  PROVE  \E n \in HostEnds(p) : /\ p[3] \in Alnum \cup {".", "Volume{"}
                                /\ n < Len(p) => p[n + 1] \in Alnum \cup Sep
<1> DEFINE h == Drop(p, 2)
           host == consume_unc_prefix(h)
           W == IsPrefix(<<"\\", "\\">>, p)
           s == host.path
<1>1. W /\ Accepts(host) /\ consume_unc_share(Tail(s))
  <2> DEFINE ok == host.type # "Unknown" /\ Begins(s, {"\\"}) /\ consume_unc_share(Tail(s))
  <2>1. is_unc_path(p) = IF ~W THEN "no" ELSE IF host.type = "Undefined" THEN "Undefined"
                         ELSE IF ok THEN "yes" ELSE "no"
    BY Zenon DEF is_unc_path
  <2> HIDE DEF ok, W
  <2>2. W /\ host.type # "Undefined" /\ ok
    BY <2>1, Zenon
  <2> QED BY <2>2, Zenon DEF ok, Accepts
<1>2. Len(p) >= 2
  BY <1>1, SlashesIs, Zenon
<1>3. Len(p) \in Nat /\ 2 \in 0 .. Len(p)
  BY <1>2, LenProperties DEF Text
<1>4. h \in Text /\ Len(h) = Len(p) - 2 /\ \A i \in 1 .. Len(p) - 2 : h[i] = p[2 + i]
  BY <1>3, DropIs
<1> HIDE DEF h
<1>5. PICK k \in 1 .. Len(h) : /\ s = Drop(h, k) /\ \A i \in 1 .. k : h[i] # "\\"
                               /\ h[1] \in Alnum \cup {".", "Volume{"}
  BY <1>1, <1>4, HostIs
<1>6. k \in 0 .. Len(h) /\ 1 \in 1 .. Len(p) - 2 /\ 2 + 1 = 3 /\ k \in 1 .. Len(p) - 2
  BY <1>3, <1>4
<1>7. s \in Text /\ Len(s) = Len(h) - k /\ \A i \in 1 .. Len(h) - k : s[i] = h[k + i]
  <2> DEFINE r == Drop(h, k)
  <2>1. r \in Text /\ Len(r) = Len(h) - k /\ \A i \in 1 .. Len(h) - k : r[i] = h[k + i]
    BY <1>4, <1>6, DropIs
  <2>2. s = r
    BY <1>5, Zenon
  <2> HIDE DEF r, s
  <2> QED BY <2>1, <2>2
<1>8. Len(s) >= 1 /\ s[1] = "\\"
  <2>1. Len(s) >= 1 /\ s[1] \in {"\\"}
    BY <1>1, <1>7, BeginsIs, Zenon DEF Accepts
  <2> QED BY <2>1, Zenon
<1>9. Len(s) >= 1
  BY <1>8, Zenon
<1> HIDE DEF s, host
<1> DEFINE n == k + 3
<1>10. n \in 4 .. Len(p) /\ 1 \in 1 .. Len(h) - k /\ k + 1 \in 1 .. Len(p) - 2 /\ 2 + (k + 1) = n
  BY <1>3, <1>4, <1>6, <1>7, <1>9
<1>11. p[n] = "\\"
  <2>1. s[1] = h[k + 1]
    BY <1>7, <1>10, Zenon
  <2>2. h[k + 1] = p[2 + (k + 1)]
    BY <1>4, <1>10, Zenon
  <2> QED BY <1>8, <1>10, <2>1, <2>2, Zenon
<1>12. p[3] \in Alnum \cup {".", "Volume{"}
  BY <1>4, <1>5, <1>6, Zenon
<1>13. ASSUME NEW i \in 3 .. n - 1 PROVE p[i] # "\\"
  <2>1. i - 2 \in 1 .. k /\ i - 2 \in 1 .. Len(p) - 2 /\ 2 + (i - 2) = i
    BY <1>6
  <2>2. h[i - 2] = p[2 + (i - 2)] /\ h[i - 2] # "\\"
    BY <1>4, <1>5, <2>1, Zenon
  <2> QED BY <2>1, <2>2, Zenon
<1>14. ASSUME n < Len(p) PROVE p[n + 1] \in Alnum \cup Sep
  <2> DEFINE w == Drop(s, 1)
  <2>1. Tail(s) = w
    BY <1>7, <1>9, TailIs
  <2>2. 1 \in 0 .. Len(s) /\ Len(s) \in Nat
    BY <1>7, <1>9, LenProperties DEF Text
  <2>3. w \in Text /\ Len(w) = Len(s) - 1 /\ \A i \in 1 .. Len(s) - 1 : w[i] = s[1 + i]
    BY <1>7, <2>2, DropIs
  <2> HIDE DEF w
  <2>4. /\ Len(w) >= 1 /\ 1 \in 1 .. Len(s) - 1 /\ 1 + 1 = 2 /\ 2 \in 1 .. Len(h) - k
        /\ k + 2 \in 1 .. Len(p) - 2 /\ 2 + (k + 2) = n + 1
    BY <1>3, <1>4, <1>6, <1>7, <1>14, <2>3
  <2>5. w[1] = p[n + 1]
    <3>1. w[1] = s[1 + 1]
      BY <2>3, <2>4, Zenon
    <3>2. s[2] = h[k + 2]
      BY <1>7, <2>4, Zenon
    <3>3. h[k + 2] = p[2 + (k + 2)]
      BY <1>4, <2>4, Zenon
    <3> QED BY <2>4, <3>1, <3>2, <3>3, Zenon
  <2>6. w[1] \in Alnum \cup Sep
    BY <1>1, <2>1, <2>3, <2>4, ShareFirst, Zenon
  <2> QED BY <2>5, <2>6, Zenon
<1> HIDE DEF n
<1>15. n \in HostEnds(p)
  BY <1>1, <1>10, <1>11, <1>13, Zenon DEF HostEnds
<1> QED BY <1>12, <1>14, <1>15

(* An IPv6 address that is read meets every backslash.                     *)
Scanned == [block : Nat, left : Int, double : BOOLEAN, bad : BOOLEAN]

LEMMA NibbleIs ==
  ASSUME NEW s \in Scanned, NEW c
  PROVE  /\ Nibble(s, c) \in Scanned
         /\ s.bad \/ c = "\\" => Nibble(s, c).bad
<1>1. "\\" \notin Hex /\ "\\" # ":"
  BY Zenon DEF Hex, Digit, Value
<1>2. CASE c \in Hex
  <2>1. Nibble(s, c) = [s EXCEPT !.block = @ + 1, !.bad = @ \/ s.block = 4]
    BY <1>2, Zenon DEF Nibble
  <2>2. c # "\\"
    BY <1>1, <1>2, Zenon
  <2> DEFINE x == s.block + 1
             y == s.bad \/ s.block = 4
  <2>3. x \in Nat /\ y \in BOOLEAN /\ (s.bad => y)
    <3>1. s.block \in Nat
      BY Zenon DEF Scanned
    <3> QED BY <3>1
  <2>4. Nibble(s, c) = [s EXCEPT !.block = x, !.bad = y]
    BY <2>1, Zenon
  <2> HIDE DEF x, y
  <2>5. [s EXCEPT !.block = x, !.bad = y] \in Scanned /\ [s EXCEPT !.block = x, !.bad = y].bad = y
    BY <2>3, Zenon DEF Scanned
  <2> QED BY <2>2, <2>3, <2>4, <2>5, Zenon
<1>3. CASE c \notin Hex /\ c # ":"
  <2>1. Nibble(s, c) = [s EXCEPT !.bad = TRUE]
    BY <1>3, Zenon DEF Nibble
  <2> QED BY <2>1 DEF Scanned
<1>4. CASE c \notin Hex /\ c = ":" /\ s.block = 0
  <2>1. Nibble(s, c) = [s EXCEPT !.double = TRUE, !.bad = @ \/ s.double]
    BY <1>4, Zenon DEF Nibble
  <2> QED BY <1>1, <1>4, <2>1 DEF Scanned
<1>5. CASE c \notin Hex /\ c = ":" /\ s.block # 0
  <2>1. Nibble(s, c) = [s EXCEPT !.block = 0, !.left = @ - 1, !.bad = @ \/ s.left = 0]
    BY <1>5, Zenon DEF Nibble
  <2>2. c # "\\"
    BY <1>1, <1>5, Zenon
  <2> DEFINE x == s.left - 1
             y == s.bad \/ s.left = 0
  <2>3. x \in Int /\ y \in BOOLEAN /\ (s.bad => y) /\ 0 \in Nat
    <3>1. s.left \in Int
      BY Zenon DEF Scanned
    <3> QED BY <3>1
  <2>4. Nibble(s, c) = [s EXCEPT !.block = 0, !.left = x, !.bad = y]
    BY <2>1, Zenon
  <2> HIDE DEF x, y
  <2>5. /\ [s EXCEPT !.block = 0, !.left = x, !.bad = y] \in Scanned
        /\ [s EXCEPT !.block = 0, !.left = x, !.bad = y].bad = y
    BY <2>3, Zenon DEF Scanned
  <2> QED BY <2>2, <2>3, <2>4, <2>5, Zenon
<1> QED BY <1>2, <1>3, <1>4, <1>5

ScanStep(p) == [x \in Scanned \X (1 .. Len(p)) |-> Nibble(x[1], p[x[2]])]
ScanBegin   == [block |-> 0, left |-> 8, double |-> FALSE, bad |-> FALSE]
ScanFrom(f, p) == f = [k \in 0 .. Len(p) |-> IF k = 0 THEN ScanBegin ELSE Nibble(f[k - 1], p[k])]

LEMMA ScanIs ==
  ASSUME NEW p \in Text
  PROVE  \E f \in [0 .. Len(p) -> Scanned] : ScanFrom(f, p)
<1> DEFINE n == Len(p)
           D == Scanned \X (1 .. n)
           step == ScanStep(p)
<1>1. n \in Nat
  BY LenProperties DEF Text
<1>2. step \in [D -> Scanned]
  <2>1. ASSUME NEW x \in D PROVE Nibble(x[1], p[x[2]]) \in Scanned
    <3>1. x[1] \in Scanned
      OBVIOUS
    <3> QED BY <3>1, NibbleIs
  <2> QED BY <2>1 DEF ScanStep
<1>3. ScanBegin \in Scanned
  BY DEF ScanBegin, Scanned
<1> HIDE DEF n, step
<1>4. PICK f \in [0 .. n -> Scanned] : Passes(f, n, ScanBegin, step)
  BY <1>1, <1>2, <1>3, PassExists
<1>5. ASSUME NEW k \in 0 .. n, k # 0 PROVE step[<<f[k - 1], k>>] = Nibble(f[k - 1], p[k])
  <2>1. k - 1 \in 0 .. n /\ k \in 1 .. n
    BY <1>1, <1>5
  <2>2. f[k - 1] \in Scanned
    BY <2>1
  <2> DEFINE x == <<f[k - 1], k>>
  <2>3. x \in D /\ x[1] = f[k - 1] /\ x[2] = k
    BY <2>1, <2>2
  <2> HIDE DEF x
  <2>4. step[x] = Nibble(x[1], p[x[2]])
    BY <2>3, Zenon DEF step, ScanStep, n
  <2> QED BY <2>3, <2>4, Zenon DEF x
<1>6. [k \in 0 .. n |-> IF k = 0 THEN ScanBegin ELSE step[<<f[k - 1], k>>]] =
      [k \in 0 .. n |-> IF k = 0 THEN ScanBegin ELSE Nibble(f[k - 1], p[k])]
  BY <1>5, Zenon
<1>7. ScanFrom(f, p)
  BY <1>4, <1>6, Zenon DEF Passes, ScanFrom, n
<1> QED BY <1>4, <1>7 DEF n

LEMMA Ipv6Bad ==
  ASSUME NEW p \in Text, NEW b \in 1 .. Len(p), p[b] = "\\"
  PROVE  consume_unc_ipv6(p) = Found("Undefined", <<>>)
<1> DEFINE n == Len(p)
           scan == CHOOSE f : ScanFrom(f, p)
           s == scan[n]
<1>1. n \in Nat
  BY LenProperties DEF Text
<1>2. ScanFrom(scan, p)
  BY ScanIs, Zenon
<1>3. consume_unc_ipv6(p) =
        IF s.bad THEN Found("Undefined", <<>>)
        ELSE IF IF s.double THEN s.left <= 1 ELSE s.left # 0 THEN Found("Unknown", p)
        ELSE Found("IPv6", <<>>)
  BY Zenon DEF consume_unc_ipv6, ScanFrom, ScanBegin
<1> HIDE DEF scan, n
<1>4. /\ \A k \in 0 .. n : k # 0 => scan[k] = Nibble(scan[k - 1], p[k])
      /\ 0 \in 0 .. n => scan[0] = ScanBegin
  BY <1>2, Zenon DEF ScanFrom, n
<1>5. ScanBegin \in Scanned
  BY DEF ScanBegin, Scanned
<1> DEFINE T == {k \in Nat : k <= n => scan[k] \in Scanned /\ (b <= k => scan[k].bad)}
<1>6. 0 \in T
  <2>1. 0 \in 0 .. n /\ ~(b <= 0) /\ 0 \in Nat
    BY <1>1
  <2> QED BY <1>4, <1>5, <2>1, Zenon
<1>7. ASSUME NEW k \in Nat, k \in T PROVE k + 1 \in T
  <2>1. SUFFICES ASSUME k + 1 <= n
                 PROVE  scan[k + 1] \in Scanned /\ (b <= k + 1 => scan[k + 1].bad)
    OBVIOUS
  <2> DEFINE j == k + 1
  <2>2. /\ k <= n /\ j \in 0 .. n /\ j # 0 /\ j - 1 = k
        /\ b <= j => b <= k \/ b = j
    BY <1>1, <2>1
  <2>3. scan[k] \in Scanned /\ (b <= k => scan[k].bad)
    BY <1>7, <2>2
  <2> HIDE DEF j
  <2>4. scan[j] = Nibble(scan[k], p[j])
    <3>1. scan[j] = Nibble(scan[j - 1], p[j])
      BY <1>4, <2>2, Zenon
    <3> QED BY <2>2, <3>1, Zenon
  <2>5. scan[j] \in Scanned
    BY <2>3, <2>4, NibbleIs, Zenon
  <2>6. ASSUME b <= j PROVE scan[j].bad
    <3>1. scan[k].bad \/ p[j] = "\\"
      BY <2>2, <2>3, <2>6, Zenon
    <3> QED BY <2>3, <2>4, <3>1, NibbleIs, Zenon
  <2> QED BY <2>5, <2>6, Zenon DEF j
<1> HIDE DEF T
<1>8. n \in T
  BY <1>1, <1>6, <1>7, Induct
<1>9. n <= n /\ b <= n
  BY <1>1 DEF n
<1>10. s.bad
  BY <1>8, <1>9, Zenon DEF T
<1> QED BY <1>3, <1>10, Zenon

(* What a plain host makes of each step.                                   *)
Plain(h, k, S) ==
  /\ k \in 1 .. Len(h) - 2 /\ h[1] \in S /\ h[k + 1] = "\\"
  /\ \A i \in 1 .. Len(h) : i = k + 1 \/ h[i] \in Alnum

LEMMA AlnumIs ==
  \A c \in Alnum : c \notin {"\\", "$"} /\ c \notin {"_", ".", "?"} /\ c \notin Sep
BY Zenon DEF Alpha, Alnum, Letter, Words, HexWords, Digit, Value, Sep

LEMMA PlainIp ==
  ASSUME NEW h \in Text, NEW k, Plain(h, k, Alpha)
  PROVE  consume_unc_ip(h) = IF h[1] \in HexLed THEN Found("Undefined", <<>>)
                             ELSE Found("Unknown", h)
<1> DEFINE d == Digits(h)
<1>1. d \in 0 .. Len(h) /\ \A i \in 1 .. d : h[i] \in Digit
  BY DigitsIs
<1>2. h[1] \in Alpha
  BY Zenon DEF Plain
<1>3. h[1] \notin Digit /\ h[1] # ":" /\ h[1] # "."
  BY <1>2, AlphaIs, Zenon
<1> HIDE DEF d
<1>4. d = 0
  <2> SUFFICES ASSUME d # 0 PROVE FALSE
    OBVIOUS
  <2>1. 1 \in 1 .. d
    BY <1>1
  <2> QED BY <1>1, <1>3, <2>1, Zenon
<1>5. Len(h) \in Nat /\ Len(h) >= 3 /\ k + 1 \in 1 .. Len(h)
  <2>1. k \in 1 .. Len(h) - 2
    BY Zenon DEF Plain
  <2> QED BY <2>1, LenProperties DEF Text
<1>6. ~(d >= 4) /\ d # Len(h) /\ d + 1 = 1 /\ ~(Len(h) < 3)
  BY <1>4, <1>5
<1>7. is_ipv4(h) = IF h[1] \in HexLed THEN "IPv6" ELSE "Unknown"
  BY <1>3, <1>6, Zenon DEF is_ipv4, d
<1>8. consume_unc_ipv6(h) = Found("Undefined", <<>>)
  <2>1. h[k + 1] = "\\"
    BY Zenon DEF Plain
  <2> QED BY <1>5, <2>1, Ipv6Bad
<1>9. ~Short(h)
  BY <1>6, Zenon DEF Short
<1> QED BY <1>7, <1>8, <1>9, Zenon DEF consume_unc_ip

LEMMA PlainHost ==
  ASSUME NEW h \in Text, NEW k, Plain(h, k, Alpha)
  PROVE  consume_unc_server_host(h) = Found("Host", Drop(h, k))
<1> DEFINE u == Until(Tail(h), {"\\", "$"})
           n == 1 + u
           name == SubSeq(h, 1, n)
           Marks == {i \in 2 .. n : name[i] \in {"_", "."}}
           Dots == {i \in 2 .. n : name[i] = "."}
           dots == Cardinality(Dots)
           FQDN == \E i \in Marks : name[i] = "." /\ \A j \in Marks : j <= i
           Marked == n < Len(h) /\ h[n + 1] = "$"
           m == IF Marked THEN n + 1 ELSE n
           rest == Drop(h, m)
           q == Drop(h, 1)
           z == Len(h)
<1>1. z \in Nat
  BY LenProperties DEF Text
<1>2. k \in 1 .. z - 2 /\ h[1] \in Alpha /\ h[k + 1] = "\\"
  BY Zenon DEF Plain
<1>3. \A i \in 1 .. z : i = k + 1 \/ h[i] \in Alnum
  BY Zenon DEF Plain
<1> HIDE DEF z
<1>4. 1 \in 0 .. z /\ z >= 1 /\ k \in 0 .. z
  BY <1>1, <1>2
<1>5. Tail(h) = q
  BY <1>4, TailIs DEF z
<1>6. q \in Text /\ Len(q) = z - 1 /\ \A i \in 1 .. z - 1 : q[i] = h[1 + i]
  BY <1>4, DropIs DEF z
<1> HIDE DEF q
<1>7. Until(q, {"\\", "$"}) = k - 1
  <2>1. k - 1 \in 0 .. Len(q)
    BY <1>1, <1>2, <1>6
  <2>2. ASSUME NEW i \in 1 .. k - 1 PROVE q[i] \notin {"\\", "$"}
    <3>1. i \in 1 .. z - 1 /\ 1 + i \in 1 .. z /\ 1 + i # k + 1
      BY <1>1, <1>2
    <3>2. q[i] \in Alnum
      BY <1>3, <1>6, <3>1
    <3> QED BY <3>2, AlnumIs
  <2>3. q[k - 1 + 1] \in {"\\", "$"}
    <3>1. k \in 1 .. z - 1 /\ 1 + k = k + 1 /\ k - 1 + 1 = k
      BY <1>1, <1>2
    <3>2. q[k] = h[1 + k]
      BY <1>6, <3>1, Zenon
    <3> QED BY <1>2, <3>1, <3>2, Zenon
  <2>4. Stops(q, {"\\", "$"}, k - 1)
    BY <2>1, <2>2, <2>3, Zenon DEF Stops, Free
  <2> QED BY <1>6, <2>4, UntilIs
<1>20. u = k - 1
  BY <1>5, <1>7, Zenon
<1> HIDE DEF u
<1>8. n = k
  BY <1>1, <1>2, <1>20
<1> HIDE DEF n
<1>9. name \in Text /\ \A i \in 1 .. k : name[i] = h[i]
  BY <1>4, <1>8, FirstIs DEF z
<1> HIDE DEF name
<1>10. ASSUME NEW i \in 2 .. n PROVE name[i] \notin {"_", "."}
  <2>1. i \in 1 .. k /\ i \in 1 .. z /\ i # k + 1
    BY <1>1, <1>2, <1>8
  <2>2. name[i] \in Alnum
    BY <1>3, <1>9, <2>1
  <2> QED BY <2>2, AlnumIs
<1>11. Marks = {} /\ Dots = {}
  BY <1>10
<1> HIDE DEF Marks, Dots
<1>12. ~(dots > 2)
  <2>1. dots = 0
    BY <1>11, FS_EmptySet
  <2> QED BY <2>1
<1>13. ~FQDN
  BY <1>11
<1>14. ~Marked
  BY <1>2, <1>8
<1>15. rest = Drop(h, k)
  BY <1>8, <1>14
<1>16. Begins(rest, {"\\"})
  <2> DEFINE r == Drop(h, k)
  <2>1. r \in Text /\ Len(r) = z - k /\ \A i \in 1 .. z - k : r[i] = h[k + i]
    BY <1>4, DropIs DEF z
  <2> HIDE DEF r
  <2>2. Len(r) >= 1 /\ 1 \in 1 .. z - k
    BY <1>1, <1>2, <2>1
  <2>3. r[1] \in {"\\"}
    BY <1>2, <2>1, <2>2, Zenon
  <2> USE DEF r
  <2> QED BY <1>15, <2>1, <2>2, <2>3, BeginsIs, Zenon
<1>17. Begins(h, AlphaLed)
  <2>1. h[1] \in AlphaLed
    BY <1>2, AlphaIs, Zenon
  <2> QED BY <1>4, <2>1, BeginsIs, Zenon DEF z
<1> DEFINE Bad == \/ dots > 2
                  \/ FQDN /\ (name[n] = "." \/ Marked)
<1>18. consume_unc_server_host(h) =
         IF ~Begins(h, AlphaLed) THEN Found("Unknown", h)
         ELSE IF Bad THEN Found("Undefined", <<>>)
         ELSE Found(IF ~Begins(rest, {"\\"}) THEN "Unknown" ELSE "Host", rest)
  BY Zenon DEF consume_unc_server_host, u, n, name, Marks, Dots
<1>19. ~Bad
  BY <1>12, <1>13, Zenon
<1> HIDE DEF Bad, rest
<1> QED BY <1>15, <1>16, <1>17, <1>18, <1>19, Zenon

LEMMA PlainIn ==
  ASSUME NEW p \in Text, NEW S, PlainUNC(p, S)
  PROVE  /\ \E k : Plain(Drop(p, 2), k, S)
         /\ Drop(p, 2) \in Text /\ IsPrefix(<<"\\", "\\">>, p)
         /\ p[2] = "\\" /\ p[3] \in S /\ Begins(p, Sep)
<1> DEFINE h == Drop(p, 2)
           z == Len(p)
<1>1. PICK n \in HostEnds(p) : /\ p[3] \in S /\ n < z
                               /\ \A i \in 3 .. z : i = n \/ p[i] \in Alnum
  BY Zenon DEF PlainUNC
<1>2. n \in 4 .. z /\ p[n] = "\\"
  BY DEF HostEnds
<1>3. IsPrefix(<<"\\", "\\">>, p)
  BY Zenon DEF HostEnds
<1>4. z >= 2 /\ p[1] = "\\" /\ p[2] = "\\"
  BY <1>3, SlashesIs, Zenon
<1>5. z \in Nat
  BY LenProperties DEF Text
<1> DEFINE k == n - 3
<1>6. 2 \in 0 .. z /\ k \in 1 .. z - 4
  BY <1>1, <1>2, <1>5
<1>7. h \in Text /\ Len(h) = z - 2 /\ \A i \in 1 .. z - 2 : h[i] = p[2 + i]
  BY <1>6, DropIs
<1> HIDE DEF h
<1>8. Plain(h, k, S)
  <2>1. k \in 1 .. Len(h) - 2 /\ 1 \in 1 .. z - 2 /\ 2 + 1 = 3 /\ k + 1 \in 1 .. z - 2 /\ 2 + (k + 1) = n
    BY <1>2, <1>5, <1>6, <1>7
  <2>2. h[1] \in S
    BY <1>1, <1>7, <2>1, Zenon
  <2>3. h[k + 1] = "\\"
    BY <1>2, <1>7, <2>1, Zenon
  <2>4. ASSUME NEW i \in 1 .. Len(h) PROVE i = k + 1 \/ h[i] \in Alnum
    <3>1. i \in 1 .. z - 2 /\ 2 + i \in 3 .. z /\ (2 + i = n => i = k + 1)
      BY <1>2, <1>5, <1>7
    <3> QED BY <1>1, <1>7, <3>1, Zenon
  <2> QED BY <2>1, <2>2, <2>3, <2>4, Zenon DEF Plain
<1> HIDE DEF k
<1>19. Begins(p, Sep)
  <2>1. "\\" \in Sep
    BY Zenon DEF Sep
  <2>2. z >= 1
    BY <1>6, <1>5
  <2> QED BY <1>4, <2>1, <2>2, BeginsIs, Zenon
<1> QED BY <1>1, <1>3, <1>4, <1>7, <1>8, <1>19 DEF h

(* A host that does not begin like a number is accepted, with its share.   *)
LEMMA PlainAccepted ==
  ASSUME NEW p \in Text, PlainUNC(p, Alpha \ HexLed) PROVE is_unc_path(p) = "yes"
<1> DEFINE h == Drop(p, 2)
<1>1. /\ \E l : Plain(h, l, Alpha \ HexLed)
      /\ h \in Text /\ IsPrefix(<<"\\", "\\">>, p)
  BY PlainIn, Zenon
<1> HIDE DEF h
<1>2. PICK k : Plain(h, k, Alpha \ HexLed)
  BY <1>1, Zenon
<1>3. Plain(h, k, Alpha) /\ h[1] \notin HexLed
  BY <1>2, Zenon DEF Plain
<1>4. k \in 1 .. Len(h) - 2 /\ Len(h) \in Nat
  BY <1>1, <1>3, LenProperties DEF Plain, Text
<1> DEFINE r == Drop(h, k)
           w == Drop(r, 1)
           host == consume_unc_prefix(h)
<1>9. host = Found("Host", r)
  <2>1. consume_unc_ip(h) = Found("Unknown", h)
    BY <1>1, <1>3, PlainIp, Zenon
  <2>2. consume_unc_server_host(h) = Found("Host", r)
    BY <1>1, <1>3, PlainHost, Zenon
  <2> HIDE DEF r
  <2> QED BY <2>1, <2>2, FoundIs, Zenon DEF consume_unc_prefix
<1>10. host.type = "Host" /\ host.path = r
  BY <1>9, FoundIs, Zenon
<1> HIDE DEF host
<1>11. k \in 0 .. Len(h)
  BY <1>4
<1>12. r \in Text /\ Len(r) = Len(h) - k /\ \A i \in 1 .. Len(h) - k : r[i] = h[k + i]
  BY <1>1, <1>11, DropIs
<1> HIDE DEF r
<1>13. Len(r) >= 1 /\ 1 \in 0 .. Len(r) /\ 1 \in 1 .. Len(h) - k
  BY <1>4, <1>12
<1>14. Begins(r, {"\\"})
  <2>1. r[1] = h[k + 1] /\ h[k + 1] = "\\"
    BY <1>3, <1>12, <1>13, Zenon DEF Plain
  <2> QED BY <1>12, <1>13, <2>1, BeginsIs, Zenon
<1>15. Tail(r) = w
  BY <1>12, <1>13, TailIs
<1>16. w \in Text /\ Len(w) = Len(r) - 1 /\ \A i \in 1 .. Len(r) - 1 : w[i] = r[1 + i]
  BY <1>12, <1>13, DropIs
<1> HIDE DEF w
<1>17. consume_unc_share(w)
  <2> DEFINE e == Until(w, Sep)
  <2>1. e \in 0 .. Len(w)
    BY <1>16, UntilStops, Zenon DEF Stops, Free
  <2> HIDE DEF e
  <2>2. ASSUME NEW i \in 1 .. e PROVE w[i] \in Alnum
    <3>1. /\ i \in 1 .. Len(r) - 1 /\ 1 + i \in 1 .. Len(h) - k
          /\ k + (1 + i) \in 1 .. Len(h) /\ k + (1 + i) # k + 1
      BY <1>4, <1>12, <1>16, <2>1
    <3>2. w[i] = r[1 + i] /\ r[1 + i] = h[k + (1 + i)]
      BY <1>12, <1>16, <3>1, Zenon
    <3>3. h[k + (1 + i)] \in Alnum
      BY <1>3, <3>1, Zenon DEF Plain
    <3> QED BY <3>2, <3>3, Zenon
  <2> QED BY <2>2, Zenon DEF consume_unc_share, e
<1>18. is_unc_path(p) = "yes"
  <2>1. "Host" # "Undefined" /\ "Host" # "Unknown"
    BY Zenon
  <2> QED BY <1>1, <1>10, <1>14, <1>15, <1>17, <2>1, Zenon DEF is_unc_path, host, h
<1> QED BY <1>18

(* One that does is read as an address, which its backslash is not in.     *)
LEMMA PlainUndefined ==
  ASSUME NEW p \in Text, PlainUNC(p, Alpha \cap HexLed) PROVE is_unc_path(p) = "Undefined"
<1> DEFINE h == Drop(p, 2)
<1>1. /\ \E l : Plain(h, l, Alpha \cap HexLed)
      /\ h \in Text /\ IsPrefix(<<"\\", "\\">>, p)
  BY PlainIn, Zenon
<1> HIDE DEF h
<1>2. PICK k : Plain(h, k, Alpha \cap HexLed)
  BY <1>1, Zenon
<1>3. Plain(h, k, Alpha) /\ h[1] \in HexLed
  BY <1>2, Zenon DEF Plain
<1>4. consume_unc_ip(h) = Found("Undefined", <<>>)
  BY <1>1, <1>3, PlainIp, Zenon
<1>5. consume_unc_prefix(h).type = "Undefined"
  <2>1. "Undefined" # "Unknown"
    BY Zenon
  <2> QED BY <1>4, <2>1, FoundIs, Zenon DEF consume_unc_prefix
<1> QED BY <1>1, <1>5, Zenon DEF is_unc_path, h

LEMMA HostsHold == ASSUME NEW p \in Text PROVE HostTells(p, deduce_path_type(p))
<1>1. ASSUME deduce_path_type(p) = "UNCNamespace"
      PROVE  \E n \in HostEnds(p) : /\ p[3] \in Alnum \cup {".", "Volume{"}
                                    /\ n < Len(p) => p[n + 1] \in Alnum \cup Sep
  BY <1>1, TypeUNC, HostBegins, Zenon
<1>2. ASSUME NEW S, S \subseteq Alpha, PlainUNC(p, S)
      PROVE  Begins(p, Sep) /\ ~is_device_path(p) /\ ~is_nt_path(p)
  <2>1. p[2] = "\\" /\ p[3] \in Alpha /\ Begins(p, Sep)
    BY <1>2, PlainIn, Zenon
  <2>2. ~is_device_path(p)
    <3>1. p[3] \notin {".", "?"}
      BY <2>1, AlnumIs, Zenon DEF Alnum
    <3> QED BY <3>1, Zenon DEF is_device_path
  <2>3. ~is_nt_path(p)
    BY <2>1, NtAt, Zenon
  <2> QED BY <2>1, <2>2, <2>3
<1>3. ASSUME PlainUNC(p, Alpha \ HexLed) PROVE deduce_path_type(p) = "UNCNamespace"
  <2>1. is_unc_path(p) = "yes"
    BY <1>3, PlainAccepted
  <2>2. Begins(p, Sep) /\ ~is_device_path(p) /\ ~is_nt_path(p)
    <3>1. Alpha \ HexLed \subseteq Alpha
      OBVIOUS
    <3> QED BY <1>2, <1>3, <3>1
  <2> QED BY <2>1, <2>2, TypeUNC, Zenon
<1>4. ASSUME PlainUNC(p, Alpha \cap HexLed) PROVE deduce_path_type(p) = "Undefined"
  <2>1. is_unc_path(p) = "Undefined"
    BY <1>4, PlainUndefined
  <2>2. Begins(p, Sep) /\ ~is_device_path(p) /\ ~is_nt_path(p)
    <3>1. Alpha \cap HexLed \subseteq Alpha
      OBVIOUS
    <3> QED BY <1>2, <1>4, <3>1
  <2> QED BY <2>1, <2>2, Zenon DEF deduce_path_type
<1> QED BY <1>1, <1>3, <1>4, Zenon DEF HostTells

-----------------------------------------------------------------------------
(* SlashedAlike: paths that differ in their separators only.               *)
Same(c, d)  == d = c \/ (d \in Sep /\ c \in Sep)
Alike(p, s) == Len(s) = Len(p) /\ \A i \in 1 .. Len(p) : Same(p[i], s[i])

LEMMA SameIs ==
  ASSUME NEW c, NEW d, Same(c, d)
  PROVE  (d \in Sep <=> c \in Sep) /\ (c \notin Sep => d = c) /\ (d \notin Sep => d = c)
BY Zenon DEF Same

LEMMA AlikeDrop ==
  ASSUME NEW p \in Text, NEW s \in Text, Alike(p, s), NEW n \in 0 .. Len(p)
  PROVE  /\ Drop(p, n) \in Text /\ Drop(s, n) \in Text
         /\ Alike(Drop(p, n), Drop(s, n))
<1> DEFINE a == Drop(p, n)
           b == Drop(s, n)
           z == Len(p)
<1>1. Len(s) = z /\ z \in Nat /\ n \in 0 .. z /\ n \in 0 .. Len(s)
  BY LenProperties DEF Text, Alike
<1>2. a \in Text /\ Len(a) = z - n /\ \A i \in 1 .. z - n : a[i] = p[n + i]
  BY DropIs
<1>3. b \in Text /\ Len(b) = z - n /\ \A i \in 1 .. z - n : b[i] = s[n + i]
  BY <1>1, DropIs
<1> HIDE DEF a, b
<1>4. ASSUME NEW i \in 1 .. Len(a) PROVE Same(a[i], b[i])
  <2>1. i \in 1 .. z - n /\ n + i \in 1 .. Len(p)
    BY <1>1, <1>2
  <2>2. Same(p[n + i], s[n + i])
    BY <2>1, Zenon DEF Alike
  <2> QED BY <1>2, <1>3, <2>1, <2>2, Zenon
<1>5. Len(b) = Len(a)
  BY <1>2, <1>3
<1> QED BY <1>2, <1>3, <1>4, <1>5, Zenon DEF Alike, a, b

LEMMA AlikeBegins ==
  ASSUME NEW p \in Text, NEW s \in Text, Alike(p, s)
  PROVE  /\ Begins(s, Sep) <=> Begins(p, Sep)
         /\ \A S : (\A c \in S : c \notin Sep) => (Begins(s, S) <=> Begins(p, S))
<1>1. ASSUME NEW S PROVE /\ Begins(p, S) <=> Len(p) >= 1 /\ p[1] \in S
                         /\ Begins(s, S) <=> Len(p) >= 1 /\ s[1] \in S
  BY BeginsIs, Zenon DEF Alike
<1>2. Len(p) >= 1 => 1 \in 1 .. Len(p)
  BY LenProperties DEF Text
<1>3. Len(p) >= 1 => Same(p[1], s[1])
  BY <1>2, Zenon DEF Alike
<1>4. Begins(s, Sep) <=> Begins(p, Sep)
  BY <1>1, <1>3, SameIs, Zenon
<1>5. ASSUME NEW S, \A c \in S : c \notin Sep PROVE Begins(s, S) <=> Begins(p, S)
  <2>1. Len(p) >= 1 => (s[1] \in S <=> p[1] \in S)
    BY <1>3, <1>5, Zenon DEF Same
  <2> QED BY <1>1, <2>1, Zenon
<1> QED BY <1>4, <1>5, Zenon

LEMMA AlikeFront ==
  ASSUME NEW p \in Text, NEW s \in Text, Alike(p, s)
  PROVE  /\ is_volume(s) <=> is_volume(p)
         /\ is_device_path(s) <=> is_device_path(p)
         /\ is_device_path(p) => s[3] = p[3]
         /\ is_nt_path(s) <=> is_nt_path(p)
<1>1. Len(p) \in Nat /\ Len(s) = Len(p)
  BY LenProperties DEF Text, Alike
<1>2. /\ Len(p) >= 2 => 1 \in 1 .. Len(p) /\ 2 \in 1 .. Len(p)
      /\ Len(p) >= 4 => /\ 1 \in 1 .. Len(p) /\ 2 \in 1 .. Len(p)
                        /\ 3 \in 1 .. Len(p) /\ 4 \in 1 .. Len(p)
      /\ Len(p) >= 5 => 5 \in 1 .. Len(p) /\ Len(p) >= 4
  BY <1>1
<1>3. /\ \A c \in Letter : c \notin Sep
      /\ ":" \notin Sep /\ "." \notin Sep /\ "?" \notin Sep /\ "GLOBAL" \notin Sep
  BY Zenon DEF Letter, Sep
<1>14. /\ Len(p) >= 2 => Same(p[1], s[1]) /\ Same(p[2], s[2])
       /\ Len(p) >= 4 => Same(p[1], s[1]) /\ Same(p[2], s[2])
       /\ Len(p) >= 4 => Same(p[3], s[3]) /\ Same(p[4], s[4])
       /\ Len(p) >= 5 => Same(p[5], s[5])
  BY <1>2, Zenon DEF Alike
<1>15. Len(p) >= 2 => (s[1] \in Letter <=> p[1] \in Letter) /\ (s[2] = ":" <=> p[2] = ":")
  BY <1>3, <1>14, Zenon DEF Same
<1>4. is_volume(s) <=> is_volume(p)
  BY <1>1, <1>15, Zenon DEF is_volume
<1>5. Len(p) >= 4 => (s[1] \in Sep <=> p[1] \in Sep) /\ (s[2] \in Sep <=> p[2] \in Sep)
  BY <1>14, SameIs, Zenon
<1>6. Len(p) >= 4 => (s[4] \in Sep <=> p[4] \in Sep)
  BY <1>14, SameIs, Zenon
<1>7. Len(p) >= 4 => (s[3] = "." <=> p[3] = ".") /\ (s[3] = "?" <=> p[3] = "?")
  BY <1>3, <1>14, Zenon DEF Same
<1>8. is_device_path(s) <=> is_device_path(p)
  BY <1>1, <1>5, <1>6, <1>7, Zenon DEF is_device_path
<1>9. is_device_path(p) => s[3] = p[3]
  <2>1. is_device_path(p) => Len(p) >= 4 /\ p[3] \in {".", "?"}
    BY Zenon DEF is_device_path
  <2>2. p[3] \in {".", "?"} => p[3] \notin Sep
    BY <1>3, Zenon
  <2> QED BY <1>14, <2>1, <2>2, Zenon DEF Same
<1>10. Len(p) >= 4 => (s[2] = "?" <=> p[2] = "?") /\ (s[2] = "GLOBAL" <=> p[2] = "GLOBAL")
  BY <1>3, <1>14, Zenon DEF Same
<1>11. Len(p) >= 4 => (s[4] = "?" <=> p[4] = "?")
  BY <1>3, <1>14, Zenon DEF Same
<1>12. Len(p) >= 5 => (s[5] \in Sep <=> p[5] \in Sep)
  BY <1>14, SameIs, Zenon
<1>13. is_nt_path(s) <=> is_nt_path(p)
  <2>1. is_nt_path(p) <=>
           \/ Len(p) >= 4 /\ p[1] \in Sep /\ p[2] = "?" /\ p[3] = "?" /\ p[4] \in Sep
           \/ /\ Len(p) >= 5 /\ p[1] \in Sep /\ p[2] = "GLOBAL"
              /\ p[3] = "?" /\ p[4] = "?" /\ p[5] \in Sep
    BY NtAt
  <2>2. is_nt_path(s) <=>
           \/ Len(p) >= 4 /\ s[1] \in Sep /\ s[2] = "?" /\ s[3] = "?" /\ s[4] \in Sep
           \/ /\ Len(p) >= 5 /\ s[1] \in Sep /\ s[2] = "GLOBAL"
              /\ s[3] = "?" /\ s[4] = "?" /\ s[5] \in Sep
    BY <1>1, NtAt, Zenon
  <2>3. Len(p) >= 5 => Len(p) >= 4
    BY <1>2
  <2> QED BY <1>5, <1>6, <1>7, <1>10, <1>11, <1>12, <2>1, <2>2, <2>3, Zenon
<1> QED BY <1>4, <1>8, <1>9, <1>13, Zenon

LEMMA GuidOther == \A i \in 1 .. Len(GuidText) : GuidText[i] \notin Sep
<1> DEFINE a == <<"Volume{">>
           c == <<"}">>
           b == a \o guid
<1>1. /\ "Volume{" \in Other /\ "}" \in Other
      /\ "8x" \in Other /\ "4x" \in Other /\ "12x" \in Other /\ "-" \in Other
  BY Zenon DEF Other, Blocks
<1>2. a \in Seq(Other) /\ c \in Seq(Other)
  <2>1. \A x \in Other : <<x>> \in Seq(Other)
    OBVIOUS
  <2> QED BY <1>1, <2>1, Zenon
<1>3. guid \in Seq(Other)
  BY <1>1, NineSeq, Zenon DEF guid
<1> HIDE DEF a, c
<1>4. b \in Seq(Other)
  BY <1>2, <1>3, ConcatProperties, Zenon
<1> HIDE DEF b
<1>5. b \o c \in Seq(Other)
  BY <1>2, <1>4, ConcatProperties, Zenon
<1>6. GuidText = b \o c
  BY Zenon DEF GuidText, a, b, c
<1>7. \A x \in Other : x \notin Sep
  BY Zenon DEF Other, Blocks, Sep
<1>8. GuidText \in Seq(Other)
  BY <1>5, <1>6, Zenon
<1> HIDE DEF GuidText
<1> QED BY <1>7, <1>8, ElementOfSeq

LEMMA AlikeGuid ==
  ASSUME NEW p \in Text, NEW s \in Text, Alike(p, s)
  PROVE  is_volume_guid(s) <=> is_volume_guid(p)
<1> DEFINE w == GuidText
<1>1. w \in Text /\ \A i \in 1 .. Len(w) : w[i] \notin Sep
  BY GuidIs, GuidOther, Zenon
<1>2. /\ is_volume_guid(s) <=> IsPrefix(w, s)
      /\ is_volume_guid(p) <=> IsPrefix(w, p)
  BY Zenon DEF is_volume_guid, GuidText
<1> HIDE DEF w
<1>3. IsPrefix(w, p) <=> Len(w) <= Len(p) /\ \A i \in 1 .. Len(w) : w[i] = p[i]
  BY <1>1, PrefixIs
<1>4. IsPrefix(w, s) <=> Len(w) <= Len(p) /\ \A i \in 1 .. Len(w) : w[i] = s[i]
  BY <1>1, PrefixIs DEF Alike
<1>5. ASSUME Len(w) <= Len(p), NEW i \in 1 .. Len(w) PROVE w[i] = s[i] <=> w[i] = p[i]
  <2>1. i \in 1 .. Len(p)
    BY <1>1, <1>5, LenProperties DEF Text
  <2>2. Same(p[i], s[i]) /\ w[i] \notin Sep
    BY <1>1, <2>1, Zenon DEF Alike
  <2> QED BY <2>2, Zenon DEF Same
<1> QED BY <1>2, <1>3, <1>4, <1>5, Zenon

LEMMA AlikeName ==
  ASSUME NEW p \in Text, NEW s \in Text, Alike(p, s) PROVE DriveName(s) = DriveName(p)
<1> DEFINE n == Until(p, Sep)
           S == DriveName(p)
           T == DriveName(s)
<1>1. Stops(p, Sep, n) /\ n \in 0 .. Len(p)
  BY NameIs, Zenon
<1>2. S \in Text /\ Len(S) = n /\ \A i \in 1 .. n : S[i] = p[i]
  BY NameIs, Zenon
<1> HIDE DEF n, S
<1>3. Len(p) \in Nat /\ Len(s) = Len(p)
  BY LenProperties DEF Text, Alike
<1>4. ASSUME NEW i \in 1 .. n PROVE s[i] \notin Sep /\ s[i] = p[i]
  <2>1. i \in 1 .. Len(p)
    BY <1>1, <1>3
  <2>2. p[i] \notin Sep
    BY <1>1, Zenon DEF Stops, Free
  <2>3. Same(p[i], s[i])
    BY <2>1, Zenon DEF Alike
  <2> QED BY <2>2, <2>3, Zenon DEF Same
<1>5. ASSUME n < Len(p) PROVE s[n + 1] \in Sep
  <2>1. n + 1 \in 1 .. Len(p)
    BY <1>1, <1>3, <1>5
  <2>2. Same(p[n + 1], s[n + 1]) /\ p[n + 1] \in Sep
    BY <1>1, <1>5, <2>1, Zenon DEF Stops, Alike
  <2> QED BY <2>2, Zenon DEF Same
<1>6. Stops(s, Sep, n)
  BY <1>1, <1>3, <1>4, <1>5, Zenon DEF Stops, Free
<1>7. Until(s, Sep) = n
  BY <1>6, UntilIs
<1>8. T \in Text /\ Len(T) = n /\ \A i \in 1 .. n : T[i] = s[i]
  BY <1>7, NameIs
<1> HIDE DEF T
<1>9. Len(T) = Len(S) /\ \A i \in 1 .. Len(T) : T[i] = S[i]
  BY <1>2, <1>4, <1>8
<1>10. T = S
  BY <1>2, <1>8, <1>9, SameText
<1> QED BY <1>10 DEF T, S

LEMMA AlikeSays ==
  ASSUME NEW p \in Text, NEW s \in Text, Alike(p, s), NEW v PROVE Says(s, v) <=> Says(p, v)
<1>1. DriveName(s) = DriveName(p)
  BY AlikeName
<1>2. DosSays(s) = DosSays(p)
  BY <1>1, Zenon DEF DosSays, Unnamed
<1>3. Len(p) \in Nat /\ Len(s) = Len(p)
  BY LenProperties DEF Text, Alike
<1>4. Len(p) >= 2 => 1 \in 1 .. Len(p) /\ 2 \in 1 .. Len(p)
  BY <1>3
<1>5. "DosDevices" \notin Sep
  BY Zenon DEF Sep
<1>6. IsLink(s) <=> IsLink(p)
  <2>1. Len(p) >= 2 => Same(p[1], s[1]) /\ Same(p[2], s[2])
    BY <1>4, Zenon DEF Alike
  <2>2. Len(p) >= 2 => (s[1] = "DosDevices" <=> p[1] = "DosDevices") /\ (s[2] \in Sep <=> p[2] \in Sep)
    BY <1>5, <2>1, Zenon DEF Same
  <2>3. /\ IsLink(p) <=> Len(p) >= 2 /\ p[1] = "DosDevices" /\ p[2] \in Sep
        /\ IsLink(s) <=> Len(s) >= 2 /\ s[1] = "DosDevices" /\ s[2] \in Sep
    BY LinkIs, Zenon
  <2> QED BY <1>3, <2>2, <2>3, Zenon
<1> QED BY <1>2, <1>6, Zenon DEF Says

LEMMA LinksFit ==
  ASSUME NEW q \in Text, NEW n \in Links(q)
  PROVE  /\ 2 * n \in 0 .. Len(q) /\ n \in 0 .. Len(q)
         /\ \A i \in 1 .. n : /\ 2 * i - 1 \in 1 .. Len(q) /\ 2 * i \in 1 .. Len(q)
                              /\ q[2 * i - 1] = "DosDevices" /\ q[2 * i] \in Sep
BY LenProperties DEF Text, Links

LEMMA AlikeDos ==
  ASSUME NEW p \in Text, NEW s \in Text, Alike(p, s)
  PROVE  deduce_dos_drive_type(s) = deduce_dos_drive_type(p)
<1> DEFINE v == deduce_dos_drive_type(p)
<1>1. PICK n \in Links(p) : Says(Drop(p, 2 * n), v)
  BY DosIs, Zenon
<1>2. /\ 2 * n \in 0 .. Len(p) /\ n \in 0 .. Len(p)
      /\ \A i \in 1 .. n : /\ 2 * i - 1 \in 1 .. Len(p) /\ 2 * i \in 1 .. Len(p)
                           /\ p[2 * i - 1] = "DosDevices" /\ p[2 * i] \in Sep
  BY LinksFit
<1>3. Says(Drop(s, 2 * n), v)
  <2>1. /\ Drop(p, 2 * n) \in Text /\ Drop(s, 2 * n) \in Text
        /\ Alike(Drop(p, 2 * n), Drop(s, 2 * n))
    BY <1>2, AlikeDrop
  <2> QED BY <1>1, <2>1, AlikeSays
<1>4. "DosDevices" \notin Sep
  BY Zenon DEF Sep
<1>5. \A i \in 1 .. n : s[2 * i - 1] = "DosDevices" /\ s[2 * i] \in Sep
  <2> SUFFICES ASSUME NEW i \in 1 .. n PROVE s[2 * i - 1] = "DosDevices" /\ s[2 * i] \in Sep
    OBVIOUS
  <2>1. Same(p[2 * i - 1], s[2 * i - 1]) /\ Same(p[2 * i], s[2 * i])
    BY <1>2, Zenon DEF Alike
  <2>2. p[2 * i - 1] = "DosDevices" /\ p[2 * i] \in Sep
    BY <1>2, Zenon
  <2> QED BY <1>4, <2>1, <2>2, Zenon DEF Same
<1>6. 2 * n <= Len(p) /\ Len(s) = Len(p)
  BY <1>2 DEF Alike
<1>7. n \in Links(s)
  BY <1>2, <1>5, <1>6, Zenon DEF Links
<1> QED BY <1>3, <1>7, DosIs, Zenon

LEMMA AlikeDevice ==
  ASSUME NEW p \in Text, NEW s \in Text, Alike(p, s), NEW c
  PROVE  deduce_device_path_type(s, c) = deduce_device_path_type(p, c)
<1>1. is_volume(s) <=> is_volume(p)
  BY AlikeFront
<1>2. is_volume_guid(s) <=> is_volume_guid(p)
  BY AlikeGuid
<1>3. "UNC" \notin Sep
  BY Zenon DEF Sep
<1>4. Begins(s, {"UNC"}) <=> Begins(p, {"UNC"})
  BY <1>3, AlikeBegins, Zenon
<1>5. deduce_dos_drive_type(s) = deduce_dos_drive_type(p)
  BY AlikeDos
<1>6. is_volume(p) => (Begins(Drop(s, 2), Sep) <=> Begins(Drop(p, 2), Sep))
  <2>1. is_volume(p) => Len(p) >= 2
    BY Zenon DEF is_volume
  <2>2. Len(p) >= 2 => 2 \in 0 .. Len(p)
    BY LenProperties DEF Text
  <2> QED BY <2>1, <2>2, AlikeDrop, AlikeBegins, Zenon
<1> QED BY <1>1, <1>2, <1>4, <1>5, <1>6, Zenon DEF deduce_device_path_type

LEMMA SlashedIs ==
  ASSUME NEW p \in Text, NEW s, s = Slashed(p)
  PROVE  s \in Text /\ Alike(p, s) /\ \A i \in 1 .. Len(s) : s[i] # "\\"
<1> DEFINE z == Len(p)
<1>1. z \in Nat /\ \A i \in 1 .. z : p[i] \in Char
  BY LenProperties, ElementOfSeq DEF Text
<1>2. "/" \in Sep /\ "\\" \in Sep /\ Sep \subseteq Char /\ "/" # "\\"
  BY CharSets, Zenon DEF Sep
<1>3. "/" \in Char
  BY <1>2, Zenon
<1>4. s = [i \in 1 .. z |-> IF p[i] \in Sep THEN "/" ELSE p[i]]
  BY Zenon DEF Slashed
<1>5. s \in [1 .. z -> Char]
  BY <1>1, <1>3, <1>4
<1>6. \A i \in 1 .. z : s[i] = IF p[i] \in Sep THEN "/" ELSE p[i]
  BY <1>4, Zenon
<1> HIDE DEF z
<1>7. s \in Seq(Char) /\ Len(s) = z
  <2>1. s \in Seq(Char)
    BY <1>1, <1>5, SeqDef
  <2>2. DOMAIN s = 1 .. Len(s) /\ Len(s) \in Nat
    BY <2>1, LenProperties
  <2>3. DOMAIN s = 1 .. z
    BY <1>5
  <2> DEFINE y == Len(s)
  <2>4. y \in Nat /\ 1 .. y = 1 .. z
    BY <2>2, <2>3
  <2> HIDE DEF y
  <2>5. y = z
    BY <1>1, <2>4
  <2> QED BY <2>1, <2>5 DEF y
<1> QED BY <1>2, <1>6, <1>7 DEF Alike, Same, Text, z

LEMMA SlashedHolds ==
  ASSUME NEW p \in Text
  PROVE  SlashedAlike(p, deduce_path_type(p), deduce_path_type(Slashed(p)))
<1> DEFINE s == Slashed(p)
           t == deduce_path_type(p)
           u == deduce_path_type(s)
           R == Begins(p, Sep)
           D == is_device_path(p)
           W == IsPrefix(<<"\\", "\\">>, p)
<1>1. s \in Text /\ Alike(p, s) /\ \A i \in 1 .. Len(s) : s[i] # "\\"
  BY SlashedIs
<1> HIDE DEF s
<1>2. Len(p) \in Nat /\ Len(s) = Len(p)
  BY <1>1, LenProperties DEF Text, Alike
<1>3. /\ Begins(s, Sep) <=> R
      /\ is_volume(s) <=> is_volume(p)
      /\ is_device_path(s) <=> D
      /\ D => s[3] = p[3]
      /\ is_nt_path(s) <=> is_nt_path(p)
  BY <1>1, AlikeBegins, AlikeFront, Zenon
<1>4. CASE ~R
  <2>1. is_volume(p) /\ Len(p) # 2 => (s[3] \in Sep <=> p[3] \in Sep)
    <3>1. is_volume(p) => Len(p) >= 2
      BY Zenon DEF is_volume
    <3>2. Len(p) >= 2 /\ Len(p) # 2 => 3 \in 1 .. Len(p)
      BY <1>2
    <3>3. is_volume(p) /\ Len(p) # 2 => Same(p[3], s[3])
      BY <1>1, <3>1, <3>2, Zenon DEF Alike
    <3> QED BY <3>3, Zenon DEF Same
  <2>2. u = t
    BY <1>2, <1>3, <1>4, <2>1, Zenon DEF deduce_path_type
  <2> QED BY <2>2, Zenon DEF SlashedAlike, s
<1>5. CASE R /\ D
  <2>1. 4 \in 0 .. Len(p)
    <3>1. Len(p) >= 4
      BY <1>5, Zenon DEF is_device_path
    <3> QED BY <1>2, <3>1
  <2>2. deduce_device_path_type(Drop(s, 4), p[3]) = deduce_device_path_type(Drop(p, 4), p[3])
    <3>1. Drop(p, 4) \in Text /\ Drop(s, 4) \in Text /\ Alike(Drop(p, 4), Drop(s, 4))
      BY <1>1, <2>1, AlikeDrop
    <3> QED BY <3>1, AlikeDevice
  <2>3. t = deduce_device_path_type(Drop(p, 4), p[3])
    BY <1>5, Zenon DEF deduce_path_type
  <2>4. u = deduce_device_path_type(Drop(s, 4), p[3])
    BY <1>3, <1>5, Zenon DEF deduce_path_type
  <2>5. u = t
    BY <2>2, <2>3, <2>4, Zenon
  <2> QED BY <2>5, Zenon DEF SlashedAlike, s
<1>6. CASE R /\ ~D
  <2> DEFINE Two == Begins(Tail(p), Sep)
             x == is_unc_path(p)
  <2>1. Begins(Tail(s), Sep) <=> Two
    <3>1. Two <=> Len(p) >= 2 /\ p[2] \in Sep
      BY <1>6, RootIs, Zenon
    <3>2. Begins(Tail(s), Sep) <=> Len(p) >= 2 /\ s[2] \in Sep
      BY <1>1, <1>2, <1>3, <1>6, RootIs, Zenon
    <3>3. Len(p) >= 2 => 2 \in 1 .. Len(p)
      BY <1>2
    <3>4. Len(p) >= 2 => Same(p[2], s[2])
      BY <1>1, <3>3, Zenon DEF Alike
    <3> QED BY <3>1, <3>2, <3>4, Zenon DEF Same
  <2>2. is_unc_path(s) = "no"
    <3>1. ~IsPrefix(<<"\\", "\\">>, s)
      <4>1. Len(p) >= 2 => 1 \in 1 .. Len(p)
        BY <1>2
      <4> QED BY <1>1, <1>2, <4>1, SlashesIs, Zenon
    <3> QED BY <3>1, Zenon DEF is_unc_path
  <2>3. W => Two
    <3>1. "\\" \in Sep
      BY Zenon DEF Sep
    <3> QED BY <1>6, <3>1, RootIs, SlashesIs, Zenon
  <2>4. ~W => x = "no"
    BY Zenon DEF is_unc_path
  <2>5. x \in {"no", "yes", "Undefined"}
    BY Zenon DEF is_unc_path
  <2>6. t = IF is_nt_path(p) THEN "NtNamespace"
            ELSE IF x = "Undefined" THEN "Undefined"
            ELSE IF x = "yes" THEN "UNCNamespace"
            ELSE IF ~Two THEN "CurrDriveRel" ELSE "Unknown"
    BY <1>6, Zenon DEF deduce_path_type
  <2>7. u = IF is_nt_path(p) THEN "NtNamespace"
            ELSE IF ~Two THEN "CurrDriveRel" ELSE "Unknown"
    BY <1>3, <1>6, <2>1, <2>2, Zenon DEF deduce_path_type
  <2> HIDE DEF t, u, W, x, Two
  <2>8. u = t \/ (W /\ u = "Unknown" /\ t \in {"UNCNamespace", "Undefined"})
    BY <2>3, <2>4, <2>5, <2>6, <2>7, Zenon
  <2> QED BY <2>8, Zenon DEF SlashedAlike, t, u, W, s
<1> QED BY <1>4, <1>5, <1>6

-----------------------------------------------------------------------------
(* ExtendedAlike: a path with one more component.                          *)
LEMMA ExtIs ==
  ASSUME NEW p \in Text
  PROVE  /\ Extended(p) \in Text /\ Len(Extended(p)) = Len(p) + 2
         /\ \A i \in 1 .. Len(p) : Extended(p)[i] = p[i]
         /\ Extended(p)[Len(p) + 1] = "\\" /\ Extended(p)[Len(p) + 2] = "z"
<1> DEFINE w == <<"\\", "z">>
           e == p \o w
           z == Len(p)
<1>1. "\\" \in Char /\ "z" \in Char
  BY CharSets, Zenon DEF Char, Alnum, Alpha, Letter
<1>2. w \in Seq(Char) /\ Len(w) = 2 /\ w[1] = "\\" /\ w[2] = "z"
  <2>1. \A a, b \in Char : <<a, b>> \in Seq(Char) /\ Len(<<a, b>>) = 2
    OBVIOUS
  <2>2. w[1] = "\\" /\ w[2] = "z"
    OBVIOUS
  <2> QED BY <1>1, <2>1, <2>2, Zenon
<1> HIDE DEF w
<1>3. /\ e \in Seq(Char) /\ Len(e) = Len(p) + Len(w)
      /\ \A i \in 1 .. Len(p) + Len(w) : e[i] = IF i <= Len(p) THEN p[i] ELSE w[i - Len(p)]
  BY <1>2, ConcatProperties DEF Text
<1> HIDE DEF e
<1>4. Len(w) = 2
  BY <1>2, Zenon
<1>5. z \in Nat
  BY LenProperties DEF Text
<1>6. Len(e) = z + 2 /\ \A i \in 1 .. z + 2 : e[i] = IF i <= z THEN p[i] ELSE w[i - z]
  BY <1>3, <1>4
<1> HIDE DEF z
<1>7. \A i \in 1 .. z : e[i] = p[i]
  <2>1. \A i \in 1 .. z : i \in 1 .. z + 2 /\ i <= z
    BY <1>5
  <2> QED BY <1>6, <2>1, Zenon
<1>8. e[z + 1] = w[1] /\ e[z + 2] = w[2]
  <2>1. /\ z + 1 \in 1 .. z + 2 /\ z + 2 \in 1 .. z + 2 /\ ~(z + 1 <= z) /\ ~(z + 2 <= z)
        /\ z + 1 - z = 1 /\ z + 2 - z = 2
    BY <1>5
  <2>2. \A i \in 1 .. z + 2 : ~(i <= z) => e[i] = w[i - z]
    BY <1>6, Zenon
  <2> QED BY <1>5, <2>1, <2>2
<1>9. Extended(p) = e
  BY Zenon DEF Extended, e, w
<1> QED BY <1>2, <1>3, <1>6, <1>7, <1>8, <1>9, Zenon DEF Text, z

LEMMA ExtUnder ==
  ASSUME NEW p \in Text, NEW S, S \subseteq Text, Under(S, p) PROVE Under(S, Extended(p))
<1> DEFINE e == Extended(p)
<1>1. PICK s \in S : IsPrefix(s, p)
  BY Zenon DEF Under
<1>2. s \in Text /\ Len(s) \in Nat /\ Len(p) \in Nat
  BY LenProperties DEF Text
<1>3. e \in Text /\ Len(e) = Len(p) + 2 /\ \A i \in 1 .. Len(p) : e[i] = p[i]
  BY ExtIs
<1> HIDE DEF e
<1>4. Len(s) <= Len(p) /\ \A i \in 1 .. Len(s) : s[i] = p[i]
  BY <1>1, <1>2, PrefixIs
<1>5. Len(s) <= Len(e) /\ \A i \in 1 .. Len(s) : i \in 1 .. Len(p)
  BY <1>2, <1>3, <1>4
<1>6. \A i \in 1 .. Len(s) : s[i] = e[i]
  BY <1>3, <1>4, <1>5, Zenon
<1>7. IsPrefix(s, e)
  BY <1>2, <1>3, <1>5, <1>6, PrefixIs, Zenon
<1> QED BY <1>7, Zenon DEF Under, e

LEMMA ExtDrop ==
  ASSUME NEW p \in Text, NEW n \in 0 .. Len(p)
  PROVE  Drop(p, n) \in Text /\ Drop(Extended(p), n) = Extended(Drop(p, n))
<1> DEFINE e == Extended(p)
           z == Len(p)
           a == Drop(e, n)
           q == Drop(p, n)
           b == Extended(q)
<1>1. z \in Nat /\ n \in 0 .. z
  BY LenProperties DEF Text
<1>2. e \in Text /\ Len(e) = z + 2 /\ \A i \in 1 .. z : e[i] = p[i]
  BY ExtIs
<1>3. e[z + 1] = "\\" /\ e[z + 2] = "z"
  BY ExtIs
<1>4. q \in Text /\ Len(q) = z - n /\ \A i \in 1 .. z - n : q[i] = p[n + i]
  BY DropIs
<1> HIDE DEF e, q
<1>5. n \in 0 .. Len(e)
  BY <1>1, <1>2
<1>6. a \in Text /\ Len(a) = Len(e) - n /\ \A i \in 1 .. Len(e) - n : a[i] = e[n + i]
  BY <1>2, <1>5, DropIs
<1>7. b \in Text /\ Len(b) = Len(q) + 2 /\ \A i \in 1 .. Len(q) : b[i] = q[i]
  BY <1>4, ExtIs
<1>8. b[Len(q) + 1] = "\\" /\ b[Len(q) + 2] = "z"
  BY <1>4, ExtIs
<1> HIDE DEF a, b, z
<1>9. ASSUME NEW i \in 1 .. Len(a) PROVE a[i] = b[i]
  <2>1. i \in 1 .. Len(e) - n /\ i \in 1 .. z - n + 2
    BY <1>1, <1>2, <1>6
  <2>2. a[i] = e[n + i]
    BY <1>6, <2>1, Zenon
  <2>3. CASE i <= z - n
    <3>1. i \in 1 .. z - n /\ i \in 1 .. Len(q) /\ n + i \in 1 .. z
      BY <1>1, <1>4, <2>1, <2>3
    <3> QED BY <1>2, <1>4, <1>7, <2>2, <3>1, Zenon
  <2>4. CASE i = z - n + 1
    <3>1. n + i = z + 1 /\ i = Len(q) + 1
      BY <1>1, <1>4, <2>4
    <3> QED BY <1>3, <1>8, <2>2, <3>1, Zenon
  <2>5. CASE i = z - n + 2
    <3>1. n + i = z + 2 /\ i = Len(q) + 2
      BY <1>1, <1>4, <2>5
    <3> QED BY <1>3, <1>8, <2>2, <3>1, Zenon
  <2>6. i <= z - n \/ i = z - n + 1 \/ i = z - n + 2
    BY <1>1, <2>1
  <2> QED BY <2>3, <2>4, <2>5, <2>6
<1>10. Len(a) = Len(b)
  BY <1>1, <1>2, <1>4, <1>6, <1>7
<1>11. a = b
  BY <1>6, <1>7, <1>9, <1>10, SameText
<1> QED BY <1>4, <1>11, Zenon DEF a, b, e, q

LEMMA ExtUntil ==
  ASSUME NEW p \in Text, NEW S, "\\" \in S
  PROVE  Until(Extended(p), S) = Until(p, S) /\ Until(p, S) \in 0 .. Len(p)
<1> DEFINE e == Extended(p)
           n == Until(p, S)
<1>1. n \in 0 .. Len(p) /\ (\A i \in 1 .. n : p[i] \notin S) /\ (n < Len(p) => p[n + 1] \in S)
  BY UntilStops, Zenon DEF Stops, Free
<1> HIDE DEF n
<1>2. Len(p) \in Nat
  BY LenProperties DEF Text
<1>3. e \in Text /\ Len(e) = Len(p) + 2 /\ \A i \in 1 .. Len(p) : e[i] = p[i]
  BY ExtIs
<1>4. e[Len(p) + 1] = "\\"
  BY ExtIs
<1> HIDE DEF e
<1>5. n \in 0 .. Len(e)
  BY <1>1, <1>2, <1>3
<1>6. ASSUME NEW i \in 1 .. n PROVE e[i] \notin S
  <2>1. i \in 1 .. Len(p)
    BY <1>1, <1>2
  <2> QED BY <1>1, <1>3, <2>1, Zenon
<1>7. e[n + 1] \in S
  <2>1. CASE n < Len(p)
    <3>1. n + 1 \in 1 .. Len(p)
      BY <1>1, <1>2, <2>1
    <3>2. e[n + 1] = p[n + 1]
      BY <1>3, <3>1, Zenon
    <3> QED BY <1>1, <2>1, <3>2
  <2>2. CASE n = Len(p)
    BY <1>4, <2>2, Zenon
  <2>3. n < Len(p) \/ n = Len(p)
    BY <1>1, <1>2
  <2> QED BY <2>1, <2>2, <2>3
<1>8. Stops(e, S, n)
  BY <1>5, <1>6, <1>7, Zenon DEF Stops, Free
<1>9. Until(e, S) = n
  BY <1>3, <1>8, UntilIs
<1> QED BY <1>1, <1>9, Zenon DEF e, n

LEMMA ExtFirst ==
  ASSUME NEW p \in Text, NEW n \in 0 .. Len(p)
  PROVE  SubSeq(Extended(p), 1, n) = SubSeq(p, 1, n)
<1> DEFINE e == Extended(p)
           a == SubSeq(e, 1, n)
           b == SubSeq(p, 1, n)
<1>1. Len(p) \in Nat
  BY LenProperties DEF Text
<1>2. e \in Text /\ Len(e) = Len(p) + 2 /\ \A i \in 1 .. Len(p) : e[i] = p[i]
  BY ExtIs
<1> HIDE DEF e
<1>3. n \in 0 .. Len(e)
  BY <1>1, <1>2
<1>4. a \in Text /\ Len(a) = n /\ \A i \in 1 .. n : a[i] = e[i]
  BY <1>2, <1>3, FirstIs
<1>5. b \in Text /\ Len(b) = n /\ \A i \in 1 .. n : b[i] = p[i]
  BY FirstIs
<1> HIDE DEF a, b
<1>6. \A i \in 1 .. n : i \in 1 .. Len(p)
  BY <1>1
<1>7. Len(a) = Len(b) /\ \A i \in 1 .. Len(a) : a[i] = b[i]
  BY <1>2, <1>4, <1>5, <1>6
<1>8. a = b
  BY <1>4, <1>5, <1>7, SameText
<1> QED BY <1>8 DEF a, b, e

(* The first character stays, and what follows it is extended.             *)
LEMMA ExtTail ==
  ASSUME NEW p \in Text, Len(p) >= 1
  PROVE  Extended(p)[1] = p[1] /\ Tail(p) \in Text /\ Tail(Extended(p)) = Extended(Tail(p))
<1> DEFINE e == Extended(p)
<1>1. Len(p) \in Nat /\ 1 \in 1 .. Len(p) /\ 1 \in 0 .. Len(p)
  BY LenProperties DEF Text
<1>2. e \in Text /\ Len(e) = Len(p) + 2 /\ \A i \in 1 .. Len(p) : e[i] = p[i]
  BY ExtIs
<1>3. Tail(p) = Drop(p, 1) /\ Tail(p) \in Text
  BY TailIs
<1>4. Drop(e, 1) = Extended(Drop(p, 1))
  BY <1>1, ExtDrop
<1> HIDE DEF e
<1>5. Len(e) >= 1
  BY <1>1, <1>2
<1>6. Tail(e) = Drop(e, 1)
  BY <1>2, <1>5, TailIs
<1>7. e[1] = p[1]
  BY <1>1, <1>2, Zenon
<1>8. Tail(e) = Extended(Tail(p))
  BY <1>3, <1>4, <1>6, Zenon
<1> QED BY <1>3, <1>7, <1>8 DEF e

LEMMA ExtBegins ==
  ASSUME NEW p \in Text, NEW S
  PROVE  /\ Begins(p, S) => Begins(Extended(p), S)
         /\ p # <<>> \/ "\\" \notin S => (Begins(Extended(p), S) <=> Begins(p, S))
<1> DEFINE e == Extended(p)
<1>1. Len(p) \in Nat
  BY LenProperties DEF Text
<1>2. e \in Text /\ Len(e) = Len(p) + 2
  BY ExtIs
<1>3. e[Len(p) + 1] = "\\"
  BY ExtIs
<1>4. Len(p) >= 1 => e[1] = p[1]
  BY ExtTail
<1> HIDE DEF e
<1>5. Begins(e, S) <=> e[1] \in S
  <2>1. Len(e) >= 1
    BY <1>1, <1>2
  <2> QED BY <1>2, <2>1, BeginsIs, Zenon
<1>6. Begins(p, S) <=> Len(p) >= 1 /\ p[1] \in S
  BY BeginsIs
<1>7. p # <<>> <=> Len(p) >= 1
  BY EmptySeq DEF Text
<1>8. ~(Len(p) >= 1) => e[1] = "\\"
  <2>1. ~(Len(p) >= 1) => Len(p) + 1 = 1
    BY <1>1
  <2> QED BY <1>3, <2>1, Zenon
<1>9. Begins(p, S) => Begins(e, S)
  BY <1>4, <1>5, <1>6, Zenon
<1>10. p # <<>> \/ "\\" \notin S => (Begins(e, S) <=> Begins(p, S))
  BY <1>4, <1>5, <1>6, <1>7, <1>8, Zenon
<1> QED BY <1>9, <1>10 DEF e

(* What follows does not change the name at the front.                     *)
LEMMA ExtName == ASSUME NEW q \in Text PROVE DriveName(Extended(q)) = DriveName(q)
<1>1. "\\" \in Sep
  BY Zenon DEF Sep
<1>2. Until(Extended(q), Sep) = Until(q, Sep) /\ Until(q, Sep) \in 0 .. Len(q)
  BY <1>1, ExtUntil
<1>3. SubSeq(Extended(q), 1, Until(q, Sep)) = SubSeq(q, 1, Until(q, Sep))
  BY <1>2, ExtFirst
<1> QED BY <1>2, <1>3, Zenon DEF DriveName

LEMMA ExtVolume == ASSUME NEW q \in Text PROVE is_volume(Extended(q)) <=> is_volume(q)
<1> DEFINE e == Extended(q)
           z == Len(q)
<1>1. z \in Nat
  BY LenProperties DEF Text
<1>2. Len(e) = z + 2 /\ \A i \in 1 .. z : e[i] = q[i]
  BY ExtIs
<1>3. e[z + 1] = "\\"
  BY ExtIs
<1> HIDE DEF e, z
<1>4. CASE z >= 2
  <2>1. Len(e) >= 2 /\ 1 \in 1 .. z /\ 2 \in 1 .. z
    BY <1>1, <1>2, <1>4
  <2>2. e[1] = q[1] /\ e[2] = q[2]
    BY <1>2, <2>1, Zenon
  <2> QED BY <1>4, <2>1, <2>2, Zenon DEF is_volume, e, z
<1>5. CASE ~(z >= 2)
  <2>1. e[1] = "\\" \/ e[2] = "\\"
    <3>1. z + 1 = 1 \/ z + 1 = 2
      BY <1>1, <1>5
    <3> QED BY <1>3, <3>1, Zenon
  <2>2. "\\" \notin Letter /\ "\\" # ":"
    BY Zenon DEF Letter
  <2> QED BY <1>5, <2>1, <2>2, Zenon DEF is_volume, e, z
<1> QED BY <1>4, <1>5

LEMMA FormsText ==
  /\ Nt \subseteq Text
  /\ Device({".", "?"}) \odot {GuidText} \subseteq Text
  /\ Device({".", "?"}) \odot Volumes \odot One(Sep) \subseteq Text
  /\ Device({"."}) \odot {<<"UNC">>} \subseteq Text
  /\ Volumes \odot One(Sep) \subseteq Text /\ Volumes \subseteq Text
  /\ Device({"."}) \subseteq Text
<1> DEFINE A == Device({".", "?"})
           B == Device({"."})
           x == {<<"?", "?">>, <<"GLOBAL", "?", "?">>}
<1>1. {".", "?"} \subseteq Char /\ {"."} \subseteq Char
  BY CharSets
<1>2. A \subseteq Text /\ B \subseteq Text
  BY <1>1, DeviceForm, Zenon DEF HasLen
<1>3. One(Sep) \subseteq Text /\ One({"UNC"}) \subseteq Text
  BY CharSets, OneLen, Zenon DEF HasLen
<1>4. Volumes \subseteq Text
  BY VolumesForm, Zenon DEF HasLen
<1>5. {GuidText} \subseteq Text
  BY GuidIs
<1>6. {<<"UNC">>} \subseteq Text
  <2>1. One({"UNC"}) = {<<"UNC">>}
    BY DEF One
  <2> QED BY <1>3, <2>1
<1>7. x \subseteq Text
  <2>1. "?" \in Char /\ "GLOBAL" \in Char
    BY CharSets
  <2>3. HasLen({<<"?", "?">>}, 2) /\ HasLen({<<"GLOBAL", "?", "?">>}, 3)
    BY <2>1, TwoThree, Zenon
  <2>2. {<<"?", "?">>} \subseteq Text /\ {<<"GLOBAL", "?", "?">>} \subseteq Text
    BY <2>3, Zenon DEF HasLen
  <2> QED BY <2>2
<1> HIDE DEF A, B, x
<1>8. One(Sep) \odot x \odot One(Sep) \subseteq Text
  BY <1>3, <1>7, JoinText, Zenon
<1>9. A \odot {GuidText} \subseteq Text /\ A \odot Volumes \odot One(Sep) \subseteq Text
  BY <1>2, <1>3, <1>4, <1>5, JoinText, Zenon
<1>10. B \odot {<<"UNC">>} \subseteq Text /\ Volumes \odot One(Sep) \subseteq Text
  BY <1>2, <1>3, <1>4, <1>6, JoinText, Zenon
<1> QED BY <1>2, <1>4, <1>8, <1>9, <1>10, Zenon DEF Nt, A, B, x

LEMMA ExtFormed ==
  ASSUME NEW p \in Text, p # <<>>,
         deduce_path_type(p) \in {"NtNamespace", "GUIDVolume", "DosVolume", "DeviceUNC",
                                  "QualDOS", "DriveRel", "DirRel"}
  PROVE  deduce_path_type(Extended(p)) = deduce_path_type(p)
<1> DEFINE e == Extended(p)
           t == deduce_path_type(p)
           u == deduce_path_type(e)
           G == Device({".", "?"}) \odot {GuidText}
           V == Device({".", "?"}) \odot Volumes \odot One(Sep)
           C == Device({"."}) \odot {<<"UNC">>}
           Q == Volumes \odot One(Sep)
<1>1. e \in Text
  BY ExtIs
<1>2. \A q \in Text : FormTells(q, deduce_path_type(q))
  BY FormsHold, DosTyped, Zenon
<1>3. ASSUME NEW q \in Text
      PROVE  /\ deduce_path_type(q) = "NtNamespace" <=> Under(Nt, q)
             /\ deduce_path_type(q) = "GUIDVolume" <=> Under(G, q)
             /\ deduce_path_type(q) = "DosVolume" <=> Under(V, q)
             /\ deduce_path_type(q) = "DeviceUNC" <=> Under(C, q)
             /\ deduce_path_type(q) = "QualDOS" <=> q \in Volumes \/ Under(Q, q)
             /\ deduce_path_type(q) = "DriveRel" <=>
                  Under(Volumes, q) /\ deduce_path_type(q) # "QualDOS"
             /\ deduce_path_type(q) = "DirRel" <=> ~Under(One(Sep), q) /\ ~Under(Volumes, q)
  BY <1>2, Zenon DEF FormTells, Nt, GuidText
<1>4. /\ Under(Nt, p) => Under(Nt, e)
      /\ Under(G, p) => Under(G, e)
      /\ Under(V, p) => Under(V, e)
      /\ Under(C, p) => Under(C, e)
      /\ Under(Q, p) => Under(Q, e)
      /\ Under(Volumes, p) => Under(Volumes, e)
  BY FormsText, ExtUnder, Zenon
<1> HIDE DEF e, t, u, G, V, C
<1>5. ASSUME NEW q \in Text
      PROVE  /\ Under(Volumes, q) <=> is_volume(q)
             /\ Under(One(Sep), q) <=> Begins(q, Sep)
             /\ q \in Volumes <=> is_volume(q) /\ Len(q) = 2
             /\ Under(Q, q) <=> is_volume(q) /\ Len(q) >= 3 /\ q[3] \in Sep
  <2>1. /\ Under(Volumes, q) <=> is_volume(q)
        /\ Under(One(Sep), q) <=> Begins(q, Sep)
        /\ q \in Volumes <=> is_volume(q) /\ Len(q) = 2
    BY VolumesForm, RootIs, Zenon
  <2>2. Under(Q, q) <=> Under(Volumes, q) /\ Len(q) >= 2 + 1 /\ q[2 + 1] \in Sep
    BY VolumesForm, CharSets, UnderMore
  <2>3. 2 + 1 = 3
    OBVIOUS
  <2> QED BY <2>1, <2>2, <2>3, Zenon
<1>6. Len(p) \in Nat
  BY LenProperties DEF Text
<1>7. Len(e) = Len(p) + 2 /\ \A i \in 1 .. Len(p) : e[i] = p[i]
  BY ExtIs DEF e
<1>8. e[Len(p) + 1] = "\\"
  BY ExtIs DEF e
<1> HIDE DEF Q
<1>9. p \in Volumes => Under(Q, e)
  <2> SUFFICES ASSUME p \in Volumes PROVE Under(Q, e)
    OBVIOUS
  <2>1. is_volume(p) /\ Len(p) = 2
    BY <1>5, Zenon
  <2>2. is_volume(e)
    BY <2>1, ExtVolume, Zenon DEF e
  <2>3. Len(p) = 2
    BY <2>1, Zenon
  <2>4. Len(e) >= 3 /\ Len(p) + 1 = 3
    BY <1>7, <2>3
  <2>5. e[3] \in Sep
    <3>1. "\\" \in Sep
      BY Zenon DEF Sep
    <3> QED BY <1>8, <2>4, <3>1, Zenon
  <2> QED BY <1>1, <1>5, <2>2, <2>4, <2>5, Zenon
<1>10. t = "QualDOS" => u = "QualDOS"
  BY <1>1, <1>3, <1>4, <1>9, Zenon DEF t, u
<1>11. ASSUME is_volume(p), ~(p \in Volumes \/ Under(Q, p)) PROVE ~(e \in Volumes \/ Under(Q, e))
  <2>1. Len(p) >= 2
    BY <1>11, Zenon DEF is_volume
  <2>2. Len(p) # 2 /\ ~(Len(p) >= 3 /\ p[3] \in Sep)
    BY <1>5, <1>11, Zenon
  <2>3. Len(p) # 2
    BY <2>2, Zenon
  <2>4. Len(p) >= 3 /\ 3 \in 1 .. Len(p) /\ Len(e) # 2
    <3> DEFINE z == Len(p)
               y == Len(e)
    <3>1. z \in Nat /\ y = z + 2 /\ z >= 2 /\ z # 2
      BY <1>6, <1>7, <2>1, <2>3
    <3> HIDE DEF z, y
    <3>2. z >= 3 /\ 3 \in 1 .. z /\ y # 2
      BY <3>1
    <3> QED BY <3>2 DEF z, y
  <2>5. e[3] = p[3]
    BY <1>7, <2>4, Zenon
  <2> QED BY <1>1, <1>5, <2>2, <2>4, <2>5, Zenon
<1>12. t = "DriveRel" => u = "DriveRel"
  BY <1>1, <1>3, <1>4, <1>5, <1>11, Zenon DEF t, u
<1>13. t = "DirRel" => u = "DirRel"
  <2>1. is_volume(e) <=> is_volume(p)
    BY ExtVolume DEF e
  <2>2. Begins(e, Sep) <=> Begins(p, Sep)
    BY ExtBegins, Zenon DEF e
  <2> QED BY <1>1, <1>3, <1>5, <2>1, <2>2, Zenon DEF t, u
<1>14. t \in {"NtNamespace", "GUIDVolume", "DosVolume", "DeviceUNC"} => u = t
  BY <1>1, <1>3, <1>4, Zenon DEF t, u
<1>15. t \in {"NtNamespace", "GUIDVolume", "DosVolume", "DeviceUNC", "QualDOS", "DriveRel", "DirRel"}
  BY Zenon DEF t
<1>16. u = t
  BY <1>10, <1>12, <1>13, <1>14, <1>15, Zenon
<1> QED BY <1>16 DEF t, u, e

(* A drive and a reserved name.                                            *)
Drives == {"DosDrive", "LegacyDevice"}

LEMMA ExtSays ==
  ASSUME NEW q \in Text, NEW v \in Drives, Says(q, v) PROVE Says(Extended(q), v)
<1> DEFINE e == Extended(q)
<1>1. DriveName(e) = DriveName(q)
  BY ExtName
<1>2. DosSays(e) = DosSays(q)
  BY <1>1, Zenon DEF DosSays, Unnamed
<1>3. IsLink(e) => DosSays(e) = "Undefined"
  BY Zenon DEF IsLink, DosSays
<1>4. v # "Undefined"
  BY Zenon DEF Drives
<1> QED BY <1>2, <1>3, <1>4, Zenon DEF Says

LEMMA ExtLinks == ASSUME NEW q \in Text, NEW n \in Links(q) PROVE n \in Links(Extended(q))
<1> DEFINE e == Extended(q)
<1>1. /\ 2 * n \in 0 .. Len(q) /\ n \in 0 .. Len(q)
      /\ \A i \in 1 .. n : /\ 2 * i - 1 \in 1 .. Len(q) /\ 2 * i \in 1 .. Len(q)
                           /\ q[2 * i - 1] = "DosDevices" /\ q[2 * i] \in Sep
  BY LinksFit
<1>2. Len(e) = Len(q) + 2 /\ \A i \in 1 .. Len(q) : e[i] = q[i]
  BY ExtIs
<1>3. Len(q) \in Nat
  BY LenProperties DEF Text
<1> HIDE DEF e
<1>4. n \in 0 .. Len(e) /\ 2 * n <= Len(e)
  BY <1>1, <1>2, <1>3
<1>5. \A i \in 1 .. n : e[2 * i - 1] = "DosDevices" /\ e[2 * i] \in Sep
  <2> SUFFICES ASSUME NEW i \in 1 .. n PROVE e[2 * i - 1] = "DosDevices" /\ e[2 * i] \in Sep
    OBVIOUS
  <2>1. e[2 * i - 1] = q[2 * i - 1] /\ e[2 * i] = q[2 * i]
    BY <1>1, <1>2, Zenon
  <2> QED BY <1>1, <2>1, Zenon
<1> QED BY <1>4, <1>5, Zenon DEF Links, e

LEMMA ExtDos ==
  ASSUME NEW q \in Text, deduce_dos_drive_type(q) \in Drives
  PROVE  /\ deduce_dos_drive_type(Extended(q)) = deduce_dos_drive_type(q)
         /\ Len(q) >= 1 /\ q[1] \in Alnum
<1> DEFINE v == deduce_dos_drive_type(q)
           e == Extended(q)
<1>1. PICK n \in Links(q) : Says(Drop(q, 2 * n), v)
  BY DosIs, Zenon
<1>2. 2 * n \in 0 .. Len(q) /\ n \in 0 .. Len(q)
  BY LinksFit
<1>3. Drop(q, 2 * n) \in Text /\ Drop(e, 2 * n) = Extended(Drop(q, 2 * n))
  BY <1>2, ExtDrop
<1>4. Says(Drop(e, 2 * n), v)
  BY <1>1, <1>3, ExtSays
<1>5. n \in Links(e) /\ e \in Text
  BY ExtLinks, ExtIs
<1>6. deduce_dos_drive_type(e) = v
  BY <1>4, <1>5, DosIs, Zenon
<1>7. Len(q) \in Nat
  BY LenProperties DEF Text
<1>8. CASE n # 0
  <2>1. 1 \in 1 .. n /\ 2 * 1 - 1 = 1 /\ Len(q) >= 1
    BY <1>2, <1>7, <1>8
  <2>2. q[1] = "DosDevices"
    BY <2>1, LinksFit, Zenon
  <2>3. "DosDevices" \in Alnum
    BY Zenon DEF Alnum, Alpha, Words, HexWords
  <2> QED BY <1>6, <2>1, <2>2, <2>3, Zenon
<1>9. CASE n = 0
  <2> DEFINE r == Drop(q, 2 * n)
             S == DriveName(r)
             m == Until(r, Sep)
  <2>1. ~Unnamed(r)
    <3>1. DosSays(r) = v
      BY <1>1, Zenon DEF Says
    <3>2. v # "Unknown"
      BY Zenon DEF Drives
    <3> QED BY <3>1, <3>2, Zenon DEF DosSays
  <2>2. r \in Text /\ Len(r) = Len(q) - 2 * n /\ \A i \in 1 .. Len(q) - 2 * n : r[i] = q[2 * n + i]
    BY <1>2, DropIs
  <2> HIDE DEF r
  <2>3. /\ m \in 0 .. Len(r) /\ S \in Text /\ Len(S) = m
        /\ \A i \in 1 .. m : S[i] = r[i]
    BY <2>2, NameIs
  <2>4. S # <<>> /\ \A i \in 1 .. Len(S) : S[i] \in Alnum
    BY <2>1, Zenon DEF Unnamed
  <2> HIDE DEF S, m
  <2>5. Len(S) \in Nat \ {0}
    BY <2>3, <2>4, EmptySeq DEF Text
  <2>6. 1 \in 1 .. Len(S) /\ 1 \in 1 .. m /\ 1 \in 1 .. Len(q) - 2 * n /\ 2 * n + 1 = 1 /\ Len(q) >= 1
    BY <1>7, <1>9, <2>2, <2>3, <2>5
  <2>7. q[2 * n + 1] \in Alnum
    BY <2>2, <2>3, <2>4, <2>6, Zenon
  <2>8. q[1] \in Alnum
    BY <2>6, <2>7
  <2> QED BY <1>6, <2>6, <2>8, Zenon
<1> QED BY <1>8, <1>9

LEMMA ExtDrives ==
  ASSUME NEW p \in Text, deduce_path_type(p) \in Drives
  PROVE  deduce_path_type(Extended(p)) = deduce_path_type(p)
<1> DEFINE e == Extended(p)
           q == Drop(p, 4)
           v == deduce_path_type(p)
           f == Extended(q)
<1>1. FormTells(p, deduce_path_type(p))
  BY FormsHold, DosTyped, Zenon
<1>2. Under(Device({"."}), p)
  BY <1>1, Zenon DEF FormTells, Drives
<1>3. e \in Text /\ Under(Device({"."}), e)
  BY <1>2, FormsText, ExtUnder, ExtIs, Zenon
<1>4. /\ is_device_path(p) /\ p[3] = "."
      /\ is_device_path(e) /\ e[3] = "."
      /\ Len(p) >= 4
  BY <1>2, <1>3, DeviceForms, Zenon
<1>5. Len(p) >= 4 /\ Len(p) \in Nat
  BY <1>4, LenProperties DEF Text
<1>6. 4 \in 0 .. Len(p)
  BY <1>5
<1>7. q \in Text /\ Drop(e, 4) = f
  BY <1>6, ExtDrop
<1>8. v = deduce_device_path_type(q, p[3])
  BY <1>4, RootIs, Zenon DEF deduce_path_type
<1>9. deduce_path_type(e) = deduce_device_path_type(f, e[3])
  BY <1>3, <1>4, <1>7, RootIs, Zenon DEF deduce_path_type
<1>10. v \in Drives
  BY Zenon
<1> HIDE DEF v, f, e, q
<1>11. ~is_volume(q) /\ v = deduce_dos_drive_type(q)
  BY <1>4, <1>8, <1>10, Zenon DEF deduce_device_path_type, Drives
<1>12. deduce_dos_drive_type(f) = v /\ Len(q) >= 1 /\ q[1] \in Alnum
  BY <1>7, <1>10, <1>11, ExtDos, Zenon DEF f
<1>13. ~is_volume(f)
  BY <1>7, <1>11, ExtVolume, Zenon DEF f
<1>14. f \in Text /\ f[1] = q[1]
  BY <1>7, <1>12, ExtIs, ExtTail DEF f
<1>15. ~is_volume_guid(f)
  <2>1. "Volume{" \notin Alnum
    BY Zenon DEF Alnum, Alpha, Letter, Words, HexWords, Digit, Value
  <2> QED BY <1>12, <1>14, <2>1, GuidBegins, Zenon
<1>16. ~Begins(f, {"UNC"})
  <2>1. ~Begins(q, {"UNC"})
    BY <1>4, <1>8, <1>10, Zenon DEF deduce_device_path_type, Drives
  <2>2. q[1] # "UNC"
    BY <1>7, <1>12, <2>1, BeginsIs, Zenon
  <2> QED BY <1>14, <2>2, Zenon DEF Begins
<1>17. deduce_path_type(e) = v
  BY <1>4, <1>9, <1>12, <1>13, <1>15, <1>16, Zenon DEF deduce_device_path_type
<1> QED BY <1>17 DEF v, e

-----------------------------------------------------------------------------
(* The host of a UNC path, with one more component.                        *)
Dollar(p, n)  == n < Len(p) /\ p[n + 1] = "$"
NameEnd(p)    == 1 + Until(Tail(p), {"\\", "$"})
HostRest(p)   == Drop(p, IF Dollar(p, NameEnd(p)) THEN NameEnd(p) + 1 ELSE NameEnd(p))
Marked(name, n) == {i \in 2 .. n : name[i] \in {"_", "."}}
Bad(name, n, dollar) ==
  \/ Cardinality({i \in 2 .. n : name[i] = "."}) > 2
  \/ /\ \E i \in Marked(name, n) : name[i] = "." /\ \A j \in Marked(name, n) : j <= i
     /\ name[n] = "." \/ dollar
BadName(p) == Bad(SubSeq(p, 1, NameEnd(p)), NameEnd(p), Dollar(p, NameEnd(p)))

LEMMA ServerIs ==
  ASSUME NEW p
  PROVE  consume_unc_server_host(p) =
           IF ~Begins(p, AlphaLed) THEN Found("Unknown", p)
           ELSE IF BadName(p) THEN Found("Undefined", <<>>)
           ELSE Found(IF ~Begins(HostRest(p), {"\\"}) THEN "Unknown" ELSE "Host", HostRest(p))
BY Zenon DEF consume_unc_server_host, BadName, Bad, Marked, HostRest, NameEnd, Dollar

LEMMA ExtServer ==
  ASSUME NEW p \in Text, NEW r, r = consume_unc_server_host(p), r.type = "Host"
  PROVE  r.path \in Text /\ consume_unc_server_host(Extended(p)) = Found("Host", Extended(r.path))
<1> DEFINE e == Extended(p)
           n == NameEnd(p)
           m == IF Dollar(p, n) THEN n + 1 ELSE n
           q == Tail(p)
<1>1. PICK k \in 1 .. Len(p) : Begins(p, AlphaLed) /\ Begins(r.path, {"\\"})
  BY ServerHost, Zenon DEF HostName
<1>2. Len(p) >= 1 /\ Len(p) \in Nat
  BY <1>1, LenProperties DEF Text
<1>3. q \in Text /\ Tail(e) = Extended(q)
  BY <1>2, ExtTail
<1>4. Len(q) = Len(p) - 1
  <2>1. 1 \in 0 .. Len(p)
    BY <1>2
  <2> QED BY <1>2, <2>1, TailIs, DropIs
<1> HIDE DEF q
<1>5. /\ Until(Extended(q), {"\\", "$"}) = Until(q, {"\\", "$"})
      /\ Until(q, {"\\", "$"}) \in 0 .. Len(q)
  <2>1. "\\" \in {"\\", "$"}
    OBVIOUS
  <2> QED BY <1>3, <2>1, ExtUntil, Zenon
<1>6. NameEnd(e) = n
  BY <1>3, <1>5, Zenon DEF NameEnd, q
<1>7. n \in 1 .. Len(p)
  <2>1. n = 1 + Until(q, {"\\", "$"})
    BY Zenon DEF NameEnd, q
  <2> HIDE DEF n
  <2> QED BY <1>2, <1>4, <1>5, <2>1
<1> HIDE DEF n
<1>8. SubSeq(e, 1, n) = SubSeq(p, 1, n)
  <2>1. n \in 0 .. Len(p)
    BY <1>7
  <2> QED BY <2>1, ExtFirst
<1>9. Dollar(e, n) <=> Dollar(p, n)
  <2>1. Len(e) = Len(p) + 2 /\ \A i \in 1 .. Len(p) : e[i] = p[i]
    BY ExtIs
  <2>2. e[Len(p) + 1] = "\\"
    BY ExtIs
  <2> HIDE DEF e
  <2>3. n < Len(e)
    BY <1>2, <1>7, <2>1
  <2>4. CASE n < Len(p)
    <3>1. n + 1 \in 1 .. Len(p)
      BY <1>2, <1>7, <2>4
    <3>2. e[n + 1] = p[n + 1]
      BY <2>1, <3>1, Zenon
    <3> QED BY <2>3, <2>4, <3>2, Zenon DEF Dollar
  <2>5. CASE ~(n < Len(p))
    <3>1. n = Len(p)
      BY <1>2, <1>7, <2>5
    <3>2. e[n + 1] = "\\"
      BY <2>2, <3>1, Zenon
    <3>3. "\\" # "$"
      BY Zenon
    <3> QED BY <2>5, <3>2, <3>3, Zenon DEF Dollar
  <2> QED BY <2>4, <2>5
<1>10. BadName(e) <=> BadName(p)
  <2>1. \A a, b : (a <=> b) => (Bad(SubSeq(p, 1, n), n, a) <=> Bad(SubSeq(p, 1, n), n, b))
    BY Zenon DEF Bad
  <2> QED BY <1>6, <1>8, <1>9, <2>1, Zenon DEF BadName, n
<1>11. m \in 0 .. Len(p)
  <2>1. Dollar(p, n) => n + 1 \in 0 .. Len(p)
    <3>1. Dollar(p, n) => n < Len(p)
      BY Zenon DEF Dollar
    <3> QED BY <1>2, <1>7, <3>1
  <2>2. n \in 0 .. Len(p)
    BY <1>7
  <2> QED BY <2>1, <2>2, Zenon
<1>12. HostRest(p) = Drop(p, m) /\ HostRest(e) = Drop(e, m)
  BY <1>6, <1>9, Zenon DEF HostRest, n
<1> HIDE DEF m
<1>13. HostRest(p) \in Text /\ HostRest(e) = Extended(HostRest(p))
  BY <1>11, <1>12, ExtDrop
<1>14. Begins(e, AlphaLed)
  BY <1>1, ExtBegins
<1> DEFINE BEG == Begins(HostRest(p), {"\\"})
           ALP == Begins(p, AlphaLed)
           BAD == BadName(p)
           x == HostRest(p)
<1>15. r = IF ~ALP THEN Found("Unknown", p) ELSE IF BAD THEN Found("Undefined", <<>>)
           ELSE Found(IF ~BEG THEN "Unknown" ELSE "Host", x)
  BY ServerIs, Zenon
<1> HIDE DEF BEG, ALP, BAD, x
<1>16. ~ALP => r.type = "Unknown"
  BY <1>15, FoundIs, Zenon
<1>17. ALP /\ BAD => r.type = "Undefined"
  BY <1>15, FoundIs, Zenon
<1>18. ALP /\ ~BAD /\ ~BEG => r.type = "Unknown"
  BY <1>15, FoundIs, Zenon
<1>19. ALP /\ ~BAD /\ BEG
  <2>1. "Host" # "Unknown" /\ "Host" # "Undefined"
    BY Zenon
  <2> QED BY <1>16, <1>17, <1>18, <2>1, Zenon
<1>20. r.path = x
  BY <1>15, <1>19, FoundIs, Zenon
<1>21. Begins(HostRest(e), {"\\"})
  BY <1>13, <1>19, ExtBegins, Zenon DEF BEG, x
<1>22. consume_unc_server_host(e) = Found("Host", HostRest(e))
  BY <1>10, <1>14, <1>19, <1>21, ServerIs, Zenon DEF BAD
<1> QED BY <1>13, <1>20, <1>22, Zenon DEF x, e

LEMMA ExtDigits ==
  ASSUME NEW p \in Text
  PROVE  Digits(Extended(p)) = Digits(p) /\ Digits(p) \in 0 .. Len(p)
<1> DEFINE e == Extended(p)
           S == {e[i] : i \in 1 .. Len(e)} \ Digit
           d == Digits(p)
<1>1. d \in 0 .. Len(p) /\ (\A i \in 1 .. d : p[i] \in Digit) /\ (d < Len(p) => p[d + 1] \notin Digit)
  BY DigitsIs
<1>2. e \in Text /\ Len(e) = Len(p) + 2 /\ \A i \in 1 .. Len(p) : e[i] = p[i]
  BY ExtIs
<1>3. e[Len(p) + 1] = "\\" /\ "\\" \notin Digit
  BY ExtIs, AlphaIs, Zenon
<1>4. Len(p) \in Nat
  BY LenProperties DEF Text
<1>5. Digits(e) = Until(e, S)
  BY Zenon DEF Digits
<1> HIDE DEF e, d
<1>6. ASSUME NEW i \in 1 .. d PROVE e[i] \notin S
  <2>1. i \in 1 .. Len(p)
    BY <1>1, <1>4
  <2> QED BY <1>1, <1>2, <2>1
<1>7. e[d + 1] \in S
  <2>1. d + 1 \in 1 .. Len(e)
    BY <1>1, <1>2, <1>4
  <2>2. e[d + 1] \notin Digit
    <3>1. CASE d < Len(p)
      <4>1. d + 1 \in 1 .. Len(p)
        BY <1>1, <1>4, <3>1
      <4>2. e[d + 1] = p[d + 1]
        BY <1>2, <4>1, Zenon
      <4> QED BY <1>1, <3>1, <4>2
    <3>2. CASE d = Len(p)
      BY <1>3, <3>2, Zenon
    <3>3. d < Len(p) \/ d = Len(p)
      BY <1>1, <1>4
    <3> QED BY <3>1, <3>2, <3>3
  <2> QED BY <2>1, <2>2
<1>8. d \in 0 .. Len(e)
  BY <1>1, <1>2, <1>4
<1> HIDE DEF S
<1>9. Stops(e, S, d)
  BY <1>6, <1>7, <1>8, Zenon DEF Stops, Free
<1>10. Until(e, S) = d
  BY <1>2, <1>9, UntilIs
<1> QED BY <1>1, <1>5, <1>10, Zenon DEF d, e

(* An address is read the same.                                            *)
Follows(s, e) ==
  \/ s.type = "Undefined"
  \/ e.type = "Undefined"
  \/ e.type = s.type /\ s.path \in Text /\ e.path = Extended(s.path)

LEMMA FollowsFound ==
  ASSUME NEW c, NEW q \in Text PROVE Follows(Found(c, q), Found(c, Extended(q)))
<1> DEFINE x == Found(c, q)
           y == Found(c, Extended(q))
<1>1. x.type = c /\ x.path = q /\ y.type = c /\ y.path = Extended(q)
  BY FoundIs, Zenon
<1> HIDE DEF x, y
<1>2. Follows(x, y)
  BY <1>1, Zenon DEF Follows
<1> QED BY <1>2 DEF x, y

LEMMA ExtOctet ==
  ASSUME NEW s, NEW e, Follows(s, e), NEW i
  PROVE  Follows(Octet(s, i), Octet(e, i))
<1>1. CASE s.type # "IPv4"
  <2>1. Octet(s, i) = s
    BY <1>1, Zenon DEF Octet
  <2>2. CASE s.type = "Undefined"
    BY <2>1, <2>2, Zenon DEF Follows
  <2>3. CASE s.type # "Undefined"
    <3>1. e.type # "IPv4"
      <4>1. "Undefined" # "IPv4"
        BY Zenon
      <4> QED BY <1>1, <2>3, <4>1, Zenon DEF Follows
    <3>2. Octet(e, i) = e
      BY <3>1, Zenon DEF Octet
    <3> QED BY <2>1, <3>2, Zenon
  <2> QED BY <2>2, <2>3
<1>2. CASE s.type = "IPv4" /\ e.type = "Undefined"
  <2>1. e.type # "IPv4"
    BY <1>2, Zenon
  <2>2. Octet(e, i) = e
    BY <2>1, Zenon DEF Octet
  <2> QED BY <1>2, <2>2, Zenon DEF Follows
<1>3. CASE s.type = "IPv4" /\ e.type # "Undefined"
  <2> DEFINE q == s.path
             f == e.path
             d == Digits(q)
             rest == Drop(q, d)
             big == consumeUnsigned(q) > 255
             D == Octet(s, i)
  <2>1. q \in Text /\ f = Extended(q) /\ e.type = "IPv4"
    <3>1. "Undefined" # "IPv4"
      BY Zenon
    <3> QED BY <1>3, <3>1, Zenon DEF Follows
  <2> HIDE DEF q, f
  <2>2. Digits(f) = d /\ d \in 0 .. Len(q)
    BY <2>1, ExtDigits, Zenon
  <2>3. rest \in Text /\ Drop(f, d) = Extended(rest)
    BY <2>1, <2>2, ExtDrop, Zenon
  <2>4. consumeUnsigned(f) = consumeUnsigned(q)
    <3>1. SubSeq(f, 1, d) = SubSeq(q, 1, d)
      BY <2>1, <2>2, ExtFirst, Zenon
    <3> QED BY <2>2, <3>1, Zenon DEF consumeUnsigned
  <2>5. f # <<>>
    <3>1. Len(f) = Len(q) + 2 /\ Len(q) \in Nat
      BY <2>1, ExtIs, LenProperties DEF Text
    <3>2. Len(<<>>) = 0
      BY EmptySeq
    <3> SUFFICES ASSUME f = <<>> PROVE FALSE
      OBVIOUS
    <3>3. Len(f) = 0
      BY <3>2, Zenon
    <3> QED BY <3>1, <3>3
  <2>6. D = IF q = <<>> \/ big THEN Found("Undefined", <<>>)
            ELSE IF i = 4 THEN Found("IPv4", rest)
            ELSE IF Begins(rest, {"."}) THEN Found("IPv4", Tail(rest))
            ELSE Found("Unknown", rest)
    BY <1>3, Zenon DEF Octet, q
  <2>7. Octet(e, i) =
          IF big THEN Found("Undefined", <<>>)
          ELSE IF i = 4 THEN Found("IPv4", Extended(rest))
          ELSE IF Begins(Extended(rest), {"."}) THEN Found("IPv4", Tail(Extended(rest)))
          ELSE Found("Unknown", Extended(rest))
    <3> DEFINE g == Extended(rest)
    <3>1. Drop(f, d) = g
      BY <2>3
    <3> HIDE DEF g, rest, d
    <3>2. Octet(e, i) =
            IF f = <<>> \/ consumeUnsigned(f) > 255 THEN Found("Undefined", <<>>)
            ELSE IF i = 4 THEN Found("IPv4", Drop(f, Digits(f)))
            ELSE IF Begins(Drop(f, Digits(f)), {"."}) THEN Found("IPv4", Tail(Drop(f, Digits(f))))
            ELSE Found("Unknown", Drop(f, Digits(f)))
      BY <2>1, Zenon DEF Octet, f
    <3>3. consumeUnsigned(f) > 255 <=> big
      BY <2>4
    <3>4. Octet(e, i) =
            IF big THEN Found("Undefined", <<>>)
            ELSE IF i = 4 THEN Found("IPv4", g)
            ELSE IF Begins(g, {"."}) THEN Found("IPv4", Tail(g))
            ELSE Found("Unknown", g)
      <4> HIDE DEF big
      <4>1. Drop(f, Digits(f)) = g
        BY <2>2, <3>1, Zenon
      <4> QED BY <2>5, <3>2, <3>3, <4>1, Zenon
    <3> QED BY <3>4 DEF g
  <2> DEFINE dot == Begins(rest, {"."})
  <2>8. Begins(Extended(rest), {"."}) <=> dot
    <3>1. "\\" \notin {"."}
      BY Zenon
    <3> QED BY <2>3, <3>1, ExtBegins, Zenon
  <2>9. dot => Tail(rest) \in Text /\ Tail(Extended(rest)) = Extended(Tail(rest))
    <3>1. dot => Len(rest) >= 1
      BY <2>3, BeginsIs, Zenon
    <3> QED BY <2>3, <3>1, ExtTail, Zenon
  <2> HIDE DEF rest, big, dot, d, D
  <2>10. CASE q = <<>> \/ big
    <3>1. D.type = "Undefined"
      BY <2>6, <2>10, FoundIs, Zenon
    <3> QED BY <3>1, Zenon DEF Follows, D
  <2>11. CASE q # <<>> /\ ~big /\ i = 4
    <3>1. D = Found("IPv4", rest) /\ Octet(e, i) = Found("IPv4", Extended(rest))
      BY <2>6, <2>7, <2>11, Zenon
    <3> QED BY <2>3, <3>1, FollowsFound, Zenon DEF D
  <2>12. CASE q # <<>> /\ ~big /\ i # 4 /\ dot
    <3>1. D = Found("IPv4", Tail(rest)) /\ Octet(e, i) = Found("IPv4", Extended(Tail(rest)))
      BY <2>6, <2>7, <2>8, <2>9, <2>12, Zenon DEF dot
    <3> QED BY <2>9, <2>12, <3>1, FollowsFound, Zenon DEF D
  <2>13. CASE q # <<>> /\ ~big /\ i # 4 /\ ~dot
    <3>1. D = Found("Unknown", rest) /\ Octet(e, i) = Found("Unknown", Extended(rest))
      BY <2>6, <2>7, <2>8, <2>13, Zenon DEF dot
    <3> QED BY <2>3, <3>1, FollowsFound, Zenon DEF D
  <2> QED BY <2>10, <2>11, <2>12, <2>13
<1> QED BY <1>1, <1>2, <1>3

LEMMA ExtIpv4 ==
  ASSUME NEW h \in Text PROVE Follows(consume_unc_ipv4(h), consume_unc_ipv4(Extended(h)))
BY FollowsFound, ExtOctet, Zenon DEF consume_unc_ipv4

(* Which address it looks like is seen in what there was.                  *)
LEMMA ExtLooks ==
  ASSUME NEW h \in Text, Len(h) >= 1, Digits(h) # Len(h)
  PROVE  is_ipv4(Extended(h)) = is_ipv4(h)
<1> DEFINE d == Digits(h)
           e == Extended(h)
<1>1. Digits(e) = d /\ d \in 0 .. Len(h)
  BY ExtDigits, Zenon
<1>2. Len(e) = Len(h) + 2 /\ \A i \in 1 .. Len(h) : e[i] = h[i]
  BY ExtIs
<1>3. Len(h) \in Nat
  BY LenProperties DEF Text
<1>4. d # Len(h)
  OBVIOUS
<1> HIDE DEF d, e
<1>5. d + 1 \in 1 .. Len(h) /\ d # Len(e)
  BY <1>1, <1>2, <1>3, <1>4
<1>6. e[d + 1] = h[d + 1]
  BY <1>2, <1>5, Zenon
<1>7. is_ipv4(e) = is_ipv4(h)
  BY <1>1, <1>4, <1>5, <1>6, Zenon DEF is_ipv4, d
<1> QED BY <1>7 DEF e

LEMMA ExtHost ==
  ASSUME NEW h \in Text, NEW host, host = consume_unc_prefix(h), Accepts(host),
         NEW e, e = consume_unc_prefix(Extended(h))
  PROVE  Follows(host, e)
<1> DEFINE ip == consume_unc_ip(h)
           f == Extended(h)
           ie == consume_unc_ip(f)
<1>1. host = IF ip.type = "Unknown" THEN consume_unc_server_host(ip.path) ELSE ip
  BY Zenon DEF consume_unc_prefix
<1>2. e = IF ie.type = "Unknown" THEN consume_unc_server_host(ie.path) ELSE ie
  BY Zenon DEF consume_unc_prefix
<1>3. ~Begins(<<>>, {"\\"})
  BY Zenon DEF Begins
<1>4. Len(h) \in Nat /\ f \in Text /\ Len(f) = Len(h) + 2
  BY ExtIs, LenProperties DEF Text
<1>5. f[Len(h) + 1] = "\\"
  BY ExtIs
<1>6. \/ ip = Found("Unknown", h)
      \/ ~Short(h) /\ is_ipv4(h) = "IPv4" /\ ip = consume_unc_ipv4(h)
      \/ ip \in {Found("Undefined", <<>>), Found("IPv6", <<>>)}
  BY IpIs, Zenon
<1>7. "Undefined" # "Unknown"
  BY Zenon
<1> HIDE DEF ip, ie, f
<1>8. ASSUME NEW q \in Text, consume_unc_server_host(q) = host, e = consume_unc_server_host(Extended(q))
      PROVE  Follows(host, e)
  <2>1. host.type = "Host"
    BY <1>8, HostTypes, Zenon DEF Accepts
  <2>2. host.path \in Text /\ consume_unc_server_host(Extended(q)) = Found("Host", Extended(host.path))
    BY <1>8, <2>1, ExtServer
  <2>3. e = Found("Host", Extended(host.path))
    BY <1>8, <2>2, Zenon
  <2>4. e.type = "Host" /\ e.path = Extended(host.path)
    <3> DEFINE r == Extended(host.path)
               x == Found("Host", r)
    <3>1. x.type = "Host" /\ x.path = r
      BY FoundIs, Zenon
    <3>2. e = x
      BY <2>3
    <3> HIDE DEF x, r
    <3>3. e.type = "Host" /\ e.path = r
      BY <3>1, <3>2
    <3> QED BY <3>3 DEF r
  <2> QED BY <2>1, <2>2, <2>4, Zenon DEF Follows
<1>9. CASE ip = Found("Unknown", h)
  <2>1. host = consume_unc_server_host(h)
    BY <1>1, <1>9, FoundIs, Zenon
  <2>2. host.type = "Host"
    BY <2>1, HostTypes, Zenon DEF Accepts
  <2>3. Begins(h, AlphaLed)
    BY <2>1, <2>2, ServerHost, Zenon DEF HostName
  <2>4. Len(h) >= 1 /\ h[1] \in AlphaLed
    BY <2>3, BeginsIs, Zenon
  <2>5. Digits(h) = 0 /\ Len(h) >= 1
    <3>1. Digits(h) \in 0 .. Len(h) /\ \A i \in 1 .. Digits(h) : h[i] \in Digit
      BY DigitsIs
    <3>2. h[1] \notin Digit
      BY <2>4, AlphaIs, Zenon
    <3> DEFINE d == Digits(h)
    <3> HIDE DEF d
    <3>3. d # 0 => 1 \in 1 .. d
      BY <1>4, <3>1 DEF d
    <3> QED BY <2>4, <3>1, <3>2, <3>3, Zenon DEF d
  <2>6. Digits(h) # Len(h) /\ Digits(h) + 1 = 1
    <3> DEFINE d == Digits(h)
    <3>1. d = 0 /\ Len(h) >= 1
      BY <2>5, Zenon
    <3> HIDE DEF d
    <3>2. d # Len(h) /\ d + 1 = 1
      BY <1>4, <3>1
    <3> QED BY <3>2 DEF d
  <2>7. is_ipv4(f) = is_ipv4(h)
    BY <2>5, <2>6, ExtLooks DEF f
  <2>8. is_ipv4(h) # "IPv4"
    <3>1. h[1] # "."
      BY <2>4, AlphaIs, Zenon
    <3>2. is_ipv4(h) = "IPv4" => h[Digits(h) + 1] = "."
      BY Zenon DEF is_ipv4
    <3> QED BY <2>6, <3>1, <3>2, Zenon
  <2>9. ~Short(f)
    <3>1. Len(h) >= 1
      BY <2>5, Zenon
    <3>2. ~(Len(f) < 3)
      BY <1>4, <3>1
    <3> QED BY <3>2, Zenon DEF Short
  <2>10. CASE is_ipv4(f) = "Unknown"
    <3>1. ie = Found("Unknown", f)
      BY <2>10, Zenon DEF consume_unc_ip, ie
    <3>2. e = consume_unc_server_host(f)
      BY <1>2, <3>1, FoundIs, Zenon
    <3> QED BY <1>8, <2>1, <3>2, Zenon DEF f
  <2>11. CASE is_ipv4(f) # "Unknown"
    <3>1. ie = consume_unc_ipv6(f)
      BY <2>7, <2>8, <2>9, <2>11, Zenon DEF consume_unc_ip, ie
    <3>2. Len(h) + 1 \in 1 .. Len(f)
      BY <1>4
    <3>3. ie = Found("Undefined", <<>>)
      BY <1>4, <1>5, <3>1, <3>2, Ipv6Bad, Zenon
    <3>4. ie.type = "Undefined"
      BY <3>3, FoundIs, Zenon
    <3> QED BY <1>2, <1>7, <3>4, Zenon DEF Follows
  <2> QED BY <2>10, <2>11
<1>10. CASE ~Short(h) /\ is_ipv4(h) = "IPv4" /\ ip = consume_unc_ipv4(h)
  <2>1. is_ipv4(f) = "IPv4"
    <3>1. Digits(h) # Len(h)
      BY <1>10, Zenon DEF is_ipv4
    <3>2. Len(h) >= 1
      BY <1>10, AddressFirst
    <3> QED BY <1>10, <3>1, <3>2, ExtLooks DEF f
  <2>2. ~Short(f)
    <3>1. Len(h) >= 1
      BY <1>10, AddressFirst
    <3>2. ~(Len(f) < 3)
      BY <1>4, <3>1
    <3> QED BY <3>2, Zenon DEF Short
  <2>3. ie = consume_unc_ipv4(f)
    <3>1. "IPv4" # "Unknown"
      BY Zenon
    <3> QED BY <2>1, <2>2, <3>1, Zenon DEF consume_unc_ip, ie
  <2>4. Follows(ip, ie)
    BY <1>10, <2>3, ExtIpv4 DEF f
  <2>5. ip.type # "Undefined"
    BY <1>1, <1>7, Zenon DEF Accepts
  <2>6. CASE ie.type = "Undefined"
    BY <1>2, <1>7, <2>6, Zenon DEF Follows
  <2>7. CASE ie.type = ip.type /\ ip.path \in Text /\ ie.path = Extended(ip.path)
    <3>1. CASE ip.type = "Unknown"
      <4>1. host = consume_unc_server_host(ip.path) /\ e = consume_unc_server_host(Extended(ip.path))
        BY <1>1, <1>2, <2>7, <3>1, Zenon
      <4> QED BY <1>8, <2>7, <4>1, Zenon
    <3>2. CASE ip.type # "Unknown"
      <4>1. host = ip /\ e = ie
        BY <1>1, <1>2, <2>7, <3>2, Zenon
      <4> QED BY <2>7, <4>1, Zenon DEF Follows
    <3> QED BY <3>1, <3>2
  <2> QED BY <2>4, <2>5, <2>6, <2>7, Zenon DEF Follows
<1>11. CASE ip \in {Found("Undefined", <<>>), Found("IPv6", <<>>)}
  <2>1. ip.type = "Undefined" \/ (ip.type = "IPv6" /\ ip.path = <<>>)
    BY <1>11, FoundIs, Zenon
  <2>2. host = ip
    BY <1>1, <1>7, <2>1, Zenon
  <2> QED BY <1>3, <2>1, <2>2, Zenon DEF Accepts
<1> QED BY <1>6, <1>9, <1>10, <1>11

LEMMA ExtShare ==
  ASSUME NEW s \in Text, consume_unc_share(s) PROVE consume_unc_share(Extended(s))
<1> DEFINE n == Until(s, Sep)
           e == Extended(s)
<1>1. Until(e, Sep) = n /\ n \in 0 .. Len(s)
  <2>1. "\\" \in Sep
    BY Zenon DEF Sep
  <2> QED BY <2>1, ExtUntil, Zenon
<1>2. \A i \in 1 .. Len(s) : e[i] = s[i]
  BY ExtIs
<1>3. Len(s) \in Nat
  BY LenProperties DEF Text
<1>4. (\A i \in 1 .. n : s[i] \in Alnum) \/ (n >= 2 /\ s[1] \in Letter \cup Digit /\ s[2] = "$")
  BY Zenon DEF consume_unc_share
<1> HIDE DEF n, e
<1>5. \A i \in 1 .. n : e[i] = s[i]
  BY <1>1, <1>2, <1>3
<1>6. n >= 2 => 1 \in 1 .. n /\ 2 \in 1 .. n
  BY <1>1
<1>7. (\A i \in 1 .. n : e[i] \in Alnum) \/ (n >= 2 /\ e[1] \in Letter \cup Digit /\ e[2] = "$")
  BY <1>4, <1>5, <1>6, Zenon
<1>8. consume_unc_share(e)
  BY <1>1, <1>7, Zenon DEF consume_unc_share
<1> QED BY <1>8 DEF e

LEMMA ExtUnc ==
  ASSUME NEW p \in Text, is_unc_path(p) = "yes"
  PROVE  is_unc_path(Extended(p)) \in {"yes", "Undefined"}
<1> DEFINE h == Drop(p, 2)
           host == consume_unc_prefix(h)
           W == IsPrefix(<<"\\", "\\">>, p)
           s == host.path
           f == Extended(p)
           e == consume_unc_prefix(Drop(f, 2))
<1>1. W /\ Accepts(host) /\ consume_unc_share(Tail(s))
  <2> DEFINE ok == host.type # "Unknown" /\ Begins(s, {"\\"}) /\ consume_unc_share(Tail(s))
  <2>1. is_unc_path(p) = IF ~W THEN "no" ELSE IF host.type = "Undefined" THEN "Undefined"
                         ELSE IF ok THEN "yes" ELSE "no"
    BY Zenon DEF is_unc_path
  <2> HIDE DEF ok, W
  <2>2. W /\ host.type # "Undefined" /\ ok
    BY <2>1, Zenon
  <2> QED BY <2>2, Zenon DEF ok, Accepts
<1>2. Len(p) >= 2 /\ p[1] = "\\" /\ p[2] = "\\"
  BY <1>1, SlashesIs, Zenon
<1>3. 2 \in 0 .. Len(p) /\ 1 \in 1 .. Len(p) /\ 2 \in 1 .. Len(p) /\ Len(p) + 2 >= 2
  <2>1. Len(p) >= 2
    BY <1>2, Zenon
  <2> QED BY <2>1, LenProperties DEF Text
<1>4. h \in Text /\ Drop(f, 2) = Extended(h)
  BY <1>3, ExtDrop
<1>5. f \in Text /\ Len(f) = Len(p) + 2 /\ \A i \in 1 .. Len(p) : f[i] = p[i]
  BY ExtIs
<1> HIDE DEF h, f
<1>6. IsPrefix(<<"\\", "\\">>, f)
  <2>1. f[1] = "\\" /\ f[2] = "\\"
    BY <1>2, <1>3, <1>5, Zenon
  <2>2. Len(f) >= 2
    BY <1>3, <1>5
  <2> QED BY <1>5, <2>1, <2>2, SlashesIs, Zenon
<1>7. \/ e.type = "Undefined"
      \/ e.type = host.type /\ s \in Text /\ e.path = Extended(s)
  <2>1. e.type # "Undefined" => Follows(host, e)
    BY <1>1, <1>4, ExtHost, Zenon
  <2> QED BY <1>1, <2>1, Zenon DEF Follows, Accepts
<1> HIDE DEF e, s, host
<1>8. CASE e.type = "Undefined"
  <2>1. is_unc_path(f) = "Undefined"
    BY <1>6, <1>8, Zenon DEF is_unc_path, e
  <2> QED BY <2>1, Zenon DEF f
<1>9. CASE e.type # "Undefined"
  <2>1. e.type = host.type /\ s \in Text /\ e.path = Extended(s)
    BY <1>7, <1>9, Zenon
  <2>2. Begins(s, {"\\"}) /\ host.type # "Unknown"
    BY <1>1, Zenon DEF Accepts, s
  <2>3. Begins(e.path, {"\\"})
    BY <2>1, <2>2, ExtBegins, Zenon
  <2>4. Len(s) >= 1
    BY <2>1, <2>2, BeginsIs, Zenon
  <2>5. Tail(s) \in Text /\ Tail(e.path) = Extended(Tail(s))
    BY <2>1, <2>4, ExtTail, Zenon
  <2>6. consume_unc_share(Tail(e.path))
    BY <1>1, <2>5, ExtShare, Zenon
  <2>7. is_unc_path(f) = "yes"
    BY <1>6, <1>9, <2>1, <2>2, <2>3, <2>6, Zenon DEF is_unc_path, e
  <2> QED BY <2>7, Zenon DEF f
<1> QED BY <1>8, <1>9, Zenon DEF f

LEMMA ExtUncTyped ==
  ASSUME NEW p \in Text, deduce_path_type(p) = "UNCNamespace"
  PROVE  deduce_path_type(Extended(p)) \in {"UNCNamespace", "Undefined"}
<1> DEFINE e == Extended(p)
           u == deduce_path_type(e)
<1>1. Begins(p, Sep) /\ ~is_device_path(p) /\ is_unc_path(p) = "yes"
  BY TypeUNC, Zenon
<1>2. PICK n \in HostEnds(p) : TRUE
  BY <1>1, HostBegins, Zenon
<1>3. n \in 4 .. Len(p) /\ IsPrefix(<<"\\", "\\">>, p)
  BY Zenon DEF HostEnds
<1>4. p[2] = "\\"
  BY <1>3, SlashesIs, Zenon
<1>5. e \in Text /\ Len(e) = Len(p) + 2 /\ \A i \in 1 .. Len(p) : e[i] = p[i]
  BY ExtIs
<1>6. /\ 1 \in 1 .. Len(p) /\ 2 \in 1 .. Len(p) /\ 3 \in 1 .. Len(p) /\ 4 \in 1 .. Len(p)
      /\ Len(p) >= 4
  BY <1>3, LenProperties DEF Text
<1>7. Begins(e, Sep)
  BY <1>1, ExtBegins, Zenon
<1>8. is_unc_path(e) \in {"yes", "Undefined"}
  BY <1>1, ExtUnc
<1> HIDE DEF e, u
<1>9. e[1] = p[1] /\ e[2] = p[2] /\ e[3] = p[3] /\ e[4] = p[4]
  BY <1>5, <1>6, Zenon
<1>10. ~is_device_path(e)
  BY <1>1, <1>6, <1>9, Zenon DEF is_device_path
<1>11. ~is_nt_path(e)
  <2>1. "\\" # "?" /\ "\\" # "GLOBAL"
    BY Zenon
  <2> QED BY <1>4, <1>5, <1>9, <2>1, NtAt, Zenon
<1>12. u \in {"UNCNamespace", "Undefined"}
  BY <1>7, <1>8, <1>10, <1>11, Zenon DEF deduce_path_type, u
<1> QED BY <1>12 DEF u, e

LEMMA TypeIs ==
  ASSUME NEW p \in Text
  PROVE  deduce_path_type(p) \in
           {"NtNamespace", "GUIDVolume", "DosVolume", "DeviceUNC", "QualDOS", "DriveRel", "DirRel"}
             \cup Drives \cup {"UNCNamespace", "Unknown", "CurrDriveRel", "Undefined"}
<1> DEFINE t == deduce_path_type(p)
           R == Begins(p, Sep)
           D == is_device_path(p)
           x == deduce_device_path_type(Drop(p, 4), p[3])
           u == is_unc_path(p)
<1>1. ~R => t \in {"DirRel", "QualDOS", "DriveRel"}
  BY Zenon DEF deduce_path_type
<1>2. R /\ D => t = x
  BY Zenon DEF deduce_path_type
<1>3. R /\ ~D => t \in {"NtNamespace", "Undefined", "UNCNamespace", "CurrDriveRel", "Unknown"}
  BY Zenon DEF deduce_path_type
<1>4. D => Drop(p, 4) \in Text
  BY DeviceForms, Zenon
<1>5. D => x \in DosTypes \cup {"DosVolume", "GUIDVolume", "DeviceUNC"}
  BY <1>4, DosTyped, Zenon DEF deduce_device_path_type, DosTypes
<1> HIDE DEF R, D, x, u
<1> QED BY <1>1, <1>2, <1>3, <1>5, Zenon DEF DosTypes, Drives

LEMMA ExtendedHolds ==
  ASSUME NEW p \in Text
  PROVE  ExtendedAlike(p, deduce_path_type(p), deduce_path_type(Extended(p)))
<1> DEFINE t == deduce_path_type(p)
           u == deduce_path_type(Extended(p))
<1>1. t \in {"NtNamespace", "GUIDVolume", "DosVolume", "DeviceUNC", "QualDOS", "DriveRel", "DirRel"}
        => p = <<>> \/ u = t
  BY ExtFormed, Zenon
<1>2. t \in Drives => u = t
  BY ExtDrives, Zenon
<1>3. t = "UNCNamespace" => u \in {t, "Undefined"}
  BY ExtUncTyped, Zenon
<1> HIDE DEF t, u
<1> QED BY <1>1, <1>2, <1>3, TypeIs, Zenon DEF ExtendedAlike, t, u

-----------------------------------------------------------------------------
(* Every path a client asks about is a text, with and without what         *)
(* dropNull() may cut off.                                                 *)
PathTyped == path \in Text

LEMMA PathTypedStep == ASSUME PathTyped, [PathNext]_path PROVE PathTyped'
<1>1. <<>> \in Text
  BY EmptySeq DEF Text
<1>2. CASE Ask
  BY <1>2, PathsAssumption, Zenon DEF Ask, PathTyped, Text
<1>3. CASE Answered
  BY <1>1, <1>3 DEF Answered, PathTyped
<1>4. CASE UNCHANGED path
  BY <1>4 DEF PathTyped
<1> QED BY <1>2, <1>3, <1>4 DEF PathNext

LEMMA PathAlways == PathSpec => []PathTyped
<1>1. PathInit => PathTyped
  BY EmptySeq DEF PathInit, PathTyped, Text
<1> QED BY <1>1, PathTypedStep, PTL DEF PathSpec

LEMMA DropNullText == ASSUME NEW p \in Text PROVE dropNull(p) \subseteq Text
<1> DEFINE n == Until(p, {NUL})
           q == SubSeq(p, 1, n)
<1>1. n \in 0 .. Len(p)
  BY UntilStops, Zenon DEF Stops, Free
<1> HIDE DEF n
<1>2. q \in Text
  BY <1>1, FirstIs, Zenon
<1>3. dropNull(p) = {p, q}
  BY Zenon DEF dropNull, n
<1> QED BY <1>2, <1>3, Zenon

(* A path is given the type whose form it has, a reserved name is found    *)
(* behind any number of links, and a UNC path has a host, of all texts.    *)
THEOREM PathsAgreeTheorem == PathSpec => []PathsAgree
<1>1. ASSUME NEW p \in Text, NEW t, t = deduce_path_type(p)
      PROVE  FormTells(p, t) /\ DeviceTells(p, t) /\ HostTells(p, t)
  <2>1. FormTells(p, deduce_path_type(p))
    BY FormsHold, DosTyped, Zenon
  <2> QED BY <1>1, <2>1, DeviceHolds, HostsHold, Zenon
<1>2. PathTyped => PathsAgree
  BY <1>1, DropNullText, Zenon DEF PathTyped, PathsAgree
<1> QED BY <1>2, PathAlways, PTL

(* The code does not keep to PathNormalizer.hpp:68 and :71: \\?\UNC is no  *)
(* path it knows, and a reserved name with no prefix, alone or before a    *)
(* separator, is a relative path.                                          *)
THEOREM PathsUnlikeHeader ==
  ASSUME NEW p \in Text
  PROVE  /\ is_device_path(p) /\ p[3] = "?" /\ Begins(Drop(p, 4), {"UNC"})
              => deduce_path_type(p) = "Unknown"
         /\ IsReserved(p) => deduce_path_type(p) = "DirRel"
<1> DEFINE q == Drop(p, 4)
<1>1. ASSUME is_device_path(p), p[3] = "?", Begins(q, {"UNC"})
      PROVE  deduce_path_type(p) = "Unknown"
  <2>1. Begins(p, Sep)
    <3>1. Len(p) >= 4 /\ p[1] \in Sep
      BY <1>1, Zenon DEF is_device_path
    <3>2. Len(p) >= 1
      <4>1. Len(p) >= 4
        BY <3>1, Zenon
      <4> QED BY <4>1, LenProperties DEF Text
    <3> QED BY <3>1, <3>2, BeginsIs, Zenon
  <2>2. q[1] = "UNC"
    BY <1>1, Zenon DEF Begins
  <2>3. ~is_volume(q)
    BY <2>2, Zenon DEF is_volume, Letter
  <2>4. ~is_volume_guid(q)
    <3>1. is_volume_guid(q) => q[1] = "Volume{"
      BY <1>1, DeviceForms, GuidBegins, Zenon
    <3> QED BY <2>2, <3>1, Zenon
  <2>5. deduce_device_path_type(q, p[3]) = "Unknown"
    BY <1>1, <2>3, <2>4, Zenon DEF deduce_device_path_type
  <2> QED BY <1>1, <2>1, <2>5, Zenon DEF deduce_path_type
<1>2. ASSUME IsReserved(p) PROVE deduce_path_type(p) = "DirRel"
  <2>1. p[1] \in Reserves
    <3>1. DriveName(p) \in Reserved
      BY <1>2, ReservedName
    <3> DEFINE S == DriveName(p)
    <3>2. /\ Until(p, Sep) \in 0 .. Len(p) /\ Len(S) = Until(p, Sep)
          /\ \A i \in 1 .. Until(p, Sep) : S[i] = p[i]
      BY NameIs, Zenon
    <3>3. Len(S) >= 1 /\ S[1] \in Reserves
      BY <3>1, ReservedIs, Zenon
    <3> HIDE DEF S
    <3>4. Len(S) >= 1
      BY <3>3, Zenon
    <3>5. 1 \in 1 .. Until(p, Sep)
      BY <3>2, <3>4
    <3> QED BY <3>2, <3>3, <3>5, Zenon
  <2>2. ~Begins(p, Sep)
    BY <2>1, Zenon DEF Begins, Sep, Reserves
  <2>3. ~is_volume(p)
    BY <2>1, Zenon DEF is_volume, Letter, Reserves
  <2> QED BY <2>2, <2>3, Zenon DEF deduce_path_type
<1> QED BY <1>1, <1>2

(* Slashes and a further component change no type, of all texts.           *)
THEOREM PathsAlikeTheorem == PathSpec => []PathsAlike
<1>1. PathTyped => PathsAlike
  BY SlashedHolds, ExtendedHolds, Zenon DEF PathTyped, PathsAlike
<1> QED BY <1>1, PathAlways, PTL
=============================================================================
