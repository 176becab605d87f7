------------------------------- MODULE Memory -------------------------------
(***************************************************************************)
(* The memory primitives of src/Common: inline_memcpy (InlineMemcpy.hpp),  *)
(* inline_memset (InlineMemset.hpp) and inline_memcmp (InlineMemcmp.hpp).  *)
(* They are what the C library's memcpy, memset and memcmp are in the xcrt *)
(* build, and what Mem::VCopy and Mem::VSet call.                          *)
(*                                                                         *)
(* Each works by blocks of fixed sizes, the last of which ends where the   *)
(* memory does and may overlap the one before.  A block is the set of the  *)
(* offsets it spans.  What a block does with its bytes is exact, but for   *)
(* the comparison of 16 at a time, so it is the choice of the blocks that  *)
(* can be wrong.  memset comes in two builds, with and without software    *)
(* prefetching (HC_SOFTWARE_PREFETCH, which is on by default), and memcmp  *)
(* too, with and without SSE 4.1.                                          *)
(***************************************************************************)
EXTENDS Integers, Sequences

CONSTANT
  Calls         \* the calls clients make: [fn, dst, len, sgn], where dst is
                \* the address of the first operand and sgn tells for each
                \* offset how the bytes there compare

Functions == {"memcpy", "memset", "memset_prefetch", "memcmp", "memcmp_sse"}

ASSUME CallsAssumption ==
  \A c \in Calls : /\ c.fn \in Functions
                   /\ c.dst \in Nat /\ c.len \in Nat
                   /\ c.sgn \in [0 .. c.len - 1 -> {-1, 0, 1}]

VARIABLE call   \* the call being made

Block(off, size) == off .. off + size - 1
FirstLast(size, len) == Block(0, size) \cup Block(len - size, size)

(* The blocks of 32 at first, first + step ..., below limit.               *)
Strip(first, step, limit) ==
  UNION {Block(o, 32) : o \in {x \in first .. limit - 1 : (x - first) % step = 0}}

-----------------------------------------------------------------------------
(* Mutation: the offset of dst is left out of the limit.                   *)
CopyShort(dst, len) ==
  LET offla == dst % 32
  IN  FirstLast(32, len) \cup Strip(32 - offla, 32, len - 32 - offla)

(* memcpy.  The middle blocks begin at aligned addresses, so the first of  *)
(* them at 32 less what dst is beyond one.                                 *)
copy_aligned_blocks(dst, len) ==
  LET offla == dst % 32
  IN  FirstLast(32, len) \cup Strip(32 - offla, 32, len - 32)

memcpy(dst, len) ==
  IF len < 5 THEN Block(0, len)
  ELSE IF len < 8 THEN FirstLast(4, len)
  ELSE IF len < 16 THEN FirstLast(8, len)
  ELSE IF len < 32 THEN FirstLast(16, len)
  ELSE IF len < 64 THEN FirstLast(32, len)
  ELSE IF len < 128 THEN FirstLast(64, len)
  ELSE copy_aligned_blocks(dst, len)

-----------------------------------------------------------------------------
(* memset.  A large one sets a first block and goes on at the next aligned *)
(* address; one that is aligned already is moved on by a whole alignment.  *)
offset_from_last_align(dst, align) == align - (dst % align)

(* The loop tests behind its body: the block at off is always set.         *)
set_loop_and_last(a, len, off) ==
  Block(a + off, 32) \cup Strip(a + off, 32, a + len - 32)
                     \cup Block(a + len - 32, 32)

(* Where the rounds of the prefetching loop end, each 128 bytes long.      *)
Reached(len) == IF len < 288 THEN 96 ELSE 96 + (128 * ((len - 160) \div 128))

(* From the aligned address a on.  A round sets two blocks of 32 bytes, 64 *)
(* apart; the rest is set without gaps.                                    *)
prefetching_rest(a, len) ==
  IF len <= 192 THEN set_loop_and_last(a, len, 0)
  ELSE Block(a, 96) \cup Strip(a + 96, 64, a + Reached(len))
                    \cup set_loop_and_last(a, len, Reached(len))

prefetching_memset(dst, len) ==
  LET a == offset_from_last_align(dst, 32)
  IN  IF len <= 128 THEN FirstLast(64, len)
      ELSE Block(0, 64) \cup prefetching_rest(a, len - a)

memset_to_64(len) ==
  IF len < 5 THEN Block(0, len)
  ELSE IF len <= 8 THEN FirstLast(4, len)
  ELSE IF len <= 16 THEN FirstLast(8, len)
  ELSE IF len <= 32 THEN FirstLast(16, len)
  ELSE FirstLast(32, len)

memset_prefetch(dst, len) ==
  IF len <= 64 THEN memset_to_64(len) ELSE prefetching_memset(dst, len)

memset(dst, len) ==
  LET a == offset_from_last_align(dst, 32)
  IN  IF len <= 64 THEN memset_to_64(len)
      ELSE IF len <= 128 THEN FirstLast(64, len)
      ELSE Block(0, 32) \cup set_loop_and_last(a, len - a, 0)

-----------------------------------------------------------------------------
(* memcmp.  Here the order of the blocks counts: the first that differs    *)
(* decides.  W is the size of the blocks of a large one.                   *)
Least(S) == CHOOSE x \in S : \A y \in S : x <= y

(* Blocks of up to 8 bytes are compared as big-endian numbers, so the first*)
(* byte that differs decides.  One of 16 is two lanes of 8, compared by    *)
(* the maximum of each as a little-endian number (__sse_max_u8 takes its   *)
(* operands for u64): of the first lane that differs the last byte does.   *)
Decides(block, sgn, W) ==
  LET D == {o \in block : sgn[o] # 0}
      Lane(o) == (o - Least(block)) \div 8
      lane == {o \in D : Lane(o) = Lane(Least(D))}
  IN  IF W = 16 THEN CHOOSE o \in lane : \A x \in lane : x <= o ELSE Least(D)

Verdict(blocks, sgn, W) ==
  LET hits == {i \in DOMAIN blocks : \E o \in blocks[i] : sgn[o] # 0}
  IN  IF hits = {} THEN 0 ELSE sgn[Decides(blocks[Least(hits)], sgn, W)]

(* Mutation: the loop stops one block early.                               *)
CmpShort(a, len, W) ==
  LET n == ((len - 1) \div W) - 1
  IN [i \in 1 .. n + 1 |->
        IF i <= n THEN Block(a + (W * (i - 1)), W) ELSE Block(a + len - W, W)]

(* Blocks of W from a on, while they begin before the last one.            *)
cmp_loop_and_last(a, len, W) ==
  LET n == (len - 1) \div W
  IN [i \in 1 .. n + 1 |->
        IF i <= n THEN Block(a + (W * (i - 1)), W) ELSE Block(a + len - W, W)]

(* Above the threshold an unaligned operand is aligned behind one block.   *)
cmp_loop_and_last_align(lhs, len, W) ==
  LET a    == offset_from_last_align(lhs, W)
      rest == cmp_loop_and_last(a, len - a, W)
  IN  IF len >= 384 /\ a # W
      THEN <<Block(0, W)>> \o rest
      ELSE cmp_loop_and_last(0, len, W)

(* The blocks of the short lengths, in order.                              *)
CmpSmall == <<
  <<Block(0, 1)>>, <<Block(0, 2)>>, <<Block(0, 2), Block(2, 1)>>,
  <<Block(0, 4)>>, <<Block(0, 4), Block(4, 1)>>, <<Block(0, 4), Block(4, 2)>>,
  <<Block(0, 4), Block(3, 4)>>, <<Block(0, 8)>> >>

CmpBlocks(lhs, len, W) ==
  IF len = 0 THEN <<>>
  ELSE IF len <= 8 THEN CmpSmall[len]
  ELSE IF len <= 16 THEN <<Block(0, 8), Block(len - 8, 8)>>
  ELSE cmp_loop_and_last_align(lhs, len, W)

memcmp(lhs, len, W, sgn) ==
  Verdict(CmpBlocks(lhs, len, W), sgn, IF len > 16 THEN W ELSE 8)

-----------------------------------------------------------------------------
NoCall == [fn |-> "memcpy", dst |-> 0, len |-> 0, sgn |-> <<>>]

MemInit == call = NoCall
MakeCall == call = NoCall /\ call' \in Calls
Return   == call' = NoCall
MemNext == MakeCall \/ Return
MemSpec == MemInit /\ [][MemNext]_call

-----------------------------------------------------------------------------
Whole == 0 .. call.len - 1

(* What is left behind the first block of a prefetching memset.            *)
Rest == call.len - offset_from_last_align(call.dst, 32)

(* memcpy and memset write every byte they are to write and none beside,   *)
(* for every length and address, through every change from one size of     *)
(* block to the next.  The one exception is in the code: with prefetching, *)
(* from 288 bytes behind the first aligned address on, each round leaves   *)
(* two gaps (MemsetLeavesGaps in Library_proofs).                          *)
WritesExactly ==
  /\ call.fn = "memcpy" => memcpy(call.dst, call.len) = Whole
  /\ call.fn = "memset" => memset(call.dst, call.len) = Whole
  /\ call.fn = "memset_prefetch" =>
       /\ memset_prefetch(call.dst, call.len) \subseteq Whole
       /\ Rest < 288 => memset_prefetch(call.dst, call.len) = Whole

(* memcmp tells equal operands from others, wherever blocks overlap or     *)
(* begin, and reads nothing outside its operands.  It answers by the first *)
(* byte that differs; in blocks of 16 another one may decide, at most seven*)
(* behind it, and does (SseAnswersByLane in Library_proofs).               *)
ComparesFirst ==
  \A W \in {8, 16} :
    call.fn = (IF W = 16 THEN "memcmp_sse" ELSE "memcmp") =>
      LET D      == {o \in Whole : call.sgn[o] # 0}
          blocks == CmpBlocks(call.dst, call.len, W)
          answer == memcmp(call.dst, call.len, W, call.sgn)
          late   == IF W = 16 /\ call.len > 16 THEN 7 ELSE 0
      IN  /\ \A i \in DOMAIN blocks : blocks[i] \subseteq Whole
          /\ answer = 0 <=> D = {}
          /\ D # {} => \E o \in D : answer = call.sgn[o] /\ o <= Least(D) + late

=============================================================================
