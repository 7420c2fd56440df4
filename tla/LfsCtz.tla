------------------------------- MODULE LfsCtz -------------------------------
(***************************************************************************)
(* The skip lists littlefs keeps files in (platform/lfs.c, "File index     *)
(* list operations"): block number i of a file starts with a pointer to    *)
(* block i - 2^k for every k such that 2^k divides i.  The operations walk *)
(* them backwards, from the last block.                                    *)
(*                                                                         *)
(* A device d maps a block to the sequence of its bytes; every byte of a   *)
(* pointer holds the whole pointer.                                        *)
(***************************************************************************)
EXTENDS Integers, Sequences

CONSTANTS
  BlockCount, BlockSize,  \* of lfs_config
  PtrSize                 \* bytes of a pointer: four

\* lfs_ctz_index is wrong from block 2^(BlockSize \div PtrSize - 3) - 1 on,
\* which an assertion of lfs_init keeps out of reach of a 32-bit size.
ASSUME CtzAssumption ==
  /\ BlockCount \in Nat /\ PtrSize \in Nat \ {0}
  /\ BlockSize \in Nat /\ BlockSize >= 5 * PtrSize

Blocks == 0 .. BlockCount - 1
LFS_BLOCK_NULL == -1
LFS_BLOCK_INLINE == -2

lfs_min(a, b) == IF a < b THEN a ELSE b
lfs_max(a, b) == IF a > b THEN a ELSE b

(* Shifts, the number of ones, of trailing zeros, and of the digits of a.  *)
two[n \in Nat] == IF n = 0 THEN 1 ELSE 2 * two[n - 1]
ones[n \in Nat] == IF n = 0 THEN 0 ELSE (n % 2) + ones[n \div 2]
zeros[n \in Nat] == IF n = 0 \/ n % 2 = 1 THEN 0 ELSE 1 + zeros[n \div 2]
digits[n \in Nat] == IF n = 0 THEN 0 ELSE 1 + digits[n \div 2]

lfs_popc(a) == ones[a]
lfs_ctz(a) == zeros[a]
lfs_npw2(a) == digits[a - 1]

-----------------------------------------------------------------------------
(* Which block a byte is in, and where in that block. *)

Bug_one_pointer(size) ==
  LET b == BlockSize - 2 * PtrSize
      i == size \div b
      j == (size - PtrSize * (lfs_popc(i - 1) + 1)) \div b
  IN IF i = 0 THEN [index |-> 0, off |-> size]
     ELSE [index |-> j, off |-> size - (b * j) - PtrSize * lfs_popc(j)]

lfs_ctz_index(size) ==
  LET b == BlockSize - 2 * PtrSize
      i == size \div b
      j == (size - PtrSize * (lfs_popc(i - 1) + 2)) \div b
  IN IF i = 0 THEN [index |-> 0, off |-> size]
     ELSE [index |-> j, off |-> size - (b * j) - PtrSize * lfs_popc(j)]

Pointer(d, block, k) == d[block][PtrSize * k + 1]

Bug_skip_past(current, target) == lfs_min(lfs_npw2(current - target + 1), lfs_ctz(current))
Skip(current, target) == lfs_min(lfs_npw2(current - target + 1) - 1, lfs_ctz(current))

\* A round of lfs_ctz_find.  Each goes back by a block at least, so that there
\* are no more than the list has blocks before the last.
Nearer(d, w, target) ==
  LET skip == Skip(w.current, target)
  IN IF w.current <= target THEN w
     ELSE [current |-> w.current - two[skip], head |-> Pointer(d, w.head, skip)]
Walk(d, head, target) == [last \in Nat |->
  LET after[k \in Nat] == IF k = 0 THEN [current |-> last, head |-> head]
                          ELSE Nearer(d, after[k - 1], target)
  IN after[last]]

lfs_ctz_find(d, head, size, pos) ==
  LET last == lfs_ctz_index(size - 1).index
      at == lfs_ctz_index(pos)
  IN IF size = 0 THEN [block |-> LFS_BLOCK_NULL, off |-> 0]
     ELSE [block |-> Walk(d, head, at.index)[last].head, off |-> at.off]

-----------------------------------------------------------------------------
(* What lfs_ctz_extend puts into a fresh block: a copy of the last block,  *)
(* if that is incomplete, or the pointers of the next one.                 *)

Bug_pointers_of_last(index) == lfs_ctz(index) + 1
Skips(index) == lfs_ctz(index + 1) + 1

NextPointers(d, head, index) ==
  LET heads[i \in 0 .. Skips(index) - 1] == IF i = 0 THEN head ELSE Pointer(d, heads[i - 1], i - 1)
  IN [k \in 1 .. PtrSize * Skips(index) |-> heads[(k - 1) \div PtrSize]]

lfs_ctz_extend(d, head, size) ==
  IF size = 0 THEN << >>
  ELSE LET last == lfs_ctz_index(size - 1)
           noff == last.off + 1
       IN IF noff # BlockSize THEN SubSeq(d[head], 1, noff)
          ELSE NextPointers(d, head, last.index)

(* The blocks lfs_ctz_traverse reports: two at a time, from even indices.  *)
Bug_odd_skipped(index) == 2
Count(index) == 2 - (index % 2)

\* A round of lfs_ctz_traverse.
Reported(d, w) ==
  LET count == Count(w.index)
      heads == {Pointer(d, w.head, k) : k \in 0 .. count - 1}
  IN IF w.index <= 0 THEN w
     ELSE [index |-> w.index - count, head |-> Pointer(d, w.head, count - 1),
           told |-> w.told \cup heads]
Reports(d, head) == [last \in Nat |->
  LET after[k \in Nat] == IF k = 0 THEN [index |-> last, head |-> head, told |-> {head}]
                          ELSE Reported(d, after[k - 1])
  IN after[last].told]

lfs_ctz_traverse(d, head, size) ==
  IF size = 0 THEN {} ELSE Reports(d, head)[lfs_ctz_index(size - 1).index]
=============================================================================
