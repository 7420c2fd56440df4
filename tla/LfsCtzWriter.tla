---------------------------- MODULE LfsCtzWriter ----------------------------
(***************************************************************************)
(* A file is written by writes of some length, with lfs_ctz_extend called  *)
(* where lfs_file_flushedwrite calls it: at the start of a write the last  *)
(* block is copied first, within a write it goes on until it is full.      *)
(* The block it gets is any that the file does not have.                   *)
(***************************************************************************)
EXTENDS LfsCtz

CONSTANTS
  MaxSize,     \* of the file
  Writes,      \* how long the writes may be
  LowestFirst  \* bound: it is the first such block

\* A block has room for the pointers that its number calls for, and four more.
\* LFS_FILE_MAX sees to that for blocks of 112 bytes and more.
ASSUME WriterAssumption ==
  /\ MaxSize \in Nat /\ Writes \subseteq Nat \ {0} /\ LowestFirst \in BOOLEAN
  /\ \A i \in 0 .. MaxSize \div (BlockSize - 2 * PtrSize) :
       PtrSize * (lfs_popc(i) + 4) <= BlockSize

VARIABLES d, head, size, used, write
writerVars == <<d, head, size, used, write>>

\* The reference: where the bytes of block i start in the file.
Pointers(i) == IF i = 0 THEN 0 ELSE lfs_ctz(i) + 1
Start[i \in Nat] == IF i = 0 THEN 0 ELSE Start[i - 1] + BlockSize - PtrSize * Pointers(i - 1)
IndexOf(n) == CHOOSE i \in 0 .. n : Start[i] <= n /\ n < Start[i + 1]

WriterInit ==
  /\ d = [b \in Blocks |-> << >>] /\ head = LFS_BLOCK_NULL /\ size = 0 /\ used = << >>
  /\ write \in Writes

Byte(n) == n % 2
AtEnd == size = Start[Len(used)]
Free == {b \in Blocks : \A k \in DOMAIN used : used[k] # b}

\* The next byte goes on in the last block.
Continue ==
  /\ size < MaxSize /\ size % write # 0 /\ ~ AtEnd
  /\ d' = [d EXCEPT ![head] = Append(@, Byte(size))]
  /\ size' = size + 1 /\ UNCHANGED <<head, used, write>>

\* The next byte is the first of a write, or of a block.
Extend(b) ==
  /\ size < MaxSize /\ (size % write = 0 \/ AtEnd)
  /\ LowestFirst => \A c \in Free : b <= c
  /\ d' = [d EXCEPT ![b] = Append(lfs_ctz_extend(d, head, size), Byte(size))]
  /\ head' = b
  /\ used' = IF AtEnd THEN Append(used, b) ELSE [used EXCEPT ![Len(used)] = b]
  /\ size' = size + 1 /\ UNCHANGED write

WriterNext == Continue \/ \E b \in Free : Extend(b)
WriterSpec == WriterInit /\ [][WriterNext]_writerVars

-----------------------------------------------------------------------------
(* Every byte of the file is found, in the block that holds it, at its     *)
(* offset, however many blocks are skipped on the way (lfs.c:2639-2690).   *)
FindsAll == \A pos \in 0 .. size - 1 :
  LET at == lfs_ctz_find(d, head, size, pos)
  IN /\ at.block = used[IndexOf(pos) + 1]
     /\ at.off = pos - Start[IndexOf(pos)] + PtrSize * Pointers(IndexOf(pos))
     /\ d[at.block][at.off + 1] = Byte(pos)

(* The allocator hears of all blocks of the file (lfs.c:2789-2828).        *)
TraversesAll == size > 0 => lfs_ctz_traverse(d, head, size) = {used[k] : k \in DOMAIN used}

(* A block never overflows, pointers included, and all but the last are    *)
(* full (lfs.c:2748-2765).                                                 *)
BlocksFull == \A k \in DOMAIN used :
  IF k < Len(used) THEN Len(d[used[k]]) = BlockSize ELSE Len(d[used[k]]) \in 1 .. BlockSize

(* A file of any size, however it was written, is laid out as lfs_ctz_find *)
(* and lfs_ctz_traverse take it to be (lfs.c:2639-2828).                   *)
FilesRight == FindsAll /\ TraversesAll /\ BlocksFull
=============================================================================
