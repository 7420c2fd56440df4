------------------------------ MODULE LfsCache ------------------------------
(***************************************************************************)
(* The caching block device of littlefs (platform/lfs.c): a program cache  *)
(* that collects bytes until a cache's worth can be programmed, and a read *)
(* cache.  Neither knows of the other's blocks; what keeps them coherent   *)
(* is when they are dropped.  A round of a copying loop is a step.         *)
(*                                                                         *)
(* The clients are the rest of lfs.c, reduced to the order they keep: a    *)
(* block is erased, then programmed from its start on without gaps, then   *)
(* flushed; what is read back has been flushed with validation or synced,  *)
(* or is in the program cache that is passed along.                               *)
(*                                                                         *)
(* The device may fail: worn blocks in programming and erasing, unreadable *)
(* ones in reading, any in syncing.  Of the errors of programming and      *)
(* validating only LFS_ERR_CORRUPT is modelled: every caller hands any     *)
(* other one up with the caches as they are.                               *)
(***************************************************************************)
EXTENDS Integers, Sequences

CONSTANTS
  BlockCount, BlockSize, CacheSize, ReadSize, ProgSize,   \* of lfs_config
  Erased,     \* an erased byte
  Validated,  \* blocks whose users flush with validation (those of files)
  BadBlocks,  \* worn blocks: programming or erasing them may do nothing or fail
  Unreadable, \* blocks the device may fail to read
  Unknown,    \* a byte of a buffer after a read that failed: one value stands for all
  ClientReads, ClientProgs,  \* how many bytes the clients read and program in a call
  Hints       \* hints the clients pass to reads

ASSUME CacheAssumption ==
  /\ {BlockCount, BlockSize, CacheSize, ReadSize, ProgSize} \subseteq Nat \ {0}
  /\ CacheSize % ReadSize = 0 /\ CacheSize % ProgSize = 0 /\ BlockSize % CacheSize = 0
  /\ ProgSize % ReadSize = 0          \* not required by lfs_init
  /\ ClientReads \cup ClientProgs \subseteq Nat \ {0} /\ Hints \subseteq Nat
  /\ Erased \notin 0 .. 2 * BlockCount * BlockSize - 1 /\ BadBlocks \subseteq Validated /\ Validated \subseteq 0 .. BlockCount - 1
  /\ Unknown \notin {Erased} \cup 0 .. 2 * BlockCount * BlockSize - 1 /\ Unreadable \subseteq 0 .. BlockCount - 1

VARIABLES
  disk,       \* the device: bytes of each block
  pcache, rcache,
  call,       \* the operation under way, or Idle
  ret,        \* what the last one returned, "ok" while one is under way
  content,    \* of each block: the bytes the clients programmed since its erase
  readable,   \* of each block: how many of them are flushed and validated, or synced
  life        \* of each block: its erases, modulo two

vars == <<disk, pcache, rcache, call, ret, content, readable, life>>

Blocks == 0 .. BlockCount - 1
LFS_BLOCK_NULL == -1
Idle == [op |-> "none"]

\* The clients call nothing between an error and giving the block up (GivesUp).
Failed == call = Idle /\ ret = "corrupt" /\ pcache.block # LFS_BLOCK_NULL
Free == call = Idle /\ ~ Failed

lfs_min(a, b) == IF a < b THEN a ELSE b
Bug_sum(a, b) == a + b
lfs_max(a, b) == IF a > b THEN a ELSE b
lfs_aligndown(a, alignment) == a - (a % alignment)
lfs_alignup(a, alignment) == lfs_aligndown(a + alignment - 1, alignment)

Blank == [k \in 0 .. CacheSize - 1 |-> Erased]
lfs_cache_drop(c) == [c EXCEPT !.block = LFS_BLOCK_NULL]
\* The bytes a dropped read cache keeps are never looked at: one value stands for all.
NullCache == [block |-> LFS_BLOCK_NULL, off |-> 0, size |-> 0, buffer |-> Blank]
Bug_zero_keeps_block(c) == [c EXCEPT !.buffer = Blank]
lfs_cache_zero(c) == [c EXCEPT !.block = LFS_BLOCK_NULL, !.buffer = Blank]

-----------------------------------------------------------------------------
(* lfs_bd_flush and lfs_bd_sync, as the set of their outcomes. *)

\* The device programs n bytes of the buffer; a worn block may take none of
\* them, or all but the last, and may or may not say so.
Programmed(n) ==
  [disk EXCEPT ![pcache.block] = [o \in 0 .. BlockSize - 1 |->
     IF o \in pcache.off .. pcache.off + n - 1 THEN pcache.buffer[o - pcache.off] ELSE @[o]]]
DeviceProgs(n) ==
  {[err |-> "ok", disk |-> Programmed(n)]} \cup
  (IF pcache.block \in BadBlocks
   THEN {[err |-> e, disk |-> Programmed(k)] : e \in {"ok", "corrupt"}, k \in {0, n - 1}} ELSE {})

Loaded(d, block, off, hint) ==
  LET from == lfs_aligndown(off, ReadSize)
      size == lfs_min(lfs_min(lfs_alignup(off + hint, ReadSize), BlockSize) - from, CacheSize)
  IN [block |-> block, off |-> from, size |-> size,
      buffer |-> [k \in 0 .. CacheSize - 1 |-> IF k < size THEN d[block][from + k] ELSE Erased]]
\* The read cache is labelled before the device is asked, and stays so when it fails.
LeftBehind(block, off, hint) ==
  [Loaded(disk, block, off, hint) EXCEPT !.buffer = [k \in 0 .. CacheSize - 1 |-> Unknown]]

\* Validation compares the region with the buffer, through a dropped read
\* cache and eight bytes at a time; a longer region leaves itself in that cache.
CmpChunk == 8
Bug_last_byte(d, n) == \A k \in 0 .. n - 2 : d[pcache.block][pcache.off + k] = pcache.buffer[k]
SameOnDisk(d, n) == \A k \in 0 .. n - 1 : d[pcache.block][pcache.off + k] = pcache.buffer[k]
Compared(d, n) == IF n <= CmpChunk THEN NullCache
                                  ELSE Loaded(d, pcache.block, pcache.off, n)
NotCompared(n) == IF n <= CmpChunk THEN NullCache ELSE LeftBehind(pcache.block, pcache.off, n)

Flushed(rc, validate) ==
  LET n == lfs_alignup(pcache.size, ProgSize) IN
  IF pcache.block = LFS_BLOCK_NULL
  THEN {[err |-> "ok", disk |-> disk, pcache |-> pcache, rcache |-> rc]}
  ELSE {CASE p.err # "ok" -> [err |-> p.err, disk |-> p.disk, pcache |-> pcache, rcache |-> rc]
          [] p.err = "ok" /\ validate /\ ~ SameOnDisk(p.disk, n) ->
               [err |-> "corrupt", disk |-> p.disk, pcache |-> pcache, rcache |-> Compared(p.disk, n)]
          [] OTHER ->
               [err |-> "ok", disk |-> p.disk, pcache |-> lfs_cache_zero(pcache),
                rcache |-> IF validate THEN Compared(p.disk, n) ELSE rc] :
        p \in DeviceProgs(n)}
       \cup {[err |-> "corrupt", disk |-> p.disk, pcache |-> pcache, rcache |-> NotCompared(n)] :
        p \in {q \in DeviceProgs(n) : q.err = "ok" /\ validate /\ pcache.block \in Unreadable}}

Bug_rcache_kept == rcache
Sync_rcache == NullCache

Becomes(f) == disk' = f.disk /\ pcache' = f.pcache /\ rcache' = f.rcache
Returns(err) == call' = Idle /\ ret' = err

\* Bytes of b that are in the program cache still.
Pending(b) == IF pcache.block = b THEN pcache.off .. pcache.off + pcache.size - 1 ELSE {}
\* The whole block counts once it is flushed; a flush pads to a programming
\* unit, with what a dropped cache left in the buffer.
Padded(b) ==
  LET n == Len(content[b])
  IN content[b] \o [k \in 1 .. lfs_alignup(n, ProgSize) - n |-> pcache.buffer[n + k - 1 - pcache.off]]
Settles(b) ==
  /\ content' = [content EXCEPT ![b] = Padded(b)]
  /\ readable' = [readable EXCEPT ![b] = Len(Padded(b))]

lfs_bd_flush ==
  /\ Free /\ pcache.block \in Validated
  /\ \E f \in Flushed(rcache, TRUE) :
       /\ Becomes(f) /\ Returns(f.err)
       /\ IF f.err = "ok" THEN Settles(pcache.block) ELSE UNCHANGED <<content, readable>>
  /\ UNCHANGED life

lfs_bd_sync(b) ==
  /\ Free /\ b \notin Validated /\ Len(content[b]) > readable[b] /\ pcache.block \in {b, LFS_BLOCK_NULL}
  /\ \E f \in Flushed(Sync_rcache, FALSE) :
       /\ Becomes(f)
       /\ IF f.err = "ok"
          THEN \/ Settles(b) /\ Returns("ok")
               \* what is programmed may not be on the device yet: it is to be synced again
               \/ content' = [content EXCEPT ![b] = Padded(b)] /\ UNCHANGED readable /\ Returns("error")
          ELSE Returns(f.err) /\ UNCHANGED <<content, readable>>
  /\ UNCHANGED life

-----------------------------------------------------------------------------
(* lfs_bd_read *)

lfs_bd_read(withPcache, block, off, size, hint) ==
  /\ Free
  /\ IF block >= BlockCount \/ off + size > BlockSize
     THEN Returns("corrupt")
     ELSE /\ off .. off + size - 1 \subseteq
               0 .. readable[block] - 1 \cup (IF withPcache THEN Pending(block) ELSE {})
          /\ call' = [op |-> "read", withPcache |-> withPcache, block |-> block, off |-> off,
                      size |-> size, hint |-> hint, start |-> off, data |-> << >>]
          /\ ret' = "ok"
  /\ UNCHANGED <<disk, pcache, rcache, content, readable, life>>

Reading == call.op = "read" /\ call.size > 0
Overlaps(c) == call.block = c.block /\ call.off < c.off + c.size
InPcache == call.withPcache /\ Overlaps(pcache) /\ call.off >= pcache.off
InRcache == Overlaps(rcache) /\ call.off >= rcache.off

\* The bytes up to where the program cache, and then the read cache, begin.
UpToPcache == IF call.withPcache /\ Overlaps(pcache) THEN lfs_min(call.size, pcache.off - call.off)
              ELSE call.size
UpToCaches == IF Overlaps(rcache) THEN lfs_min(UpToPcache, rcache.off - call.off) ELSE UpToPcache

Taken(buffer, from, n) == [k \in 1 .. n |-> buffer[from + k - 1]]
Copies(bytes) ==
  call' = [call EXCEPT !.off = @ + Len(bytes), !.size = @ - Len(bytes), !.data = @ \o bytes]

ReadsPcache ==
  /\ Reading /\ InPcache
  /\ Copies(Taken(pcache.buffer, call.off - pcache.off,
                  lfs_min(call.size, pcache.size - (call.off - pcache.off))))
  /\ UNCHANGED <<disk, pcache, rcache, ret, content, readable, life>>

ReadsRcache ==
  /\ Reading /\ ~ InPcache /\ InRcache
  /\ Copies(Taken(rcache.buffer, call.off - rcache.off,
                  lfs_min(UpToPcache, rcache.size - (call.off - rcache.off))))
  /\ UNCHANGED <<disk, pcache, rcache, ret, content, readable, life>>

Bypasses == call.size >= call.hint /\ call.off % ReadSize = 0 /\ call.size >= ReadSize

ReadsDisk ==
  /\ Reading /\ ~ InPcache /\ ~ InRcache
  /\ IF Bypasses
     THEN Copies(Taken(disk[call.block], call.off, lfs_aligndown(UpToCaches, ReadSize))) /\ UNCHANGED rcache
     ELSE rcache' = Loaded(disk, call.block, call.off, call.hint) /\ UNCHANGED call
  /\ UNCHANGED <<disk, pcache, ret, content, readable, life>>

\* The device fails: what was copied is no answer, and a read cache that was
\* to be loaded is left with the label of what it does not hold.
ReadFails ==
  /\ Reading /\ ~ InPcache /\ ~ InRcache /\ call.block \in Unreadable
  /\ rcache' = IF Bypasses THEN rcache ELSE LeftBehind(call.block, call.off, call.hint)
  /\ Returns("error")
  /\ UNCHANGED <<disk, pcache, content, readable, life>>

ReadReturns ==
  /\ call.op = "read" /\ call.size = 0
  /\ Returns("ok")
  /\ UNCHANGED <<disk, pcache, rcache, content, readable, life>>

-----------------------------------------------------------------------------
(* lfs_bd_prog and lfs_bd_erase *)

\* Every block, offset and life of a block has data of its own.
Datum(b, off) == 2 * (b * BlockSize + off) + life[b]

lfs_bd_prog(validate, block, n) ==
  /\ Free
  /\ Len(content[block]) + n <= BlockSize
  /\ pcache.block # block => pcache.block = LFS_BLOCK_NULL /\ Len(content[block]) % ProgSize = 0
  /\ call' = [op |-> "prog", validate |-> validate, block |-> block, off |-> Len(content[block]),
              data |-> [k \in 1 .. n |-> Datum(block, Len(content[block]) + k - 1)]]
  /\ ret' = "ok"
  /\ UNCHANGED <<disk, pcache, rcache, content, readable, life>>

Bug_past_full(c) == c.size > CacheSize
IsFull(c) == c.size = CacheSize
Programming == call.op = "prog" /\ call.data # << >>
FitsPcache == call.block = pcache.block /\ call.off \in pcache.off .. pcache.off + CacheSize - 1

ProgFits ==
  /\ Programming /\ FitsPcache
  /\ LET at == call.off - pcache.off
         n == lfs_min(Len(call.data), CacheSize - at)
         filled == [pcache EXCEPT !.buffer = [k \in 0 .. CacheSize - 1 |->
                                     IF k \in at .. at + n - 1 THEN call.data[k - at + 1] ELSE @[k]],
                                  !.size = lfs_max(@, at + n)]
     IN /\ pcache' = filled
        /\ call' = [call EXCEPT !.off = @ + n, !.data = SubSeq(@, n + 1, Len(@)),
                                !.op = IF IsFull(filled) THEN "full" ELSE "prog"]
        /\ content' = [content EXCEPT ![call.block] = @ \o SubSeq(call.data, 1, n)]
  /\ UNCHANGED <<disk, rcache, ret, readable, life>>

ProgFlushes ==
  /\ call.op = "full"
  /\ \E f \in Flushed(rcache, call.validate) :
       /\ Becomes(f)
       /\ IF f.err # "ok" THEN Returns(f.err) ELSE call' = [call EXCEPT !.op = "prog"] /\ UNCHANGED ret
       /\ readable' = IF f.err = "ok" /\ call.validate
                      THEN [readable EXCEPT ![call.block] = Len(content[call.block])] ELSE readable
  /\ UNCHANGED <<content, life>>

ProgPrepares ==
  /\ Programming /\ ~ FitsPcache
  /\ pcache' = [pcache EXCEPT !.block = call.block, !.off = lfs_aligndown(call.off, ProgSize), !.size = 0]
  /\ UNCHANGED <<disk, rcache, call, ret, content, readable, life>>

ProgReturns ==
  /\ call.op = "prog" /\ call.data = << >>
  /\ Returns("ok")
  /\ UNCHANGED <<disk, pcache, rcache, content, readable, life>>

\* A worn block may refuse; its users take another one, and it is erased
\* before it is used again, which is folded into the step.
lfs_bd_erase(b) ==
  /\ Free /\ pcache.block # b /\ content[b] # << >>
  /\ disk' = [disk EXCEPT ![b] = [o \in 0 .. BlockSize - 1 |-> Erased]]
  /\ content' = [content EXCEPT ![b] = << >>] /\ readable' = [readable EXCEPT ![b] = 0]
  /\ life' = [life EXCEPT ![b] = 1 - @]
  /\ Returns("ok") \/ (b \in BadBlocks /\ Returns("error"))
  /\ UNCHANGED <<pcache, rcache>>

\* After an error the clients give the block up (relocate, or return the
\* error): they drop the program cache and go on with another block; this one
\* is erased before it is used again, which is folded into the step.  After a
\* read, an erase or a sync that failed they may, or go on.
GivesUp ==
  /\ call = Idle /\ ret # "ok" /\ pcache.block # LFS_BLOCK_NULL
  /\ pcache' = lfs_cache_drop(pcache)
  /\ disk' = [disk EXCEPT ![pcache.block] = [o \in 0 .. BlockSize - 1 |-> Erased]]
  /\ content' = [content EXCEPT ![pcache.block] = << >>]
  /\ readable' = [readable EXCEPT ![pcache.block] = 0]
  /\ life' = [life EXCEPT ![pcache.block] = 1 - @]
  /\ Returns("ok")
  /\ UNCHANGED rcache

Init ==
  /\ disk = [b \in Blocks |-> [o \in 0 .. BlockSize - 1 |-> Erased]]
  /\ pcache = NullCache /\ rcache = NullCache
  /\ call = Idle /\ ret = "ok"
  /\ content = [b \in Blocks |-> << >>] /\ readable = [b \in Blocks |-> 0] /\ life = [b \in Blocks |-> 0]

Next ==
  \/ lfs_bd_flush
  \/ \E b \in Blocks : lfs_bd_erase(b) \/ lfs_bd_sync(b)
  \/ \E p \in BOOLEAN, b \in 0 .. BlockCount, o \in 0 .. BlockSize - 1, n \in ClientReads, h \in Hints :
       lfs_bd_read(p, b, o, n, h)
  \/ ReadsPcache \/ ReadsRcache \/ ReadsDisk \/ ReadFails \/ ReadReturns
  \/ \E b \in Blocks, n \in ClientProgs : lfs_bd_prog(b \in Validated, b, n)
  \/ ProgFits \/ ProgFlushes \/ ProgPrepares \/ ProgReturns \/ GivesUp

Spec == Init /\ [][Next]_vars

-----------------------------------------------------------------------------
TypeOK ==
  /\ \A b \in Blocks : \A o \in 0 .. BlockSize - 1 :
       disk[b][o] \in {Erased} \cup 0 .. 2 * BlockCount * BlockSize - 1
  /\ ret \in {"ok", "corrupt", "error"} /\ life \in [Blocks -> 0 .. 1]
  /\ \A c \in {pcache, rcache} :
       c.block \in Blocks \cup {LFS_BLOCK_NULL} /\ c.off \in 0 .. BlockSize /\ c.size \in 0 .. CacheSize
  /\ \A b \in Blocks : readable[b] \in 0 .. BlockSize /\ Len(content[b]) <= BlockSize

(* A read returns what was programmed last, wherever the bytes are by      *)
(* then: neither cache ever gives a byte of an earlier life of the block   *)
(* (lfs.c:44-124, against the drops at 169, 192 and the priority of the    *)
(* program cache).  Of a block the device failed to read, and of no other, *)
(* it may return what that read left in the cache (lfs.c:108-121).         *)
ReadsBack == call.op = "read" =>
  /\ call.start + Len(call.data) <= Len(content[call.block])
  /\ \A k \in 1 .. Len(call.data) :
       \/ call.data[k] = content[call.block][call.start + k]
       \/ call.block \in Unreadable /\ call.data[k] = Unknown

(* What one would want, and the code does not give: no read is answered    *)
(* with bytes that came with an error.  lfs_bd_read labels the read cache  *)
(* before it asks the device and keeps the label when that fails           *)
(* (lfs.c:110-121), so the next read of the range takes the bytes from it  *)
(* (lfs.c:74-85) and returns 0.  No run checks it.                         *)
NothingUnknown == call.op = "read" => \A k \in 1 .. Len(call.data) : call.data[k] # Unknown

(* What has been flushed with validation or synced is on the device, worn  *)
(* blocks included (lfs.c:155-204).                                        *)
FlushedIsOnDisk == \A b \in Blocks : \A o \in 0 .. readable[b] - 1 : disk[b][o] = content[b][o + 1]

(* No byte is programmed twice between two erases, though programming is   *)
(* by units of prog_size and caches start anywhere (lfs.c:159, 217-246).   *)
NeverReprogrammed ==
  [][\A b \in Blocks : disk[b] # disk'[b] =>
       \/ \A o \in 0 .. BlockSize - 1 : disk'[b][o] = Erased
       \/ \A o \in 0 .. BlockSize - 1 : disk[b][o] \in {Erased, disk'[b][o]}]_vars

(* The assertion of lfs_bd_prog (lfs.c:240): a program cache is never taken*)
(* from a block it still holds bytes of.                                   *)
PcacheFree == Programming /\ ~ FitsPcache => pcache.block = LFS_BLOCK_NULL

(* The program cache holds the last bytes of its block from a programming  *)
(* unit on, and is full only while it is flushed; every other block ends   *)
(* with a unit (lfs.c:236-259).                                            *)
PcacheIsTail ==
  /\ pcache.block # LFS_BLOCK_NULL =>
       /\ pcache.off % ProgSize = 0 /\ pcache.off + pcache.size = Len(content[pcache.block])
       /\ \A o \in Pending(pcache.block) : pcache.buffer[o - pcache.off] = content[pcache.block][o + 1]
       /\ pcache.size = CacheSize => call.op = "full" \/ Failed
  /\ \A b \in Blocks \ {pcache.block} : Len(content[b]) % ProgSize = 0

\* How many bytes of b have left the program cache.
Settled(b) == IF pcache.block = b THEN pcache.off ELSE Len(content[b])

(* The device has what left the program cache, whether or not it is to be  *)
(* read back yet, and is erased from there on, but for a block that failed.*)
DiskIsRest == \A b \in Blocks :
  /\ readable[b] <= Settled(b)
  /\ \A o \in 0 .. Settled(b) - 1 : disk[b][o] = content[b][o + 1]
  /\ ~ (Failed /\ b = pcache.block) => \A o \in Settled(b) .. BlockSize - 1 : disk[b][o] = Erased

(* A read cache may keep bytes of an earlier life, or of before they were  *)
(* programmed, but none that may be read (lfs.c:169, 192); nor what a read *)
(* that failed left, but of a block that cannot always be read.            *)
RcacheFresh == rcache.block # LFS_BLOCK_NULL =>
  \A o \in rcache.off .. rcache.off + rcache.size - 1 :
    o < readable[rcache.block] =>
      \/ rcache.buffer[o - rcache.off] = disk[rcache.block][o]
      \/ rcache.block \in Unreadable /\ rcache.buffer[o - rcache.off] = Unknown

(* A call goes on where it is: programming at the end of the block, reading *)
(* among what may be read.                                                  *)
CallOnItsWay ==
  /\ call.op \in {"prog", "full"} =>
       /\ call.off = Len(content[call.block]) /\ call.off + Len(call.data) <= BlockSize
       /\ call.validate = (call.block \in Validated)
       /\ pcache.block \in {call.block, LFS_BLOCK_NULL}
       /\ call.op = "full" => pcache.block = call.block /\ pcache.size = CacheSize
  /\ call.op = "read" =>
       /\ call.off = call.start + Len(call.data) /\ call.off + call.size <= BlockSize
       /\ call.off .. call.off + call.size - 1 \subseteq
            0 .. readable[call.block] - 1 \cup (IF call.withPcache THEN Pending(call.block) ELSE {})

(* All that holds of the device and the caches between any two steps.      *)
CacheInv ==
  /\ TypeOK /\ ReadsBack /\ FlushedIsOnDisk /\ PcacheFree
  /\ PcacheIsTail /\ DiskIsRest /\ RcacheFresh /\ CallOnItsWay
=============================================================================
