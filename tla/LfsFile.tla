------------------------------ MODULE LfsFile ------------------------------
(***************************************************************************)
(* Open files of littlefs (platform/lfs.c): the operations on a file, the  *)
(* copy-on-write of its blocks and the block allocator.  A call is a list  *)
(* of tasks, the functions it goes through; a task is taken a round at a   *)
(* time, so that power may be lost anywhere.                               *)
(*                                                                         *)
(* Blocks are those of LfsCtz.  The directory is a function whose entries  *)
(* change as a whole (LfsLog); the caches are coherent (LfsCache), and all *)
(* that is kept of a file's is what is not programmed yet and where it was *)
(* read from last, which lfs_file_rawseek looks at.  A file is open once.  *)
(***************************************************************************)
EXTENDS LfsCtz, FiniteSetsExt

CONSTANTS
  Files, Values,
  CacheSize, Lookahead, FileMax,  \* of lfs_config; Lookahead in blocks
  InlineMax,       \* the largest file that is kept in the directory
  MetaBlocks,      \* blocks of metadata pairs
  BadBlocks,       \* worn blocks: programming them may fail, and does in the end
  InitSizes,       \* sizes a file may have at first
  Opens, Reads, Writes, Seeks, Truncates,    \* what the clients ask for
  MaxCalls,        \* bound: calls in a behaviour
  MaxCrashes,      \* bound: losses of power
  EdgeSeeks, EdgeTruncates,  \* whether clients seek from, and truncate to, the end of a block
  EdgeFailures,    \* whether a worn block may fail with the first bytes written to it
  EdgeOutlines     \* whether clients outgrow the directory with a file that was flushed but not synced

ASSUME FileAssumption ==
  /\ MetaBlocks \cup BadBlocks \subseteq Blocks
  /\ CacheSize \in Nat \ {0} /\ BlockSize % CacheSize = 0
  /\ InlineMax \in 0 .. CacheSize /\ Lookahead \in Nat \ {0}
  /\ \A s \in Truncates : s <= FileMax
  /\ \A n \in 0 .. FileMax : lfs_ctz_index(n).off < BlockSize   \* enough room for pointers

VARIABLES
  disk,     \* the bytes of each block, as far as programmed
  dir,      \* the directory: no entry, the file itself, or its skip list
  free,     \* the lookahead window of the allocator
  file,     \* lfs_file_t of each file, or Closed
  call,     \* the call under way, or the last: its file, what it read, how it ended
  todo,     \* its remaining tasks
  want,     \* what each open file should hold
  synced,   \* what each should hold after a loss of power
  spare,    \* blocks not in use, nor handed out, since the last lfs_alloc_ack
  bound     \* calls and losses of power so far

device == <<disk, dir, synced>>
vars == <<disk, dir, free, file, call, todo, want, synced, spare, bound>>

NoEntry == [type |-> "none"]
Inline(data) == [type |-> "inline", data |-> data]
Ctz(head, size) == [type |-> "ctz", head |-> head, size |-> size]
Closed == [flags |-> {}]
IsOpen(f) == file[f] # Closed

F == call.file
H == file[F]
Has(flag) == flag \in H.flags
Task == Head(todo)
Busy(op) == todo # << >> /\ Task.op = op

Does(handle, tasks) == file' = [file EXCEPT ![F] = handle] /\ todo' = tasks

\* The value of cells written over from position off on.
Over(s, off, data) ==
  [k \in 1 .. lfs_max(Len(s), off + Len(data)) |->
     IF k > off /\ k <= off + Len(data) THEN data[k - off] ELSE IF k <= Len(s) THEN s[k] ELSE 0]
Repeat(n, v) == [k \in 1 .. n |-> v]

-----------------------------------------------------------------------------
(* What lfs_fs_rawtraverse reports, and the allocator. *)

\* A file that is written sees its last block through its cache.
Seen(f) == IF "WRITING" \in file[f].flags /\ "INLINE" \notin file[f].flags
           THEN [disk EXCEPT ![file[f].block] = file[f].buf] ELSE disk
Bug_head_only(e) == IF e.type = "ctz" THEN {e.head} ELSE {}
EntryBlocks(e) == IF e.type = "ctz" THEN lfs_ctz_traverse(disk, e.head, e.size) ELSE {}

Bug_dirty_forgotten(f) ==
  IF "WRITING" \in file[f].flags THEN lfs_ctz_traverse(Seen(f), file[f].block, file[f].pos) ELSE {}
OpenBlocks(f) ==
  (IF "DIRTY" \in file[f].flags THEN lfs_ctz_traverse(disk, file[f].head, file[f].size) ELSE {}) \cup
  (IF "WRITING" \in file[f].flags THEN lfs_ctz_traverse(Seen(f), file[f].block, file[f].pos) ELSE {})

lfs_fs_rawtraverse ==
  MetaBlocks \cup UNION {EntryBlocks(dir[f]) : f \in Files}
    \cup UNION {OpenBlocks(f) : f \in {g \in Files : IsOpen(g) /\ "INLINE" \notin file[g].flags}}

\* Where a block is in a window, in 32 bits: even a file that has just been
\* outlined, whose list still is LFS_BLOCK_INLINE, is somewhere.
lfs_alloc_lookahead(block, off) ==
  LET wrap == (65536 % BlockCount) * (65536 % BlockCount)
      d == block - off + BlockCount
  IN (IF d >= 0 THEN d ELSE d + wrap) % BlockCount

Dropped(off) == [off |-> off, size |-> 0, i |-> 0, ack |-> BlockCount, used |-> {}]
lfs_alloc_ack == free' = [free EXCEPT !.ack = BlockCount]

Allocating == todo # << >> /\ Task.op \in {"extend", "relocate"} /\ Task.nblock = LFS_BLOCK_NULL
Bug_last_skipped == {o \in free.i .. free.size - 2 : o \notin free.used}
FreeOffs == {o \in free.i .. free.size - 1 : o \notin free.used}
Gets(b) == todo' = <<[Task EXCEPT !.nblock = b]>> \o Tail(todo)

\* The next one is looked for at once, so that an ack lets go of what is before it.
AllocFinds ==
  /\ Allocating /\ FreeOffs # {}
  /\ LET o == Min(FreeOffs)
         next == Min((FreeOffs \ {o}) \cup {free.size})
     IN /\ Gets((free.off + o) % BlockCount)
        /\ free' = [free EXCEPT !.i = next, !.ack = @ - (next - free.i)]
  /\ UNCHANGED <<device, file, call, want, bound>>

Bug_whole_device(left) == Lookahead
WindowSize(left) == lfs_min(Lookahead, left)

\* The window moves on, unless all blocks have been looked at since the last ack.
AllocSlides ==
  /\ Allocating /\ FreeOffs = {}
  /\ LET left == free.ack - (free.size - free.i)
         off == (free.off + free.size) % BlockCount
         size == WindowSize(left)
     IN IF left = 0
        THEN /\ free' = [free EXCEPT !.i = free.size, !.ack = 0]
             /\ call' = [call EXCEPT !.err = "NOSPC"]
             /\ file' = [file EXCEPT ![F].flags =
                  IF \E k \in DOMAIN todo : todo[k].op \in {"fwrite", "commit"} THEN @ \cup {"ERRED"} ELSE @]
             /\ todo' = << >>
        ELSE /\ free' = [off |-> off, size |-> size, i |-> 0, ack |-> left,
                         used |-> {lfs_alloc_lookahead(b, off) : b \in lfs_fs_rawtraverse} \cap 0 .. size - 1]
             /\ UNCHANGED <<call, file, todo>>
  /\ UNCHANGED <<device, want, bound>>

-----------------------------------------------------------------------------
(* lfs_ctz_extend and lfs_file_relocate, once they have a block *)

Into(b, contents) ==
  /\ disk' = [disk EXCEPT ![b] = << >>]
  /\ \/ Does([H EXCEPT !.block = b, !.off = Len(contents), !.buf = contents,
                       !.flags = (@ \cup {"WRITING"}) \ (IF Task.op = "relocate" THEN {"INLINE"} ELSE {})],
             Tail(todo))
     \/ b \in BadBlocks /\ Gets(LFS_BLOCK_NULL) /\ UNCHANGED file
  /\ UNCHANGED <<dir, synced, free, call, want, bound>>

Extends ==
  /\ Busy("extend") /\ Task.nblock # LFS_BLOCK_NULL
  /\ Into(Task.nblock, lfs_ctz_extend(disk, H.block, H.pos))

\* An inline file that grows too large is relocated by lfs_file_outline.
Relocates ==
  /\ Busy("relocate") /\ Task.nblock # LFS_BLOCK_NULL
  /\ Into(Task.nblock, SubSeq(H.buf, 1, H.off))

-----------------------------------------------------------------------------
(* lfs_file_flushedread *)

\* Where the cache was loaded from after reading n bytes at off of the block.
Window(w0, block, off0, n0) ==
  LET load[w \in {w0} \cup [block : {block}, off : 0 .. BlockSize, size : 0 .. CacheSize],
           off \in 0 .. BlockSize, n \in 0 .. BlockSize] ==
        LET ahead == w.block = block /\ off < w.off + w.size
            inside == ahead /\ off >= w.off
            k == IF inside THEN lfs_min(n, w.off + w.size - off)
                 ELSE IF ahead THEN lfs_min(n, w.off - off) ELSE n
        IN IF n = 0 THEN w
           ELSE IF inside \/ n >= BlockSize THEN load[w, off + k, n - k]
           ELSE load[[block |-> block, off |-> off, size |-> lfs_min(BlockSize - off, CacheSize)], off, n]
  IN load[w0, off0, n0]

\* Cells a wrong offset could reach are not programmed.
Cells(s, off, n) == [k \in 1 .. n |-> IF off + k <= Len(s) THEN s[off + k] ELSE -1]

ReadFrom ==
  IF Has("READING") /\ H.off # BlockSize THEN [block |-> H.block, off |-> H.off]
  ELSE IF Has("INLINE") THEN [block |-> LFS_BLOCK_INLINE, off |-> H.pos]
  ELSE lfs_ctz_find(disk, H.head, H.size, H.pos)

lfs_file_flushedread ==
  /\ Busy("fread")
  /\ LET at == ReadFrom
         n == lfs_min(Task.n, H.size - H.pos)
         diff == lfs_min(n, BlockSize - at.off)
     IN IF H.pos >= H.size \/ Task.n = 0
        THEN todo' = Tail(todo) /\ UNCHANGED <<file, call>>
        ELSE /\ Does([H EXCEPT !.block = at.block, !.off = at.off + diff, !.pos = @ + diff,
                               !.flags = @ \cup {"READING"},
                               !.win = IF Has("INLINE") THEN @ ELSE Window(@, at.block, at.off, diff)],
                     <<[Task EXCEPT !.n = @ - diff]>> \o Tail(todo))
             /\ call' = [call EXCEPT !.data = @ \o
                  Cells(IF Has("INLINE") THEN H.buf ELSE disk[at.block], at.off, diff)]
  /\ UNCHANGED <<device, free, want, bound>>

-----------------------------------------------------------------------------
(* lfs_file_flushedwrite *)

WriteTask(data) == [op |-> "fwrite", data |-> data]
TooLarge == Has("INLINE") /\ lfs_max(H.pos + Len(Task.data), H.size) > InlineMax
NeedsBlock == ~ Has("WRITING") \/ H.off = BlockSize
Writing == Busy("fwrite") /\ Task.data # << >>

\* The cache of a block with n bytes starts at the last multiple of its size.
NoWindow(n) == LET from == IF n = 0 THEN 0 ELSE CacheSize * ((n - 1) \div CacheSize)
               IN [block |-> LFS_BLOCK_NULL, off |-> from, size |-> n - from]

lfs_file_outline ==
  /\ Writing /\ TooLarge
  /\ Does([H EXCEPT !.off = H.pos], <<[op |-> "relocate", nblock |-> LFS_BLOCK_NULL]>> \o todo)
  /\ lfs_alloc_ack
  /\ UNCHANGED <<device, call, want, bound>>

WriteNeedsBlock ==
  /\ Writing /\ ~ TooLarge /\ NeedsBlock
  /\ IF Has("INLINE")
     THEN /\ Does([H EXCEPT !.block = LFS_BLOCK_INLINE, !.off = H.pos, !.flags = @ \cup {"WRITING"}], todo)
          /\ UNCHANGED free
     ELSE /\ Does(IF ~ Has("WRITING") /\ H.pos > 0
                  THEN [H EXCEPT !.block = lfs_ctz_find(disk, H.head, H.size, H.pos - 1).block,
                                 !.win.block = LFS_BLOCK_NULL]
                  ELSE H,
                  <<[op |-> "extend", nblock |-> LFS_BLOCK_NULL]>> \o todo)
          /\ lfs_alloc_ack
  /\ UNCHANGED <<device, call, want, bound>>

Relocate == [op |-> "relocate", nblock |-> LFS_BLOCK_NULL]
OnBadBlock == ~ Has("INLINE") /\ H.block \in BadBlocks

\* None of the bytes of the block is counted in pos yet.
StartsBlock(n) == n > 0 /\ lfs_ctz_index(n).index # lfs_ctz_index(n - 1).index
JustExtended == H.off = lfs_ctz_index(H.pos).off /\ StartsBlock(H.pos)

\* Programming fills the block's cache; a full block is on the device.
WriteProgs ==
  /\ Writing /\ ~ TooLarge /\ ~ NeedsBlock
  /\ LET diff == lfs_min(Len(Task.data), BlockSize - H.off)
         buf == Over(H.buf, H.off, SubSeq(Task.data, 1, diff))
         full == H.off + diff = BlockSize
     IN \/ /\ ~ (full /\ OnBadBlock)
           /\ Does([H EXCEPT !.buf = buf, !.pos = @ + diff, !.off = @ + diff],
                   <<WriteTask(SubSeq(Task.data, diff + 1, Len(Task.data)))>> \o Tail(todo))
           /\ disk' = IF full THEN [disk EXCEPT ![H.block] = buf] ELSE disk
           /\ lfs_alloc_ack
        \/ /\ OnBadBlock /\ (EdgeFailures \/ ~ JustExtended)
           /\ todo' = <<Relocate>> \o todo
           /\ UNCHANGED <<disk, file, free>>
  /\ UNCHANGED <<dir, synced, call, want, bound>>

WriteDone ==
  /\ Busy("fwrite") /\ Task.data = << >>
  /\ todo' = Tail(todo)
  /\ UNCHANGED <<device, free, file, call, want, bound>>

-----------------------------------------------------------------------------
(* lfs_file_flush.  pos is where the file is to be afterwards. *)

FlushTask(pos) == [op |-> "flush", pos |-> pos]

FlushReads ==
  /\ Busy("flush") /\ ~ Has("WRITING")
  /\ Does([H EXCEPT !.flags = @ \ {"READING"},
                    !.win.block = IF Has("READING") /\ ~ Has("INLINE") THEN LFS_BLOCK_NULL ELSE @],
          Tail(todo))
  /\ UNCHANGED <<device, free, call, want, bound>>

\* What follows in the old list is copied behind what was written.
Bug_rest_lost == FALSE
RestFollows == H.pos < H.size

FlushCopies ==
  /\ Busy("flush") /\ Has("WRITING") /\ ~ Has("INLINE") /\ RestFollows
  /\ LET at == lfs_ctz_find(disk, H.head, H.size, H.pos)
     IN todo' = <<WriteTask(Cells(disk[at.block], at.off, 1))>> \o todo
  /\ UNCHANGED <<device, free, file, call, want, bound>>

Flushed(size) ==
  [H EXCEPT !.head = H.block, !.size = size, !.pos = Task.pos,
            !.flags = (@ \ {"WRITING"}) \cup {"DIRTY"},
            !.win = IF Has("INLINE") THEN @ ELSE NoWindow(Len(H.buf))]

FlushEnds ==
  /\ Busy("flush") /\ Has("WRITING") /\ (Has("INLINE") \/ ~ RestFollows)
  /\ IF Has("INLINE")
     THEN Does(Flushed(lfs_max(H.pos, H.size)), Tail(todo)) /\ UNCHANGED disk
     ELSE IF OnBadBlock /\ H.off < BlockSize
     THEN todo' = <<Relocate>> \o todo /\ UNCHANGED <<disk, file>>
     ELSE Does(Flushed(H.pos), Tail(todo)) /\ disk' = [disk EXCEPT ![H.block] = H.buf]
  /\ UNCHANGED <<dir, synced, free, call, want, bound>>

-----------------------------------------------------------------------------
(* The rest of the tasks *)

EndTask == [op |-> "end"]
SeekTask(pos) == [op |-> "seek", pos |-> pos]
Unread == [op |-> "unread"]     \* rawwrite drops what was read
RawSize(h) == IF "WRITING" \in h.flags THEN lfs_max(h.pos, h.size) ELSE h.size

\* Within the part of the block that is cached nothing need be dropped.
InWindow(pos) ==
  LET new == lfs_ctz_index(pos)
  IN /\ ~ Has("WRITING") /\ new.index = lfs_ctz_index(H.pos).index
     /\ new.off \in H.win.off .. H.win.off + H.win.size - 1

lfs_file_rawseek ==
  /\ Busy("seek")
  /\ IF H.pos = Task.pos THEN todo' = Tail(todo) /\ UNCHANGED file
     ELSE IF InWindow(Task.pos)
     THEN Does([H EXCEPT !.pos = Task.pos, !.off = lfs_ctz_index(Task.pos).off], Tail(todo))
     ELSE /\ todo' = <<FlushTask(H.pos), [op |-> "setpos", pos |-> Task.pos]>> \o Tail(todo)
          /\ UNCHANGED file
  /\ UNCHANGED <<device, free, call, want, bound>>

SeekEnds ==
  /\ Busy("setpos") /\ Does([H EXCEPT !.pos = Task.pos], Tail(todo))
  /\ UNCHANGED <<device, free, call, want, bound>>

Unreads ==
  /\ Busy("unread")
  /\ todo' = (IF Has("READING") THEN <<FlushTask(H.pos)>> ELSE << >>) \o Tail(todo)
  /\ UNCHANGED <<device, free, file, call, want, bound>>

Bug_head_kept(at) == H.head
CutHead(at) == at.block

TruncateCuts ==
  /\ Busy("cut")
  /\ LET at == lfs_ctz_find(disk, H.head, H.size, Task.size)
     IN Does([H EXCEPT !.pos = Task.size, !.head = CutHead(at), !.size = Task.size, !.block = at.block,
                       !.off = at.off, !.flags = @ \cup {"DIRTY", "READING"}], Tail(todo))
  /\ UNCHANGED <<device, free, call, want, bound>>

Bug_as_it_was(h) == IF "INLINE" \in h.flags THEN Inline(h.buf) ELSE Ctz(h.head, h.size)
EntryOf(h) == IF "INLINE" \in h.flags THEN Inline(SubSeq(h.buf, 1, h.size)) ELSE Ctz(h.head, h.size)

SyncCommits ==
  /\ Busy("commit")
  /\ dir' = IF Has("DIRTY") THEN [dir EXCEPT ![F] = EntryOf(H)] ELSE dir
  /\ synced' = [synced EXCEPT ![F] = call.goal]
  /\ Does([H EXCEPT !.flags = @ \ {"DIRTY"}], Tail(todo))
  /\ UNCHANGED <<disk, free, call, want, bound>>

Ends ==
  /\ Busy("end")
  /\ Does(IF call.op = "close" THEN Closed ELSE H, << >>)
  /\ want' = [want EXCEPT ![F] = call.goal]
  /\ UNCHANGED <<device, free, call, bound>>

-----------------------------------------------------------------------------
(* The calls.  Each is a list of tasks; an error drops those that are left. *)

\* After an error from the device the clients close the file.
Idle == todo = << >> /\ bound.calls < MaxCalls /\ call.err # "NOSPC"
Counts == bound' = [bound EXCEPT !.calls = @ + 1]
Begins(op, f, goal, pos, tasks) ==
  /\ call' = [op |-> op, file |-> f, data |-> << >>, err |-> "ok", goal |-> goal, pos |-> pos]
  /\ todo' = Append(tasks, EndTask)
  /\ Counts
  /\ UNCHANGED <<device, free, want>>
Refused(err) ==
  /\ call' = [call EXCEPT !.err = err] /\ Counts
  /\ UNCHANGED <<device, free, todo, want>>

Opened(flags, entry, garbage) ==
  LET inline == entry.type = "inline" IN
  [flags |-> flags \cup (IF inline THEN {"INLINE"} ELSE {}), pos |-> 0, off |-> 0, block |-> LFS_BLOCK_NULL,
   head |-> IF inline THEN LFS_BLOCK_INLINE ELSE entry.head,
   size |-> IF inline THEN Len(entry.data) ELSE entry.size,
   buf |-> IF inline THEN entry.data ELSE << >>,
   \* The window of a file that is not inline is not initialised: it holds anything.
   win |-> [block |-> IF inline THEN LFS_BLOCK_INLINE ELSE LFS_BLOCK_NULL, off |-> 0,
            size |-> IF inline THEN CacheSize ELSE garbage]]

lfs_file_rawopencfg(f, flags) ==
  LET exists == dir[f].type # "none"
      mode == flags \cap {"RDONLY", "WRONLY", "APPEND"}
      cut == "TRUNC" \in flags
  IN
  /\ Idle /\ ~ IsOpen(f)
  /\ IF ~ exists /\ "CREAT" \notin flags THEN Refused("NOENT") /\ UNCHANGED file
     ELSE IF exists /\ "EXCL" \in flags THEN Refused("EXIST") /\ UNCHANGED file
     ELSE /\ \E garbage \in {0, BlockSize} :
               file' = [file EXCEPT ![f] =
                 IF ~ exists THEN Opened(mode, Inline(<< >>), garbage)
                 ELSE IF cut THEN Opened(mode \cup {"DIRTY"}, Inline(<< >>), garbage)
                 ELSE Opened(mode, dir[f], garbage)]
          /\ dir' = IF exists THEN dir ELSE [dir EXCEPT ![f] = Inline(<< >>)]
          /\ want' = [want EXCEPT ![f] = IF cut THEN << >> ELSE synced[f]]
          /\ call' = [call EXCEPT !.op = "open", !.err = "ok"] /\ Counts
          /\ UNCHANGED <<disk, synced, free, todo>>

lfs_file_rawread(f, n) ==
  /\ Idle /\ IsOpen(f) /\ "RDONLY" \in file[f].flags
  /\ Begins("read", f, want[f], file[f].pos + lfs_min(n, lfs_max(0, Len(want[f]) - file[f].pos)),
            (IF "WRITING" \in file[f].flags THEN <<FlushTask(file[f].pos)>> ELSE << >>)
              \o <<[op |-> "fread", n |-> n]>>)
  /\ UNCHANGED file

\* Its list still is LFS_BLOCK_INLINE when it is outlined, and reported so.
OutlinesDirty(h, end) ==
  "INLINE" \in h.flags /\ h.flags \cap {"DIRTY", "WRITING"} # {} /\ RawSize(h) > 0 /\ end > InlineMax

lfs_file_rawwrite(f, data) ==
  LET h == file[f]
      pos == IF "APPEND" \in h.flags THEN lfs_max(h.pos, h.size) ELSE h.pos
      gap == IF "WRITING" \in h.flags THEN 0 ELSE lfs_max(0, pos - h.size)
  IN
  /\ Idle /\ IsOpen(f) /\ "WRONLY" \in h.flags
  /\ EdgeOutlines \/ ~ OutlinesDirty(h, pos + Len(data))
  /\ IF pos + Len(data) > FileMax THEN Refused("FBIG") /\ file' = [file EXCEPT ![f].pos = pos]
     ELSE /\ Begins("write", f, Over(want[f], pos, data), pos + Len(data),
                    <<Unread>> \o Repeat(gap, WriteTask(<<0>>)) \o <<WriteTask(data)>>)
          /\ file' = [file EXCEPT ![f].pos = pos - gap]

AtEdge(h) == "READING" \in h.flags /\ "INLINE" \notin h.flags /\ h.off = BlockSize

Seek(f, whence, off) ==
  LET h == file[f]
      npos == off + [SET |-> 0, CUR |-> h.pos, END |-> RawSize(h)][whence]
  IN
  /\ Idle /\ IsOpen(f) /\ (EdgeSeeks \/ ~ AtEdge(h))
  /\ IF npos \notin 0 .. FileMax THEN Refused("INVAL") ELSE Begins("seek", f, want[f], npos, <<SeekTask(npos)>>)
  /\ UNCHANGED file

lfs_file_rawtruncate(f, size) ==
  LET h == file[f]
      old == RawSize(h)
  IN
  /\ Idle /\ IsOpen(f) /\ "WRONLY" \in h.flags
  /\ (EdgeSeeks \/ ~ AtEdge(h)) /\ (EdgeTruncates \/ size >= old \/ ~ StartsBlock(size))
  /\ EdgeOutlines \/ size <= old \/ ~ OutlinesDirty(h, size)
  /\ Begins("truncate", f, IF size < old THEN SubSeq(want[f], 1, size) ELSE Over(want[f], size, << >>), h.pos,
            (IF size < old THEN <<FlushTask(h.pos), [op |-> "cut", size |-> size]>>
             ELSE IF size > old
             THEN <<SeekTask(old), Unread>> \o Repeat(size - old, WriteTask(<<0>>)) ELSE << >>)
              \o <<SeekTask(h.pos)>>)
  /\ UNCHANGED file

SyncTasks(h) == IF "ERRED" \in h.flags THEN << >> ELSE <<FlushTask(h.pos), [op |-> "commit"]>>

lfs_file_rawsync(f) ==
  /\ Idle /\ IsOpen(f)
  /\ Begins("sync", f, want[f], file[f].pos, SyncTasks(file[f]))
  /\ UNCHANGED file

lfs_file_rawclose(f) ==
  /\ todo = << >> /\ IsOpen(f) /\ (call.err = "NOSPC" => f = F)
  /\ Begins("close", f, want[f], file[f].pos, SyncTasks(file[f]))
  /\ UNCHANGED file

\* Power is lost; lfs_rawmount starts the allocator anywhere.
PowerLoss ==
  /\ bound.crashes < MaxCrashes
  /\ bound' = [bound EXCEPT !.crashes = @ + 1]
  /\ file' = [f \in Files |-> Closed] /\ todo' = << >>
  /\ \E off \in Blocks : free' = Dropped(off)
  /\ call' = [call EXCEPT !.op = "mount", !.err = "ok"]
  /\ UNCHANGED <<device, want>>

-----------------------------------------------------------------------------
\* A file of n bytes in the blocks from base on, and what it holds.
Byte(n) == 3 + n
Contents0(n) == [k \in 1 .. n |-> Byte(k)]
Laid(n, base) ==
  LET put[k \in Nat] ==
        IF k = 0 THEN [b \in Blocks |-> << >>]
        ELSE LET b == base + lfs_ctz_index(k - 1).index
                 starts == k = 1 \/ StartsBlock(k - 1)
             IN [put[k - 1] EXCEPT ![b] =
                   Append(IF starts THEN lfs_ctz_extend(put[k - 1], b - 1, k - 1) ELSE @, Byte(k))]
  IN put[n]

Init ==
  /\ \E f \in Files, n \in InitSizes :
       LET base == Cardinality(MetaBlocks) IN
       /\ disk = Laid(n, base)
       /\ dir = [g \in Files |-> IF g # f THEN NoEntry ELSE IF n <= InlineMax THEN Inline(Contents0(n))
                                ELSE Ctz(base + lfs_ctz_index(n - 1).index, n)]
       /\ synced = [g \in Files |-> IF g = f THEN Contents0(n) ELSE << >>]
       /\ call = [op |-> "mount", file |-> f, data |-> << >>, err |-> "ok", goal |-> << >>, pos |-> 0]
  /\ file = [f \in Files |-> Closed] /\ todo = << >> /\ free = Dropped(0)
  /\ want = synced /\ spare = {} /\ bound = [calls |-> 0, crashes |-> 0]

Step ==
  \/ AllocFinds \/ AllocSlides \/ Extends \/ Relocates
  \/ lfs_file_flushedread \/ lfs_file_outline \/ WriteNeedsBlock \/ WriteProgs \/ WriteDone
  \/ FlushReads \/ FlushCopies \/ FlushEnds
  \/ lfs_file_rawseek \/ SeekEnds \/ Unreads \/ TruncateCuts \/ SyncCommits \/ Ends
  \/ PowerLoss
  \/ \E f \in Files :
       \/ \E flags \in Opens : lfs_file_rawopencfg(f, flags)
       \/ \E n \in Reads : lfs_file_rawread(f, n)
       \/ \E n \in Writes, v \in Values : lfs_file_rawwrite(f, Repeat(n, v))
       \/ \E s \in Seeks : Seek(f, s[1], s[2])
       \/ \E n \in Truncates : lfs_file_rawtruncate(f, n)
       \/ lfs_file_rawsync(f) \/ lfs_file_rawclose(f)

\* What the allocator must keep: the blocks of committed and of open files.
HandleBlocks(f) ==
  IF ~ IsOpen(f) \/ "INLINE" \in file[f].flags THEN {}
  ELSE (lfs_ctz_traverse(disk, file[f].head, file[f].size) \cup OpenBlocks(f)) \cap Blocks
InUse == MetaBlocks \cup UNION {EntryBlocks(dir[f]) \cup HandleBlocks(f) : f \in Files}
Handed == {todo[k].nblock : k \in {j \in DOMAIN todo : todo[j].op \in {"extend", "relocate"}}}

Next ==
  /\ Step
  /\ spare' = (IF free'.ack = BlockCount THEN Blocks ELSE spare) \ (InUse' \cup Handed')
Spec == Init /\ [][Next]_vars

-----------------------------------------------------------------------------
TypeOK ==
  /\ \A b \in Blocks : Len(disk[b]) <= BlockSize
  /\ \A f \in Files : dir[f].type \in {"none", "inline", "ctz"} /\ Len(want[f]) <= FileMax
  /\ free.off \in Blocks /\ free.size \in 0 .. Lookahead /\ free.i \in 0 .. free.size
  /\ free.ack \in 0 .. BlockCount

Contents(e) ==
  CASE e.type = "none" -> << >>
    [] e.type = "inline" -> e.data
    [] e.type = "ctz" -> [k \in 1 .. e.size |->
         LET at == lfs_ctz_find(disk, e.head, e.size, k - 1) IN Cells(disk[at.block], at.off, 1)[1]]

(* At every moment a loss of power would leave each file as it was last    *)
(* synced: no call overwrites a block of it, reuses one, or commits too    *)
(* early (lfs.c:3026-3232, 540-603).                                       *)
SyncedIntact == \A f \in Files : Contents(dir[f]) = synced[f]

(* A call does what it does to an array of bytes with a position: after    *)
(* any other calls a read returns what was written, the position and the   *)
(* size are right, gaps are zero (lfs.c:3242-3519).                        *)
ActsAsArray ==
  Busy("end") /\ call.op # "close" =>
    /\ H.pos = call.pos
    /\ RawSize(H) = Len(call.goal)
    /\ call.op = "read" => call.data = SubSeq(call.goal, call.pos - Len(call.data) + 1, call.pos)

\* A block that is handed out is in no committed file and in no open one,
\* however old the window is.
HandsOutFree == \A b \in Blocks : b \in Handed' /\ b \notin Handed => b \notin InUse
\* A call fails for want of space only when no block was free all the time
\* since the last ack.
NoSpaceIsTrue == call.err = "ok" /\ call'.err = "NOSPC" => spare = {}
(* What the allocator's steps are to be (lfs.c:528-603, 4243-4340).        *)
Allocates == HandsOutFree /\ NoSpaceIsTrue
=============================================================================
