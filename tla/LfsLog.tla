------------------------------- MODULE LfsLog -------------------------------
(***************************************************************************)
(* A metadata pair of littlefs (platform/lfs.c): two blocks, the newer of  *)
(* which is a log of commits.  A commit is appended; when there is no room *)
(* or the write goes wrong, all that is valid is written to the other      *)
(* block under the next revision, and when that block is worn or tired, to *)
(* a new block, which its parent must then be told.                        *)
(*                                                                         *)
(* A block is a sequence of program units, a commit a few of them; the     *)
(* last holds the CRC, which fits only when all are there as they were     *)
(* written.  Programming a unit is a step; power may be lost before it,    *)
(* after it, or in the middle, which leaves the unit torn.                 *)
(***************************************************************************)
EXTENDS Integers, Sequences, FiniteSets

CONSTANTS
  Blocks,        \* of which 0 and 1 are the superblock's
  Units,         \* program units of a block
  RevCount,      \* how many revisions there are before they repeat, a power of two
  BlockCycles,   \* cfg->block_cycles
  BadBlocks,     \* worn blocks
  ValueCount,    \* contents are numbered in the order they are written, modulo this
  AppendSizes, CompactSizes,  \* units a commit takes, and what is left after compaction
  InitRevs, TornRevs,         \* revisions there may be at first, and those a torn word may show
  MaxCommits, MaxCrashes, MaxAge,  \* bounds of a behaviour: of age, where to stop counting
  EdgeParent     \* whether the commit that tells the parent of a new block may fail

ASSUME LogAssumption ==
  /\ {0, 1} \subseteq Blocks /\ BadBlocks \subseteq Blocks /\ ValueCount \in Nat \ {0, 1}
  /\ {Units, BlockCycles, RevCount} \subseteq Nat \ {0}
  /\ InitRevs \cup TornRevs \subseteq 0 .. RevCount - 1 /\ {MaxCommits, MaxCrashes, MaxAge} \subseteq Nat
  /\ AppendSizes \cup CompactSizes \subseteq 1 .. Units

VARIABLES
  disk,     \* of each block: its units
  known,    \* the pair as the parent has it
  dir,      \* the mdir of the callers: the pair, and where its log ends
  call,     \* the commit under way, or Idle
  answer,   \* of the last commit
  age,      \* of each block: its erasures since a relocation was last tried
  bound     \* commits and losses of power so far

vars == <<disk, known, dir, call, answer, age, bound>>

-----------------------------------------------------------------------------
(* What is on a block *)

Revs == 0 .. RevCount - 1
Values == 0 .. ValueCount - 1
Nothing == -1   \* in place of a value: none, or garbage
Mixed == -2
Bit == {0, 1}

\* A unit starts with a word whose top bit tells a tag from none.  In a
\* block's first unit the word is the revision.
Erased == [kind |-> "erased", rev |-> RevCount - 1, bit |-> 1]
Torn(rev, bit) == [kind |-> "torn", rev |-> rev, bit |-> bit]
TornUnits(k) == {Torn(r, b) : r \in IF k = 1 THEN TornRevs ELSE {0}, b \in Bit}
ErasedBlock == [k \in 1 .. Units |-> Erased]
RevOf(units) == units[1].rev

\* Unit k of a commit: next is the top bit a tag behind it is to have, the
\* one that what is there now has not (lfs_dir_commitcrc).
Next_bit(block, end) == IF end < Units THEN 1 - block[end + 1].bit ELSE 0
Written(c, k) ==
  [kind |-> "commit", rev |-> c.rev, bit |-> IF k = 1 THEN c.bit ELSE 1,
   from |-> c.from, to |-> c.to, n |-> c.n, k |-> k, next |-> IF k = c.n THEN c.next ELSE 0]

\* Whether a whole commit starts at unit p: its CRC fits.
Whole(units, p) ==
  /\ units[p].kind = "commit" /\ units[p].k = 1 /\ p + units[p].n - 1 <= Units
  /\ \A k \in 1 .. units[p].n :
       LET u == units[p + k - 1]
       IN /\ u.kind = "commit"
          /\ <<u.rev, u.from, u.to, u.n, u.k>> = <<units[p].rev, units[p].from, units[p].to, units[p].n, k>>

\* Evaluates e once.
With(e, P(_)) == CHOOSE y \in {P(x) : x \in {e}} : TRUE

\* What a commit makes of the value before it: garbage if it was not written for it.
Applied(val, u) == IF u.from = val THEN u.to ELSE Mixed

\* The scan of lfs_dir_fetchmatch: where the valid commits end, what they
\* come to, and whether what follows looks as the last of them left it.
Scan(units) ==
  LET from[p \in 1 .. Units + 1, bit \in Bit, val \in Values \cup {Nothing, Mixed}] ==
        LET ends(erased) == [off |-> p - 1, bit |-> bit, val |-> val, erased |-> erased]
        IN IF p > Units THEN ends(FALSE)
           ELSE IF units[p].bit # bit THEN ends(TRUE)
           ELSE IF ~ Whole(units, p) THEN ends(FALSE)
           ELSE from[p + units[p].n, units[p + units[p].n - 1].next, Applied(val, units[p])]
  IN from[1, 1, Nothing]

-----------------------------------------------------------------------------
(* lfs_dir_fetch *)

Bug_plain_scmp(a, b) == a - b
lfs_scmp(a, b) == LET d == (a - b + RevCount) % RevCount IN IF d < RevCount \div 2 THEN d ELSE d - RevCount

\* The block with the newer revision first, the other if that one has nothing.
Order(d, pair) == IF lfs_scmp(RevOf(d[pair[2]]), RevOf(d[pair[1]])) > 0 THEN <<pair[2], pair[1]>> ELSE pair
Better(d, p) == IF Scan(d[p[1]]).off > 0 THEN p ELSE <<p[2], p[1]>>

Mdir(d, p, s) == [pair |-> p, rev |-> RevOf(d[p[1]]), off |-> s.off, bit |-> s.bit, erased |-> s.erased, val |-> s.val]
lfs_dir_fetch(d, pair) ==
  With(Order(d, pair), LAMBDA o : With(Better(d, o), LAMBDA p : With(Scan(d[p[1]]), LAMBDA s : Mdir(d, p, s))))

\* What a mount would find.
Content == lfs_dir_fetch(disk, known).val

-----------------------------------------------------------------------------
(* The device *)

Put(block, k, unit) == [block EXCEPT ![k] = unit]

\* A worn block loses what is programmed, in silence or not; a unit that was
\* not erased takes the new bytes or neither old nor new ones.  Bytes that
\* are there already stay, and none are called bad that were stored.
Progs(b, k, unit) ==
  LET worn == b \in BadBlocks
      torn == IF disk[b][k] = unit \/ (~ worn /\ disk[b][k] = Erased) THEN {}
              ELSE {Put(disk[b], k, t) : t \in TornUnits(k)}
      lost == IF worn THEN {disk[b]} ELSE {}
  IN [block : {Put(disk[b], k, unit)} \cup torn \cup lost, err : {FALSE}]
       \cup [block : IF worn THEN (torn \cup lost) \ {Put(disk[b], k, unit)} ELSE {}, err : {TRUE}]
Erases(b) ==
  {[block |-> ErasedBlock, err |-> FALSE]}
    \cup (IF b \in BadBlocks THEN {[block |-> disk[b], err |-> e] : e \in BOOLEAN} ELSE {})

-----------------------------------------------------------------------------
(* Committing.  c.mdir is ldir, the copy of the mdir that becomes it only   *)
(* when the commit succeeds.                                                *)

Another == (Content + 1) % ValueCount
MaxOf == [commits |-> MaxCommits, crashes |-> MaxCrashes]
Counts(what) == bound[what] < MaxOf[what] /\ bound' = [bound EXCEPT ![what] = @ + 1]

Idle == [op |-> "idle"]
Busy(op) == call.op = op

\* lfs_dir_commitattr and lfs_dir_commitcrc at the end of the log.
Appending(d, v, n) ==
  [op |-> "append", to |-> v, mdir |-> d, from |-> d.val, rev |-> d.rev, bit |-> d.bit, n |-> n, k |-> 1,
   next |-> 0, relocated |-> FALSE, new |-> FALSE, tired |-> FALSE, tried |-> {}]
\* lfs_dir_compact: the next revision, into the other block or, when it is
\* tired, into a new one.
Bug_even_modulus == BlockCycles + 1
Modulus == IF BlockCycles % 2 = 0 THEN BlockCycles + 1 ELSE BlockCycles + 2   \* (block_cycles+1)|1
lfs_dir_needsrelocation(rev) == ((rev + 1) % RevCount) % Modulus = 0
IsRoot(pair) == {pair[1], pair[2]} = {0, 1}
Bug_same_rev(rev) == rev
Bug_wider_rev(rev) == rev + 1
NextRev(rev) == (rev + 1) % RevCount
Compacting(d, v, n) ==
  LET tired == lfs_dir_needsrelocation(d.rev)
  IN [op |-> IF tired /\ ~ IsRoot(d.pair) THEN "relocate" ELSE "erase", to |-> v,
      mdir |-> [d EXCEPT !.rev = NextRev(@)], from |-> Nothing, rev |-> NextRev(d.rev), bit |-> 1, n |-> n, k |-> 1,
      next |-> 0, relocated |-> FALSE, new |-> FALSE, tired |-> tired, tried |-> {}]
Compacts(d, v) == \E n \in CompactSizes : call' = Compacting(d, v, n)

\* A commit, with the mdir of an earlier call or of one fetched for it.
lfs_dir_commit ==
  /\ call = Idle
  /\ Counts("commits")
  /\ IF dir.erased THEN \E n \in AppendSizes : call' = Appending(dir, Another, n) ELSE Compacts(dir, Another)
  /\ answer' = "none"
  /\ UNCHANGED <<disk, known, dir, age>>

Fetches ==
  /\ call = Idle /\ dir # lfs_dir_fetch(disk, known)
  /\ dir' = lfs_dir_fetch(disk, known)
  /\ UNCHANGED <<disk, known, call, answer, age, bound>>

\* Unit k goes to this place.
Target == IF Busy("append") THEN [b |-> call.mdir.pair[1], off |-> call.mdir.off]
                            ELSE [b |-> call.mdir.pair[2], off |-> 0]
Ready(c) == IF c.k = c.n THEN [c EXCEPT !.next = Next_bit(disk[Target.b], Target.off + c.n)] ELSE c

Programs ==
  /\ Busy("append") \/ Busy("compact")
  /\ call.k <= call.n /\ Target.off + call.k <= Units
  /\ \E o \in Progs(Target.b, Target.off + call.k, Written(Ready(call), call.k)) :
       /\ disk' = [disk EXCEPT ![Target.b] = o.block]
       /\ IF ~ o.err THEN call' = [Ready(call) EXCEPT !.k = @ + 1]
          ELSE IF Busy("append") THEN Compacts(call.mdir, call.to)
          ELSE call' = [call EXCEPT !.op = "relocate", !.relocated = TRUE]
  /\ UNCHANGED <<known, dir, answer, age, bound>>

\* No room is noticed at some tag; what is before it may have been programmed.
RunsOut ==
  /\ Busy("append") /\ call.mdir.off + call.n > Units
  /\ Compacts(call.mdir, call.to)
  /\ UNCHANGED <<disk, known, dir, answer, age, bound>>

\* The checksums, of what is read back against what was written.
Bug_any_crc(c, units, off) == Whole(units, off + 1)
Verified(c, units, off) == \A k \in 1 .. c.n : units[off + k] = Written(c, k)

\* lfs_dir_relocatingcommit succeeds: the mdir is brought up to date.
Done(d) == dir' = d /\ call' = Idle /\ answer' = "ok"

ChecksAppend ==
  /\ Busy("append") /\ call.k > call.n
  /\ IF Verified(call, disk[Target.b], Target.off)
     THEN Done([call.mdir EXCEPT !.off = @ + call.n, !.bit = call.next, !.val = call.to])
     ELSE Compacts(call.mdir, call.to) /\ UNCHANGED <<dir, answer>>
  /\ UNCHANGED <<disk, known, age, bound>>

Compacted(c) ==
  [c.mdir EXCEPT !.pair = <<@[2], @[1]>>, !.off = c.n, !.bit = c.next, !.val = c.to]
ChecksCompact ==
  /\ Busy("compact") /\ call.k > call.n
  /\ IF ~ Verified(call, disk[Target.b], 0)
     THEN call' = [call EXCEPT !.op = "relocate", !.relocated = TRUE] /\ UNCHANGED <<dir, answer>>
     ELSE IF call.relocated
     THEN call' = [call EXCEPT !.op = "parent", !.mdir = Compacted(call)] /\ UNCHANGED <<dir, answer>>
     ELSE Done(Compacted(call))
  /\ UNCHANGED <<disk, known, age, bound>>

lfs_bd_erase ==
  /\ Busy("erase")
  /\ \E o \in Erases(Target.b) :
       /\ disk' = [disk EXCEPT ![Target.b] = o.block]
       /\ call' = IF o.err THEN [call EXCEPT !.op = "relocate", !.relocated = TRUE]
                  ELSE [call EXCEPT !.op = "compact", !.k = 1]
  /\ age' = [age EXCEPT ![Target.b] = IF @ < MaxAge THEN @ + 1 ELSE @]
  /\ UNCHANGED <<known, dir, answer, bound>>

\* A new block for the other half, of those nothing on disk refers to; the
\* allocator does not come back to one it has offered.
Bug_offered_again == Blocks \ ({known[1], known[2], call.mdir.pair[1], call.mdir.pair[2]} \cup {0, 1})
Free == Blocks \ ({known[1], known[2], call.mdir.pair[1], call.mdir.pair[2]} \cup call.tried \cup {0, 1})
Frozen == IsRoot(call.mdir.pair)
Fails == call' = Idle /\ answer' = "error"

Relocates ==
  /\ Busy("relocate")
  /\ \/ \E b \in IF Frozen THEN {} ELSE Free :
          /\ call' = [call EXCEPT !.op = "erase", !.k = 1, !.relocated = TRUE, !.tired = FALSE,
                                  !.mdir.pair = <<@[1], b>>, !.tried = @ \cup {b}]
          /\ age' = [age EXCEPT ![b] = 0]
          /\ UNCHANGED answer
     \/ /\ call.tired /\ ~ Frozen          \* there is none: go on with the tired one
        /\ call' = [call EXCEPT !.op = "erase", !.k = 1, !.relocated = TRUE, !.tired = FALSE]
        /\ age' = [age EXCEPT ![call.mdir.pair[2]] = 0]
        /\ UNCHANGED answer
     \/ (Frozen \/ ~ call.tired) /\ Fails /\ UNCHANGED age
  /\ UNCHANGED <<disk, known, dir, bound>>

\* The parent's commit, or for a new directory that of its first entry.  When
\* it fails, the mdirs of open files have moved already (fixmlist).
TellsParent ==
  /\ Busy("parent")
  /\ \E fails \in {FALSE, EdgeParent} :
       IF fails THEN Fails /\ dir' = (IF call.new THEN dir ELSE call.mdir) /\ UNCHANGED known
                ELSE Done(call.mdir) /\ known' = call.mdir.pair
  /\ UNCHANGED <<disk, age, bound>>

\* Another directory in place of this one, on blocks that may hold anything,
\* even an older log (lfs_dir_alloc).
AlignUp(rev) == LET a == (rev + Modulus - 1) % RevCount IN a - (a % Modulus)
NewRev(b) == AlignUp(RevOf(disk[b]))
lfs_dir_alloc ==
  /\ call = Idle /\ ~ IsRoot(known) /\ Counts("commits")
  /\ \E p \in Blocks \ {0, 1, known[1], known[2]} : \E q \in Blocks \ {0, 1, p, known[1], known[2]} :
     \E n \in CompactSizes :
       LET d == [pair |-> <<p, q>>, rev |-> NewRev(p), off |-> 0, bit |-> 1, erased |-> FALSE, val |-> Nothing]
       IN /\ call' = [Compacting(d, Another, n) EXCEPT !.relocated = TRUE, !.new = TRUE, !.tried = {p, q}]
          /\ age' = [age EXCEPT ![p] = 0, ![q] = 0]
  /\ answer' = "none"
  /\ UNCHANGED <<disk, known, dir>>

\* Power is lost, and the mdir is fetched after the next mount.
Broken ==
  IF Busy("append") \/ Busy("compact")
  THEN {disk[Target.b]} \cup
       (IF /\ call.k <= call.n /\ Target.off + call.k <= Units
           /\ disk[Target.b][Target.off + call.k] # Written(Ready(call), call.k)
        THEN {Put(disk[Target.b], Target.off + call.k, t) : t \in TornUnits(Target.off + call.k)} ELSE {})
  ELSE IF Busy("erase")
  THEN UNION {{[k \in 1 .. Units |-> IF k < j THEN Erased ELSE IF k = j THEN t ELSE disk[Target.b][k]] :
                 t \in TornUnits(j)} : j \in 1 .. Units}
  ELSE {disk[Target.b]}
PowerLost ==
  /\ call # Idle /\ Counts("crashes")
  /\ \E block \in Broken : disk' = [disk EXCEPT ![Target.b] = block]
  /\ UNCHANGED <<known, age>>
  /\ dir' = lfs_dir_fetch(disk', known)
  /\ call' = Idle /\ answer' = "none"

\* A log of one commit, or of an older one in the blocks that are free.
Log(rev, v) == Put(ErasedBlock, 1, [kind |-> "commit", rev |-> rev, bit |-> 1, from |-> Nothing, to |-> v,
                                    n |-> 1, k |-> 1, next |-> 0])
Init ==
  /\ known \in {<<0, 1>>, <<2, 3>>}
  /\ \E r, s \in InitRevs :
       disk = [b \in Blocks |-> IF b = known[1] THEN Log(r, 0) ELSE IF b = known[2] THEN ErasedBlock ELSE Log(s, 1)]
  /\ dir = lfs_dir_fetch(disk, known) /\ call = Idle /\ answer = "none"
  /\ age = [b \in Blocks |-> 0] /\ bound = [commits |-> 0, crashes |-> 0]

Commits == Programs \/ RunsOut \/ ChecksAppend \/ ChecksCompact \/ lfs_bd_erase \/ Relocates \/ TellsParent
Next == lfs_dir_commit \/ Fetches \/ Commits \/ lfs_dir_alloc \/ PowerLost
Spec == Init /\ [][Next]_vars

-----------------------------------------------------------------------------
(* Properties *)

\* Units, pairs and the end of the log are what the code's types say.
Unit == [kind : {"erased"}, rev : Revs, bit : Bit] \cup [kind : {"torn"}, rev : Revs, bit : Bit]
          \cup [kind : {"commit"}, rev : Revs, bit : Bit, from : Values \cup {Nothing}, to : Values,
                n : 1 .. Units, k : 1 .. Units, next : Bit]
MdirType == [pair : Blocks \X Blocks, rev : Revs, off : 0 .. Units, bit : Bit, erased : BOOLEAN,
             val : Values \cup {Nothing}]
TypeOK ==
  /\ disk \in [Blocks -> [1 .. Units -> Unit]]
  /\ known \in Blocks \X Blocks /\ known[1] # known[2]
  /\ dir \in MdirType /\ answer \in {"none", "ok", "error"}
  /\ age \in [Blocks -> 0 .. MaxAge] /\ bound \in [{"commits", "crashes"} -> Nat]
  /\ call # Idle => call.mdir \in MdirType /\ call.n \in 1 .. Units /\ call.k \in 1 .. Units + 1

\* Between calls the mdir in memory says of the pair what a fetch would: which
\* block is newer, where the log ends, which bit comes next and what it holds.
\* It may only take space for erased that a failed commit has touched.
HandleIsCurrent ==
  call = Idle => [dir EXCEPT !.erased = FALSE] = [lfs_dir_fetch(disk, known) EXCEPT !.erased = FALSE]

\* lfs_dir_needsrelocation levels the wear of both blocks of a pair: neither is
\* erased more often than the modulus says before a relocation is tried.
BothBlocksMove == \A b \in Blocks \ {0, 1} : age[b] <= Modulus + bound.crashes

\* lfs.h of lfs_file_sync: "Any pending writes are written out to storage."  What
\* was committed without an error is what a mount finds.
SyncedIsStored == call = Idle /\ answer = "ok" => Content = dir.val
=============================================================================
