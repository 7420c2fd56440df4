---------------------------- MODULE LfsDirRead ----------------------------
(***************************************************************************)
(* Reading a littlefs directory while it changes (platform/lfs.c): a       *)
(* directory is a chain of metadata pairs, lfs_dir_t says where its reader *)
(* is, and every commit corrects the readers of the pair it changes (the   *)
(* end of lfs_dir_relocatingcommit).  A call is atomic, since it neither   *)
(* yields nor calls back; what it commits is a sequence of commits.        *)
(***************************************************************************)
EXTENDS Integers, Sequences, FiniteSets, SequencesExt

CONSTANTS
  Names,       \* in the order lfs_dir_find_match compares them
  Pairs,       \* of blocks
  MaxChanges,  \* bound of the calls that change the directory
  EdgeBefore,  \* pairs before the reader's change as well, and its first entries before "." is read
  EdgeReuse    \* the blocks of a pair that was dropped under a reader are used again

\* To be assumed by the module that gives the constants their values.
ReadAssumption == Names \subseteq Nat \ {0} /\ MaxChanges \in Nat /\ {EdgeBefore, EdgeReuse} \subseteq BOOLEAN

VARIABLES
  root,     \* is it the root, whose first entry is the superblock's?
  chain,    \* the directory's pairs with their entries
  reader,   \* lfs_dir_t: a copy of its pair's count and tail, the id and the position
  last,     \* what the last call on the reader gave
  seen, stable,   \* names read, and those there all along, since the last rewind
  told,     \* what lfs_dir_tell gave, if nothing changed since
  changes

vars == <<root, chain, reader, last, seen, stable, told, changes>>

None == "none"
LFS_BLOCK_NULL == "null"
Superblock == 0
\* What a call on the reader gives, but for names; lfs.h has the errors' numbers.
Nothing == -1
Dots == -2
End == 0
LFS_ERR_INVAL == -22
LFS_ERR_CORRUPT == -84
NotTold == [pos |-> -1]

-----------------------------------------------------------------------------
(* Pairs and readers.  c is a chain, r a reader. *)

Entries(c) == FlattenSeq([i \in 1 .. Len(c) |-> c[i].ents])
Listed(c) == {n \in Names : \E i \in 1 .. Len(c) : n \in ToSet(c[i].ents)}
Linked(c, p) == \E i \in 1 .. Len(c) : c[i].pair = p
IndexOf(c, p) == CHOOSE i \in 1 .. Len(c) : c[i].pair = p
lfs_dir_fetch(c, p) ==
  LET i == IndexOf(c, p)
  IN [pair |-> p, count |-> Len(c[i].ents), tail |-> IF i < Len(c) THEN c[i + 1].pair ELSE None]

\* The next entry is on a later pair.
Bug_past_count(r) == r.id > r.m.count
AtItsEnd(r) == r.id >= r.m.count
Onto(c, r) ==
  LET step(q, i) == IF AtItsEnd(q) /\ q.m.tail # None
                    THEN [q EXCEPT !.id = @ - q.m.count, !.m = lfs_dir_fetch(c, q.m.tail)] ELSE q
  IN FoldLeft(step, r, [i \in 1 .. Len(c) |-> i])

\* What an entry created or deleted in the reader's pair does to it.
Moved(r, by) == [r EXCEPT !.id = @ + by, !.pos = @ + by]
Bug_pos_kept(r, a) ==
  IF a.type = "delete" /\ r.id = a.id THEN [r EXCEPT !.m.pair = LFS_BLOCK_NULL]
  ELSE IF a.type = "delete" /\ r.id > a.id THEN [r EXCEPT !.id = @ - 1]
  ELSE IF a.type = "create" /\ r.id >= a.id THEN [r EXCEPT !.id = @ + 1] ELSE r
Fixed(r, a) ==
  IF a.type = "delete" /\ r.id = a.id THEN [r EXCEPT !.m.pair = LFS_BLOCK_NULL]
  ELSE IF a.type = "delete" /\ r.id > a.id THEN Moved(r, -1)
  ELSE IF a.type = "create" /\ r.id >= a.id THEN Moved(r, 1) ELSE r

\* fixmlist: a commit of attrs to pair p, which is now the mdir m.
Bug_old_mdir(c, r, p, m, attrs) == IF r.m.pair # p THEN r ELSE Onto(c, FoldLeft(Fixed, r, attrs))
fixmlist(c, r, p, m, attrs) ==
  IF r.m.pair # p THEN r ELSE Onto(c, FoldLeft(Fixed, [r EXCEPT !.m = m], attrs))

-----------------------------------------------------------------------------
(* Commits.  s is a chain and the reader. *)

Create(id, n) == [type |-> "create", id |-> id, name |-> n]
Delete(id) == [type |-> "delete", id |-> id]
With(ents, a) == IF a.type = "create" THEN InsertAt(ents, a.id + 1, a.name) ELSE RemoveAt(ents, a.id + 1)

Unlinked(s) == {p \in Pairs : ~ Linked(s.chain, p) /\ (EdgeReuse \/ p # s.reader.m.pair)}

\* The last entry but the head's is gone: the pair before takes over the tail.
Drops(s, i, attrs) ==
  LET p == s.chain[i].pair
      m == [lfs_dir_fetch(s.chain, p) EXCEPT !.count = 0]
      r == fixmlist(s.chain, s.reader, p, m, attrs)
      c == RemoveAt(s.chain, i)
  IN [chain |-> c, reader |-> fixmlist(c, r, c[i - 1].pair, lfs_dir_fetch(c, c[i - 1].pair), <<>>)]

\* Everything it may lead to: a split allocates a pair.
lfs_dir_commit(s, p, attrs) ==
  LET i == IndexOf(s.chain, p)
      ents == FoldLeft(With, s.chain[i].ents, attrs)
      becomes(c) == [chain |-> c, reader |-> fixmlist(c, s.reader, p, lfs_dir_fetch(c, p), attrs)]
      split(k, q) == [SubSeq(s.chain, 1, i) EXCEPT ![i].ents = SubSeq(ents, 1, k)]
                       \o <<[pair |-> q, ents |-> SubSeq(ents, k + 1, Len(ents))]>>
                       \o SubSeq(s.chain, i + 1, Len(s.chain))
  IN IF ents = <<>> /\ i > 1 THEN {Drops(s, i, attrs)}
     ELSE {becomes([s.chain EXCEPT ![i].ents = ents])}
          \cup {becomes(split(x[1], x[2])) : x \in (1 .. Len(ents) - 1) \X Unlinked(s)}

-----------------------------------------------------------------------------
(* Calls that change the directory *)

\* lfs_dir_find: the pair and id of a name, or where it belongs.
Holds(e, n) == n \in ToSet(e.ents)
Place(c, n) ==
  LET stops == {i \in 1 .. Len(c) : \E k \in 1 .. Len(c[i].ents) : c[i].ents[k] >= n}
      i == IF stops = {} THEN Len(c) ELSE CHOOSE j \in stops : \A k \in stops : j <= k
  IN [pair |-> c[i].pair, id |-> Cardinality({k \in 1 .. Len(c[i].ents) : c[i].ents[k] < n}), found |-> Holds(c[i], n)]

Now == [chain |-> chain, reader |-> reader]
Undisturbed(places) ==
  \/ EdgeBefore \/ reader.m.pair = LFS_BLOCK_NULL
  \/ \A f \in places :
       /\ Linked(chain, reader.m.pair) /\ IndexOf(chain, f.pair) >= IndexOf(chain, reader.m.pair)
       /\ reader.pos < 2 => f.id > 0
Changes(outcomes, touched) ==
  /\ changes < MaxChanges /\ changes' = changes + 1
  /\ \E s \in outcomes : chain' = s.chain /\ reader' = s.reader
  /\ stable' = stable \ touched /\ seen' = seen \ touched /\ told' = NotTold /\ last' = Nothing
  /\ UNCHANGED root

Creates(n) ==
  LET f == Place(chain, n)
  IN ~ f.found /\ Undisturbed({f}) /\ Changes(lfs_dir_commit(Now, f.pair, <<Create(f.id, n)>>), {n})

lfs_rawremove(n) ==
  LET f == Place(chain, n)
  IN f.found /\ Undisturbed({f}) /\ Changes(lfs_dir_commit(Now, f.pair, <<Delete(f.id)>>), {n})

\* Within the directory.  Between pairs the old entry goes with a second commit.
IfAttr(condition, a) == IF condition THEN <<a>> ELSE <<>>
lfs_rawrename(n, new) ==
  LET old == Place(chain, n)
      prev == Place(chain, new)
      same == old.pair = prev.pair
      oldid == IF same /\ ~ prev.found /\ prev.id <= old.id THEN old.id + 1 ELSE old.id
      first == IfAttr(prev.found, Delete(prev.id)) \o <<Create(prev.id, new)>> \o IfAttr(same, Delete(oldid))
      once == lfs_dir_commit(Now, prev.pair, first)
  IN /\ n # new /\ old.found /\ Undisturbed({old, prev})
     /\ Changes(IF same THEN once ELSE UNION {lfs_dir_commit(s, old.pair, <<Delete(old.id)>>) : s \in once}, {n, new})

-----------------------------------------------------------------------------
(* Calls on the reader *)

Rewound == [m |-> lfs_dir_fetch(chain, chain[1].pair), id |-> 0, pos |-> 0]
AtSuperblock(r) == root /\ r.m.pair = chain[1].pair /\ r.id = 0

\* What lfs_dir_rawread comes to: the end, a read that fails, or an entry.
Found(r) == LET f == Onto(chain, r) IN IF AtSuperblock(f) THEN Onto(chain, [f EXCEPT !.id = 1]) ELSE f
At(r) ==
  LET f == Found(r)
  IN IF r.pos < 2 THEN Dots ELSE IF f.id = f.m.count THEN End
     ELSE IF f.m.pair = LFS_BLOCK_NULL THEN LFS_ERR_CORRUPT ELSE chain[IndexOf(chain, f.m.pair)].ents[f.id + 1]

lfs_dir_rawread ==
  /\ last' = At(reader)
  /\ reader' = IF At(reader) = Dots THEN [reader EXCEPT !.pos = @ + 1]
               ELSE IF At(reader) \in {End, LFS_ERR_CORRUPT} THEN Found(reader) ELSE Moved(Found(reader), 1)
  /\ seen' = seen \cup ({At(reader)} \cap Names)
  /\ UNCHANGED <<root, chain, stable, told, changes>>

lfs_dir_rawrewind ==
  /\ reader' = Rewound /\ seen' = {} /\ stable' = Listed(chain) /\ last' = Nothing
  /\ UNCHANGED <<root, chain, told, changes>>

\* The runs that let the position go astray do not seek.
lfs_dir_rawtell ==
  /\ ~ EdgeBefore /\ reader.m.pair # LFS_BLOCK_NULL
  /\ told' = [pos |-> reader.pos, at |-> At(reader), seen |-> seen, stable |-> stable] /\ last' = Nothing
  /\ UNCHANGED <<root, chain, reader, seen, stable, changes>>

\* From the head, off entries on.
Bug_superblock_counted(r, rest) == r
AfterSuperblock(r, rest) == IF rest > 0 /\ root THEN [r EXCEPT !.id = 1] ELSE r
Walked(off) ==
  LET dots == IF off < 2 THEN off ELSE 2
      start == AfterSuperblock([Rewound EXCEPT !.pos = dots], off - dots)
      step(w, i) ==
        LET diff == IF w.r.m.count - w.r.id < w.rest THEN w.r.m.count - w.r.id ELSE w.rest
            on == Moved(w.r, diff)
        IN IF w.rest = 0 \/ w.err # Nothing THEN w
           ELSE IF on.id # on.m.count THEN [w EXCEPT !.r = on, !.rest = @ - diff]
           ELSE IF on.m.tail = None THEN [w EXCEPT !.r = on, !.err = LFS_ERR_INVAL]
           ELSE [w EXCEPT !.r = [on EXCEPT !.m = lfs_dir_fetch(chain, on.m.tail), !.id = 0], !.rest = @ - diff]
  IN FoldLeft(step, [r |-> start, rest |-> off - dots, err |-> Nothing], [i \in 1 .. Len(chain) |-> i])

lfs_dir_rawseek ==
  /\ told # NotTold
  /\ LET w == Walked(told.pos)
     IN reader' = w.r /\ last' = w.err /\ seen' = told.seen /\ stable' = told.stable
  /\ UNCHANGED <<root, chain, told, changes>>

Init ==
  /\ root \in BOOLEAN
  /\ \E p \in Pairs : chain = <<[pair |-> p, ents |-> IF root THEN <<Superblock>> ELSE <<>>]>>
  /\ reader = Rewound
  /\ last = Nothing /\ seen = {} /\ stable = {} /\ told = NotTold /\ changes = 0

Next ==
  \/ \E n \in Names : Creates(n) \/ lfs_rawremove(n) \/ \E new \in Names : lfs_rawrename(n, new)
  \/ lfs_dir_rawread \/ lfs_dir_rawrewind \/ lfs_dir_rawtell \/ lfs_dir_rawseek

Spec == Init /\ [][Next]_vars

-----------------------------------------------------------------------------
(* Properties *)

Live == reader.m.pair # LFS_BLOCK_NULL

\* How many entries are before the reader.
Current == Linked(chain, reader.m.pair) /\ reader.m = lfs_dir_fetch(chain, reader.m.pair)
Position ==
  IF ~ Current THEN Len(Entries(chain))
  ELSE Len(Entries(SubSeq(chain, 1, IndexOf(chain, reader.m.pair) - 1))) + reader.id

\* The directory is sorted, only its head may be empty, and the reader's copy of
\* its pair is what the pair is, or that of a pair that was dropped.
TypeOK ==
  /\ \A i, j \in 1 .. Len(chain) : chain[i].pair = chain[j].pair => i = j
  /\ \A i \in 2 .. Len(chain) : chain[i].ents # <<>>
  /\ \A i, j \in 1 .. Len(Entries(chain)) : i < j => Entries(chain)[i] < Entries(chain)[j]
  /\ reader.id \in 0 .. reader.m.count \/ ~ Live
  /\ ~ Live \/ Current \/ (~ Linked(chain, reader.m.pair) /\ reader.m.count = 0 /\ reader.m.tail = None)

\* An entry that stays while the directory is read has been read exactly if it is
\* before the reader: whatever is created, removed, renamed, split or dropped
\* around it, it is read once.
ReadsOnce ==
  Live => \A n \in stable : n \in seen <=> \E k \in 1 .. Position : Entries(chain)[k] = n

\* The position lfs_dir_tell gives is the entry's place in the directory.
Before == IF root /\ Position > 0 THEN Position - 1 ELSE Position
TellIsPlace == Live /\ reader.pos >= 2 => reader.pos = 2 + Before

\* lfs_dir_seek to what lfs_dir_tell gave finds the same entry again, if the
\* directory is as it was; of a step.  The end is another matter.
Finds == lfs_dir_rawseek /\ told.at # End => last' = Nothing /\ At(reader)' = told.at

\* lfs_dir_seek takes what lfs_dir_tell gave (lfs.h:640).
SeekTaken == last # LFS_ERR_INVAL

\* lfs_dir_read gives an entry, or the end (lfs.h:634): nothing here is corrupt.
ReadsSucceed == last # LFS_ERR_CORRUPT
=============================================================================
