------------------------------ MODULE LfsTree ------------------------------
(***************************************************************************)
(* Directories of littlefs (platform/lfs.c).  A directory is a chain of    *)
(* metadata pairs, and all pairs are threaded on one list from the         *)
(* superblock's; the two structures change in separate commits, and a call *)
(* may take several.  A commit is atomic (LfsLog); power may be lost       *)
(* between any two.                                                        *)
(*                                                                         *)
(* A block holds its revision and the state of its pair after its last     *)
(* commit.  An mdir is the copy of that state in memory: it stays as it    *)
(* was when others commit to the pair, unless it is on lfs->mlist.         *)
(***************************************************************************)
EXTENDS Integers, Sequences, FiniteSets, FiniteSetsExt, TLC

CONSTANTS
  Blocks,          \* 0 and 1 are the superblock's
  Names,           \* numbers, in the order littlefs sorts them
  PairMax,         \* entries that compacting leaves in a pair
  InitTrees,       \* directory trees to start from, as they are laid out
  Calls,           \* what the clients may call
  MaxCalls, MaxRelocations, MaxCrashes,  \* bounds of a behaviour
  MaxDepth,        \* levels of directories below the root
  EdgeRepairs,     \* whether blocks wear out between a power loss and the end of its repair
  EdgeMoves,       \* whether clients move the only entry of a pair elsewhere
  EdgeNoSpace      \* whether a commit may fail for want of a block

ASSUME TreeAssumption ==
  /\ Names \subseteq Nat \ {0} /\ {0, 1} \subseteq Blocks /\ Blocks \subseteq Nat
  /\ PairMax \in Nat \ {0} /\ MaxCalls \in Nat /\ MaxRelocations \in Nat /\ MaxCrashes \in Nat

VARIABLES
  disk,     \* of each block: revision, entries, tail, whether it is split, global state
  gstate,   \* lfs->gstate: a move under way, and how many orphans there may be
  gdisk,    \* lfs->gdisk: of that, what is on disk
  gdelta,   \* lfs->gdelta: what was stolen from pairs that are dropped
  mdirs,    \* the mdirs of the call under way
  mlist,    \* which of them are on lfs->mlist
  handed,   \* blocks handed out since the last lfs_alloc_ack
  todo,     \* what remains of the call
  call,     \* the call under way, or the last, and its outcome
  bound,    \* calls, relocations and losses of power so far
  seen      \* what disk amounts to: the global state, and every entry of the tree

ram == <<gstate, gdisk, gdelta, mdirs, mlist, handed>>
store == <<disk, gstate, gdisk, gdelta, mdirs, mlist, handed, todo, call, bound>>
vars == <<store, seen>>

-----------------------------------------------------------------------------
(* Pairs, and what a pair holds *)

NullPair == << >>
Root == <<0, 1>>
lfs_pair_cmp(p, q) == {p[i] : i \in DOMAIN p} \cap {q[i] : i \in DOMAIN q} # {}
lfs_pair_sync(p, q) == {p[1], p[2]} = {q[1], q[2]}

\* Entries, by name.  An id is the place of a name among them; the root's
\* first is the superblock.
File(what) == [type |-> "reg", what |-> what]
Dir(pair) == [type |-> "dir", pair |-> pair]
SUPERBLOCK == 0
NoEntries == [n \in {} |-> File("")]
IdOf(ents, name) == Cardinality({n \in DOMAIN ents : n < name})
NameOf(ents, id) == CHOOSE n \in DOMAIN ents : IdOf(ents, n) = id
Put(ents, name, entry) == [n \in DOMAIN ents \cup {name} |-> IF n = name THEN entry ELSE ents[n]]
Del(ents, name) == [n \in DOMAIN ents \ {name} |-> ents[n]]

Blank == [rev |-> 0, ents |-> NoEntries, tail |-> NullPair, split |-> FALSE, delta |-> {}]
Stored(m) == [rev |-> m.rev, ents |-> m.ents, tail |-> m.tail, split |-> m.split, delta |-> m.delta]

\* Evaluates e once.
With(e, P(_)) == CHOOSE y \in {P(x) : x \in {e}} : TRUE

\* The newer of the two blocks is the pair's first.
lfs_dir_fetch(pair) ==
  With(pair, LAMBDA q :
    LET p == IF disk[q[1]].rev >= disk[q[2]].rev THEN q ELSE <<q[2], q[1]>>
        b == disk[p[1]]
    IN [pair |-> p, rev |-> b.rev, ents |-> b.ents, tail |-> b.tail, split |-> b.split,
        delta |-> b.delta, erased |-> TRUE])

\* The pairs from one on, as long as goes(m) says that m's tail is one more.
Following(pair, goes(_)) ==
  LET grown(s) == IF goes(s[Len(s)]) THEN Append(s, lfs_dir_fetch(s[Len(s)].tail)) ELSE s
      from[k \in 1 .. Cardinality(Blocks) \div 2] ==
        IF k = 1 THEN <<lfs_dir_fetch(pair)>> ELSE With(from[k - 1], grown)
  IN from[Cardinality(Blocks) \div 2]

\* The list of all pairs, as lfs_fs_traverse and the like follow it.
Listed == Following(Root, LAMBDA m : m.tail # NullPair)

-----------------------------------------------------------------------------
(* Global state: exclusive or over all pairs, here of sets *)

xor(s, t) == (s \ t) \cup (t \ s)
NoMove == [id |-> -1, pair |-> NullPair]
Move(id, pair) == [id |-> id, pair |-> pair]
OrphansBit == [id |-> -2, pair |-> NullPair]
Bits(g) == (IF g.orphans > 0 THEN {OrphansBit} ELSE {}) \cup ({g.move} \ {NoMove})
MoveIn(bits) == LET moves == bits \ {OrphansBit} IN IF moves = {} THEN NoMove ELSE CHOOSE m \in moves : TRUE
lfs_gstate_hasmovehere(move, pair) == move # NoMove /\ lfs_pair_cmp(move.pair, pair)

lfs_fs_preporphans(g, n) == [g EXCEPT !.orphans = @ + n]
Bug_no_move(g, move) == g
Bug_unannounced(g) == g
Orphaned(g) == lfs_fs_preporphans(g, 1)
lfs_fs_prepmove(g, move) == [g EXCEPT !.move = move]

\* As lfs_rawmount adds it up.
GlobalState == LET s == Listed
                   sum[k \in 0 .. Len(s)] == IF k = 0 THEN {} ELSE xor(sum[k - 1], s[k].delta)
               IN sum[Len(s)]

\* An entry that is being moved is not there any more.
Visible(m, bits) ==
  IF lfs_gstate_hasmovehere(MoveIn(bits), m.pair)
  THEN {n \in DOMAIN m.ents : IdOf(m.ents, n) # MoveIn(bits).id} ELSE DOMAIN m.ents

-----------------------------------------------------------------------------
(* Finding pairs and names *)

NoMdir == [pair |-> NullPair]
First(P(_)) ==
  With(Listed, LAMBDA s :
    With({i \in DOMAIN s : P(s[i])}, LAMBDA k : IF k = {} THEN NoMdir ELSE s[Min(k)]))

lfs_fs_pred(pair) == First(LAMBDA m : lfs_pair_cmp(m.tail, pair))

ChildOf(m, pair) ==
  {n \in Visible(m, gdisk) : m.ents[n].type = "dir" /\ lfs_pair_cmp(m.ents[n].pair, pair)}

\* Ids count what is visible only.
TagId(m, name) == Cardinality({n \in Visible(m, gdisk) : n < name})
TagOf(m, n) == [dir |-> m, id |-> TagId(m, n), pair |-> m.ents[n].pair]
lfs_fs_parent(pair) ==
  With(First(LAMBDA p : ChildOf(p, pair) # {}), LAMBDA m :
    IF m = NoMdir THEN [dir |-> m] ELSE TagOf(m, Max(ChildOf(m, pair))))

\* The pairs of a directory.
Chain(pair) == Following(pair, LAMBDA m : m.split)

\* The pair a name is in, or would be inserted in.
Place(pair, name) ==
  With(Chain(pair), LAMBDA s :
    s[Min({i \in DOMAIN s : \E n \in Visible(s[i], gdisk) : n >= name} \cup {Len(s)})])

Holds(m, name) == name \in Visible(m, gdisk)

\* The directory at a path: its first pair, or NullPair if it is none.
DirAt(path) ==
  LET down[k \in 0 .. Len(path)] ==
        IF k = 0 THEN Root
        ELSE IF down[k - 1] = NullPair THEN NullPair
        ELSE With(Place(down[k - 1], path[k]), LAMBDA m :
               IF Holds(m, path[k]) /\ m.ents[path[k]].type = "dir" THEN m.ents[path[k]].pair ELSE NullPair)
  IN down[Len(path)]

Last(path) == path[Len(path)]
Up(path) == SubSeq(path, 1, Len(path) - 1)
lfs_dir_find(path) == Place(DirAt(Up(path)), Last(path))
IsFree(path) == DirAt(Up(path)) # NullPair /\ ~ Holds(lfs_dir_find(path), Last(path))
Exists(path) == DirAt(Up(path)) # NullPair /\ Holds(lfs_dir_find(path), Last(path))

\* lfs_fs_rawtraverse, with orphans.
Pointers(m) == {m.pair, m.tail} \cup {m.ents[n].pair : n \in {k \in DOMAIN m.ents : m.ents[k].type = "dir"}}
UsedBlocks ==
  With(Listed, LAMBDA s : UNION {{p[i] : i \in DOMAIN p} : p \in UNION {Pointers(s[k]) : k \in DOMAIN s}})
Bug_handed_twice == Blocks \ UsedBlocks
FreeBlocks == Blocks \ (UsedBlocks \cup handed)
\* Which free block comes next matters only for what it held: the lowest.
lfs_alloc(taken) == With(FreeBlocks \ taken, LAMBDA free : IF free = {} THEN {} ELSE {Min(free)})

-----------------------------------------------------------------------------
(* A commit to a pair: lfs_dir_relocatingcommit *)

\* Where the entries of a pair are split, halving what does not fit.
Cut(n) == LET from[s \in 0 .. n] == IF n - s <= 1 \/ n - s <= PairMax THEN s ELSE from[s + (n - s) \div 2] IN from[0]
Part(ents, from, to) == [n \in {k \in DOMAIN ents : IdOf(ents, k) \in from .. to - 1} |-> ents[n]]

\* Ways to write mdir m, which is to hold ents, tail and split: behind its
\* last commit, or compacted into its other block, or, when that one is worn
\* or tired, into a new block; compacting may move entries to a new pair
\* first.  What is brought is the change of the global state: a relocated
\* block leaves it to the commits that put the block in place.  A way settles
\* the global state if something it wrote has brought that.
Bug_brings(change, relocated) == change
Brought(change, relocated) == IF relocated THEN {} ELSE change

MayRelocate(relocations) ==
  /\ bound.relocations + relocations < MaxRelocations
  /\ EdgeRepairs \/ bound.crashes = 0 \/ OrphansBit \notin seen.bits

Written(m, pair, rev, delta) == [m EXCEPT !.pair = pair, !.rev = rev, !.delta = delta, !.erased = TRUE]

Appended(m, g, stolen) ==
  LET delta == xor(m.delta, xor(Brought(xor(Bits(g), gdisk), FALSE), stolen))
  IN IF m.erased /\ Cardinality(DOMAIN m.ents) <= PairMax + 1
     THEN {[m |-> Written(m, m.pair, m.rev, delta), relocated |-> FALSE, settles |-> TRUE,
            written |-> << >>, relocations |-> 0, taken |-> {}]} ELSE {}

Whole(m, g, stolen) ==
  [m |-> m, brings |-> xor(Bits(g), gdisk), stolen |-> stolen, settled |-> FALSE,
   written |-> << >>, relocations |-> 0, taken |-> {}]

\* lfs_dir_split: the new pair, which may be relocated too, takes the end of
\* the entries and the tail, what was stolen, and, if it is not relocated, the
\* change of the global state.
lfs_dir_split(s, cut, at, other, relocated, taken) ==
  LET end == Part(s.m.ents, cut, Cardinality(DOMAIN s.m.ents))
      delta == xor(IF relocated THEN {} ELSE s.brings, s.stolen)
  IN [m |-> [s.m EXCEPT !.ents = Part(@, 0, cut), !.tail = <<at, other>>, !.split = TRUE],
      brings |-> IF relocated THEN s.brings ELSE {}, stolen |-> {}, settled |-> ~ relocated,
      written |-> <<Written([s.m EXCEPT !.ents = end], <<at, other>>, disk[other].rev + 1, delta)>>,
      relocations |-> IF relocated THEN 1 ELSE 0, taken |-> taken]

lfs_dir_splittingcompact(s) ==
  With(Cut(Cardinality(DOMAIN s.m.ents)), LAMBDA cut :
    With(FreeBlocks, LAMBDA free :
      IF cut = 0 \/ Cardinality(free) < 2 THEN {s}
      ELSE LET t1 == Min(free)
               t2 == Min(free \ {t1})
           IN {lfs_dir_split(s, cut, t1, t2, FALSE, {t1, t2})}
                \cup {lfs_dir_split(s, cut, b, t2, TRUE, {t1, t2, b}) :
                        b \in IF MayRelocate(0) THEN lfs_alloc({t1, t2}) ELSE {}}))

lfs_dir_compact(s, at, relocated, taken) ==
  [m |-> Written(s.m, <<at, s.m.pair[1]>>, s.m.rev + 1,
                 xor(s.m.delta, xor(Brought(s.brings, relocated), s.stolen))),
   relocated |-> relocated, settles |-> s.settled \/ ~ relocated, written |-> s.written,
   relocations |-> s.relocations + (IF relocated THEN 1 ELSE 0), taken |-> s.taken \cup taken]
CompactedWays(s) ==
  {lfs_dir_compact(s, s.m.pair[2], FALSE, {})}
    \cup {lfs_dir_compact(s, b, TRUE, {b}) :
            b \in IF MayRelocate(s.relocations) /\ ~ lfs_pair_cmp(s.m.pair, Root) THEN lfs_alloc(s.taken) ELSE {}}

Ways(m, g, stolen) ==
  Appended(m, g, stolen) \cup UNION {CompactedWays(s) : s \in lfs_dir_splittingcompact(Whole(m, g, stolen))}

\* What a way changes.
Writes(w, g, taken) ==
  /\ disk' = [b \in Blocks |->
       IF b = w.m.pair[1] THEN Stored(w.m)
       ELSE IF w.written # << >> /\ b = w.written[1].pair[1] THEN Stored(w.written[1]) ELSE disk[b]]
  /\ gdisk' = IF w.settles THEN Bits(g) ELSE gdisk
  /\ gdelta' = {}
  /\ gstate' = g
  /\ handed' = taken
  /\ bound' = [bound EXCEPT !.relocations = @ + w.relocations]

\* What a commit starts from: the mdirs, those on lfs->mlist, the global state.
Now == [mdirs |-> mdirs, mlist |-> mlist, g |-> gstate, stolen |-> gdelta]

\* The mdirs on the list follow their pair.
Follow(x, pair, m) ==
  [r \in DOMAIN x.mdirs |-> IF r \in x.mlist /\ lfs_pair_cmp(x.mdirs[r].pair, pair) THEN m ELSE x.mdirs[r]]

Fails(err) == call' = [call EXCEPT !.err = err] /\ todo' = << >> /\ mlist' = {}

Reparent(lpair, ldir, within, orphans) ==
  [op |-> "reparent", lpair |-> lpair, ldir |-> ldir, within |-> within, orphans |-> orphans, hasparent |-> FALSE]

\* A commit of the mdir held in reg, which is to be m.  within is "commit" for
\* lfs_dir_commit, "deorphan" for lfs_dir_orphaningcommit; rest is done after.
Commit(reg, m, deletes, x, within, rest) ==
  \E old \in {x.mdirs[reg]} : \E pred \in {lfs_fs_pred(old.pair)} :
  IF deletes /\ m.ents = NoEntries /\ pred # NoMdir /\ pred.split
  THEN /\ todo' = <<[op |-> "drop", dir |-> m, pred |-> pred, within |-> within]>> \o rest
       /\ mdirs' = [Follow(x, old.pair, m) EXCEPT ![reg] = m]
       /\ gstate' = x.g /\ gdelta' = x.stolen /\ mlist' = x.mlist
       /\ UNCHANGED <<disk, gdisk, handed, call, bound>>
  ELSE \/ \E w \in Ways(m, x.g, x.stolen) :
            /\ Writes(w, x.g, handed \cup w.taken)
            /\ mdirs' = [Follow(x, old.pair, w.m) EXCEPT ![reg] = w.m]
            /\ mlist' = x.mlist
            /\ todo' = (IF w.relocated THEN <<Reparent(old.pair, w.m, within, FALSE)>> ELSE << >>) \o rest
            /\ UNCHANGED call
       \/ /\ EdgeNoSpace /\ Fails("NOSPC")
          /\ gstate' = x.g /\ gdelta' = x.stolen /\ mdirs' = x.mdirs
          /\ UNCHANGED <<disk, gdisk, handed, bound>>

-----------------------------------------------------------------------------
(* What a commit has others do: the rest of lfs_dir_orphaningcommit *)

Task == Head(todo)
Does(op) == [op |-> op]
Busy(op) == todo # << >> /\ Task.op = op

\* A commit to a pair that is no register's.
CommitsAlso(old, m, g, stolen, relocated(_), done) ==
  \E w \in Ways(m, g, stolen) :
    /\ Writes(w, g, handed \cup w.taken)
    /\ mdirs' = Follow(Now, old.pair, w.m)
    /\ todo' = IF w.relocated THEN <<relocated(w)>> \o Tail(todo) ELSE done
    /\ UNCHANGED <<mlist, call>>

\* When all is done orphans that were made on the way are looked for, by
\* lfs_dir_commit, or by the lfs_fs_deorphan that called, which starts again.
Deorphan(powerloss) == [op |-> "deorphan", powerloss |-> powerloss, found |-> 0]
Bug_never_looked_for(task, rest) == rest
Finished(task, rest) ==
  IF ~ task.orphans THEN rest
  ELSE IF task.within = "commit" THEN <<Deorphan(FALSE)>> \o rest
  ELSE <<[Head(rest) EXCEPT !.op = "deorphan"]>> \o Tail(rest)

\* The state of a pair that is dropped goes into the next commit.
Bug_state_lost(stolen, dir) == stolen
Stolen(stolen, dir) == xor(stolen, dir.delta)

\* An emptied pair of a longer chain leaves it.
Drops ==
  /\ Busy("drop")
  /\ CommitsAlso(Task.pred, [Task.pred EXCEPT !.tail = Task.dir.tail, !.split = Task.dir.split], gstate,
                 Stolen(gdelta, Task.dir),
                 LAMBDA w : Reparent(Task.pred.pair, w.m, Task.within, FALSE), Tail(todo))

\* A move out of a pair that is written is finished with it.
MoveFixed(m) ==
  IF lfs_gstate_hasmovehere(gstate.move, m.pair) THEN [m EXCEPT !.ents = Del(@, NameOf(@, gstate.move.id))] ELSE m
Bug_still_moving(g, m) == g
Unmoved(g, m) == IF lfs_gstate_hasmovehere(g.move, m.pair) THEN lfs_fs_prepmove(g, NoMove) ELSE g
PastMove(id, m) ==
  IF lfs_gstate_hasmovehere(gstate.move, m.pair) /\ gstate.move.id < id THEN id - 1 ELSE id

Repredded(task, hasparent) == [task EXCEPT !.op = "repred", !.hasparent = hasparent]

\* First the parent is told of the new pair: until the list is, they disagree.
Bug_unflagged(g) == g
Reparented(g) == lfs_fs_preporphans(g, 1)

TellsParent ==
  /\ Busy("reparent")
  /\ LET tag == lfs_fs_parent(Task.lpair)
         p == tag.dir
         id == PastMove(tag.id, p)
         fixed == MoveFixed(p)
     IN IF p = NoMdir
        THEN todo' = <<Repredded(Task, FALSE)>> \o Tail(todo) /\ UNCHANGED <<disk, ram, call, bound>>
        ELSE CommitsAlso(p, [fixed EXCEPT !.ents = Put(@, NameOf(@, id), Dir(Task.ldir.pair))],
                         Unmoved(Reparented(gstate), p), gdelta,
                         LAMBDA w : Reparent(p.pair, w.m, Task.within, TRUE),
                         <<Repredded(Task, TRUE)>> \o Tail(todo))

\* Then its predecessor on the list; a new pair has none yet.
TellsPred ==
  /\ Busy("repred")
  /\ LET p == lfs_fs_pred(Task.lpair)
         fixed == [MoveFixed(p) EXCEPT !.tail = Task.ldir.pair]
         g == IF Task.hasparent /\ gstate.orphans > 0 THEN lfs_fs_preporphans(gstate, -1) ELSE gstate
     IN IF p = NoMdir
        THEN /\ IF Task.hasparent THEN Fails("assert") ELSE todo' = Finished(Task, Tail(todo)) /\ UNCHANGED <<call, mlist>>
             /\ UNCHANGED <<disk, gstate, gdisk, gdelta, mdirs, handed, bound>>
        \* lfs_dir_relocatingcommit is called with no mdir for a predecessor.
        ELSE IF fixed.ents = NoEntries /\ p.ents # NoEntries
        THEN Fails("assert") /\ UNCHANGED <<disk, gstate, gdisk, gdelta, mdirs, handed, bound>>
        ELSE CommitsAlso(p, fixed, Unmoved(g, p), gdelta,
                         LAMBDA w : Reparent(p.pair, w.m, Task.within, Task.orphans),
                         Finished(Task, Tail(todo)))

-----------------------------------------------------------------------------
(* lfs_fs_forceconsistency *)

ForceConsistency == <<Does("demove"), Deorphan(TRUE)>>

lfs_fs_demove ==
  /\ Busy("demove")
  /\ LET move == MoveIn(gdisk)
         m == lfs_dir_fetch(move.pair)
     IN IF move = NoMove THEN todo' = Tail(todo) /\ UNCHANGED <<disk, ram, call, bound>>
        ELSE Commit("dir", [m EXCEPT !.ents = Del(@, NameOf(@, move.id))], TRUE,
                    [Now EXCEPT !.mdirs.dir = m, !.g = lfs_fs_prepmove(@, NoMove)], "commit", Tail(todo))

\* Walks the list, mdirs.scan being the last pair it has passed.
ListStart == [pair |-> NullPair, split |-> TRUE, tail |-> Root]
lfs_fs_deorphan ==
  /\ Busy("deorphan")
  /\ IF gstate.orphans = 0 /\ Task.found = 0
     THEN todo' = Tail(todo) /\ UNCHANGED mdirs
     ELSE todo' = <<[Task EXCEPT !.op = "scan"]>> \o Tail(todo) /\ mdirs' = [mdirs EXCEPT !.scan = ListStart]
  /\ UNCHANGED <<disk, gstate, gdisk, gdelta, mlist, handed, call, bound>>

Bug_none_found(g, found) == g
Settled(g, found) == lfs_fs_preporphans(g, -Min({found, g.orphans}))
ScanEnds ==
  /\ Busy("scan") /\ mdirs.scan.tail = NullPair
  /\ todo' = Tail(todo)
  /\ gstate' = Settled(gstate, Task.found)
  /\ UNCHANGED <<disk, gdisk, gdelta, mdirs, mlist, handed, call, bound>>

\* The first pair of a directory is an orphan if nothing points to it, and a
\* half-orphan if its parent says that it has moved.
Heads == Busy("scan") /\ mdirs.scan.tail # NullPair /\ ~ mdirs.scan.split
IsOrphan(tag) == Task.powerloss /\ tag.dir = NoMdir
IsHalfOrphan(tag, pair) == tag.dir # NoMdir /\ ~ lfs_pair_sync(tag.pair, pair)
AfterFix == <<[Task EXCEPT !.found = @ + 1]>> \o Tail(todo)

Bug_not_advanced(m) == m
Passed(m) == lfs_dir_fetch(m.tail)
ScanPasses ==
  /\ Busy("scan") /\ mdirs.scan.tail # NullPair
  /\ LET tag == lfs_fs_parent(mdirs.scan.tail)
     IN mdirs.scan.split \/ (~ IsOrphan(tag) /\ ~ IsHalfOrphan(tag, mdirs.scan.tail))
  /\ mdirs' = [mdirs EXCEPT !.scan = Passed(@)]
  /\ UNCHANGED <<disk, gstate, gdisk, gdelta, mlist, handed, todo, call, bound>>

FixesOrphan ==
  /\ Heads /\ IsOrphan(lfs_fs_parent(mdirs.scan.tail))
  /\ LET dir == lfs_dir_fetch(mdirs.scan.tail)
     IN Commit("scan", [mdirs.scan EXCEPT !.tail = dir.tail, !.split = dir.split], FALSE,
               [Now EXCEPT !.stolen = Stolen(@, dir)], "deorphan", AfterFix)

FixesHalfOrphan ==
  /\ Heads
  /\ LET pdir == mdirs.scan
         tag == lfs_fs_parent(pdir.tail)
     IN /\ IsHalfOrphan(tag, pdir.tail)
        /\ Commit("scan", [MoveFixed(pdir) EXCEPT !.tail = tag.pair, !.split = FALSE],
                  lfs_gstate_hasmovehere(gstate.move, pdir.pair),
                  [Now EXCEPT !.g = Unmoved(@, pdir)], "deorphan", AfterFix)

-----------------------------------------------------------------------------
(* What is on disk: the global state, and the tree *)

Pairs(pair) == With(Chain(pair), LAMBDA s : {s[i] : i \in DOMAIN s})
Entries(path, pair, bits) ==
  UNION {{[path |-> Append(path, n), entry |-> m.ents[n]] : n \in Visible(m, bits) \ {SUPERBLOCK}} : m \in Pairs(pair)}
EntriesWith(bits) ==
  LET level[k \in 0 .. MaxDepth] ==
        IF k = 0 THEN Entries(<< >>, Root, bits)
        ELSE UNION {Entries(e.path, e.entry.pair, bits) : e \in {f \in level[k - 1] : f.entry.type = "dir"}}
  IN UNION {level[k] : k \in 0 .. MaxDepth}
Amounts == With(GlobalState, LAMBDA bits : [bits |-> bits, all |-> EntriesWith(bits)])
View ==
  [p \in {e.path : e \in seen.all} |->
     LET e == CHOOSE f \in seen.all : f.path = p IN IF e.entry.type = "dir" THEN "dir" ELSE e.entry.what]

-----------------------------------------------------------------------------
(* The calls *)


Idle == todo = << >> /\ call.err # "assert"
\* Only with EdgeMoves does a call move something elsewhere when two relocations
\* may come, or a directory or the one entry of a pair when one may.
ToCome == MaxRelocations - bound.relocations
Edge(c) ==
  /\ c.op = "rename" /\ Exists(c.path) /\ DirAt(Up(c.to)) # NullPair
  /\ LET m == lfs_dir_find(c.path)
         alone == Cardinality(DOMAIN m.ents) = 1 \/ m.ents[Last(c.path)].type = "dir"
     IN ~ lfs_pair_cmp(m.pair, lfs_dir_find(c.to).pair) /\ ToCome > (IF alone THEN 0 ELSE 1)
Begins(c) ==
  /\ Idle /\ bound.calls < MaxCalls
  /\ EdgeMoves \/ ~ Edge(c)
  /\ call' = c @@ [err |-> "ok", before |-> View]
  /\ todo' = ForceConsistency \o <<Does(c.op)>>
  /\ mdirs' = [r \in DOMAIN mdirs |-> NoMdir]
  /\ bound' = [bound EXCEPT !.calls = @ + 1]
  /\ UNCHANGED <<disk, gstate, gdisk, gdelta, mlist, handed>>

Refused(err) == Fails(err) /\ UNCHANGED <<disk, gstate, gdisk, gdelta, mdirs, handed, bound>>
AddedEntry(m, entry) == [m EXCEPT !.ents = Put(@, Last(call.path), entry)]

\* The last pair of a directory, from m on.
EndOf(m) == LET s == Chain(m.pair) IN IF m.split THEN s[Len(s)] ELSE m

\* lfs_file_rawopencfg of a file that is not there.
Creates ==
  /\ Busy("create")
  /\ LET m == lfs_dir_find(call.path)
     IN IF ~ IsFree(call.path) THEN Refused("EXIST")
        ELSE Commit("cwd", AddedEntry(m, File(call.what)), FALSE,
                    [Now EXCEPT !.mdirs.cwd = m, !.mlist = {"cwd"}], "commit", <<Does("closed")>>)

Closes == Busy("closed") /\ todo' = Tail(todo) /\ mlist' = {}
          /\ UNCHANGED <<disk, gstate, gdisk, gdelta, mdirs, handed, call, bound>>

\* lfs_rawmkdir: the new pair is written first, with the tail it will need.
Bug_tail_forgotten(dir, end) == dir
Before(dir, end) == [dir EXCEPT !.tail = end.tail]
MkdirAllocates ==
  /\ Busy("mkdir")
  /\ LET cwd == lfs_dir_find(call.path)
         end == EndOf(cwd)
         b == Min(Blocks \ UsedBlocks)
         b2 == Min(Blocks \ (UsedBlocks \cup {b}))
         \* The revision follows that of whatever was in the first block.
         dir == [pair |-> <<b2, b>>, rev |-> disk[b2].rev, ents |-> NoEntries, tail |-> NullPair,
                 split |-> FALSE, delta |-> {}, erased |-> FALSE]
     IN IF ~ IsFree(call.path) THEN Refused("EXIST")
        ELSE IF Cardinality(Blocks \ UsedBlocks) < 2 THEN Refused("NOSPC")
        ELSE /\ handed' = {b, b2}
             /\ mdirs' = [mdirs EXCEPT !.cwd = cwd, !.pred = end, !.dir = dir]
             /\ todo' = <<Does("mkdir_pair")>> \o (IF cwd.split THEN <<Does("mkdir_tail")>> ELSE << >>)
                         \o <<Does("mkdir_entry")>>
             /\ UNCHANGED <<disk, gstate, gdisk, gdelta, mlist, call, bound>>

MkdirWrites ==
  /\ Busy("mkdir_pair")
  /\ Commit("dir", Before(mdirs.dir, mdirs.pred), FALSE, Now, "commit", Tail(todo))

\* In a longer directory the list comes first: until the entry is there the
\* new pair is an orphan.
MkdirAppends ==
  /\ Busy("mkdir_tail")
  /\ Commit("pred", [mdirs.pred EXCEPT !.tail = mdirs.dir.pair], FALSE,
            [Now EXCEPT !.mlist = {"cwd"}, !.g = Orphaned(@)], "commit",
            <<Does("mkdir_tailed")>> \o Tail(todo))

MkdirAppended ==
  /\ Busy("mkdir_tailed")
  /\ todo' = Tail(todo) /\ mlist' = {} /\ gstate' = lfs_fs_preporphans(gstate, -1)
  /\ UNCHANGED <<disk, gdisk, gdelta, mdirs, handed, call, bound>>

MkdirInserts ==
  /\ Busy("mkdir_entry")
  /\ LET m == AddedEntry(mdirs.cwd, Dir(mdirs.dir.pair))
     IN Commit("cwd", IF m.split THEN m ELSE [m EXCEPT !.tail = mdirs.dir.pair], FALSE, Now, "commit", Tail(todo))

DropTask(pred) == [op |-> "unlist", reg |-> pred]
EmptyDir(m) == m.ents = NoEntries /\ ~ m.split

\* lfs_rawremove: the entry goes first, then the pair leaves the list.
RemoveDeletes ==
  /\ Busy("remove")
  /\ LET cwd == lfs_dir_find(call.path)
         entry == cwd.ents[Last(call.path)]
         dir == lfs_dir_fetch(entry.pair)
         m == [cwd EXCEPT !.ents = Del(@, Last(call.path))]
     IN IF ~ Exists(call.path) THEN Refused("NOENT")
        ELSE IF entry.type # "dir"
        THEN Commit("cwd", m, TRUE, [Now EXCEPT !.mdirs.cwd = cwd], "commit", Tail(todo))
        ELSE IF ~ EmptyDir(dir) THEN Refused("NOTEMPTY")
        ELSE Commit("cwd", m, TRUE, [Now EXCEPT !.mdirs.cwd = cwd, !.mdirs.dir = dir, !.mlist = {"dir"},
                                                !.g = Orphaned(@)],
                    "commit", <<DropTask("cwd")>> \o Tail(todo))

\* lfs_dir_drop, from the predecessor.
Unlists ==
  /\ Busy("unlist")
  /\ LET pred == lfs_fs_pred(mdirs.dir.pair)
         g == lfs_fs_preporphans(gstate, -1)
     IN IF pred = NoMdir THEN Fails("NOENT") /\ gstate' = g /\ UNCHANGED <<disk, gdisk, gdelta, mdirs, handed, bound>>
        ELSE Commit(Task.reg, [pred EXCEPT !.tail = mdirs.dir.tail, !.split = mdirs.dir.split], FALSE,
                    [Now EXCEPT !.mdirs[Task.reg] = pred, !.mlist = {}, !.g = g, !.stolen = Stolen(@, mdirs.dir)],
                    "commit", Tail(todo))

\* lfs_rawrename: the new entry and the pending move in one commit, then the
\* old entry and the end of the move.
RenamePuts ==
  /\ Busy("rename")
  /\ LET old == lfs_dir_find(call.path)
         new == lfs_dir_find(call.to)
         from == Last(call.path)
         to == Last(call.to)
         entry == old.ents[from]
         replaces == Exists(call.to)
         same == lfs_pair_cmp(old.pair, new.pair)
         prev == new.ents[to]
         prevdir == lfs_dir_fetch(prev.pair)
         moved == Put(new.ents, to, entry)
         drops == replaces /\ prev.type = "dir"
         g == IF drops THEN Orphaned(gstate) ELSE gstate
         x == [Now EXCEPT !.mdirs.cwd = old, !.mdirs.new = new]
     IN IF ~ Exists(call.path) \/ DirAt(Up(call.to)) = NullPair THEN Refused("NOENT")
        ELSE IF replaces /\ prev.type # entry.type THEN Refused("ISDIR")
        ELSE IF call.to = call.path THEN todo' = Tail(todo) /\ UNCHANGED <<disk, ram, call, bound>>
        ELSE IF drops /\ ~ EmptyDir(prevdir) THEN Refused("NOTEMPTY")
        ELSE Commit("new", [new EXCEPT !.ents = IF same THEN Del(moved, from) ELSE moved], same \/ replaces,
                    [x EXCEPT !.mdirs.dir = IF drops THEN prevdir ELSE @, !.mlist = IF drops THEN {"dir"} ELSE {},
                              !.g = IF same THEN g ELSE lfs_fs_prepmove(g, Move(IdOf(old.ents, from), old.pair))],
                    "commit", (IF same THEN << >> ELSE <<Does("rename_delete")>>)
                               \o (IF drops THEN <<DropTask("new")>> ELSE << >>) \o Tail(todo))

RenameDeletes ==
  /\ Busy("rename_delete")
  /\ IF gstate.move = NoMove THEN todo' = Tail(todo) /\ UNCHANGED <<disk, ram, call, bound>>
     ELSE Commit("cwd", [mdirs.cwd EXCEPT !.ents = Del(@, Last(call.path))], TRUE,
                 [Now EXCEPT !.g = lfs_fs_prepmove(@, NoMove)], "commit", Tail(todo))

-----------------------------------------------------------------------------
(* Power loss, and lfs_rawmount: the list gives the global state. *)

PowerLoss ==
  /\ bound.crashes < MaxCrashes
  /\ bound' = [bound EXCEPT !.crashes = @ + 1]
  /\ gstate' = [move |-> MoveIn(seen.bits), orphans |-> Cardinality(seen.bits \cap {OrphansBit})]
  /\ gdisk' = seen.bits /\ gdelta' = {}
  /\ mlist' = {} /\ handed' = {} /\ todo' = << >>
  /\ call' = [op |-> "mount", err |-> "ok"]
  /\ mdirs' = [r \in DOMAIN mdirs |-> NoMdir]
  /\ UNCHANGED disk

InitRam ==
  /\ gstate = [move |-> NoMove, orphans |-> 0] /\ gdisk = {} /\ gdelta = {}
  /\ mdirs = [r \in {"cwd", "new", "dir", "pred", "scan"} |-> NoMdir] /\ mlist = {} /\ handed = {}
  /\ todo = << >> /\ call = [op |-> "mount", err |-> "ok"]
Init ==
  /\ disk \in InitTrees /\ InitRam /\ seen = Amounts
  /\ bound = [calls |-> 0, relocations |-> 0, crashes |-> 0]

Continues ==
  \/ lfs_fs_demove \/ lfs_fs_deorphan \/ ScanEnds \/ ScanPasses \/ FixesOrphan \/ FixesHalfOrphan
  \/ Creates \/ Closes \/ MkdirAllocates \/ MkdirWrites \/ MkdirAppends \/ MkdirAppended \/ MkdirInserts
  \/ RemoveDeletes \/ Unlists \/ RenamePuts \/ RenameDeletes
  \/ Drops \/ TellsParent \/ TellsPred
Next == (Continues \/ PowerLoss \/ \E c \in Calls : Begins(c)) /\ seen' = Amounts'

Spec == Init /\ [][Next]_vars

-----------------------------------------------------------------------------
(* Properties *)

\* The blocks of the disk are as littlefs leaves them, and the orphans it
\* counts are never fewer than none.
TypeOK ==
  /\ \A b \in Blocks : DOMAIN disk[b].ents \subseteq Names \cup {SUPERBLOCK} /\ disk[b].rev \in Nat
  /\ gstate.orphans \in Nat /\ handed \subseteq Blocks

\* The directories of the tree, by the first pair each entry gives, and those
\* on the list.
TreeHeads == {e.entry.pair : e \in {f \in seen.all : f.entry.type = "dir"}}
ListHeads == LET s == Listed IN {s[i].tail : i \in {j \in 1 .. Len(s) - 1 : ~ s[j].split}}
Agree == LET Sides(heads) == {{p[1], p[2]} : p \in heads} IN Sides(TreeHeads) = Sides(ListHeads)

\* Whenever power is lost, if the tree and the list disagree then the global
\* state on disk says that there are orphans, or nobody would look for them
\* (lfs_fs_preporphans).
OrphansFlagged == Agree \/ OrphansBit \in seen.bits

\* When no call is under way the two agree, and no move or orphan is left, except
\* after a power loss, when the next call that writes has it repaired first
\* (lfs_fs_forceconsistency).  What was repaired before another power loss may
\* still count as an orphan (lfs_fs_deorphan).
ConsistentAtRest ==
  todo = << >> /\ call.op # "mount" /\ call.err # "assert" =>
    Agree /\ gstate.move = NoMove /\ (gstate.orphans > 0 => bound.crashes > 0)

\* Every file and directory is in one place: a move is not seen half done, and
\* no pair is the start of two directories (lfs_rawrename, lfs_fs_demove).
OnePlace ==
  \A e, f \in seen.all :
    e # f => /\ e.path # f.path
             /\ e.entry.type = f.entry.type =>
                  IF e.entry.type = "dir" THEN ~ lfs_pair_cmp(e.entry.pair, f.entry.pair) ELSE e.entry.what # f.entry.what

\* No block of a directory in the tree may be handed out.  TreeIsKept is what
\* lfs_alloc is to guarantee; FlaggedOrKept allows an exception while orphans
\* are to be looked for (lfs_fs_rawtraverse with orphans, lfs_alloc).
TreeBlocks ==
  LET pairs == {m.pair : m \in UNION {Pairs(p) : p \in TreeHeads \cup {Root}}}
  IN UNION {{p[1], p[2]} : p \in pairs}
TreeIsKept == TreeBlocks \subseteq UsedBlocks \cup handed
FlaggedOrKept == OrphansBit \in seen.bits \/ TreeIsKept

\* No assertion of lfs.c fails (LFS_ASSERT in lfs_fs_preporphans,
\* lfs_dir_relocatingcommit and lfs_dir_orphaningcommit).
NeverAsserts == call.err # "assert"

\* The state is of its type, and what holds of the tree at every moment:
\* OrphansFlagged, ConsistentAtRest, OnePlace, FlaggedOrKept and NeverAsserts,
\* each above.
TreeInv == TypeOK /\ OrphansFlagged /\ ConsistentAtRest /\ OnePlace /\ FlaggedOrKept /\ NeverAsserts

\* A call takes effect at once, at most once and before it returns, and a
\* power loss takes back nothing that was done.
Phase ==
  IF todo # << >> THEN IF View = call.before THEN "begun" ELSE "done"
  ELSE IF call.op = "mount" THEN "cut"
  ELSE IF call.err \in {"EXIST", "NOENT", "NOTEMPTY", "ISDIR"} THEN "refused"
  ELSE IF call.err = "NOSPC" THEN "full" ELSE call.err
Promised == INSTANCE LfsDirectories WITH tree <- View, phase <- Phase,
                                         call <- [x \in DOMAIN call \ {"err"} |-> call[x]]
Implements == Promised!Spec
=============================================================================
