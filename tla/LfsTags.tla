------------------------------ MODULE LfsTags ------------------------------
(***************************************************************************)
(* What a metadata pair of littlefs holds (platform/lfs.c): a log of tags, *)
(* each about the entry with some id at the time.  Creating and deleting   *)
(* an entry moves the ids behind it, so that a tag's id is to be read with *)
(* all the splices that follow it.  lfs_dir_getslice finds an entry's data *)
(* from the end of the log, lfs_dir_fetchmatch a name from its start, and  *)
(* lfs_dir_traverse copies what still counts when the pair is compacted,   *)
(* split, or has an entry moved out of it.                                 *)
(***************************************************************************)
EXTENDS Integers, Sequences, SequencesExt

CONSTANTS
  Pairs,
  Names,        \* in the order lfs_dir_find_match compares them
  AttrTypes,    \* of user attributes
  Data,         \* contents of structs and attributes
  StructKinds,  \* LFS_TYPE_DIRSTRUCT, LFS_TYPE_CTZSTRUCT, LFS_TYPE_INLINESTRUCT
  MaxEntries, MaxCommits   \* bounds

ASSUME TagsAssumption == Names \subseteq Nat /\ {MaxEntries, MaxCommits} \subseteq Nat /\ "gone" \notin Data

VARIABLES
  logs,      \* of each pair: its tags, the oldest first
  entries,   \* of each pair: what its entries are
  moving,    \* lfs->gdisk: the entry that is being moved away, or None
  commits

vars == <<logs, entries, moving, commits>>

-----------------------------------------------------------------------------
(* Tags *)

None == [pair |-> "none"]
Create(id) == [type |-> "splice", chunk |-> 1, id |-> id, val |-> "none"]
Delete(id) == [type |-> "splice", chunk |-> -1, id |-> id, val |-> "none"]
Name(id, n) == [type |-> "name", chunk |-> 0, id |-> id, val |-> n]
Struct(id, kind, d) == [type |-> "struct", chunk |-> kind, id |-> id, val |-> d]
Attr(id, t, d) == [type |-> "attr", chunk |-> t, id |-> id, val |-> d]   \* "gone" if it is removed
Move(id, from, log) == [type |-> "move", chunk |-> 0, id |-> id, val |-> "none", from |-> from, log |-> log]

lfs_tag_splice(t) == IF t.type = "splice" THEN t.chunk ELSE 0
lfs_tag_isdelete(t) == t.type = "attr" /\ t.val = "gone"
Deletes(t, id) == t.type = "splice" /\ t.chunk = -1 /\ t.id = id
IsNoop(t) == t.type = "noop"
Shifted(t, splice) == IF splice.id <= t.id THEN [t EXCEPT !.id = @ + lfs_tag_splice(splice)] ELSE t

-----------------------------------------------------------------------------
(* lfs_dir_traverse *)

Noop == [type |-> "noop", chunk |-> 0, id |-> 0, val |-> "none"]

\* A later tag makes this one redundant: it says the same of the same entry, or
\* deletes the entry.  Of a user attribute its type counts, of the others not.
Bug_kind_counts(t, later) ==
  \/ t.type = later.type /\ t.id = later.id /\ t.chunk = later.chunk
  \/ lfs_tag_isdelete(t)
  \/ Deletes(later, t.id)
Redundant(t, later) ==
  \/ t.type = later.type /\ t.id = later.id /\ (later.type = "attr" => t.chunk = later.chunk)
  \/ lfs_tag_isdelete(t)
  \/ Deletes(later, t.id)

lfs_dir_traverse_filter(t, later) ==
  IF IsNoop(t) \/ later.type = "move" THEN t
  ELSE IF Redundant(t, later) THEN Noop ELSE IF later.type = "splice" THEN Shifted(t, later) ELSE t

\* Tag p as those behind it leave it.
Filtered(tags, p) == FoldLeft(lfs_dir_traverse_filter, tags[p], SubSeq(tags, p + 1, Len(tags)))

InRange(t, begin, end) == ~ IsNoop(t) /\ t.id >= begin /\ t.id < end
Bug_diff_negated(t, diff) == [t EXCEPT !.id = @ - diff]
WithId(t, diff) == [t EXCEPT !.id = @ + diff]

\* Each tag that passes, in place of it what put says.
Copied(tags, types, begin, end, Put(_)) ==
  LET of(p) == IF tags[p].type \notin types THEN <<>>
               ELSE LET t == Filtered(tags, p) IN IF InRange(t, begin, end) THEN Put(t) ELSE <<>>
  IN FlattenSeq([p \in 1 .. Len(tags) |-> of(p)])

\* The tags of the entry that is moved, as those of the entry it becomes.
Moved(t, diff) ==
  Copied(t.log, {"struct", "attr"}, t.from, t.from + 1, LAMBDA u : <<WithId(u, t.id - t.from + diff)>>)

Out(t, diff) == IF t.type = "move" THEN Moved(t, diff) ELSE <<WithId(t, diff)>>

\* The end of a log with a commit appended, and the log of the entries from
\* begin to end, compacted with that commit.
Appended(log, attrs) == log \o FlattenSeq([k \in 1 .. Len(attrs) |-> Out(attrs[k], 0)])
lfs_dir_compact(log, attrs, begin, end) ==
  Copied(log \o attrs, {"name", "struct", "attr", "move"}, begin, end, LAMBDA t : Out(t, 0 - begin))

-----------------------------------------------------------------------------
(* lfs_dir_getslice *)

\* With m the id of an entry that is being moved away: those behind it are
\* asked for by the ids they will have.
Bug_past_moved(m, id) == IF m < id THEN id + 1 ELSE id
Unmoved(m, id) == IF m <= id THEN id + 1 ELSE id
Matches(t, type, chunk, id) == t.type = type /\ t.id = id /\ (type = "attr" => t.chunk = chunk)

Ids == 0 .. 2 * MaxEntries + 2
Before(id, t) == IF t.id <= id THEN id - lfs_tag_splice(t) ELSE id
lfs_dir_getslice(log, m, type, chunk, id) ==
  LET back[p \in 0 .. Len(log), i \in Ids] ==
        IF p = 0 THEN Noop
        ELSE LET t == log[p]
             IN IF t.type = "splice" THEN IF t = Create(i) THEN Noop ELSE back[p - 1, Before(i, t)]
                ELSE IF Matches(t, type, chunk, i) THEN IF lfs_tag_isdelete(t) THEN Noop ELSE t
                ELSE back[p - 1, i]
  IN back[Len(log), Unmoved(m, id)]

-----------------------------------------------------------------------------
(* lfs_dir_fetchmatch, for the name lfs_dir_find looks for *)

NoBest == [id |-> 1023, found |-> FALSE]
Spliced(best, t) ==
  IF Deletes(t, best.id) THEN [best EXCEPT !.found = FALSE]
  ELSE IF best # NoBest THEN Shifted(best, t) ELSE best
Bug_last_greater(best, t) == TRUE
NearerThan(best, t) == t.id <= best.id
Named(best, t, n) ==
  IF t.val = n THEN [id |-> t.id, found |-> TRUE]
  ELSE IF t.id = best.id THEN NoBest
  ELSE IF t.val > n /\ NearerThan(best, t) THEN [id |-> t.id, found |-> FALSE] ELSE best

Scanned(log, n) ==
  LET step(s, t) ==
        IF t.type = "splice" THEN [count |-> s.count + lfs_tag_splice(t), best |-> Spliced(s.best, t)]
        ELSE IF t.type = "name"
        THEN [count |-> IF t.id >= s.count THEN t.id + 1 ELSE s.count, best |-> Named(s.best, t, n)]
        ELSE s
  IN FoldLeft(step, [count |-> 0, best |-> NoBest], log)

\* Whether the name is there, its id or the one it would have, and how many
\* entries there are.
Smaller(a, b) == IF a < b THEN a ELSE b
lfs_dir_fetchmatch(log, m, n) ==
  LET s == Scanned(log, n)
      best == IF m = s.best.id THEN [s.best EXCEPT !.found = FALSE]
              ELSE IF s.best # NoBest /\ m < s.best.id THEN [s.best EXCEPT !.id = @ - 1] ELSE s.best
  IN [found |-> best.found, id |-> Smaller(best.id, s.count), count |-> s.count]

-----------------------------------------------------------------------------
(* The calls.  A commit is appended, or the pair is compacted with it, or   *)
(* split.                                                                   *)

NoMove == 1024
MoveIn(p) == IF moving # None /\ moving.pair = p THEN moving.id ELSE NoMove
Find(p, n) == lfs_dir_fetchmatch(logs[p], MoveIn(p), n)
Counted == commits < MaxCommits /\ commits' = commits + 1

Entry(n) == [name |-> n, kind |-> "inline", data |-> "empty", attrs |-> [t \in AttrTypes |-> "gone"]]

\* now is what the entries are with the commit.
Commits(p, attrs, now) ==
  \/ /\ logs' = [logs EXCEPT ![p] = Appended(@, attrs)]
     /\ entries' = [entries EXCEPT ![p] = now]
  \/ /\ logs' = [logs EXCEPT ![p] = lfs_dir_compact(@, attrs, 0, Len(now))]
     /\ entries' = [entries EXCEPT ![p] = now]
  \/ /\ moving = None
     /\ \E q \in Pairs \ {p}, k \in 1 .. Len(now) - 1 :
          /\ logs[q] = <<>>
          /\ logs' = [logs EXCEPT ![p] = lfs_dir_compact(@, attrs, 0, k),
                                  ![q] = lfs_dir_compact(logs[p], attrs, k, Len(now))]
          /\ entries' = [entries EXCEPT ![p] = SubSeq(now, 1, k), ![q] = SubSeq(now, k + 1, Len(now))]

Room(p) == Len(entries[p]) < MaxEntries
Creates(p, n) ==
  LET found == Find(p, n)
  IN /\ moving = None /\ Counted /\ Room(p) /\ ~ found.found
     /\ Commits(p, <<Create(found.id), Name(found.id, n), Struct(found.id, "inline", "empty")>>,
                InsertAt(entries[p], found.id + 1, Entry(n)))
     /\ UNCHANGED moving

Removes(p, n) ==
  LET found == Find(p, n)
  IN /\ moving = None /\ Counted /\ found.found
     /\ Commits(p, <<Delete(found.id)>>, RemoveAt(entries[p], found.id + 1))
     /\ UNCHANGED moving

\* lfs_file_rawsync, with the file's user attributes or without.
Syncs(p, n, kind, d, attrs) ==
  LET found == Find(p, n)
      had == entries[p][found.id + 1].attrs
  IN /\ moving = None /\ Counted /\ found.found
     /\ Commits(p, <<Struct(found.id, kind, d)>> \o SetToSeq({Attr(found.id, t, d) : t \in attrs}),
                [entries[p] EXCEPT ![found.id + 1] =
                   [@ EXCEPT !.kind = kind, !.data = d, !.attrs = [t \in AttrTypes |-> IF t \in attrs THEN d ELSE had[t]]]])
     /\ UNCHANGED moving

\* lfs_commitattr
SetsAttr(p, n, t, d) ==
  LET found == Find(p, n)
  IN /\ moving = None /\ Counted /\ found.found
     /\ Commits(p, <<Attr(found.id, t, d)>>, [entries[p] EXCEPT ![found.id + 1].attrs[t] = d])
     /\ UNCHANGED moving

\* lfs_rawrename: the first commit, and of another pair the second.  What had the
\* new name is deleted.
IfTag(condition, t) == IF condition THEN <<t>> ELSE <<>>
Renames(p, n, q, new) ==
  LET old == Find(p, n)
      prev == Find(q, new)
      same == p = q
      oldid == IF same /\ ~ prev.found /\ prev.id <= old.id THEN old.id + 1 ELSE old.id
      moved == [entries[p][old.id + 1] EXCEPT !.name = new]
      without == IF prev.found THEN RemoveAt(entries[q], prev.id + 1) ELSE entries[q]
      with == InsertAt(without, prev.id + 1, moved)
  IN /\ moving = None /\ Counted /\ old.found
     /\ ~ (same /\ prev.found /\ prev.id = old.id)
     /\ same \/ prev.found \/ Room(q)
     /\ Commits(q, IfTag(prev.found, Delete(prev.id))
                     \o <<Create(prev.id), Name(prev.id, new), Move(prev.id, old.id, logs[p])>>
                     \o IfTag(same, Delete(oldid)),
                IF same THEN RemoveAt(with, oldid + 1) ELSE with)
     /\ moving' = IF same THEN None ELSE [pair |-> p, id |-> oldid]

\* lfs_fs_demove, or the end of lfs_rawrename.
Demoves ==
  /\ moving # None
  /\ \E way \in {Appended(logs[moving.pair], <<Delete(moving.id)>>),
                 lfs_dir_compact(logs[moving.pair], <<Delete(moving.id)>>, 0, Len(entries[moving.pair]) - 1)} :
       logs' = [logs EXCEPT ![moving.pair] = way]
  /\ entries' = [entries EXCEPT ![moving.pair] = RemoveAt(@, moving.id + 1)]
  /\ moving' = None /\ UNCHANGED commits

Init ==
  /\ logs = [p \in Pairs |-> <<>>] /\ entries = [p \in Pairs |-> <<>>]
  /\ moving = None /\ commits = 0

Next ==
  \/ \E p \in Pairs, n \in Names :
       \/ Creates(p, n) \/ Removes(p, n)
       \/ \E kind \in StructKinds, d \in Data, attrs \in SUBSET AttrTypes : Syncs(p, n, kind, d, attrs)
       \/ \E t \in AttrTypes, d \in Data \cup {"gone"} : SetsAttr(p, n, t, d)
       \/ \E q \in Pairs, new \in Names : Renames(p, n, q, new)
  \/ Demoves

Spec == Init /\ [][Next]_vars

-----------------------------------------------------------------------------
(* Properties *)

\* Tags are about ids in range, and an entry that is moved is there.
TypeOK ==
  /\ \A p \in Pairs : \A k \in 1 .. Len(logs[p]) :
       logs[p][k].id \in 0 .. MaxEntries /\ logs[p][k].type \in {"splice", "name", "struct", "attr"}
  /\ \A p \in Pairs : entries[p] \in Seq([name : Names, kind : StructKinds \cup {"inline"}, data : Data \cup {"empty"},
                                          attrs : [AttrTypes -> Data \cup {"gone"}]])
  /\ moving = None \/ moving.id < Len(entries[moving.pair])
  /\ commits \in 0 .. MaxCommits

\* What a caller sees of a pair: an entry that is being moved away is not there.
Listed(p) == IF MoveIn(p) = NoMove THEN entries[p] ELSE RemoveAt(entries[p], MoveIn(p) + 1)

\* lfs_dir_getslice gives of each entry the name, struct and attributes it was
\* given last, however its tags got where they are, and nothing of an entry
\* that is not there.
Got(p, type, chunk, id) == lfs_dir_getslice(logs[p], MoveIn(p), type, chunk, id)
Reads ==
  \A p \in Pairs : \A i \in 0 .. Len(Listed(p)) :
    LET e == Listed(p)[i + 1]
    IN IF i = Len(Listed(p)) THEN IsNoop(Got(p, "name", 0, i)) /\ IsNoop(Got(p, "struct", 0, i))
       ELSE /\ Got(p, "name", 0, i).val = e.name
            /\ Got(p, "struct", 0, i).chunk = e.kind /\ Got(p, "struct", 0, i).val = e.data
            /\ \A t \in AttrTypes :
                 LET a == Got(p, "attr", t, i) IN IF e.attrs[t] = "gone" THEN IsNoop(a) ELSE a.val = e.attrs[t]

\* lfs_dir_fetchmatch counts the entries, finds a name where it is and, when it
\* is not there, the place that keeps the entries sorted.
Finds ==
  \A p \in Pairs, n \in Names :
    LET listed == Listed(p)
        here == {i \in 1 .. Len(listed) : listed[i].name = n}
        less == {i \in 1 .. Len(listed) : listed[i].name < n}
    IN /\ Find(p, n).count = Len(entries[p])
       /\ Find(p, n).found <=> here # {}
       /\ Find(p, n).found => Find(p, n).id + 1 \in here
       /\ moving = None /\ ~ Find(p, n).found => Find(p, n).id = Cardinality(less)

\* Compaction leaves nothing of what was overwritten or deleted, but for a
\* removed attribute at the very end: a pair does not fill up with what no longer
\* counts.
Useful(e) == 2 + Cardinality({t \in AttrTypes : e.attrs[t] # "gone"})
NoWaste ==
  \A p \in Pairs :
    Len(lfs_dir_compact(logs[p], <<>>, 0, Len(entries[p])))
      <= FoldLeft(LAMBDA sum, e : sum + Useful(e), 1, entries[p])

\* The state is of its type, and what holds of a log after any commits: Reads,
\* Finds and NoWaste, each above.
TagsInv == TypeOK /\ Reads /\ Finds /\ NoWaste
=============================================================================
