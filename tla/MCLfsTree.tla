----------------------------- MODULE MCLfsTree -----------------------------
(***************************************************************************)
(* LfsTree on a disk of ten or so blocks, from trees that littlefs lays    *)
(* out: two directories, the list in either order, one of them of two      *)
(* pairs.  `part` says which, as the calls are those that suit the tree; a  *)
(* behaviour of the parts "live", "nested" and "repair" is one that        *)
(* littlefs does not abandon.                                              *)
(***************************************************************************)
EXTENDS LfsTree

VARIABLE part
mcVars == <<vars, part>>

Lay(list) ==
  [b \in Blocks |->
     LET k == {i \in DOMAIN list : list[i].block = b}
     IN IF k = {} THEN Blank ELSE LET e == list[CHOOSE i \in k : TRUE] IN
        [rev |-> 2, ents |-> e.ents, tail |-> e.tail, split |-> e.split, delta |-> e.delta]]
At(block, ents, tail, split) == [block |-> block, ents |-> ents, tail |-> tail, split |-> split, delta |-> {}]
\* An earlier rename leaves its move in the two pairs it committed to.
After(move, at) == [at EXCEPT !.delta = {move}]
RootEnts(dirs) == SUPERBLOCK :> File("superblock") @@ dirs

\* /1 and /2, of which /1 holds a file or two; another once went to /2 and
\* was removed there.
TwoDirs(files, first, second) ==
  Lay(<<At(0, RootEnts(1 :> Dir(<<2, 3>>) @@ 2 :> Dir(<<4, 5>>)), first, FALSE),
        After(Move(0, <<2, 3>>), At(2, files, IF first = <<2, 3>> THEN second ELSE NullPair, FALSE)),
        After(Move(0, <<2, 3>>), At(4, NoEntries, IF first = <<4, 5>> THEN second ELSE NullPair, FALSE))>>)
OneFile == 1 :> File("f")
TwoFiles == 1 :> File("f") @@ 2 :> File("g")
SmallTrees == {TwoDirs(OneFile, <<2, 3>>, <<4, 5>>), TwoDirs(OneFile, <<4, 5>>, <<2, 3>>),
               TwoDirs(TwoFiles, <<2, 3>>, <<4, 5>>), TwoDirs(TwoFiles, <<4, 5>>, <<2, 3>>)}

SmallCalls ==
  {[op |-> "create", path |-> <<1, 3>>, what |-> "h"],
   [op |-> "mkdir", path |-> <<3>>], [op |-> "mkdir", path |-> <<1, 3>>],
   [op |-> "remove", path |-> <<1, 1>>], [op |-> "remove", path |-> <<2>>],
   [op |-> "rename", path |-> <<1, 1>>, to |-> <<2, 1>>],
   [op |-> "rename", path |-> <<1, 1>>, to |-> <<1, 2>>],
   [op |-> "rename", path |-> <<2>>, to |-> <<1, 3>>],
   [op |-> "rename", path |-> <<1>>, to |-> <<2>>]}

\* One of each kind, of those that take several commits.
LiveCalls ==
  {[op |-> "mkdir", path |-> <<1, 3>>], [op |-> "remove", path |-> <<2>>],
   [op |-> "rename", path |-> <<1, 1>>, to |-> <<2, 1>>], [op |-> "rename", path |-> <<2>>, to |-> <<1, 3>>]}

\* /1 is of two pairs; the file in the second came from /2.
LongTrees ==
  {Lay(<<At(0, RootEnts(1 :> Dir(<<2, 3>>) @@ 2 :> Dir(<<4, 5>>)), IF late THEN <<4, 5>> ELSE <<2, 3>>, FALSE),
         At(2, 2 :> File("f"), <<6, 7>>, TRUE),
         After(Move(0, <<4, 5>>), At(6, 4 :> File("g"), IF late THEN NullPair ELSE <<4, 5>>, FALSE)),
         After(Move(0, <<4, 5>>), At(4, NoEntries, IF late THEN <<2, 3>> ELSE NullPair, FALSE))>>) : late \in BOOLEAN}
LongCalls ==
  {[op |-> "mkdir", path |-> <<1, 1>>], [op |-> "create", path |-> <<1, 1>>, what |-> "h"],
   [op |-> "remove", path |-> <<1, 4>>], [op |-> "remove", path |-> <<1, 2>>],
   [op |-> "rename", path |-> <<1, 4>>, to |-> <<2, 1>>],
   [op |-> "rename", path |-> <<1, 4>>, to |-> <<1, 2>>]}

\* The edges, each with the calls that reach it.
MoveFile == {[op |-> "rename", path |-> <<1, 1>>, to |-> <<2, 1>>]}
MoveDirectory == {[op |-> "rename", path |-> <<2>>, to |-> <<1, 3>>], [op |-> "mkdir", path |-> <<3>>]}
MakeDirectory == {[op |-> "mkdir", path |-> <<1, 3>>], [op |-> "remove", path |-> <<2>>]}
MoveAndCreate == MoveFile \cup {[op |-> "create", path |-> <<3>>, what |-> "h"]}
CrowdedTrees ==
  {Lay(<<At(0, RootEnts(1 :> Dir(<<2, 3>>) @@ 2 :> Dir(<<4, 5>>)), <<2, 3>>, FALSE),
         At(2, 1 :> File("f") @@ 2 :> File("g") @@ 3 :> Dir(<<6, 7>>), <<6, 7>>, FALSE),
         At(6, NoEntries, <<4, 5>>, FALSE), At(4, NoEntries, NullPair, FALSE)>>)}

\* /1 holds /1/1 and /1/2.  When /1/1 moves, and then /1, the list is wrong
\* about /1/1; when repairing that moves /1/2, and then /1 again, the repair
\* has to start over.
NestedTrees ==
  {Lay(<<At(0, RootEnts(1 :> Dir(<<2, 3>>)), <<2, 3>>, FALSE),
         At(2, 1 :> Dir(<<4, 5>>) @@ 2 :> Dir(<<6, 7>>), IF late THEN <<6, 7>> ELSE <<4, 5>>, FALSE),
         At(4, 1 :> File("f"), IF late THEN NullPair ELSE <<6, 7>>, FALSE),
         At(6, NoEntries, IF late THEN <<4, 5>> ELSE NullPair, FALSE)>>) : late \in BOOLEAN}
NestedCalls ==
  {[op |-> "create", path |-> <<1, 1, 2>>, what |-> "h"], [op |-> "remove", path |-> <<1, 1, 1>>],
   [op |-> "remove", path |-> <<1, 2>>], [op |-> "mkdir", path |-> <<1, 3>>]}

RepairCalls == {[op |-> "remove", path |-> <<1, 2>>]}
\* In the part "repair" blocks wear out while what a power loss left is repaired.
Worn == INSTANCE LfsTree WITH EdgeRepairs <- TRUE

\* In the part "nested" there is one call, in the others two; in it and in
\* "repair" blocks wear out as often as may be, in the others twice.
MCInit ==
  /\ part \in {"small", "long", "live", "nested", "repair"}
  /\ disk \in [small |-> SmallTrees, long |-> LongTrees, live |-> SmallTrees, nested |-> NestedTrees,
              repair |-> NestedTrees][part]
  /\ InitRam /\ seen = Amounts
  /\ bound = [calls |-> IF part = "nested" THEN MaxCalls - 1 ELSE 0, crashes |-> 0,
              relocations |-> IF part \in {"nested", "repair"} THEN 0 ELSE MaxRelocations - 2]
MCCalls == [small |-> SmallCalls, long |-> LongCalls, live |-> LiveCalls, nested |-> NestedCalls,
            repair |-> RepairCalls][part]
Same == UNCHANGED part /\ seen' = Amounts'
Proceeds == IF part = "repair" THEN Worn!Continues ELSE Continues
MCNext ==
  \/ Proceeds /\ Same
  \/ PowerLoss /\ Same
  \/ \E c \in MCCalls : Begins(c) /\ Same
Fair == part \in {"live", "nested", "repair"}
MCSpec == MCInit /\ [][MCNext]_mcVars /\ WF_store(Fair /\ Proceeds)

(* A call returns, however often it has to repair or to relocate           *)
(* (lfs_fs_deorphan starts over, lfs_dir_orphaningcommit loops).           *)
CallsReturn == (Fair /\ todo # << >>) ~> todo = << >>
=============================================================================
