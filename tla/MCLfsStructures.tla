-------------------------- MODULE MCLfsStructures --------------------------
(***************************************************************************)
(* Three structures that littlefs keeps in its blocks, which share no      *)
(* state: the tags of two metadata pairs, the skip list of a file, and a   *)
(* directory of up to three pairs with its reader; of the latter one part  *)
(* is about what is read, one about seeking.  `part` says which structure  *)
(* a behaviour is about, and the state of the others stays as it is.       *)
(***************************************************************************)
EXTENDS LfsTags, LfsCtzWriter, TLC

CONSTANTS mdirA, mdirB, dir1, dir2, dir3
TwoPairs == {mdirA, mdirB}
Alike == Permutations(TwoPairs) \cup Permutations({dir1, dir2, dir3})

VARIABLES
  part,
  root, chain, reader, last, seen, stable, told, changes     \* of LfsDirRead
readVars == <<root, chain, reader, last, seen, stable, told, changes>>
mcVars == <<part, vars, writerVars, readVars>>

Once == INSTANCE LfsDirRead WITH
  Names <- 1 .. 3, Pairs <- {dir1, dir2, dir3}, MaxChanges <- 4, EdgeBefore <- TRUE, EdgeReuse <- FALSE
Seek == INSTANCE LfsDirRead WITH
  Names <- 1 .. 3, Pairs <- {dir1, dir2, dir3}, MaxChanges <- 4, EdgeBefore <- FALSE, EdgeReuse <- FALSE
ASSUME PartsAssumption == Once!ReadAssumption /\ Seek!ReadAssumption

NoCtz == d = << >> /\ head = 0 /\ size = 0 /\ used = << >> /\ write = 0
NoRead ==
  /\ root = FALSE /\ chain = << >> /\ reader = 0 /\ last = 0 /\ seen = {} /\ stable = {}
  /\ told = 0 /\ changes = 0
MCInit ==
  \/ part = "tags" /\ Init /\ NoCtz /\ NoRead
  \/ part = "ctz" /\ Init /\ WriterInit /\ NoRead
  \/ part = "once" /\ Init /\ NoCtz /\ Once!Init
  \/ part = "seek" /\ Init /\ NoCtz /\ Seek!Init
MCNext ==
  \/ part = "tags" /\ Next /\ UNCHANGED <<part, writerVars, readVars>>
  \/ part = "ctz" /\ Continue /\ UNCHANGED <<part, vars, readVars>>
  \/ part = "ctz" /\ (\E b \in Free : Extend(b)) /\ UNCHANGED <<part, vars, readVars>>
  \/ part = "once" /\ Once!Next /\ UNCHANGED <<part, vars, writerVars>>
  \/ part = "seek" /\ Seek!Next /\ UNCHANGED <<part, vars, writerVars>>
MCSpec == MCInit /\ [][MCNext]_mcVars

\* Whatever is committed to the pairs, a reader of their tags gets it right
\* (LfsTags, TagsInv).
TagsRight == part = "tags" => TagsInv

\* An entry that stays while the directory is read is read once, and the reader
\* is where its position says (LfsDirRead, ReadsOnce and TellIsPlace).
ReadsRight ==
  CASE part = "once" -> Once!TypeOK /\ Once!ReadsOnce
    [] part = "seek" -> Seek!TellIsPlace
    [] OTHER -> TRUE

\* lfs_dir_seek to what lfs_dir_tell gave finds the same entry again (LfsDirRead,
\* SeekFinds).
SeekFinds == [][part = "seek" => Seek!Finds]_mcVars
=============================================================================
