----------------------------- MODULE MCLfsFile -----------------------------
(***************************************************************************)
(* Two devices, which share no behaviour: on one a single file is open and *)
(* clients do all they can to it; the other, Two, is smaller, has two      *)
(* files and loses power.  `part` says which one a behaviour is about.     *)
(***************************************************************************)
EXTENDS LfsFile, TLC

CONSTANTS file1, file2
VARIABLE part
mcVars == <<vars, part>>

MCOpens == {{"RDONLY", "WRONLY"}}
MCOpensAll == {{"WRONLY", "CREAT"}, {"WRONLY", "APPEND"}, {"WRONLY", "CREAT", "EXCL"}, {"WRONLY", "TRUNC"}}
MCSeeks == {<<"SET", 0>>, <<"CUR", 1>>, <<"CUR", -1>>, <<"END", 2>>}

Two == INSTANCE LfsFile WITH
  Files <- {file1, file2}, MetaBlocks <- {0, 1, 2}, BadBlocks <- {7}, InitSizes <- {7}, Opens <- MCOpensAll,
  Reads <- {}, Writes <- {6}, Seeks <- {<<"SET", 3>>}, Truncates <- {1}, MaxCrashes <- 1,
  EdgeOutlines <- FALSE
ASSUME TwoAssumption == Two!CtzAssumption /\ Two!FileAssumption
FilesAlike == Permutations({file1, file2})

MCInit == (part = "one" /\ Init) \/ (part = "two" /\ Two!Init)
MCNext ==
  \/ part = "one" /\ Next /\ UNCHANGED part
  \/ part = "two" /\ Two!Next /\ UNCHANGED part
MCSpec == MCInit /\ [][MCNext]_mcVars

(* On both devices each file is at every moment what it was last synced as *)
(* (LfsFile, SyncedIntact), and the state is of its type.                  *)
FilesIntact == IF part = "one" THEN TypeOK /\ SyncedIntact ELSE Two!TypeOK /\ Two!SyncedIntact

(* On both devices the allocator hands out only blocks that no committed   *)
(* and no open file has, and gives up only when there was none to hand out *)
(* (LfsFile, Allocates).                                                   *)
BlocksAllocatedRight == [][IF part = "one" THEN Allocates ELSE Two!Allocates]_mcVars
=============================================================================
