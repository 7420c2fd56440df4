------------------------------ MODULE MCLfsLog ------------------------------
(***************************************************************************)
(* Two disks for a metadata pair, which share no behaviour: on one any     *)
(* commit may meet a bad block or a loss of power; on the other a pair is  *)
(* written to until it has moved, and the revisions have started over.     *)
(* `part` says which.                                                      *)
(***************************************************************************)
EXTENDS LfsLog

VARIABLE part
mcVars == <<vars, part>>

Wear == INSTANCE LfsLog WITH
  Blocks <- 0 .. 4, Units <- 2, RevCount <- 16, BlockCycles <- 3, BadBlocks <- {},
  AppendSizes <- {1}, CompactSizes <- {2}, InitRevs <- {14}, TornRevs <- {9},
  MaxCommits <- 20, MaxCrashes <- 1, MaxAge <- 7
ASSUME PartsAssumption == Wear!LogAssumption

MCInit ==
  \/ part = "log" /\ Init
  \/ part = "wear" /\ Wear!Init
MCNext ==
  \/ part = "log" /\ Next /\ UNCHANGED part
  \/ part = "wear" /\ Wear!Next /\ UNCHANGED part
MCSpec == MCInit /\ [][MCNext]_mcVars

\* The parts' invariants: types, mdirs that are current (TypeOK, HandleIsCurrent),
\* and on the second disk both blocks of the pair moving on (BothBlocksMove).
LogInv ==
  CASE part = "log" -> TypeOK /\ HandleIsCurrent
    [] part = "wear" -> Wear!HandleIsCurrent /\ Wear!BothBlocksMove

\* Whatever the writes, the worn blocks and the losses of power: what a mount
\* finds is what the last commit that took effect wrote, all of it; a commit
\* that returned without an error has taken effect.
Content0 == IF part = "wear" THEN Wear!Content ELSE Content
MCRecord == INSTANCE LfsRecord WITH value <- Content0, asked <- IF call = Idle THEN Nothing ELSE call.to
Implements == MCRecord!Spec
=============================================================================
