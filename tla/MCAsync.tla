------------------------------ MODULE MCAsync ------------------------------
(***************************************************************************)
(* Async for TLC, on both platforms: on the mock a wait may return a       *)
(* detached stack, on the Pico it never does, and the loop may come to an  *)
(* end.  The two differ in these actions only.  Task names are             *)
(* interchangeable.                                                        *)
(***************************************************************************)
EXTENDS Async

VARIABLE on_pico

Pico == INSTANCE Async WITH EventSource <- FALSE

Stays == UNCHANGED on_pico

MCInit == Init /\ on_pico \in BOOLEAN
MCNext ==
  \/ EnterLoop /\ Stays
  \/ PickShortcut /\ Stays
  \/ PickScheduled /\ Stays
  \/ ~ on_pico /\ PickEvented /\ Stays
  \/ on_pico /\ Pico!LoopReturns /\ Stays
  \/ Tick /\ Stays
  \/ \E t \in Task :
       \/ \E adopts \in SUBSET InitHeld : async_spawn(t, adopts) /\ Stays
       \/ \E l \in Lock : async_lock_try_acquire(t, l) /\ Stays
       \/ \E l \in Lock : async_lock_release(t, l) /\ Stays
       \/ ReturnDone(t) /\ Stays
       \/ \E d \in 0 .. MaxSleep : ReturnSleep(t, d) /\ Stays
       \/ ReturnAwait(t) /\ Stays
       \/ ReturnDetach(t) /\ Stays
       \/ \E l \in Lock : ReturnLockAcquire(t, l) /\ Stays
MCSpec == MCInit /\ [][MCNext]_<<vars, on_pico>>

TaskSymmetry == Permutations(Task)

=============================================================================
