----------------------------- MODULE Coroutines -----------------------------
(***************************************************************************)
(* What pico-phone/core/async.c promises the tasks it runs: one processor, *)
(* shared cooperatively, and fair locks.  Each task has a status; where    *)
(* the runtime keeps it is not said here.                                  *)
(***************************************************************************)
EXTENDS Integers, Sequences

CONSTANTS Task, Lock, InitHeld, MaxSleep, MaxLate

VARIABLES
  status,   \* of each task
  due,      \* a sleeping task's deadline, relative to now; 0 for the others
  taken,    \* is the lock taken?
  keeper,   \* the set of tasks that have the lock: at most one
  lineup    \* tasks blocked on the lock, first come first

vars == <<status, due, taken, keeper, lineup>>

Are(s) == {t \in Task : status[t] = s}

Become(t, s) == status' = [status EXCEPT ![t] = s]

Init ==
  /\ status = [t \in Task |-> "absent"]
  /\ due = [t \in Task |-> 0]
  /\ taken = [l \in Lock |-> l \in InitHeld]
  /\ keeper = [l \in Lock |-> {}]
  /\ lineup = [l \in Lock |-> <<>>]

(* A new task is ready at once.  It may be given locks nobody keeps yet.   *)
Spawn(t) ==
  /\ status[t] = "absent"
  /\ Become(t, "ready")
  /\ \E adopts \in SUBSET {l \in InitHeld : taken[l] /\ keeper[l] = {}} :
       keeper' = [l \in Lock |-> IF l \in adopts THEN {t} ELSE keeper[l]]
  /\ UNCHANGED <<due, taken, lineup>>

(* The processor goes to a task that only made a call or a return, else to *)
(* a ready one, else to an event's task or the sleeper with the earliest   *)
(* deadline, not before that deadline.                                     *)
Resume(t) ==
  /\ Are("running") = {}
  /\ \/ status[t] = "continuing"
     \/ Are("continuing") = {} /\ status[t] = "ready"
     \/ Are("continuing") \cup Are("ready") = {} /\ status[t] = "detached"
     \/ /\ Are("continuing") \cup Are("ready") = {}
        /\ status[t] = "sleeping" /\ due[t] <= 0
        /\ \A u \in Are("sleeping") : due[t] <= due[u]
  /\ Become(t, "running")
  /\ due' = [due EXCEPT ![t] = 0]
  /\ UNCHANGED <<taken, keeper, lineup>>

(* ASYNC_AWAIT, or ASYNC_RETURN to a caller. *)
Proceed(t) ==
  /\ status[t] = "running"
  /\ Become(t, "continuing")
  /\ UNCHANGED <<due, taken, keeper, lineup>>

Finish(t) ==
  /\ status[t] = "running"
  /\ \A l \in Lock : t \notin keeper[l]
  /\ Become(t, "absent")
  /\ UNCHANGED <<due, taken, keeper, lineup>>

Sleep(t) ==
  /\ status[t] = "running"
  /\ Become(t, "sleeping")
  /\ \E d \in 0 .. MaxSleep : due' = [due EXCEPT ![t] = d]
  /\ UNCHANGED <<taken, keeper, lineup>>

Detach(t) ==
  /\ status[t] = "running"
  /\ Become(t, "detached")
  /\ UNCHANGED <<due, taken, keeper, lineup>>

(* A free lock is taken on the spot, whether the task can wait or not ... *)
Take(t, l) ==
  /\ status[t] = "running"
  /\ ~ taken[l]
  /\ taken' = [taken EXCEPT ![l] = TRUE]
  /\ keeper' = [keeper EXCEPT ![l] = {t}]
  /\ UNCHANGED status \/ Become(t, "continuing")
  /\ UNCHANGED <<due, lineup>>

(* ... and a taken one is waited for in line. *)
LineUp(t, l) ==
  /\ status[t] = "running"
  /\ taken[l] /\ t \notin keeper[l]
  /\ Become(t, "blocked")
  /\ lineup' = [lineup EXCEPT ![l] = Append(@, t)]
  /\ UNCHANGED <<due, taken, keeper>>

(* A released lock goes straight to the head of its line. *)
Release(t, l) ==
  /\ status[t] = "running"
  /\ keeper[l] = {t}
  /\ IF lineup[l] = <<>>
     THEN /\ taken' = [taken EXCEPT ![l] = FALSE]
          /\ keeper' = [keeper EXCEPT ![l] = {}]
          /\ UNCHANGED <<status, lineup>>
     ELSE /\ keeper' = [keeper EXCEPT ![l] = {Head(lineup[l])}]
          /\ lineup' = [lineup EXCEPT ![l] = Tail(@)]
          /\ Become(Head(lineup[l]), "ready")
          /\ UNCHANGED taken
  /\ UNCHANGED due

Tick ==
  /\ \A t \in Are("sleeping") : due[t] > - MaxLate
  /\ due' = [t \in Task |-> IF status[t] = "sleeping" THEN due[t] - 1 ELSE due[t]]
  /\ UNCHANGED <<status, taken, keeper, lineup>>

Next ==
  \/ Tick
  \/ \E t \in Task :
       \/ Spawn(t) \/ Resume(t) \/ Proceed(t) \/ Finish(t) \/ Sleep(t) \/ Detach(t)
       \/ \E l \in Lock : Take(t, l) \/ LineUp(t, l) \/ Release(t, l)

Spec == Init /\ [][Next]_vars

=============================================================================
