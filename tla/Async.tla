------------------------------- MODULE Async -------------------------------
(***************************************************************************)
(* The cooperative task runtime of pico-phone/core/async.c.                *)
(*                                                                         *)
(* A task is a stack of function activations (a "task stack").  async_loop *)
(* repeatedly picks one stack, calls the function on its top, and files    *)
(* the stack according to the code the function returns.  Functions are    *)
(* the runtime's clients: while one runs it may call async_spawn,          *)
(* async_lock_try_acquire and async_lock_release any number of times, and  *)
(* it ends by returning one of the five codes.  Every such call, every     *)
(* return code and every way the loop picks a stack is an action here, so  *)
(* Spec is the runtime under an arbitrary client program.                  *)
(*                                                                         *)
(* Abstractions.                                                           *)
(*  - A stack is named by a member of Task, and of its frames only the     *)
(*    number is kept: a frame's func, line and data are private to the     *)
(*    function.  depth[t] = 0 means the name t is not in use.              *)
(*  - A wake time is kept relative to the clock, wake_time - now.  The code *)
(*    only ever takes differences (async_abs_time_diff) and adds durations *)
(*    to now (async_get_time_after), so nothing is lost.  An overdue entry *)
(*    is negative.  Null time is the integer below all of them.            *)
(*  - malloc is taken to succeed, as the code does.                        *)
(***************************************************************************)
EXTENDS Integers, Sequences, SequencesExt

CONSTANTS
  Task,         \* names for task stacks
  Lock,         \* the locks (struct async_lock_t)
  InitHeld,     \* locks that start as ASYNC_LOCK_INITIALIZE_HELD
  EventSource,  \* TRUE: a wait may return an evented stack (mock-backend);
                \* FALSE: it never does (platform/async_impl.c)
  MaxSleep,     \* bound: longest ASYNC_SLEEP, in ticks
  MaxLate,      \* bound: the clock does not run more than this past a wake time
  MaxDepth,     \* bound: frames on a stack
  NoTask,       \* NULL for a task stack
  NoLock        \* "not acquiring"

ASSUME AsyncAssumption ==
  /\ InitHeld \subseteq Lock
  /\ EventSource \in BOOLEAN
  /\ MaxSleep \in Nat /\ MaxLate \in Nat /\ MaxDepth \in Nat \ {0}
  /\ NoTask \notin Task /\ NoLock \notin Lock

VARIABLES
  phase,         \* where the processor is: "boot" (before async_loop), "pick"
                 \* (top of the loop), "run" (inside a function), "exited"
  schedule,      \* the list schedule, head first, of [wake, task]
  shortcut_task_stack,
  task_stack,    \* the global task_stack
  depth,         \* frames on each stack
  detached,      \* stacks that returned code 3 and are held by an event source
  held,          \* lock->held
  waiting_stacks,\* lock->waiting_stacks, index 0 of the array first
  \* What the clients know, kept to state properties of the locks:
  owns,          \* locks a task holds by its own account (it is past the
                 \* ASYNC_LOCK_ACQUIRE line, or try_acquire told it so)
  acquiring,     \* the lock of the ASYNC_LOCK_ACQUIRE a task is suspended at
  unadopted      \* InitHeld locks whose releasing task is not spawned yet

timers == <<schedule, shortcut_task_stack, task_stack, depth, detached>>
locks == <<held, waiting_stacks, owns, acquiring, unadopted>>
vars == <<phase, timers, locks>>

-----------------------------------------------------------------------------
(* Time (async_impl.c) *)

async_null_time == -1 - MaxLate
async_time_is_null(w) == w = async_null_time
async_get_time_after(d) == d
Bug_diff_swapped(from, to) == from - to
async_abs_time_diff(from, to) == to - from

WakeTime == async_null_time .. MaxSleep
Entry == [wake : WakeTime, task : Task]

(* The while loop of schedule_a_value walks on past an entry s[i] ... *)
WalksPast(s, i, w) ==
  \/ async_time_is_null(s[i].wake)
  \/ async_abs_time_diff(s[i].wake, w) >= 0

(* ... and stops at the first other one; a null time does not walk at all. *)
Bug_null_walks_on(s, w) == Len(s) + 1
InsertPos(s, w) ==
  IF async_time_is_null(w)
  THEN 1
  ELSE Min({i \in 1 .. Len(s) + 1 : i = Len(s) + 1 \/ ~ WalksPast(s, i, w)})

schedule_a_value(s, w, t) ==
  InsertAt(s, InsertPos(s, w), [wake |-> w, task |-> t])

-----------------------------------------------------------------------------
(* Calls a running function, or the code before async_loop, makes *)

Runs(t) == phase = "run" /\ task_stack = t

(* async_spawn.  A task spawned before the loop may take charge of locks   *)
(* that were initialised held (db_init's initial_load and db_lock).        *)
async_spawn(t, adopts) ==
  /\ phase \in {"boot", "run"}
  /\ depth[t] = 0
  /\ adopts \subseteq unadopted
  /\ depth' = [depth EXCEPT ![t] = 1]
  /\ schedule' = schedule_a_value(schedule, async_null_time, t)
  /\ owns' = [owns EXCEPT ![t] = adopts]
  /\ unadopted' = unadopted \ adopts
  /\ UNCHANGED <<phase, shortcut_task_stack, task_stack, detached,
                 held, waiting_stacks, acquiring>>

(* async_lock_try_acquire, when it returns true; false changes nothing.    *)
async_lock_try_acquire(t, l) ==
  /\ Runs(t)
  /\ ~ held[l]
  /\ held' = [held EXCEPT ![l] = TRUE]
  /\ owns' = [owns EXCEPT ![t] = @ \cup {l}]
  /\ UNCHANGED <<phase, timers, waiting_stacks, acquiring, unadopted>>

(* A release leaves the lock held when a waiter takes over, the one that   *)
(* has waited longest: tasks are put in at index 0 and taken off the end.  *)
Bug_freed_for_waiter(l) == FALSE
Bug_never_freed(l) == held[l]
StaysHeld(l) == held[l] /\ waiting_stacks[l] # <<>>

Bug_newest_waiter(stacks) == Head(stacks)
NextWaiter(stacks) == Last(stacks)

(* async_lock_release.  The clients only release what they hold.           *)
async_lock_release(t, l) ==
  /\ Runs(t)
  /\ l \in owns[t]
  /\ owns' = [owns EXCEPT ![t] = @ \ {l}]
  /\ held' = [held EXCEPT ![l] = StaysHeld(l)]
  /\ IF waiting_stacks[l] = <<>>
     THEN UNCHANGED <<schedule, waiting_stacks>>
     ELSE /\ waiting_stacks' = [waiting_stacks EXCEPT ![l] = Front(@)]
          /\ schedule' = schedule_a_value(schedule, async_null_time,
                                          NextWaiter(waiting_stacks[l]))
  /\ UNCHANGED <<phase, shortcut_task_stack, task_stack, depth, detached,
                 acquiring, unadopted>>

-----------------------------------------------------------------------------
(* The loop picks a stack and calls its top function *)

(* core() ends its initialisation by entering async_loop; by then a task    *)
(* has been spawned to release each lock that was initialised held.        *)
EnterLoop ==
  /\ phase = "boot"
  /\ unadopted = {}
  /\ phase' = "pick"
  /\ UNCHANGED <<timers, locks>>

(* The function on top of t is called; past an ASYNC_LOCK_ACQUIRE it goes  *)
(* on as the lock's owner.                                                 *)
CallTop(t) ==
  /\ phase' = "run"
  /\ task_stack' = t
  /\ owns' = [owns EXCEPT ![t] =
                IF acquiring[t] = NoLock THEN @ ELSE @ \cup {acquiring[t]}]
  /\ acquiring' = [acquiring EXCEPT ![t] = NoLock]
  /\ UNCHANGED <<depth, held, waiting_stacks, unadopted>>

PickShortcut ==
  /\ phase = "pick"
  /\ shortcut_task_stack # NoTask
  /\ shortcut_task_stack' = NoTask
  /\ CallTop(shortcut_task_stack)
  /\ UNCHANGED <<schedule, detached>>

(* The head of the schedule is popped without waiting when it has no wake  *)
(* time, or when async_wait_until_time_or_event timed out on it.           *)
PickScheduled ==
  /\ phase = "pick"
  /\ shortcut_task_stack = NoTask
  /\ schedule # <<>>
  /\ \/ async_time_is_null(Head(schedule).wake)
     \/ Head(schedule).wake <= 0
  /\ schedule' = Tail(schedule)
  /\ CallTop(Head(schedule).task)
  /\ UNCHANGED <<shortcut_task_stack, detached>>

(* An event leaves the entry that was being waited for on the schedule.    *)
Bug_head_discarded == IF schedule = <<>> THEN schedule ELSE Tail(schedule)
ScheduleAfterEvent == schedule

(* The wait, with or without a time limit, ended with an event for stack t *)
(* ... *)
Evented(t) ==
  /\ phase = "pick"
  /\ shortcut_task_stack = NoTask
  /\ schedule # <<>> => ~ async_time_is_null(Head(schedule).wake)
  /\ detached' = detached \ {t}
  /\ CallTop(t)
  /\ schedule' = ScheduleAfterEvent
  /\ UNCHANGED shortcut_task_stack

(* ... which the event source held. *)
PickEvented == EventSource /\ \E t \in detached : Evented(t)

(* async_wait_forever_for_event returned NULL. *)
LoopReturns ==
  /\ phase = "pick"
  /\ shortcut_task_stack = NoTask
  /\ schedule = <<>>
  /\ ~ EventSource
  /\ phase' = "exited"
  /\ UNCHANGED <<timers, locks>>

-----------------------------------------------------------------------------
(* The function returns *)

Bug_caller_assumed(t) == TRUE
HasCaller(t) == depth[t] > 1

(* Code 0, ASYNC_RETURN: the caller, if any, goes on at once.  The clients *)
(* end no task that still holds a lock.                                    *)
ReturnDone(t) ==
  /\ Runs(t)
  /\ depth[t] = 1 => owns[t] = {}
  /\ phase' = "pick"
  /\ depth' = [depth EXCEPT ![t] = @ - 1]
  /\ IF HasCaller(t)
     THEN shortcut_task_stack' = t /\ UNCHANGED task_stack
     ELSE task_stack' = NoTask /\ UNCHANGED shortcut_task_stack
  /\ UNCHANGED <<schedule, detached, locks>>

(* Code 1, ASYNC_SLEEP. *)
ReturnSleep(t, d) ==
  /\ Runs(t)
  /\ phase' = "pick"
  /\ schedule' = schedule_a_value(schedule, async_get_time_after(d), t)
  /\ UNCHANGED <<shortcut_task_stack, task_stack, depth, detached, locks>>

(* Code 2, ASYNC_AWAIT: the callee is pushed and called at once.           *)
ReturnAwait(t) ==
  /\ Runs(t)
  /\ depth[t] < MaxDepth
  /\ phase' = "pick"
  /\ depth' = [depth EXCEPT ![t] = @ + 1]
  /\ shortcut_task_stack' = t
  /\ UNCHANGED <<schedule, task_stack, detached, locks>>

(* Code 3, ASYNC_DETACH: the loop forgets the stack.                       *)
ReturnDetach(t) ==
  /\ Runs(t)
  /\ phase' = "pick"
  /\ detached' = detached \cup {t}
  /\ UNCHANGED <<schedule, shortcut_task_stack, task_stack, depth, locks>>

(* Code 4, ASYNC_LOCK_ACQUIRE.  The clients do not ask again for a lock    *)
(* they hold.                                                              *)
ReturnLockAcquire(t, l) ==
  /\ Runs(t)
  /\ l \notin owns[t]
  /\ phase' = "pick"
  /\ acquiring' = [acquiring EXCEPT ![t] = l]
  /\ IF ~ held[l]
     THEN /\ held' = [held EXCEPT ![l] = TRUE]
          /\ shortcut_task_stack' = t
          /\ UNCHANGED waiting_stacks
     ELSE /\ waiting_stacks' = [waiting_stacks EXCEPT ![l] = Cons(t, @)]
          /\ UNCHANGED <<held, shortcut_task_stack>>
  /\ UNCHANGED <<schedule, task_stack, depth, detached, owns, unadopted>>

-----------------------------------------------------------------------------
(* A tick of the clock, at any moment.  The bound MaxLate holds it back.   *)
Tick ==
  /\ \E i \in DOMAIN schedule : ~ async_time_is_null(schedule[i].wake)
  /\ \A i \in DOMAIN schedule :
       async_time_is_null(schedule[i].wake) \/ schedule[i].wake > - MaxLate
  /\ schedule' = [i \in DOMAIN schedule |->
                    IF async_time_is_null(schedule[i].wake)
                    THEN schedule[i]
                    ELSE [schedule[i] EXCEPT !.wake = @ - 1]]
  /\ UNCHANGED <<phase, shortcut_task_stack, task_stack, depth, detached, locks>>

Init ==
  /\ phase = "boot"
  /\ schedule = <<>>
  /\ shortcut_task_stack = NoTask
  /\ task_stack = NoTask
  /\ depth = [t \in Task |-> 0]
  /\ detached = {}
  /\ held = [l \in Lock |-> l \in InitHeld]
  /\ waiting_stacks = [l \in Lock |-> <<>>]
  /\ owns = [t \in Task |-> {}]
  /\ acquiring = [t \in Task |-> NoLock]
  /\ unadopted = InitHeld

Call(t) ==
  \/ \E adopts \in SUBSET InitHeld : async_spawn(t, adopts)
  \/ \E l \in Lock : async_lock_try_acquire(t, l) \/ async_lock_release(t, l)

Pick == PickShortcut \/ PickScheduled \/ PickEvented \/ LoopReturns

Return(t) ==
  \/ ReturnDone(t)
  \/ \E d \in 0 .. MaxSleep : ReturnSleep(t, d)
  \/ ReturnAwait(t)
  \/ ReturnDetach(t)
  \/ \E l \in Lock : ReturnLockAcquire(t, l)

Next == EnterLoop \/ Pick \/ Tick \/ \E t \in Task : Call(t) \/ Return(t)

Spec == Init /\ [][Next]_vars

-----------------------------------------------------------------------------
(* Properties *)

(* The types of the variables; while a function runs, task_stack is its    *)
(* stack.                                                                  *)
TypeOK ==
  /\ phase \in {"boot", "pick", "run", "exited"}
  /\ schedule \in Seq(Entry)
  /\ shortcut_task_stack \in Task \cup {NoTask}
  /\ task_stack \in Task \cup {NoTask}
  /\ phase = "run" => task_stack \in Task
  /\ depth \in [Task -> 0 .. MaxDepth]
  /\ detached \subseteq Task
  /\ held \in [Lock -> BOOLEAN]
  /\ waiting_stacks \in [Lock -> Seq(Task)]
  /\ owns \in [Task -> SUBSET Lock]
  /\ acquiring \in [Task -> Lock \cup {NoLock}]
  /\ unadopted \subseteq InitHeld

(* Where the stack t is referenced from. *)
WaitingAt(t) ==
  UNION {{l} \X {i \in DOMAIN waiting_stacks[l] : waiting_stacks[l][i] = t} : l \in Lock}

Places(t) ==
  ({"schedule"} \X {i \in DOMAIN schedule : schedule[i].task = t})
  \cup WaitingAt(t)
  \cup (IF shortcut_task_stack = t THEN {<<"shortcut", 0>>} ELSE {})
  \cup (IF t \in detached THEN {<<"detached", 0>>} ELSE {})
  \cup (IF Runs(t) THEN {<<"running", 0>>} ELSE {})

(* A live stack is referenced from exactly one place, so its wakeup is     *)
(* neither lost nor delivered twice, and a finished one (freed memory)     *)
(* from nowhere.  (async_loop hands the stack over on every return code.)  *)
EveryStackInOnePlace ==
  \A t \in Task :
    /\ \A p, q \in Places(t) : p = q
    /\ Places(t) # {} <=> depth[t] > 0

(* The schedule is in the order of wake times, null times first: looking   *)
(* at its head only, as async_loop does, overlooks nobody.                 *)
ScheduleSorted ==
  \A i, j \in DOMAIN schedule : i < j => schedule[i].wake <= schedule[j].wake

(* No two tasks are between their acquire and release of one lock.         *)
(* (async_lock_release hands the lock over with held still true.)          *)
MutualExclusion ==
  \A l \in Lock, t, u \in Task : l \in owns[t] /\ l \in owns[u] => t = u

(* The tasks that have been given lock l and did not give it back. *)
Claimants(l) ==
  {t \in Task : \/ l \in owns[t]
                \/ acquiring[t] = l /\ t \notin Range(waiting_stacks[l])}

(* A lock is held exactly while a live task has it or has been handed it,  *)
(* and tasks wait only for a held lock: a lock is neither leaked (all its  *)
(* waiters asleep forever) nor left free with waiters queued.              *)
LockAccounted ==
  \A l \in Lock :
    /\ held[l] <=> Claimants(l) # {} \/ l \in unadopted
    /\ \A t \in Claimants(l) : depth[t] > 0
    /\ waiting_stacks[l] # <<>> => held[l]

(* If async_loop returns, every task left is parked (detached, or waiting  *)
(* for a lock), and one that waits does so for a lock of a parked task.    *)
ExitStrandsOnlyParked ==
  LET Parked(t) == t \in detached \/ \E l \in Lock : t \in Range(waiting_stacks[l])
  IN  phase = "exited" =>
        \A t \in Task : depth[t] > 0 =>
          /\ Parked(t)
          /\ \A l \in Lock : t \in Range(waiting_stacks[l]) =>
               \E u \in Claimants(l) : Parked(u)

-----------------------------------------------------------------------------
(* What the runtime promises: module Coroutines. *)

Status(t) ==
  IF depth[t] = 0 THEN "absent"
  ELSE IF Runs(t) THEN "running"
  ELSE IF shortcut_task_stack = t THEN "continuing"
  ELSE IF t \in detached THEN "detached"
  ELSE IF \E l \in Lock : t \in Range(waiting_stacks[l]) THEN "blocked"
  ELSE IF t \notin Range([i \in DOMAIN schedule |-> schedule[i].task]) THEN "lost"
  ELSE IF [wake |-> async_null_time, task |-> t] \in Range(schedule) THEN "ready"
  ELSE "sleeping"

Due(t) ==
  IF Status(t) = "sleeping"
  THEN schedule[CHOOSE i \in DOMAIN schedule : schedule[i].task = t].wake
  ELSE 0

Coroutine == INSTANCE Coroutines WITH
  status <- [t \in Task |-> Status(t)],
  due    <- [t \in Task |-> Due(t)],
  taken  <- held,
  keeper <- [l \in Lock |-> Claimants(l)],
  lineup <- [l \in Lock |-> Reverse(waiting_stacks[l])]

(* async.c implements Coroutines: calls and returns inside a task do not   *)
(* yield the processor, ready tasks run before the loop waits, sleepers in *)
(* the order of their deadlines, and locks go to waiters in arrival order. *)
ImplementsCoroutines == Coroutine!Spec

=============================================================================
