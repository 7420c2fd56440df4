---------------------------- MODULE AsyncProofs ----------------------------
(***************************************************************************)
(* Proofs about Async, for every set of tasks and locks and every bound.   *)
(*                                                                         *)
(* Two inductive invariants carry them.  PlaceInv says where the stacks    *)
(* are: no stack is in two places, and those in some place are exactly the *)
(* ones with frames.  It makes TypeOK inductive (a function that returns   *)
(* code 0 has a frame to drop) and gives EveryStackInOnePlace.  LockInv,   *)
(* on top of it, says who has each lock, and gives MutualExclusion and     *)
(* LockAccounted.  ScheduleSorted is inductive by itself: the whole proof  *)
(* is that schedule_a_value keeps a sorted list sorted.                    *)
(***************************************************************************)
EXTENDS Async, BasicLemmas

(* The stacks a schedule refers to; no stack twice; ordered by wake time.  *)
TasksOf(s) == {s[i].task : i \in DOMAIN s}
DistinctTasks(s) == \A i, j \in DOMAIN s : s[i].task = s[j].task => i = j
Sorted(s) == \A i, j \in DOMAIN s : i < j => s[i].wake <= s[j].wake

(* Wake times are integers, and null time is below all the others.         *)
LEMMA WakeTimes ==
  /\ async_null_time \in Int /\ async_null_time \in WakeTime
  /\ async_null_time < 0 /\ async_null_time = - 1 - MaxLate
  /\ 0 .. MaxSleep \subseteq WakeTime
  /\ WakeTime \subseteq Int /\ \A w \in WakeTime : async_null_time <= w
  BY AsyncAssumption DEF AsyncAssumption, async_null_time, WakeTime

(* The fields of the entries of a schedule.                                *)
LEMMA EntryFacts ==
  ASSUME NEW s \in Seq(Entry)
  PROVE  /\ Len(s) \in Nat /\ DOMAIN s = 1 .. Len(s)
         /\ \A i \in 1 .. Len(s) : /\ s[i].wake \in WakeTime /\ s[i].wake \in Int
                                   /\ async_null_time <= s[i].wake
                                   /\ s[i].task \in Task
  <1>1. Len(s) \in Nat /\ DOMAIN s = 1 .. Len(s)
    OBVIOUS
  <1>2. \A i \in 1 .. Len(s) : s[i] \in Entry
    BY ElementOfSeq
  <1>3. \A e \in Entry : e.wake \in WakeTime /\ e.task \in Task
    BY DEF Entry
  <1>4. QED BY <1>1, <1>2, <1>3, WakeTimes

(* The walk of schedule_a_value stops at a position where what is before   *)
(* wakes no later and, in a sorted schedule, what is from it on no         *)
(* earlier.                                                                *)
LEMMA InsertPosFacts ==
  ASSUME NEW s \in Seq(Entry), NEW w \in WakeTime
  PROVE  /\ InsertPos(s, w) \in 1 .. Len(s) + 1
         /\ \A i \in 1 .. Len(s) : i < InsertPos(s, w) => s[i].wake <= w
         /\ Sorted(s) => \A i \in 1 .. Len(s) : i >= InsertPos(s, w) => w <= s[i].wake
  <1>1. /\ Len(s) \in Nat /\ DOMAIN s = 1 .. Len(s)
        /\ \A i \in 1 .. Len(s) : s[i].wake \in Int /\ async_null_time <= s[i].wake
        /\ w \in Int /\ async_null_time \in Int /\ async_null_time <= w
    BY EntryFacts, WakeTimes
  <1>2. CASE w = async_null_time
    <2>1. InsertPos(s, w) = 1
      BY <1>2 DEF InsertPos, async_time_is_null
    <2>2. Len(s) \in Nat
      OBVIOUS
    <2>3. QED BY <1>1, <1>2, <2>1, <2>2, WakeTimes
  <1>3. CASE w # async_null_time
    <2> DEFINE P == {i \in 1 .. Len(s) + 1 : i = Len(s) + 1 \/ ~ WalksPast(s, i, w)}
               p == Min(P)
    <2>1. P \in SUBSET Nat /\ Len(s) + 1 \in P
      BY <1>1
    <2>2. InsertPos(s, w) = p
      BY <1>3 DEF InsertPos, async_time_is_null
    <2>3. p \in P /\ \A i \in P : p <= i
      BY <2>1, MinIsLeast
    <2>4. \A i \in 1 .. Len(s) : WalksPast(s, i, w) <=> s[i].wake <= w
      BY <1>1 DEF WalksPast, async_time_is_null, async_abs_time_diff
    <2> HIDE DEF p
    <2>5. \A i \in 1 .. Len(s) : i < p => s[i].wake <= w
      BY <2>1, <2>3, <2>4
    <2>6. p <= Len(s) => w <= s[p].wake
      BY <2>1, <2>3, <2>4, <1>1
    <2>7. Sorted(s) => \A i \in 1 .. Len(s) : i >= p => w <= s[i].wake
      <3> SUFFICES ASSUME Sorted(s), NEW i \in 1 .. Len(s), i >= p
                   PROVE  w <= s[i].wake
        OBVIOUS
      <3>1. p \in 1 .. Len(s)
        BY <2>1, <2>3
      <3>2. s[p].wake <= s[i].wake
        BY <3>1, <1>1 DEF Sorted
      <3>3. QED BY <2>6, <3>1, <3>2, <1>1
    <2>8. QED BY <2>1, <2>2, <2>3, <2>5, <2>7
  <1>4. QED BY <1>2, <1>3

(* schedule_a_value adds one stack to the schedule and nothing else, and   *)
(* keeps the schedule free of repetitions and sorted.                      *)
LEMMA ScheduleAValue ==
  ASSUME NEW s \in Seq(Entry), NEW w \in WakeTime, NEW t \in Task
  PROVE  LET r == schedule_a_value(s, w, t)
         IN  /\ r \in Seq(Entry)
             /\ TasksOf(r) = TasksOf(s) \cup {t}
             /\ DistinctTasks(s) /\ t \notin TasksOf(s) => DistinctTasks(r)
             /\ Sorted(s) => Sorted(r)
  <1> DEFINE p == InsertPos(s, w)
             e == [wake |-> w, task |-> t]
             r == schedule_a_value(s, w, t)
             n == Len(s)
  <1>1. e \in Entry /\ e.wake = w /\ e.task = t
    BY DEF Entry
  <1>2. /\ p \in 1 .. n + 1 /\ n \in Nat
        /\ \A i \in 1 .. n : i < p => s[i].wake <= w
        /\ Sorted(s) => \A i \in 1 .. n : i >= p => w <= s[i].wake
    BY InsertPosFacts
  <1>3. r = InsertAt(s, p, e)
    BY DEF schedule_a_value
  <1> HIDE DEF p, e, r
  <1>4. /\ r \in Seq(Entry) /\ Len(r) = n + 1
        /\ r[p] = e
        /\ \A j \in 1 .. p - 1 : r[j] = s[j]
        /\ \A j \in p + 1 .. n + 1 : r[j] = s[j - 1]
    <2>1. p \in 1 .. Len(s) + 1
      BY <1>2
    <2>2. /\ InsertAt(s, p, e) \in Seq(Entry)
          /\ Len(InsertAt(s, p, e)) = Len(s) + 1
          /\ InsertAt(s, p, e)[p] = e
          /\ \A j \in 1 .. p - 1 : InsertAt(s, p, e)[j] = s[j]
          /\ \A j \in p + 1 .. Len(s) + 1 : InsertAt(s, p, e)[j] = s[j - 1]
      BY <1>1, <2>1, InsertAtFacts
    <2>3. QED BY <1>3, <2>2
  <1>5. DOMAIN r = 1 .. n + 1 /\ DOMAIN s = 1 .. n
    BY <1>4
  <1>6. \A j \in 1 .. n : s[j].wake \in Int
    BY EntryFacts
  <1> HIDE DEF n
  <1> DEFINE from(j) == IF j < p THEN j ELSE j - 1
  <1>7. \A j \in 1 .. n + 1 : j # p => from(j) \in 1 .. n /\ r[j] = s[from(j)]
    BY <1>2, <1>4
  <1>8. r[p] = e
    BY <1>2, <1>4
  <1>9. TasksOf(r) = TasksOf(s) \cup {t}
    <2>1. \A i \in 1 .. n : \E j \in 1 .. n + 1 : r[j] = s[i]
      <3> TAKE i \in 1 .. n
      <3>1. CASE i < p
        <4>1. i \in 1 .. n + 1 /\ r[i] = s[i]
          BY <3>1, <1>2, <1>4
        <4>2. QED BY <4>1
      <3>2. CASE i >= p
        <4>1. i + 1 \in 1 .. n + 1 /\ r[i + 1] = s[i + 1 - 1] /\ i + 1 - 1 = i
          BY <3>2, <1>2, <1>4
        <4>2. QED BY <4>1
      <3>3. QED BY <3>1, <3>2, <1>2
    <2>2. TasksOf(r) \subseteq TasksOf(s) \cup {t}
      BY <1>1, <1>5, <1>7, <1>8 DEF TasksOf
    <2>3. TasksOf(s) \subseteq TasksOf(r)
      BY <2>1, <1>5 DEF TasksOf
    <2>4. t \in TasksOf(r)
      BY <1>1, <1>2, <1>5, <1>8 DEF TasksOf
    <2>5. QED BY <2>2, <2>3, <2>4
  <1>10. ASSUME DistinctTasks(s), t \notin TasksOf(s)  PROVE DistinctTasks(r)
    <2> SUFFICES ASSUME NEW i \in 1 .. n + 1, NEW j \in 1 .. n + 1,
                        r[i].task = r[j].task
                 PROVE  i = j
      BY <1>5 DEF DistinctTasks
    <2>1. \A k \in 1 .. n : s[k].task # t
      BY <1>10, <1>5 DEF TasksOf
    <2>2. CASE i = p \/ j = p
      BY <2>1, <2>2, <1>1, <1>7, <1>8
    <2>3. CASE i # p /\ j # p
      <3>1. from(i) = from(j)
        BY <2>3, <1>5, <1>7, <1>10 DEF DistinctTasks
      <3>2. QED BY <3>1, <2>3, <1>2
    <2>4. QED BY <2>2, <2>3
  <1>11. ASSUME Sorted(s)  PROVE Sorted(r)
    <2> SUFFICES ASSUME NEW i \in 1 .. n + 1, NEW j \in 1 .. n + 1, i < j
                 PROVE  r[i].wake <= r[j].wake
      BY <1>5 DEF Sorted
    <2>1. CASE i = p
      <3>1. j # p /\ from(j) >= p
        BY <2>1, <1>2
      <3>2. w <= s[from(j)].wake
        BY <3>1, <1>2, <1>7, <1>11
      <3>3. QED BY <3>1, <3>2, <2>1, <1>1, <1>7, <1>8
    <2>2. CASE j = p
      <3>1. i # p /\ from(i) < p
        BY <2>2, <1>2
      <3>2. QED BY <3>1, <2>2, <1>1, <1>2, <1>7, <1>8
    <2>3. CASE i # p /\ j # p
      <3>1. from(i) < from(j)
        BY <2>3, <1>2
      <3>2. QED BY <3>1, <2>3, <1>5, <1>7, <1>11 DEF Sorted
    <2>4. QED BY <2>1, <2>2, <2>3
  <1>12. QED BY <1>4, <1>9, <1>10, <1>11 DEF r

-----------------------------------------------------------------------------

(* Where the stacks are. *)
Queued == TasksOf(schedule)
Blocked(l) == Range(waiting_stacks[l])

(* No stack is in two places. *)
PlacedOnce ==
  /\ DistinctTasks(schedule)
  /\ \A l \in Lock : IsInjective(waiting_stacks[l])
  /\ \A t \in Task :
       /\ t \in Queued =>
            /\ t \notin detached /\ shortcut_task_stack # t /\ ~ Runs(t)
            /\ \A l \in Lock : t \notin Blocked(l)
       /\ t \in detached =>
            /\ shortcut_task_stack # t /\ ~ Runs(t)
            /\ \A l \in Lock : t \notin Blocked(l)
       /\ shortcut_task_stack = t \/ Runs(t) => \A l \in Lock : t \notin Blocked(l)
       /\ \A l, m \in Lock : t \in Blocked(l) /\ t \in Blocked(m) => l = m
  /\ phase = "run" => shortcut_task_stack = NoTask

(* The stacks in some place are the ones that have frames. *)
LiveIsPlaced ==
  \A t \in Task : depth[t] > 0 <=> \/ t \in Queued \/ t \in detached
                                   \/ shortcut_task_stack = t \/ Runs(t)
                                   \/ \E l \in Lock : t \in Blocked(l)

PlaceInv == TypeOK /\ PlacedOnce /\ LiveIsPlaced

(* The same, for a step that sets schedule by schedule_a_value.            *)
LEMMA ScheduleReady ==
  ASSUME TypeOK, NEW t \in Task, NEW w \in WakeTime,
         schedule' = schedule_a_value(schedule, w, t)
  PROVE  /\ schedule' \in Seq(Entry)
         /\ Queued' = Queued \cup {t}
         /\ DistinctTasks(schedule) /\ t \notin Queued => DistinctTasks(schedule')
  BY ScheduleAValue DEF TypeOK, Queued

(* How putting a waiter in and taking the oldest one out changes the set   *)
(* of waiters.                                                             *)
LEMMA WaitersFacts ==
  ASSUME NEW s \in Seq(Task)
  PROVE  /\ Range(s) \subseteq Task
         /\ s = <<>> <=> Range(s) = {}
         /\ \A t \in Task : /\ Cons(t, s) \in Seq(Task)
                            /\ Range(Cons(t, s)) = Range(s) \cup {t}
                            /\ IsInjective(s) /\ t \notin Range(s) => IsInjective(Cons(t, s))
         /\ s # <<>> => /\ Front(s) \in Seq(Task) /\ Last(s) \in Range(s)
                        /\ Range(s) = Range(Front(s)) \cup {Last(s)}
                        /\ IsInjective(s) => /\ IsInjective(Front(s))
                                             /\ Last(s) \notin Range(Front(s))
  <1>1. Len(s) \in Nat /\ DOMAIN s = 1 .. Len(s) /\ \A i \in 1 .. Len(s) : s[i] \in Task
    BY ElementOfSeq
  <1>2. Range(s) \subseteq Task
    BY <1>1 DEF Range
  <1>3. s = <<>> <=> Range(s) = {}
    <2>1. ASSUME s # <<>>  PROVE s[1] \in Range(s)
      <3>1. Len(s) > 0
        BY <2>1
      <3>2. QED BY <3>1, <1>1 DEF Range
    <2>2. ASSUME s = <<>>  PROVE Range(s) = {}
      BY <2>2 DEF Range
    <2>3. QED BY <2>1, <2>2
  <1>4. ASSUME NEW t \in Task
        PROVE  /\ Cons(t, s) \in Seq(Task)
               /\ Range(Cons(t, s)) = Range(s) \cup {t}
               /\ IsInjective(s) /\ t \notin Range(s) => IsInjective(Cons(t, s))
    <2> DEFINE c == Cons(t, s)
    <2>1. /\ c \in Seq(Task) /\ Len(c) = Len(s) + 1 /\ DOMAIN c = 1 .. Len(s) + 1
          /\ \A j \in 1 .. Len(s) + 1 : c[j] = IF j = 1 THEN t ELSE s[j - 1]
      BY ConsFacts
    <2> HIDE DEF c
    <2>2. \A i \in 1 .. Len(s) : i + 1 \in 1 .. Len(s) + 1 /\ c[i + 1] = s[i]
      BY <2>1, <1>1
    <2>3. c[1] = t /\ 1 \in 1 .. Len(s) + 1
      BY <2>1, <1>1
    <2>4. \A j \in 1 .. Len(s) + 1 : j # 1 => j - 1 \in 1 .. Len(s) /\ c[j] = s[j - 1]
      BY <2>1, <1>1
    <2>5. Range(c) = Range(s) \cup {t}
      <3>1. Range(c) \subseteq Range(s) \cup {t}
        BY <2>1, <2>3, <2>4, <1>1 DEF Range
      <3>2. Range(s) \subseteq Range(c)
        BY <2>1, <2>2, <1>1 DEF Range
      <3>3. t \in Range(c)
        BY <2>1, <2>3 DEF Range
      <3>4. QED BY <3>1, <3>2, <3>3
    <2>6. ASSUME IsInjective(s), t \notin Range(s)  PROVE IsInjective(c)
      <3> SUFFICES ASSUME NEW i \in 1 .. Len(s) + 1, NEW j \in 1 .. Len(s) + 1, c[i] = c[j]
                   PROVE  i = j
        BY <2>1 DEF IsInjective
      <3>1. \A k \in 1 .. Len(s) : s[k] # t
        BY <2>6, <1>1 DEF Range
      <3>2. CASE i = 1 \/ j = 1
        BY <3>1, <3>2, <2>3, <2>4
      <3>3. CASE i # 1 /\ j # 1
        <4>1. i - 1 = j - 1
          BY <3>3, <2>4, <2>6, <1>1 DEF IsInjective
        <4>2. QED BY <4>1
      <3>4. QED BY <3>2, <3>3
    <2>7. QED BY <2>1, <2>5, <2>6 DEF c
  <1>5. ASSUME s # <<>>
        PROVE  /\ Front(s) \in Seq(Task) /\ Last(s) \in Range(s)
               /\ Range(s) = Range(Front(s)) \cup {Last(s)}
               /\ IsInjective(s) => /\ IsInjective(Front(s))
                                    /\ Last(s) \notin Range(Front(s))
    <2> DEFINE f == Front(s)
    <2>0. Len(s) \in Nat
      BY <1>1
    <2>1. /\ f \in Seq(Task) /\ Len(f) = Len(s) - 1 /\ DOMAIN f = 1 .. Len(s) - 1
          /\ \A j \in 1 .. Len(s) - 1 : f[j] = s[j]
          /\ Last(s) = s[Len(s)] /\ Len(s) \in 1 .. Len(s)
      BY <1>5, FrontFacts
    <2> HIDE DEF f
    <2>2. Range(s) = Range(f) \cup {Last(s)} /\ Last(s) \in Range(s)
      <3>1. \A j \in 1 .. Len(s) : j # Len(s) => j \in 1 .. Len(s) - 1
        BY <2>0
      <3>2. \A j \in 1 .. Len(s) - 1 : j \in 1 .. Len(s) /\ j # Len(s)
        BY <2>0
      <3>3. QED BY <1>1, <2>1, <3>1, <3>2 DEF Range
    <2>3. ASSUME IsInjective(s)  PROVE IsInjective(f) /\ Last(s) \notin Range(f)
      <3>1. \A j \in 1 .. Len(s) - 1 : j \in 1 .. Len(s) /\ j # Len(s)
        BY <2>0
      <3>2. IsInjective(f)
        BY <1>1, <2>1, <2>3, <3>1 DEF IsInjective
      <3>3. \A j \in 1 .. Len(s) - 1 : f[j] # s[Len(s)]
        BY <1>1, <2>1, <2>3, <3>1 DEF IsInjective
      <3>4. QED BY <2>1, <3>2, <3>3 DEF Range
    <2>4. QED BY <2>1, <2>2, <2>3 DEF f
  <1>6. QED BY <1>2, <1>3, <1>4, <1>5

(* Popping the head of the schedule removes that stack and no other.       *)
LEMMA TailEntries ==
  ASSUME TypeOK, schedule # <<>>, schedule' = Tail(schedule)
  PROVE  /\ schedule' \in Seq(Entry)
         /\ Head(schedule).task \in Task
         /\ Queued = Queued' \cup {Head(schedule).task}
         /\ DistinctTasks(schedule) => /\ DistinctTasks(schedule')
                                       /\ Head(schedule).task \notin Queued'
  <1> DEFINE s == schedule
             r == Tail(s)
             n == Len(s)
  <1>1. s \in Seq(Entry) /\ s # <<>>
    BY DEF TypeOK
  <1>2. /\ r \in Seq(Entry) /\ Len(r) = n - 1 /\ DOMAIN r = 1 .. n - 1
        /\ \A j \in 1 .. n - 1 : r[j] = s[j + 1]
        /\ Head(s) = s[1] /\ n \in Nat \ {0} /\ DOMAIN s = 1 .. n
    BY <1>1, TailFacts
  <1>3. s[1].task \in Task
    BY <1>1, <1>2, EntryFacts
  <1> HIDE DEF r, s, n
  <1>4. \A j \in 1 .. n - 1 : j + 1 \in 1 .. n /\ j + 1 # 1
    BY <1>2
  <1>5. \A j \in 1 .. n : j # 1 => j - 1 \in 1 .. n - 1 /\ r[j - 1] = s[j]
    BY <1>2
  <1>6. 1 \in 1 .. n
    BY <1>2
  <1>7. TasksOf(s) = TasksOf(r) \cup {s[1].task}
    <2>1. TasksOf(s) \subseteq TasksOf(r) \cup {s[1].task}
      <3>1. ASSUME NEW j \in 1 .. n, j # 1  PROVE s[j].task \in TasksOf(r)
        <4>1. j - 1 \in DOMAIN r /\ r[j - 1].task = s[j].task
          BY <3>1, <1>2, <1>5
        <4>2. QED BY <4>1 DEF TasksOf
      <3>2. QED BY <3>1, <1>2 DEF TasksOf
    <2>2. TasksOf(r) \subseteq TasksOf(s)
      BY <1>2, <1>4 DEF TasksOf
    <2>3. s[1].task \in TasksOf(s)
      BY <1>2, <1>6 DEF TasksOf
    <2>4. QED BY <2>1, <2>2, <2>3
  <1>8. ASSUME DistinctTasks(s)  PROVE DistinctTasks(r) /\ s[1].task \notin TasksOf(r)
    <2>1. ASSUME NEW i \in 1 .. n - 1, NEW j \in 1 .. n - 1, r[i].task = r[j].task
          PROVE  i = j
      <3>1. s[i + 1].task = s[j + 1].task /\ i + 1 \in DOMAIN s /\ j + 1 \in DOMAIN s
        BY <2>1, <1>2, <1>4
      <3>2. i + 1 = j + 1
        BY <3>1, <1>8 DEF DistinctTasks
      <3>3. QED BY <3>2
    <2>2. \A j \in 1 .. n - 1 : r[j].task # s[1].task
      BY <1>2, <1>4, <1>6, <1>8, ZenonT(30) DEF DistinctTasks
    <2>3. QED BY <2>1, <2>2, <1>2 DEF DistinctTasks, TasksOf
  <1>9. QED BY <1>2, <1>3, <1>7, <1>8 DEF r, s, Queued

-----------------------------------------------------------------------------

(* A tick moves all timed entries alike: it leaves the stacks, and the     *)
(* order, as they are.                                                     *)
LEMMA TickEntries ==
  ASSUME TypeOK, Tick
  PROVE  /\ schedule' \in Seq(Entry)
         /\ Queued' = Queued
         /\ DistinctTasks(schedule) => DistinctTasks(schedule')
         /\ Sorted(schedule) => Sorted(schedule')
  <1> DEFINE s == schedule
             r == schedule'
             n == Len(s)
  <1>1. /\ s \in Seq(Entry) /\ n \in Nat /\ DOMAIN s = 1 .. n
        /\ \A i \in 1 .. n : s[i] \in Entry
        /\ \A i \in 1 .. n : s[i].wake \in Int /\ async_null_time <= s[i].wake
    BY EntryFacts, ElementOfSeq DEF TypeOK
  <1>2. r = [i \in 1 .. n |-> IF s[i].wake = async_null_time
                              THEN s[i] ELSE [s[i] EXCEPT !.wake = @ - 1]]
    BY <1>1 DEF Tick, async_time_is_null
  <1>3. \A i \in 1 .. n : s[i].wake = async_null_time \/ s[i].wake > - MaxLate
    BY <1>1 DEF Tick, async_time_is_null
  <1> HIDE DEF s, r
  <1>4. ASSUME NEW i \in 1 .. n
        PROVE  /\ r[i] \in Entry /\ r[i].task = s[i].task
               /\ r[i].wake = IF s[i].wake = async_null_time THEN s[i].wake ELSE s[i].wake - 1
    <2>1. CASE s[i].wake = async_null_time
      BY <2>1, <1>1, <1>2
    <2>2. CASE s[i].wake # async_null_time
      <3>1. r[i] = [s[i] EXCEPT !.wake = @ - 1] /\ s[i] \in Entry
        BY <2>2, <1>1, <1>2
      <3>2. s[i].wake \in WakeTime /\ s[i].wake - 1 \in WakeTime
        <4>1. s[i].wake \in WakeTime
          BY <3>1 DEF Entry
        <4>2. s[i].wake > - MaxLate /\ MaxLate \in Nat /\ MaxSleep \in Nat
          BY <2>2, <1>3, AsyncAssumption DEF AsyncAssumption
        <4>3. QED BY <4>1, <4>2 DEF WakeTime, async_null_time
      <3>3. QED BY <2>2, <3>1, <3>2 DEF Entry
    <2>3. QED BY <2>1, <2>2
  <1>5. r \in Seq(Entry) /\ DOMAIN r = 1 .. n
    BY <1>1, <1>2, <1>4
  <1>6. TasksOf(r) = TasksOf(s)
    BY <1>1, <1>4, <1>5 DEF TasksOf
  <1>7. DistinctTasks(s) => DistinctTasks(r)
    BY <1>1, <1>4, <1>5 DEF DistinctTasks
  <1>8. ASSUME Sorted(s)  PROVE Sorted(r)
    <2> SUFFICES ASSUME NEW i \in 1 .. n, NEW j \in 1 .. n, i < j
                 PROVE  r[i].wake <= r[j].wake
      BY <1>5 DEF Sorted
    <2>1. s[i].wake <= s[j].wake
      BY <1>1, <1>8 DEF Sorted
    <2>2. /\ s[i].wake \in Int /\ s[j].wake \in Int
          /\ async_null_time <= s[i].wake /\ async_null_time <= s[j].wake
          /\ async_null_time = - 1 - MaxLate /\ MaxLate \in Nat
      BY <1>1, WakeTimes, AsyncAssumption DEF AsyncAssumption
    <2>3. s[j].wake = async_null_time \/ s[j].wake > - MaxLate
      BY <1>3
    <2>4. QED BY <1>4, <2>1, <2>2, <2>3
  <1>9. QED BY <1>5, <1>6, <1>7, <1>8 DEF s, r, Queued

(* PlaceInv holds initially, when there are no stacks.                     *)
LEMMA InitPlace == Init => PlaceInv
  <1> SUFFICES ASSUME Init  PROVE PlaceInv
    OBVIOUS
  <1>1. TypeOK
    BY AsyncAssumption DEF AsyncAssumption, Init, TypeOK
  <1>2. Queued = {} /\ \A l \in Lock : Blocked(l) = {}
    BY DEF Init, Queued, Blocked, TasksOf, Range
  <1>3. PlacedOnce
    <2>1. DistinctTasks(schedule) /\ \A l \in Lock : IsInjective(waiting_stacks[l])
      BY DEF Init, DistinctTasks, IsInjective
    <2>2. QED BY <1>2, <2>1, AsyncAssumption DEF AsyncAssumption, PlacedOnce, Init, Runs
  <1>4. LiveIsPlaced
    BY <1>2, AsyncAssumption DEF AsyncAssumption, LiveIsPlaced, Init, Runs
  <1>5. QED BY <1>1, <1>3, <1>4 DEF PlaceInv

(* async_spawn files a new stack, which was nowhere before.                *)
LEMMA SpawnPlace ==
  ASSUME PlaceInv, NEW t \in Task, NEW adopts, async_spawn(t, adopts)
  PROVE  PlaceInv'
  <1> USE DEF PlaceInv
  <1>1. /\ schedule' \in Seq(Entry) /\ Queued' = Queued \cup {t}
        /\ DistinctTasks(schedule) /\ t \notin Queued => DistinctTasks(schedule')
    BY ScheduleReady, WakeTimes DEF async_spawn
  <1>2. TypeOK'
    BY <1>1, AsyncAssumption DEF AsyncAssumption, TypeOK, async_spawn
  <1>3. /\ depth \in [Task -> 0 .. MaxDepth] /\ depth[t] = 0
        /\ depth' = [depth EXCEPT ![t] = 1]
        /\ \A l \in Lock : Blocked(l)' = Blocked(l)
        /\ \A u \in Task : Runs(u)' <=> Runs(u)
    BY DEF TypeOK, async_spawn, Blocked, Runs
  <1>4. ~ (t \in Queued \/ t \in detached \/ shortcut_task_stack = t \/ Runs(t)
           \/ \E l \in Lock : t \in Blocked(l))
    BY <1>3 DEF LiveIsPlaced
  <1>5. PlacedOnce'
    BY <1>1, <1>3, <1>4 DEF PlacedOnce, async_spawn
  <1>6. LiveIsPlaced'
    BY <1>1, <1>3 DEF LiveIsPlaced, async_spawn
  <1>7. QED BY <1>2, <1>5, <1>6

(* async_lock_release moves the oldest waiter to the schedule.             *)
LEMMA ReleasePlace ==
  ASSUME PlaceInv, NEW t \in Task, NEW l \in Lock, async_lock_release(t, l)
  PROVE  PlaceInv'
  <1> USE DEF PlaceInv
  <1> DEFINE ws == waiting_stacks[l]
             u == Last(ws)
  <1>1. waiting_stacks \in [Lock -> Seq(Task)] /\ ws \in Seq(Task)
    BY DEF TypeOK
  <1>2. CASE ws = <<>>
    <2>1. UNCHANGED <<schedule, waiting_stacks, phase, shortcut_task_stack,
                      task_stack, depth, detached>>
      BY <1>2 DEF async_lock_release
    <2>2. UNCHANGED <<Queued>> /\ \A m \in Lock : Blocked(m)' = Blocked(m)
      BY <2>1 DEF Queued, Blocked
    <2>3. TypeOK'
      BY <2>1, <2>2 DEF TypeOK, async_lock_release, StaysHeld
    <2>4. PlacedOnce' /\ LiveIsPlaced'
      BY <2>1, <2>2 DEF PlacedOnce, LiveIsPlaced, Runs
    <2>5. QED BY <2>3, <2>4
  <1>3. CASE ws # <<>>
    <2>1. /\ Front(ws) \in Seq(Task) /\ u \in Blocked(l) /\ u \in Task
          /\ Blocked(l) = Range(Front(ws)) \cup {u}
          /\ IsInjective(Front(ws)) /\ u \notin Range(Front(ws))
      BY <1>1, <1>3, WaitersFacts DEF PlacedOnce, Blocked
    <2>2. /\ waiting_stacks' = [waiting_stacks EXCEPT ![l] = Front(ws)]
          /\ schedule' = schedule_a_value(schedule, async_null_time, u)
          /\ UNCHANGED <<phase, shortcut_task_stack, task_stack, depth, detached>>
      BY <1>1, <1>3 DEF async_lock_release, NextWaiter
    <2> HIDE DEF ws, u
    <2>3. /\ schedule' \in Seq(Entry) /\ Queued' = Queued \cup {u}
          /\ DistinctTasks(schedule) /\ u \notin Queued => DistinctTasks(schedule')
      BY <2>1, <2>2, ScheduleReady, WakeTimes
    <2>4. TypeOK'
      <3>1. /\ held' \in [Lock -> BOOLEAN] /\ owns' \in [Task -> SUBSET Lock]
            /\ acquiring' = acquiring /\ unadopted' = unadopted
        BY DEF TypeOK, async_lock_release, StaysHeld
      <3>2. QED BY <3>1, <2>1, <2>2, <2>3 DEF TypeOK
    <2>5. /\ Blocked(l)' = Range(Front(ws))
          /\ \A m \in Lock : m # l => Blocked(m)' = Blocked(m)
          /\ \A m \in Lock : Blocked(m)' \subseteq Blocked(m)
      BY <1>1, <2>1, <2>2 DEF Blocked
    <2>6. \A v \in Task : Runs(v)' <=> Runs(v)
      BY <2>2 DEF Runs
    <2>7. /\ u \notin Queued /\ u \notin detached /\ shortcut_task_stack # u
          /\ ~ Runs(u) /\ \A m \in Lock : u \notin Blocked(m)'
      BY <2>1, <2>5 DEF PlacedOnce
    <2>8. PlacedOnce'
      <3>1. DistinctTasks(schedule')
        BY <2>3, <2>7 DEF PlacedOnce
      <3>2. \A m \in Lock : IsInjective(waiting_stacks'[m])
        BY <1>1, <2>1, <2>2 DEF PlacedOnce
      <3>3. QED BY <3>1, <3>2, <2>2, <2>3, <2>5, <2>6, <2>7 DEF PlacedOnce
    <2>9. LiveIsPlaced'
      BY <2>1, <2>2, <2>3, <2>5, <2>6 DEF LiveIsPlaced
    <2>10. QED BY <2>4, <2>8, <2>9
  <1>4. QED BY <1>2, <1>3

(* What calling the top of a stack changes, and what it leaves alone.      *)
LEMMA CallPlace ==
  ASSUME PlaceInv, NEW t \in Task, CallTop(t), phase = "pick"
  PROVE  /\ \A l \in Lock : Blocked(l)' = Blocked(l)
         /\ \A u \in Task : ~ Runs(u) /\ (Runs(u)' <=> u = t)
         /\ owns' \in [Task -> SUBSET Lock]
         /\ acquiring' \in [Task -> Lock \cup {NoLock}]
         /\ UNCHANGED <<depth, held, waiting_stacks, unadopted>>
         /\ phase' = "run" /\ task_stack' = t
  BY DEF PlaceInv, TypeOK, CallTop, Blocked, Runs

(* Each way the loop picks a stack takes it from the place it was in.      *)
LEMMA PickPlace ==
  ASSUME PlaceInv, Pick
  PROVE  PlaceInv'
  <1> USE DEF PlaceInv
  <1>1. CASE PickShortcut
    <2> DEFINE t == shortcut_task_stack
    <2>1. /\ t \in Task /\ phase = "pick" /\ CallTop(t)
          /\ shortcut_task_stack' = NoTask /\ UNCHANGED <<schedule, detached>>
      BY <1>1 DEF PickShortcut, TypeOK
    <2>2. Queued' = Queued
      BY <2>1 DEF Queued
    <2>3. TypeOK'
      BY <2>1, CallPlace DEF TypeOK
    <2>4. PlacedOnce'
      BY <2>1, <2>2, CallPlace, AsyncAssumption DEF AsyncAssumption, PlacedOnce
    <2>5. LiveIsPlaced'
      BY <2>1, <2>2, CallPlace, AsyncAssumption DEF AsyncAssumption, LiveIsPlaced
    <2>6. QED BY <2>3, <2>4, <2>5
  <1>2. CASE PickScheduled
    <2> DEFINE t == Head(schedule).task
    <2>1. /\ schedule # <<>> /\ phase = "pick" /\ CallTop(t)
          /\ schedule' = Tail(schedule) /\ shortcut_task_stack = NoTask
          /\ UNCHANGED <<shortcut_task_stack, detached>>
      BY <1>2 DEF PickScheduled
    <2>2. /\ schedule' \in Seq(Entry) /\ t \in Task /\ Queued = Queued' \cup {t}
          /\ DistinctTasks(schedule) => DistinctTasks(schedule') /\ t \notin Queued'
      BY <2>1, TailEntries
    <2> HIDE DEF t
    <2>3. TypeOK'
      BY <2>1, <2>2, CallPlace DEF TypeOK
    <2>4. PlacedOnce'
      BY <2>1, <2>2, CallPlace, AsyncAssumption DEF AsyncAssumption, PlacedOnce
    <2>5. LiveIsPlaced'
      BY <2>1, <2>2, CallPlace, AsyncAssumption DEF AsyncAssumption, LiveIsPlaced
    <2>6. QED BY <2>3, <2>4, <2>5
  <1>3. CASE PickEvented
    <2>1. PICK t \in detached : detached' = detached \ {t} /\ CallTop(t)
      BY <1>3 DEF PickEvented, Evented
    <2>2. /\ t \in Task /\ phase = "pick" /\ shortcut_task_stack = NoTask
          /\ UNCHANGED <<schedule, shortcut_task_stack>>
      BY <1>3 DEF PickEvented, Evented, ScheduleAfterEvent, TypeOK
    <2>3. Queued' = Queued
      BY <2>2 DEF Queued
    <2>4. TypeOK'
      BY <2>1, <2>2, CallPlace DEF TypeOK
    <2>5. PlacedOnce'
      BY <2>1, <2>2, <2>3, CallPlace, AsyncAssumption DEF AsyncAssumption, PlacedOnce
    <2>6. LiveIsPlaced'
      BY <2>1, <2>2, <2>3, CallPlace, AsyncAssumption DEF AsyncAssumption, LiveIsPlaced
    <2>7. QED BY <2>4, <2>5, <2>6
  <1>4. CASE LoopReturns
    BY <1>4 DEF LoopReturns, timers, locks, TypeOK, PlacedOnce, LiveIsPlaced,
                Runs, Queued, Blocked
  <1>5. QED BY <1>1, <1>2, <1>3, <1>4 DEF Pick

(* The running stack is nowhere else, has a frame, and no other runs.      *)
LEMMA RunningTask ==
  ASSUME PlaceInv, NEW t \in Task, Runs(t)
  PROVE  /\ depth[t] \in 1 .. MaxDepth /\ MaxDepth \in Nat /\ phase = "run" /\ task_stack = t
         /\ shortcut_task_stack = NoTask /\ NoTask \notin Task
         /\ t \notin Queued /\ t \notin detached
         /\ \A l \in Lock : t \notin Blocked(l)
         /\ \A u \in Task : Runs(u) <=> u = t
  <1>1. depth[t] \in 0 .. MaxDepth /\ depth[t] > 0 /\ MaxDepth \in Nat
    BY AsyncAssumption DEF AsyncAssumption, PlaceInv, TypeOK, LiveIsPlaced
  <1>2. depth[t] \in 1 .. MaxDepth
    BY <1>1
  <1>3. QED BY <1>1, <1>2, AsyncAssumption
            DEF AsyncAssumption, PlaceInv, PlacedOnce, TypeOK, Runs

(* Each return code files the running stack in one place, or frees it.     *)
LEMMA ReturnPlace ==
  ASSUME PlaceInv, NEW t \in Task, Return(t)
  PROVE  PlaceInv'
  <1> USE DEF PlaceInv
  <1>1. /\ Runs(t) /\ phase' = "pick" /\ \A u \in Task : ~ Runs(u)'
        /\ waiting_stacks \in [Lock -> Seq(Task)]
        /\ depth \in [Task -> 0 .. MaxDepth]
    BY DEF Return, ReturnDone, ReturnSleep, ReturnAwait, ReturnDetach,
           ReturnLockAcquire, Runs, TypeOK
  <1>2. /\ depth[t] \in 1 .. MaxDepth /\ MaxDepth \in Nat /\ phase = "run" /\ task_stack = t
        /\ shortcut_task_stack = NoTask /\ NoTask \notin Task
        /\ t \notin Queued /\ t \notin detached
        /\ \A l \in Lock : t \notin Blocked(l)
        /\ \A u \in Task : Runs(u) <=> u = t
    BY <1>1, RunningTask
  <1>3. CASE ReturnDone(t)
    <2>1. /\ UNCHANGED <<schedule, detached, waiting_stacks, held, owns,
                         acquiring, unadopted, Queued>>
          /\ \A l \in Lock : Blocked(l)' = Blocked(l)
          /\ depth' = [depth EXCEPT ![t] = @ - 1]
      BY <1>3 DEF ReturnDone, locks, Queued, Blocked
    <2>2. \/ depth[t] > 1 /\ shortcut_task_stack' = t /\ UNCHANGED task_stack
          \/ /\ depth[t] = 1 /\ task_stack' = NoTask
             /\ shortcut_task_stack' = NoTask
      BY <1>2, <1>3 DEF ReturnDone, HasCaller
    <2>3. depth' \in [Task -> 0 .. MaxDepth]
      <3>1. depth[t] - 1 \in 0 .. MaxDepth
        BY <1>2
      <3>2. QED BY <1>1, <2>1, <3>1
    <2>4. TypeOK'
      BY <1>1, <1>2, <2>1, <2>2, <2>3 DEF TypeOK
    <2>5. PlacedOnce'
      BY <1>1, <1>2, <2>1, <2>2 DEF PlacedOnce
    <2>6. depth'[t] = depth[t] - 1 /\ \A u \in Task : u # t => depth'[u] = depth[u]
      BY <1>1, <2>1
    <2>7. LiveIsPlaced'
      BY <1>1, <1>2, <2>1, <2>2, <2>6 DEF LiveIsPlaced
    <2>8. QED BY <2>4, <2>5, <2>7
  <1>4. ASSUME NEW d \in 0 .. MaxSleep, ReturnSleep(t, d)  PROVE PlaceInv'
    <2>1. /\ UNCHANGED <<shortcut_task_stack, task_stack, depth, detached,
                         waiting_stacks, held, owns, acquiring, unadopted>>
          /\ \A l \in Lock : Blocked(l)' = Blocked(l)
          /\ schedule' = schedule_a_value(schedule, d, t)
      BY <1>4 DEF ReturnSleep, locks, Blocked, async_get_time_after
    <2>2. d \in WakeTime
      BY WakeTimes
    <2>3. /\ schedule' \in Seq(Entry) /\ Queued' = Queued \cup {t}
          /\ DistinctTasks(schedule')
      BY <1>2, <2>1, <2>2, ScheduleReady DEF PlacedOnce
    <2>4. TypeOK'
      BY <1>1, <2>1, <2>3 DEF TypeOK
    <2>5. PlacedOnce'
      BY <1>1, <1>2, <2>1, <2>3 DEF PlacedOnce
    <2>6. LiveIsPlaced'
      BY <1>1, <1>2, <2>1, <2>3 DEF LiveIsPlaced
    <2>7. QED BY <2>4, <2>5, <2>6
  <1>5. CASE ReturnAwait(t)
    <2>1. /\ UNCHANGED <<schedule, task_stack, detached, waiting_stacks, held,
                         owns, acquiring, unadopted, Queued>>
          /\ \A l \in Lock : Blocked(l)' = Blocked(l)
          /\ depth' = [depth EXCEPT ![t] = @ + 1] /\ shortcut_task_stack' = t
          /\ depth[t] < MaxDepth
      BY <1>5 DEF ReturnAwait, locks, Queued, Blocked
    <2>2. depth[t] + 1 \in 1 .. MaxDepth
      BY <1>2, <2>1
    <2>3. /\ depth' \in [Task -> 0 .. MaxDepth] /\ depth'[t] > 0
          /\ \A u \in Task : u # t => depth'[u] = depth[u]
      BY <1>1, <2>1, <2>2
    <2>4. TypeOK'
      BY <1>1, <2>1, <2>3 DEF TypeOK
    <2>5. PlacedOnce'
      BY <1>1, <1>2, <2>1 DEF PlacedOnce
    <2>6. LiveIsPlaced'
      BY <1>1, <1>2, <2>1, <2>3 DEF LiveIsPlaced
    <2>7. QED BY <2>4, <2>5, <2>6
  <1>6. CASE ReturnDetach(t)
    <2>1. /\ UNCHANGED <<schedule, shortcut_task_stack, task_stack, depth,
                         waiting_stacks, held, owns, acquiring, unadopted, Queued>>
          /\ \A l \in Lock : Blocked(l)' = Blocked(l)
          /\ detached' = detached \cup {t}
      BY <1>6 DEF ReturnDetach, locks, Queued, Blocked
    <2>2. TypeOK'
      BY <1>1, <2>1 DEF TypeOK
    <2>3. PlacedOnce'
      BY <1>1, <1>2, <2>1 DEF PlacedOnce
    <2>4. LiveIsPlaced'
      BY <1>1, <1>2, <2>1 DEF LiveIsPlaced
    <2>5. QED BY <2>2, <2>3, <2>4
  <1>7. ASSUME NEW l \in Lock, ReturnLockAcquire(t, l)  PROVE PlaceInv'
    <2>1. /\ UNCHANGED <<schedule, task_stack, depth, detached, owns, unadopted, Queued>>
          /\ acquiring' \in [Task -> Lock \cup {NoLock}]
      BY <1>7 DEF ReturnLockAcquire, Queued, TypeOK
    <2>2. CASE ~ held[l]
      <3>1. /\ held' \in [Lock -> BOOLEAN] /\ shortcut_task_stack' = t
            /\ UNCHANGED waiting_stacks /\ \A m \in Lock : Blocked(m)' = Blocked(m)
        BY <1>7, <2>2 DEF ReturnLockAcquire, TypeOK, Blocked
      <3>2. TypeOK'
        BY <1>1, <2>1, <3>1 DEF TypeOK
      <3>3. PlacedOnce'
        BY <1>1, <1>2, <2>1, <3>1 DEF PlacedOnce
      <3>4. LiveIsPlaced'
        BY <1>1, <1>2, <2>1, <3>1 DEF LiveIsPlaced
      <3>5. QED BY <3>2, <3>3, <3>4
    <2>3. CASE held[l]
      <3>1. /\ UNCHANGED <<held, shortcut_task_stack>>
            /\ waiting_stacks' = [waiting_stacks EXCEPT ![l] = Cons(t, waiting_stacks[l])]
        BY <1>7, <2>3 DEF ReturnLockAcquire
      <3>2. /\ Cons(t, waiting_stacks[l]) \in Seq(Task)
            /\ Range(Cons(t, waiting_stacks[l])) = Blocked(l) \cup {t}
            /\ IsInjective(Cons(t, waiting_stacks[l]))
        BY <1>1, <1>2, WaitersFacts DEF PlacedOnce, Blocked
      <3>3. /\ Blocked(l)' = Blocked(l) \cup {t}
            /\ \A m \in Lock : m # l => Blocked(m)' = Blocked(m)
            /\ \A m \in Lock : IsInjective(waiting_stacks'[m])
            /\ waiting_stacks' \in [Lock -> Seq(Task)]
        BY <1>1, <3>1, <3>2 DEF PlacedOnce, Blocked
      <3>4. TypeOK'
        BY <1>1, <2>1, <3>1, <3>3 DEF TypeOK
      <3>5. \A m \in Lock, u \in Task :
              u \in Blocked(m)' <=> u \in Blocked(m) \/ (u = t /\ m = l)
        BY <3>3
      <3>6. UNCHANGED <<schedule, Queued, depth, detached, shortcut_task_stack>>
        BY <2>1, <3>1
      <3>7. PlacedOnce'
        BY <1>1, <1>2, <3>3, <3>5, <3>6 DEF PlacedOnce
      <3>8. LiveIsPlaced'
        BY <1>1, <1>2, <3>5, <3>6 DEF LiveIsPlaced
      <3>9. QED BY <3>4, <3>7, <3>8
    <2>4. QED BY <2>2, <2>3
  <1>8. QED BY <1>3, <1>4, <1>5, <1>6, <1>7 DEF Return

(* Every step keeps PlaceInv.                                              *)
LEMMA NextPlace == PlaceInv /\ [Next]_vars => PlaceInv'
  <1> SUFFICES ASSUME PlaceInv, [Next]_vars  PROVE PlaceInv'
    OBVIOUS
  <1>1. CASE EnterLoop
    BY <1>1 DEF PlaceInv, EnterLoop, timers, locks, TypeOK, PlacedOnce,
                LiveIsPlaced, Runs, Queued, Blocked
  <1>2. CASE Pick
    BY <1>2, PickPlace
  <1>3. CASE Tick
    <2>1. /\ schedule' \in Seq(Entry) /\ UNCHANGED Queued
          /\ DistinctTasks(schedule) => DistinctTasks(schedule')
      BY <1>3, TickEntries DEF PlaceInv
    <2>2. UNCHANGED <<phase, shortcut_task_stack, task_stack, depth, detached, held,
                      waiting_stacks, owns, acquiring, unadopted>>
      BY <1>3 DEF Tick, locks
    <2>3. QED BY <2>1, <2>2 DEF PlaceInv, TypeOK, PlacedOnce, LiveIsPlaced, Runs, Blocked
  <1>4. ASSUME NEW t \in Task, NEW l \in Lock, async_lock_try_acquire(t, l)
        PROVE  PlaceInv'
    BY <1>4 DEF async_lock_try_acquire, timers, PlaceInv, TypeOK, PlacedOnce,
                LiveIsPlaced, Runs, Queued, Blocked
  <1>5. ASSUME NEW t \in Task, Call(t)  PROVE PlaceInv'
    BY <1>4, <1>5, SpawnPlace, ReleasePlace DEF Call
  <1>6. ASSUME NEW t \in Task, Return(t)  PROVE PlaceInv'
    BY <1>6, ReturnPlace
  <1>7. CASE UNCHANGED vars
    BY <1>7 DEF vars, timers, locks, PlaceInv, TypeOK, PlacedOnce, LiveIsPlaced,
                Runs, Queued, Blocked
  <1>8. QED BY <1>1, <1>2, <1>3, <1>5, <1>6, <1>7 DEF Next

(* The places of the task stacks in async.c: PlaceInv is an invariant.     *)
THEOREM PlaceInvariant == Spec => []PlaceInv
  <1>1. QED BY InitPlace, NextPlace, PTL DEF Spec

(* The variables of async.c keep their types: in particular list_discard   *)
(* is never called on a stack without frames.                              *)
THEOREM TypeCorrect == Spec => []TypeOK
  <1>1. PlaceInv => TypeOK
    BY DEF PlaceInv
  <1>2. QED BY <1>1, PlaceInvariant, PTL

(* What is in Places(t), spelled out.                                      *)
LEMMA PlacesMembers ==
  ASSUME NEW t \in Task, NEW p
  PROVE  p \in Places(t) <=>
           \/ \E i \in DOMAIN schedule : schedule[i].task = t /\ p = <<"schedule", i>>
           \/ \E l \in Lock : \E i \in DOMAIN waiting_stacks[l] :
                waiting_stacks[l][i] = t /\ p = <<l, i>>
           \/ shortcut_task_stack = t /\ p = <<"shortcut", 0>>
           \/ t \in detached /\ p = <<"detached", 0>>
           \/ Runs(t) /\ p = <<"running", 0>>
  <1> DEFINE S == {"schedule"} \X {i \in DOMAIN schedule : schedule[i].task = t}
             W(l) == {l} \X {i \in DOMAIN waiting_stacks[l] : waiting_stacks[l][i] = t}
             C == IF shortcut_task_stack = t THEN {<<"shortcut", 0>>} ELSE {}
             D == IF t \in detached THEN {<<"detached", 0>>} ELSE {}
             R == IF Runs(t) THEN {<<"running", 0>>} ELSE {}
  <1>1. p \in S <=> \E i \in DOMAIN schedule : schedule[i].task = t /\ p = <<"schedule", i>>
    OBVIOUS
  <1>2. \A l \in Lock : p \in W(l) <=> \E i \in DOMAIN waiting_stacks[l] :
                                         waiting_stacks[l][i] = t /\ p = <<l, i>>
    OBVIOUS
  <1>3. /\ p \in C <=> shortcut_task_stack = t /\ p = <<"shortcut", 0>>
        /\ p \in D <=> t \in detached /\ p = <<"detached", 0>>
        /\ p \in R <=> Runs(t) /\ p = <<"running", 0>>
    OBVIOUS
  <1>4. p \in WaitingAt(t) <=> \E l \in Lock : p \in W(l)
    BY DEF WaitingAt
  <1>5. Places(t) = S \cup WaitingAt(t) \cup C \cup D \cup R
    BY DEF Places
  <1> HIDE DEF S, W, C, D, R
  <1>6. (\E l \in Lock : p \in W(l)) <=>
          \E l \in Lock : \E i \in DOMAIN waiting_stacks[l] :
            waiting_stacks[l][i] = t /\ p = <<l, i>>
    BY <1>2, Zenon
  <1>7. p \in Places(t) <=> p \in S \/ p \in WaitingAt(t) \/ p \in C \/ p \in D \/ p \in R
    BY <1>5
  <1>8. QED BY <1>1, <1>3, <1>4, <1>6, <1>7, Zenon

(* A live task stack is referenced from exactly one place and a freed one  *)
(* from nowhere, whatever the client functions do.                         *)
THEOREM OnePlace == Spec => []EveryStackInOnePlace
  <1>1. PlaceInv => EveryStackInOnePlace
    <2> SUFFICES ASSUME PlaceInv, NEW t \in Task
                 PROVE  /\ \A p, q \in Places(t) : p = q
                        /\ Places(t) # {} <=> depth[t] > 0
      BY DEF EveryStackInOnePlace
    <2> USE DEF PlaceInv
    <2>1. \A i \in DOMAIN schedule : schedule[i].task = t => t \in Queued
      BY DEF Queued, TasksOf
    <2>2. \A l \in Lock : \A i \in DOMAIN waiting_stacks[l] :
            waiting_stacks[l][i] = t => t \in Blocked(l)
      BY DEF Blocked, Range
    <2>3. \A p, q \in Places(t) : p = q
      <3> SUFFICES ASSUME NEW p \in Places(t), NEW q \in Places(t)  PROVE p = q
        OBVIOUS
      <3>1. CASE t \in Queued
        <4>1. /\ \E i \in DOMAIN schedule :
                   schedule[i].task = t /\ p = <<"schedule", i>>
              /\ \E i \in DOMAIN schedule :
                   schedule[i].task = t /\ q = <<"schedule", i>>
          BY <3>1, <2>2, PlacesMembers DEF PlacedOnce
        <4>2. QED BY <4>1 DEF PlacedOnce, DistinctTasks
      <3>2. CASE \E l \in Lock : t \in Blocked(l)
        <4>1. /\ \E l \in Lock : \E i \in DOMAIN waiting_stacks[l] :
                   waiting_stacks[l][i] = t /\ p = <<l, i>>
              /\ \E l \in Lock : \E i \in DOMAIN waiting_stacks[l] :
                   waiting_stacks[l][i] = t /\ q = <<l, i>>
          BY <3>2, <2>1, PlacesMembers DEF PlacedOnce
        <4>2. PICK l \in Lock : \E i \in DOMAIN waiting_stacks[l] :
                waiting_stacks[l][i] = t /\ p = <<l, i>>
          BY <4>1
        <4>3. PICK m \in Lock : \E j \in DOMAIN waiting_stacks[m] :
                waiting_stacks[m][j] = t /\ q = <<m, j>>
          BY <4>1
        <4>4. l = m
          BY <4>2, <4>3, <2>2 DEF PlacedOnce
        <4>5. QED BY <4>2, <4>3, <4>4 DEF PlacedOnce, IsInjective
      <3>3. CASE t \notin Queued /\ \A l \in Lock : t \notin Blocked(l)
        <4>1. \A x \in Places(t) :
                \/ shortcut_task_stack = t /\ x = <<"shortcut", 0>>
                \/ t \in detached /\ x = <<"detached", 0>>
                \/ Runs(t) /\ x = <<"running", 0>>
          <5> TAKE x \in Places(t)
          <5>1. ~ \E i \in DOMAIN schedule : schedule[i].task = t
            BY <3>3, <2>1
          <5>2. ~ \E l \in Lock : \E i \in DOMAIN waiting_stacks[l] : waiting_stacks[l][i] = t
            BY <3>3, <2>2
          <5>3. QED BY <5>1, <5>2, PlacesMembers
        <4>2. QED BY <4>1, AsyncAssumption DEF AsyncAssumption, PlacedOnce, Runs
      <3>4. QED BY <3>1, <3>2, <3>3
    <2>4. Places(t) # {} <=> \/ t \in Queued \/ t \in detached
                             \/ shortcut_task_stack = t \/ Runs(t)
                             \/ \E l \in Lock : t \in Blocked(l)
      <3>1. t \in Queued => \E p : p \in Places(t)
        BY PlacesMembers DEF Queued, TasksOf
      <3>2. (\E l \in Lock : t \in Blocked(l)) => \E p : p \in Places(t)
        <4>1. ASSUME NEW l \in Lock, NEW i \in DOMAIN waiting_stacks[l],
                     waiting_stacks[l][i] = t
              PROVE  <<l, i>> \in Places(t)
          BY <4>1, PlacesMembers
        <4>2. QED BY <4>1 DEF Blocked, Range
      <3>3. t \in detached \/ shortcut_task_stack = t \/ Runs(t) => \E p : p \in Places(t)
        BY PlacesMembers
      <3>4. QED BY <3>1, <3>2, <3>3, <2>1, <2>2, PlacesMembers
    <2>5. QED BY <2>3, <2>4 DEF LiveIsPlaced
  <1>2. QED BY <1>1, PlaceInvariant, PTL

(* Every step keeps the schedule in the order of its wake times.           *)
LEMMA SortedStep == TypeOK /\ ScheduleSorted /\ [Next]_vars => ScheduleSorted'
  <1> SUFFICES ASSUME TypeOK, Sorted(schedule), [Next]_vars  PROVE Sorted(schedule')
    BY DEF ScheduleSorted, Sorted
  <1>1. ASSUME NEW t \in Task, NEW w \in WakeTime
        PROVE  Sorted(schedule_a_value(schedule, w, t))
    BY ScheduleAValue DEF TypeOK
  <1>2. ASSUME NEW t \in Task, NEW adopts, async_spawn(t, adopts)  PROVE Sorted(schedule')
    BY <1>1, <1>2, WakeTimes DEF async_spawn
  <1>3. ASSUME NEW t \in Task, NEW l \in Lock, async_lock_release(t, l)
        PROVE  Sorted(schedule')
    <2>1. CASE waiting_stacks[l] = <<>>
      BY <1>3, <2>1 DEF async_lock_release
    <2>2. CASE waiting_stacks[l] # <<>>
      <3>1. Last(waiting_stacks[l]) \in Task
        BY <2>2, FrontFacts DEF TypeOK
      <3>2. QED BY <1>1, <1>3, <2>2, <3>1, WakeTimes DEF async_lock_release, NextWaiter
    <2>3. QED BY <2>1, <2>2
  <1>4. ASSUME NEW t \in Task, NEW d \in 0 .. MaxSleep, ReturnSleep(t, d)
        PROVE  Sorted(schedule')
    BY <1>1, <1>4, WakeTimes DEF ReturnSleep, async_get_time_after
  <1>5. CASE PickScheduled
    <2>1. /\ schedule \in Seq(Entry) /\ schedule # <<>> /\ schedule' = Tail(schedule)
      BY <1>5 DEF PickScheduled, TypeOK
    <2>2. /\ DOMAIN schedule' = 1 .. Len(schedule) - 1 /\ Len(schedule) \in Nat
          /\ DOMAIN schedule = 1 .. Len(schedule)
          /\ \A j \in 1 .. Len(schedule) - 1 : schedule'[j] = schedule[j + 1]
      BY <2>1, TailFacts
    <2>3. \A j \in 1 .. Len(schedule) - 1 : j + 1 \in 1 .. Len(schedule)
      BY <2>2
    <2>4. \A i, j \in 1 .. Len(schedule) - 1 : i < j => i + 1 < j + 1
      BY <2>2
    <2>5. QED BY <2>2, <2>3, <2>4 DEF Sorted
  <1>6. CASE Tick
    BY <1>6, TickEntries
  <1>7. CASE UNCHANGED schedule
    BY <1>7
  <1>8. QED BY <1>2, <1>3, <1>4, <1>5, <1>6, <1>7
            DEF Next, vars, timers, locks, EnterLoop, Pick, PickShortcut, PickEvented,
                Evented, ScheduleAfterEvent, LoopReturns, Call, async_lock_try_acquire,
                Return, ReturnDone, ReturnAwait, ReturnDetach, ReturnLockAcquire

(* The schedule stays in the order of its wake times, so that async_loop   *)
(* may look at its head only.                                              *)
THEOREM SortedSchedule == Spec => []ScheduleSorted
  <1>1. Init => ScheduleSorted
    BY DEF Init, ScheduleSorted
  <1>2. QED BY <1>1, SortedStep, TypeCorrect, PTL DEF Spec

-----------------------------------------------------------------------------

(* t has been given lock l: it is past its acquire, or on its way there. *)
HasLock(t, l) == l \in owns[t] \/ (acquiring[t] = l /\ t \notin Blocked(l))

(* A lock that is held has one task, or is one of the locks initialised    *)
(* held whose task is not spawned yet; a waiting task is at its acquire    *)
(* and does not have the lock; a running one is at no acquire.             *)
LockInv ==
  /\ \A l \in Lock, t \in Task : HasLock(t, l) => held[l] /\ l \notin unadopted
  /\ \A l \in Lock : held[l] => l \in unadopted \/ \E t \in Task : HasLock(t, l)
  /\ \A l \in unadopted : held[l]
  /\ \A l \in Lock, t, u \in Task : HasLock(t, l) /\ HasLock(u, l) => t = u
  /\ \A l \in Lock, t \in Task : t \in Blocked(l) => held[l] /\ acquiring[t] = l
  /\ \A t \in Task : acquiring[t] \notin owns[t]
  /\ \A t \in Task : Runs(t) => acquiring[t] = NoLock
  /\ \A t \in Task : depth[t] = 0 => owns[t] = {} /\ acquiring[t] = NoLock

(* LockInv holds initially: locks initialised held are unadopted.          *)
LEMMA InitLock == Init => LockInv
  <1> SUFFICES ASSUME Init  PROVE LockInv
    OBVIOUS
  <1>1. /\ \A l \in Lock : Blocked(l) = {} /\ held[l] = (l \in InitHeld)
        /\ unadopted = InitHeld /\ InitHeld \subseteq Lock /\ phase = "boot"
        /\ \A t \in Task : owns[t] = {} /\ acquiring[t] = NoLock
        /\ NoLock \notin Lock
    BY AsyncAssumption DEF AsyncAssumption, Init, Blocked, Range
  <1>2. \A l \in Lock, t \in Task : ~ HasLock(t, l)
    BY <1>1 DEF HasLock
  <1>3. QED BY <1>1, <1>2 DEF LockInv, Runs

(* A task called past its acquire has the lock it already had been given.  *)
LEMMA CallLock ==
  ASSUME PlaceInv, LockInv, NEW t \in Task, CallTop(t), phase = "pick",
         depth[t] > 0, \A l \in Lock : t \notin Blocked(l)
  PROVE  LockInv'
  <1>1. /\ \A l \in Lock : Blocked(l)' = Blocked(l)
        /\ \A u \in Task : ~ Runs(u) /\ (Runs(u)' <=> u = t)
        /\ UNCHANGED <<depth, held, waiting_stacks, unadopted>>
    BY CallPlace
  <1>2. /\ owns \in [Task -> SUBSET Lock] /\ acquiring \in [Task -> Lock \cup {NoLock}]
        /\ NoLock \notin Lock
    BY AsyncAssumption DEF AsyncAssumption, PlaceInv, TypeOK
  <1>3. /\ owns'[t] = IF acquiring[t] = NoLock THEN owns[t] ELSE owns[t] \cup {acquiring[t]}
        /\ acquiring'[t] = NoLock
        /\ \A u \in Task : u # t => owns'[u] = owns[u] /\ acquiring'[u] = acquiring[u]
    BY <1>2 DEF CallTop
  <1>4. \A l \in Lock, u \in Task : HasLock(u, l)' <=> HasLock(u, l)
    BY <1>1, <1>2, <1>3 DEF HasLock
  <1>5. \A u \in Task : acquiring'[u] \notin owns'[u]
    BY <1>2, <1>3 DEF LockInv
  <1>6. \A l \in Lock, u \in Task : u \in Blocked(l)' => held'[l] /\ acquiring'[u] = l
    BY <1>1, <1>3 DEF LockInv
  <1>7. \A u \in Task : /\ Runs(u)' => acquiring'[u] = NoLock
                        /\ depth'[u] = 0 => owns'[u] = {} /\ acquiring'[u] = NoLock
    BY <1>1, <1>3 DEF LockInv
  <1>8. QED BY <1>1, <1>4, <1>5, <1>6, <1>7 DEF LockInv

(* Picking a stack keeps LockInv.                                          *)
LEMMA PickLock ==
  ASSUME PlaceInv, LockInv, Pick
  PROVE  LockInv'
  <1> USE DEF PlaceInv
  <1>1. ASSUME NEW t \in Task, CallTop(t), phase = "pick",
               shortcut_task_stack = t \/ t \in Queued \/ t \in detached
        PROVE  LockInv'
    BY <1>1, CallLock DEF PlacedOnce, LiveIsPlaced
  <1>2. CASE PickShortcut
    BY <1>1, <1>2 DEF PickShortcut, TypeOK
  <1>3. CASE PickScheduled
    BY <1>1, <1>3, TailEntries DEF PickScheduled
  <1>4. CASE PickEvented
    BY <1>1, <1>4 DEF PickEvented, Evented, TypeOK
  <1>5. CASE LoopReturns
    BY <1>5 DEF LoopReturns, timers, locks, LockInv, HasLock, Blocked, Runs
  <1>6. QED BY <1>2, <1>3, <1>4, <1>5 DEF Pick

(* A task spawned with locks that were initialised held becomes theirs.    *)
LEMMA SpawnLock ==
  ASSUME PlaceInv, LockInv, NEW t \in Task, NEW adopts \in SUBSET InitHeld,
         async_spawn(t, adopts)
  PROVE  LockInv'
  <1>1. /\ owns \in [Task -> SUBSET Lock] /\ depth \in [Task -> 0 .. MaxDepth]
        /\ unadopted \subseteq Lock
    BY AsyncAssumption DEF AsyncAssumption, PlaceInv, TypeOK
  <1>2. /\ depth[t] = 0 /\ adopts \subseteq unadopted /\ unadopted' = unadopted \ adopts
        /\ UNCHANGED <<held, waiting_stacks, acquiring, phase, task_stack>>
        /\ owns'[t] = adopts /\ depth'[t] = 1
        /\ \A u \in Task : u # t => owns'[u] = owns[u] /\ depth'[u] = depth[u]
        /\ \A l \in Lock : Blocked(l)' = Blocked(l)
        /\ \A u \in Task : Runs(u)' <=> Runs(u)
    BY <1>1 DEF async_spawn, Blocked, Runs
  <1>3. owns[t] = {} /\ acquiring[t] = NoLock
    BY <1>2 DEF LockInv
  <1>4. NoLock \notin Lock
    BY AsyncAssumption DEF AsyncAssumption
  <1>5. \A l \in Lock, u \in Task :
          HasLock(u, l)' <=> HasLock(u, l) \/ (u = t /\ l \in adopts)
    BY <1>2, <1>3, <1>4 DEF HasLock
  <1>6. \A l \in Lock, u \in Task : HasLock(u, l) => l \notin adopts
    BY <1>2 DEF LockInv
  <1>7. /\ \A l \in Lock, u \in Task : HasLock(u, l)' => held'[l] /\ l \notin unadopted'
        /\ \A l \in unadopted' : held'[l]
    BY <1>1, <1>2, <1>5 DEF LockInv
  <1>8. \A l \in Lock : held'[l] => l \in unadopted' \/ \E u \in Task : HasLock(u, l)'
    BY <1>2, <1>5 DEF LockInv
  <1>9. \A l \in Lock, u, v \in Task : HasLock(u, l)' /\ HasLock(v, l)' => u = v
    BY <1>5, <1>6 DEF LockInv
  <1>10. \A u \in Task : /\ acquiring'[u] \notin owns'[u]
                         /\ Runs(u)' => acquiring'[u] = NoLock
                         /\ depth'[u] = 0 => owns'[u] = {} /\ acquiring'[u] = NoLock
    BY <1>1, <1>2, <1>3, <1>4 DEF LockInv
  <1>11. \A l \in Lock, u \in Task : u \in Blocked(l)' => held'[l] /\ acquiring'[u] = l
    BY <1>2 DEF LockInv
  <1>12. QED BY <1>7, <1>8, <1>9, <1>10, <1>11 DEF LockInv

(* A successful async_lock_try_acquire takes a lock nobody had.            *)
LEMMA TryAcquireLock ==
  ASSUME PlaceInv, LockInv, NEW t \in Task, NEW k \in Lock, async_lock_try_acquire(t, k)
  PROVE  LockInv'
  <1>1. /\ owns \in [Task -> SUBSET Lock] /\ held \in [Lock -> BOOLEAN]
        /\ unadopted \subseteq Lock /\ NoLock \notin Lock
    BY AsyncAssumption DEF AsyncAssumption, PlaceInv, TypeOK
  <1>2. /\ ~ held[k] /\ held'[k] /\ \A l \in Lock : l # k => held'[l] = held[l]
        /\ UNCHANGED <<waiting_stacks, acquiring, phase, task_stack, depth, unadopted>>
        /\ owns'[t] = owns[t] \cup {k} /\ \A u \in Task : u # t => owns'[u] = owns[u]
        /\ \A l \in Lock : Blocked(l)' = Blocked(l)
        /\ \A u \in Task : Runs(u)' <=> Runs(u)
        /\ Runs(t)
    BY <1>1 DEF async_lock_try_acquire, timers, Blocked, Runs
  <1>3. depth[t] # 0 /\ acquiring[t] = NoLock
    BY <1>2, RunningTask DEF LockInv
  <1>4. \A l \in Lock, u \in Task : HasLock(u, l)' <=> HasLock(u, l) \/ (u = t /\ l = k)
    BY <1>2 DEF HasLock
  <1>5. \A u \in Task : ~ HasLock(u, k) /\ u \notin Blocked(k) /\ k \notin unadopted
    BY <1>1, <1>2 DEF LockInv
  <1>6. /\ \A l \in Lock, u \in Task : HasLock(u, l)' => held'[l] /\ l \notin unadopted'
        /\ \A l \in Lock : held'[l] => l \in unadopted' \/ \E u \in Task : HasLock(u, l)'
        /\ \A l \in unadopted' : held'[l]
        /\ \A l \in Lock, u, v \in Task : HasLock(u, l)' /\ HasLock(v, l)' => u = v
    BY <1>1, <1>2, <1>4, <1>5 DEF LockInv
  <1>7. \A u \in Task : /\ acquiring'[u] \notin owns'[u]
                        /\ Runs(u)' => acquiring'[u] = NoLock
                        /\ depth'[u] = 0 => owns'[u] = {} /\ acquiring'[u] = NoLock
    BY <1>1, <1>2, <1>3 DEF LockInv
  <1>8. \A l \in Lock, u \in Task : u \in Blocked(l)' => held'[l] /\ acquiring'[u] = l
    BY <1>2, <1>5 DEF LockInv
  <1>9. QED BY <1>6, <1>7, <1>8 DEF LockInv

(* A release frees the lock, or makes the oldest waiter its only holder.   *)
LEMMA ReleaseLock ==
  ASSUME PlaceInv, LockInv, NEW t \in Task, NEW k \in Lock, async_lock_release(t, k)
  PROVE  LockInv'
  <1> DEFINE ws == waiting_stacks[k]
  <1>1. /\ owns \in [Task -> SUBSET Lock] /\ held \in [Lock -> BOOLEAN]
        /\ waiting_stacks \in [Lock -> Seq(Task)] /\ ws \in Seq(Task)
        /\ unadopted \subseteq Lock /\ NoLock \notin Lock
    BY AsyncAssumption DEF AsyncAssumption, PlaceInv, TypeOK
  <1>2. /\ k \in owns[t] /\ Runs(t)
        /\ UNCHANGED <<acquiring, phase, task_stack, depth, unadopted>>
        /\ owns'[t] = owns[t] \ {k} /\ \A u \in Task : u # t => owns'[u] = owns[u]
        /\ \A l \in Lock : l # k => (held'[l] <=> held[l])
        /\ held'[k] <=> held[k] /\ ws # <<>>
        /\ \A u \in Task : Runs(u)' <=> Runs(u)
    BY <1>1 DEF async_lock_release, StaysHeld, Runs
  <1>3. /\ depth[t] # 0 /\ acquiring[t] = NoLock
        /\ HasLock(t, k) /\ held[k] /\ k \notin unadopted
    BY <1>1, <1>2, RunningTask DEF LockInv, HasLock
  <1>4. \A u \in Task : /\ acquiring'[u] \notin owns'[u]
                        /\ Runs(u)' => acquiring'[u] = NoLock
                        /\ depth'[u] = 0 => owns'[u] = {} /\ acquiring'[u] = NoLock
    BY <1>1, <1>2, <1>3 DEF LockInv
  <1>5. CASE ws = <<>>
    <2>1. \A l \in Lock : Blocked(l)' = Blocked(l)
      BY <1>5 DEF async_lock_release, Blocked
    <2>2. \A u \in Task : u \notin Blocked(k)
      BY <1>1, <1>5, WaitersFacts DEF Blocked
    <2>3. \A l \in Lock, u \in Task : HasLock(u, l)' <=> HasLock(u, l) /\ l # k
      BY <1>2, <1>3, <2>1 DEF HasLock, LockInv
    <2>4. /\ \A l \in Lock, u \in Task : HasLock(u, l)' => held'[l] /\ l \notin unadopted'
          /\ \A l \in Lock : held'[l] => l \in unadopted' \/ \E u \in Task : HasLock(u, l)'
          /\ \A l \in Lock, u, v \in Task : HasLock(u, l)' /\ HasLock(v, l)' => u = v
          /\ \A l \in unadopted' : held'[l]
      BY <1>1, <1>2, <1>3, <1>5, <2>3 DEF LockInv
    <2>5. \A l \in Lock, u \in Task : u \in Blocked(l)' => held'[l] /\ acquiring'[u] = l
      BY <1>2, <2>1, <2>2 DEF LockInv
    <2>6. QED BY <1>4, <2>4, <2>5 DEF LockInv
  <1>6. CASE ws # <<>>
    <2>1. PICK w \in Task :
          /\ Front(ws) \in Seq(Task) /\ w \in Blocked(k)
          /\ Blocked(k) = Range(Front(ws)) \cup {w} /\ w \notin Range(Front(ws))
      BY <1>1, <1>6, WaitersFacts DEF Blocked, PlaceInv, PlacedOnce
    <2>2. waiting_stacks' = [waiting_stacks EXCEPT ![k] = Front(ws)]
      BY <1>1, <1>6 DEF async_lock_release
    <2> HIDE DEF ws
    <2>3. /\ Blocked(k)' = Blocked(k) \ {w}
          /\ \A l \in Lock : l # k => Blocked(l)' = Blocked(l)
      BY <1>1, <2>1, <2>2 DEF Blocked
    <2>4. acquiring[w] = k /\ w # t
      BY <1>1, <1>3, <2>1 DEF LockInv
    <2>5. /\ \A u \in Task : HasLock(u, k)' <=> u = w
          /\ \A l \in Lock, u \in Task : l # k => (HasLock(u, l)' <=> HasLock(u, l))
      <3>1. \A u \in Task : HasLock(u, k) => u = t
        BY <1>3 DEF LockInv
      <3>2. \A u \in Task : HasLock(u, k)' <=> u = w
        <4>1. HasLock(w, k)'
          BY <1>2, <2>1, <2>3, <2>4 DEF HasLock
        <4>2. ~ HasLock(t, k)'
          BY <1>1, <1>2, <1>3 DEF HasLock
        <4>3. ASSUME NEW u \in Task, u # t, u # w  PROVE ~ HasLock(u, k)'
          BY <4>3, <1>2, <2>3, <3>1 DEF HasLock
        <4>4. QED BY <4>1, <4>2, <4>3, <2>1, <2>4
      <3>3. QED BY <3>2, <1>2, <2>3 DEF HasLock
    <2>6. /\ \A l \in Lock, u \in Task : HasLock(u, l)' => held'[l] /\ l \notin unadopted'
          /\ \A l \in Lock : held'[l] => l \in unadopted' \/ \E u \in Task : HasLock(u, l)'
          /\ \A l \in unadopted' : held'[l]
          /\ \A l \in Lock, u, v \in Task : HasLock(u, l)' /\ HasLock(v, l)' => u = v
      <3>1. held'[k] /\ k \notin unadopted'
        BY <1>2, <1>3, <1>6
      <3>2. \A l \in Lock, u \in Task : HasLock(u, l)' => held'[l] /\ l \notin unadopted'
        BY <3>1, <1>2, <2>5 DEF LockInv
      <3>3. \A l \in Lock : held'[l] => l \in unadopted' \/ \E u \in Task : HasLock(u, l)'
        BY <1>2, <2>1, <2>5 DEF LockInv
      <3>4. \A l \in unadopted' : held'[l]
        BY <1>1, <1>2, <1>3 DEF LockInv
      <3>5. \A l \in Lock, u, v \in Task : HasLock(u, l)' /\ HasLock(v, l)' => u = v
        BY <2>5 DEF LockInv
      <3>6. QED BY <3>2, <3>3, <3>4, <3>5
    <2>7. \A l \in Lock, u \in Task : u \in Blocked(l)' => held'[l] /\ acquiring'[u] = l
      BY <1>2, <1>3, <1>6, <2>3 DEF LockInv
    <2>8. QED BY <1>4, <2>6, <2>7 DEF LockInv
  <1>7. QED BY <1>5, <1>6

(* A return changes locks only by ASYNC_LOCK_ACQUIRE.                      *)
LEMMA ReturnLock ==
  ASSUME PlaceInv, LockInv, NEW t \in Task, Return(t)
  PROVE  LockInv'
  <1>1. /\ Runs(t) /\ depth[t] # 0 /\ acquiring[t] = NoLock
        /\ \A u \in Task : ~ Runs(u)'
        /\ depth \in [Task -> 0 .. MaxDepth] /\ held \in [Lock -> BOOLEAN]
        /\ acquiring \in [Task -> Lock \cup {NoLock}]
        /\ waiting_stacks \in [Lock -> Seq(Task)]
        /\ unadopted \subseteq Lock /\ NoLock \notin Lock
        /\ \A l \in Lock : t \notin Blocked(l)
    <2>1. Runs(t) /\ \A u \in Task : ~ Runs(u)'
      BY DEF Return, ReturnDone, ReturnSleep, ReturnAwait, ReturnDetach,
             ReturnLockAcquire, Runs
    <2>2. QED BY <2>1, RunningTask, AsyncAssumption
              DEF AsyncAssumption, PlaceInv, TypeOK, LockInv
  <1>2. ASSUME UNCHANGED locks, \A u \in Task : depth'[u] = 0 =>
                                  depth[u] = 0 \/ (u = t /\ owns[t] = {})
        PROVE  LockInv'
    <2>1. UNCHANGED <<held, waiting_stacks, owns, acquiring, unadopted>>
      BY <1>2 DEF locks
    <2>2. \A l \in Lock : Blocked(l)' = Blocked(l)
      BY <2>1 DEF Blocked
    <2>3. \A l \in Lock, u \in Task : HasLock(u, l)' <=> HasLock(u, l)
      BY <2>1, <2>2 DEF HasLock
    <2>4. \A u \in Task : depth'[u] = 0 => owns[u] = {} /\ acquiring[u] = NoLock
      BY <1>1, <1>2 DEF LockInv
    <2>5. QED BY <1>1, <2>1, <2>2, <2>3, <2>4 DEF LockInv
  <1>3. CASE ReturnDone(t)
    <2>1. /\ UNCHANGED locks /\ depth' = [depth EXCEPT ![t] = @ - 1]
          /\ depth[t] = 1 => owns[t] = {}
      BY <1>3 DEF ReturnDone
    <2>2. /\ \A u \in Task : u # t => depth'[u] = depth[u]
          /\ depth'[t] = depth[t] - 1 /\ depth[t] \in 0 .. MaxDepth
      BY <1>1, <2>1
    <2>3. QED BY <1>2, <2>1, <2>2
  <1>4. ASSUME NEW d \in 0 .. MaxSleep, ReturnSleep(t, d)  PROVE LockInv'
    BY <1>2, <1>4 DEF ReturnSleep
  <1>5. CASE ReturnAwait(t)
    <2>1. UNCHANGED locks /\ depth' = [depth EXCEPT ![t] = @ + 1]
      BY <1>5 DEF ReturnAwait
    <2>2. /\ \A u \in Task : u # t => depth'[u] = depth[u]
          /\ depth'[t] = depth[t] + 1 /\ depth[t] \in 0 .. MaxDepth
      BY <1>1, <2>1
    <2>3. QED BY <1>2, <2>1, <2>2
  <1>6. CASE ReturnDetach(t)
    BY <1>2, <1>6 DEF ReturnDetach
  <1>7. ASSUME NEW k \in Lock, ReturnLockAcquire(t, k)  PROVE LockInv'
    <2>1. /\ UNCHANGED <<depth, owns, unadopted>> /\ k \notin owns[t]
          /\ acquiring'[t] = k /\ \A u \in Task : u # t => acquiring'[u] = acquiring[u]
      BY <1>1, <1>7 DEF ReturnLockAcquire
    <2>2. \A u \in Task : /\ acquiring'[u] \notin owns'[u]
                          /\ depth'[u] = 0 => owns'[u] = {} /\ acquiring'[u] = NoLock
      BY <1>1, <2>1 DEF LockInv
    <2>3. CASE ~ held[k]
      <3>1. /\ held'[k] /\ \A l \in Lock : l # k => (held'[l] <=> held[l])
            /\ \A l \in Lock : Blocked(l)' = Blocked(l)
        BY <1>1, <1>7, <2>3 DEF ReturnLockAcquire, Blocked
      <3>2. \A l \in Lock, u \in Task : HasLock(u, l)' <=> HasLock(u, l) \/ (u = t /\ l = k)
        BY <1>1, <2>1, <3>1 DEF HasLock
      <3>3. \A u \in Task : ~ HasLock(u, k) /\ u \notin Blocked(k) /\ k \notin unadopted
        BY <1>1, <2>3 DEF LockInv
      <3>4. /\ \A l \in Lock, u \in Task : HasLock(u, l)' => held'[l] /\ l \notin unadopted'
            /\ \A l \in Lock : held'[l] => l \in unadopted' \/ \E u \in Task : HasLock(u, l)'
            /\ \A l \in unadopted' : held'[l]
            /\ \A l \in Lock, u, v \in Task : HasLock(u, l)' /\ HasLock(v, l)' => u = v
        <4>1. \A l \in Lock, u \in Task : HasLock(u, l)' => held'[l] /\ l \notin unadopted'
          BY <2>1, <3>1, <3>2, <3>3 DEF LockInv
        <4>2. \A l \in Lock : held'[l] => l \in unadopted' \/ \E u \in Task : HasLock(u, l)'
          BY <2>1, <3>1, <3>2 DEF LockInv
        <4>3. \A l \in unadopted' : held'[l]
          BY <1>1, <2>1, <3>1 DEF LockInv
        <4>4. \A l \in Lock, u, v \in Task : HasLock(u, l)' /\ HasLock(v, l)' => u = v
          BY <3>2, <3>3 DEF LockInv
        <4>5. QED BY <4>1, <4>2, <4>3, <4>4
      <3>5. \A l \in Lock, u \in Task : u \in Blocked(l)' => held'[l] /\ acquiring'[u] = l
        BY <1>1, <2>1, <3>1, <3>3 DEF LockInv
      <3>6. QED BY <1>1, <2>2, <3>4, <3>5 DEF LockInv
    <2>4. CASE held[k]
      <3>1. /\ held' = held
            /\ waiting_stacks' = [waiting_stacks EXCEPT ![k] = Cons(t, waiting_stacks[k])]
        BY <1>7, <2>4 DEF ReturnLockAcquire
      <3>2. Range(Cons(t, waiting_stacks[k])) = Blocked(k) \cup {t}
        BY <1>1, WaitersFacts DEF Blocked
      <3>3. /\ Blocked(k)' = Blocked(k) \cup {t}
            /\ \A l \in Lock : l # k => Blocked(l)' = Blocked(l)
        BY <1>1, <3>1, <3>2 DEF Blocked
      <3>4. \A l \in Lock, u \in Task : HasLock(u, l)' <=> HasLock(u, l)
        BY <1>1, <2>1, <3>3 DEF HasLock
      <3>5. \A l \in Lock, u \in Task : u \in Blocked(l)' => held'[l] /\ acquiring'[u] = l
        <4>1. \A l \in Lock, u \in Task :
                u \in Blocked(l)' <=> u \in Blocked(l) \/ (u = t /\ l = k)
          BY <3>3
        <4>2. QED BY <1>1, <2>1, <2>4, <3>1, <4>1 DEF LockInv
      <3>6. QED BY <1>1, <2>1, <2>2, <3>1, <3>4, <3>5 DEF LockInv
    <2>5. QED BY <2>3, <2>4
  <1>8. QED BY <1>3, <1>4, <1>5, <1>6, <1>7 DEF Return

(* Who has which lock in async.c: LockInv is an invariant.                 *)
THEOREM LockInvariant == Spec => []LockInv
  <1>1. PlaceInv /\ LockInv /\ [Next]_vars => LockInv'
    <2> SUFFICES ASSUME PlaceInv, LockInv, [Next]_vars  PROVE LockInv'
      OBVIOUS
    <2>1. ASSUME UNCHANGED <<phase, task_stack, depth, locks>>  PROVE LockInv'
      BY <2>1 DEF locks, LockInv, HasLock, Blocked, Runs
    <2>2. CASE EnterLoop
      BY <2>2 DEF EnterLoop, timers, locks, LockInv, HasLock, Blocked, Runs
    <2>3. CASE Tick \/ UNCHANGED vars
      BY <2>1, <2>3 DEF Tick, vars, timers
    <2>4. ASSUME NEW t \in Task, Call(t)  PROVE LockInv'
      BY <2>4, SpawnLock, TryAcquireLock, ReleaseLock DEF Call
    <2>5. QED BY <2>2, <2>3, <2>4, PickLock, ReturnLock DEF Next
  <1>2. QED BY <1>1, InitLock, PlaceInvariant, PTL DEF Spec

(* No two tasks have the same lock, although async_lock_release hands it   *)
(* over with held still true.                                              *)
THEOREM Exclusion == Spec => []MutualExclusion
  <1>1. LockInv => MutualExclusion
    BY DEF LockInv, HasLock, MutualExclusion
  <1>2. QED BY <1>1, LockInvariant, PTL

(* A lock is held exactly while a live task has it (or its first task is   *)
(* still to be spawned), and tasks wait only for a held lock.              *)
THEOREM LocksAccounted == Spec => []LockAccounted
  <1>1. PlaceInv /\ LockInv => LockAccounted
    <2> SUFFICES ASSUME PlaceInv, LockInv, NEW l \in Lock
                 PROVE  /\ held[l] <=> Claimants(l) # {} \/ l \in unadopted
                        /\ \A t \in Claimants(l) : depth[t] > 0
                        /\ waiting_stacks[l] # <<>> => held[l]
      BY DEF LockAccounted
    <2>1. \A t \in Task : t \in Claimants(l) <=> HasLock(t, l)
      BY DEF Claimants, HasLock, Blocked
    <2>2. Claimants(l) \subseteq Task
      BY DEF Claimants
    <2>3. held[l] <=> Claimants(l) # {} \/ l \in unadopted
      BY <2>1, <2>2 DEF LockInv
    <2>4. \A t \in Claimants(l) : depth[t] > 0
      <3> SUFFICES ASSUME NEW t \in Task, HasLock(t, l)  PROVE depth[t] > 0
        BY <2>1, <2>2
      <3>1. depth[t] \in 0 .. MaxDepth /\ MaxDepth \in Nat /\ NoLock \notin Lock
        BY AsyncAssumption DEF AsyncAssumption, PlaceInv, TypeOK
      <3>2. depth[t] # 0
        BY <3>1 DEF HasLock, LockInv
      <3>3. QED BY <3>1, <3>2
    <2>5. waiting_stacks[l] # <<>> => held[l]
      <3>1. waiting_stacks[l] # <<>> => \E t \in Task : t \in Blocked(l)
        BY WaitersFacts DEF PlaceInv, TypeOK, Blocked
      <3>2. QED BY <3>1 DEF LockInv
    <2>6. QED BY <2>3, <2>4, <2>5
  <1>2. QED BY <1>1, PlaceInvariant, LockInvariant, PTL

-----------------------------------------------------------------------------
(* The runtime implements the coroutines of Coroutines: every step of      *)
(* async.c is one of theirs, or none.  And when async_loop returns, the    *)
(* tasks left are parked.                                                  *)
(*                                                                         *)
(* A task's status is where its stack is; Mapped spells that out, once for *)
(* every place.  An action of Async moves one stack, so that the status of *)
(* the others stays (Stays), and its own changes as the action of          *)
(* Coroutines says.                                                        *)

(* Task t is on schedule s for the time w.                                 *)
FiledIn(s, t, w) == [wake |-> w, task |-> t] \in Range(s)
Filed(t, w) == FiledIn(schedule, t, w)

(* schedule_a_value files one stack, and leaves the others as they are.    *)
LEMMA FiledByScheduling ==
  ASSUME NEW s \in Seq(Entry), NEW w \in WakeTime, NEW t \in Task
  PROVE  \A u, v : FiledIn(schedule_a_value(s, w, t), u, v) <=>
                     FiledIn(s, u, v) \/ (u = t /\ v = w)
  <1> DEFINE p == InsertPos(s, w)
             e == [wake |-> w, task |-> t]
             r == schedule_a_value(s, w, t)
             n == Len(s)
  <1>0. r = InsertAt(s, p, e)
    BY DEF schedule_a_value
  <1>1. e \in Entry /\ p \in 1 .. n + 1 /\ n \in Nat /\ DOMAIN s = 1 .. n
    <2>1. e \in Entry
      BY DEF Entry
    <2>2. QED BY <2>1, InsertPosFacts
  <1> HIDE DEF p, e, r
  <1>2. /\ r \in Seq(Entry) /\ Len(r) = n + 1
        /\ r[p] = e
        /\ \A j \in 1 .. p - 1 : r[j] = s[j]
        /\ \A j \in p + 1 .. n + 1 : r[j] = s[j - 1]
    <2>0. p \in 1 .. Len(s) + 1 /\ e \in Entry
      BY <1>1
    <2>1. /\ InsertAt(s, p, e) \in Seq(Entry)
          /\ Len(InsertAt(s, p, e)) = Len(s) + 1
          /\ InsertAt(s, p, e)[p] = e
          /\ \A j \in 1 .. p - 1 : InsertAt(s, p, e)[j] = s[j]
          /\ \A j \in p + 1 .. Len(s) + 1 : InsertAt(s, p, e)[j] = s[j - 1]
      BY <2>0, InsertAtFacts
    <2>2. QED BY <2>1, <1>0
  <1> HIDE DEF r, n
  <1>3. DOMAIN r = 1 .. n + 1
    BY <1>2, <1>1
  <1>4. \A j \in 1 .. n + 1 : r[j] = e \/ \E i \in 1 .. n : r[j] = s[i]
    <2> TAKE j \in 1 .. n + 1
    <2>1. CASE j < p
      BY <2>1, <1>1, <1>2
    <2>2. CASE j = p
      BY <2>2, <1>2
    <2>3. CASE j > p
      <3>1. j - 1 \in 1 .. n /\ r[j] = s[j - 1]
        BY <2>3, <1>1, <1>2
      <3>2. QED BY <3>1
    <2>4. QED BY <2>1, <2>2, <2>3, <1>1
  <1>5. \A i \in 1 .. n : \E j \in 1 .. n + 1 : r[j] = s[i]
    <2> TAKE i \in 1 .. n
    <2>1. CASE i < p
      <3>1. i \in 1 .. n + 1 /\ r[i] = s[i]
        BY <2>1, <1>1, <1>2
      <3>2. QED BY <3>1
    <2>2. CASE i >= p
      <3>1. i + 1 \in 1 .. n + 1 /\ r[i + 1] = s[i + 1 - 1] /\ i + 1 - 1 = i
        BY <2>2, <1>1, <1>2
      <3>2. QED BY <3>1
    <2>3. QED BY <2>1, <2>2, <1>1
  <1>6. Range(r) = Range(s) \cup {e}
    <2>1. Range(r) \subseteq Range(s) \cup {e}
      BY <1>1, <1>3, <1>4 DEF Range
    <2>2. Range(s) \subseteq Range(r)
      BY <1>1, <1>3, <1>5 DEF Range
    <2>3. e \in Range(r)
      BY <1>1, <1>2, <1>3 DEF Range
    <2>4. QED BY <2>1, <2>2, <2>3
  <1>7. \A u, v : [wake |-> v, task |-> u] = e <=> u = t /\ v = w
    BY DEF e
  <1>8. QED BY <1>6, <1>7 DEF FiledIn, r

(* Taking the head off takes its stack off, if no stack is on it twice.    *)
LEMMA FiledInTail ==
  ASSUME NEW s \in Seq(Entry), s # <<>>, DistinctTasks(s)
  PROVE  /\ FiledIn(s, Head(s).task, Head(s).wake)
         /\ \A u, v : FiledIn(Tail(s), u, v) <=> FiledIn(s, u, v) /\ u # Head(s).task
  <1> DEFINE n == Len(s)
             r == Tail(s)
  <1>1. /\ r \in Seq(Entry) /\ Len(r) = n - 1 /\ DOMAIN r = 1 .. n - 1
        /\ \A j \in 1 .. n - 1 : r[j] = s[j + 1]
        /\ Head(s) = s[1] /\ n \in Nat \ {0} /\ DOMAIN s = 1 .. n
    <2>1. r \in Seq(Entry) /\ Len(r) = n - 1
      BY TailFacts
    <2>2. QED BY <2>1, TailFacts
  <1>2. s[1] \in Entry
    BY <1>1, ElementOfSeq
  <1> HIDE DEF n, r
  <1>3. s[1] \in Range(s) /\ s[1] = [wake |-> s[1].wake, task |-> s[1].task]
    BY <1>1, <1>2 DEF Range, Entry
  <1>4. ASSUME NEW u, NEW v, FiledIn(r, u, v)  PROVE FiledIn(s, u, v) /\ u # s[1].task
    <2>1. PICK j \in 1 .. n - 1 : r[j] = [wake |-> v, task |-> u]
      BY <1>1, <1>4 DEF FiledIn, Range
    <2>2. j + 1 \in DOMAIN s /\ j + 1 # 1 /\ 1 \in DOMAIN s /\ s[j + 1] = [wake |-> v, task |-> u]
      BY <1>1, <2>1
    <2>3. s[j + 1].task = u
      BY <2>2
    <2>4. QED BY <2>2, <2>3 DEF FiledIn, Range, DistinctTasks
  <1>5. ASSUME NEW u, NEW v, FiledIn(s, u, v), u # s[1].task  PROVE FiledIn(r, u, v)
    <2>1. PICK j \in 1 .. n : s[j] = [wake |-> v, task |-> u]
      BY <1>1, <1>5 DEF FiledIn, Range
    <2>2. j # 1
      BY <2>1, <1>5
    <2>3. j - 1 \in 1 .. n - 1 /\ r[j - 1] = s[j - 1 + 1] /\ j - 1 + 1 = j
      BY <1>1, <2>2
    <2>4. QED BY <1>1, <2>1, <2>3 DEF FiledIn, Range
  <1>6. QED BY <1>1, <1>3, <1>4, <1>5 DEF FiledIn, r

(* A tick brings the timed entries one nearer; the others stay.            *)
LEMMA FiledByTick ==
  ASSUME TypeOK, Tick
  PROVE  \A u, v : Filed(u, v)' <=>
           \/ v = async_null_time /\ Filed(u, v)
           \/ \E w \in Int : /\ w > - MaxLate /\ v = w - 1 /\ Filed(u, w)
  <1> DEFINE s == schedule
             r == schedule'
             n == Len(s)
  <1>1. /\ n \in Nat /\ DOMAIN s = 1 .. n
        /\ \A i \in 1 .. n : s[i] \in Entry /\ s[i].wake \in Int
        /\ async_null_time = - 1 - MaxLate /\ MaxLate \in Nat
    BY EntryFacts, ElementOfSeq, WakeTimes, AsyncAssumption DEF AsyncAssumption, TypeOK
  <1>2. r = [i \in 1 .. n |-> IF s[i].wake = async_null_time
                              THEN s[i] ELSE [s[i] EXCEPT !.wake = @ - 1]]
    BY <1>1 DEF Tick, async_time_is_null
  <1>3. \A i \in 1 .. n : s[i].wake = async_null_time \/ s[i].wake > - MaxLate
    BY <1>1 DEF Tick, async_time_is_null
  <1> HIDE DEF s, r, n
  <1>4. \A i \in 1 .. n : s[i] = [wake |-> s[i].wake, task |-> s[i].task]
    BY <1>1 DEF Entry
  <1>5. \A i \in 1 .. n : r[i] = [wake |-> IF s[i].wake = async_null_time
                                           THEN s[i].wake ELSE s[i].wake - 1,
                                  task |-> s[i].task]
    BY <1>1, <1>2, <1>4
  <1>6. /\ DOMAIN r = 1 .. n
        /\ \A i \in 1 .. n : r[i] = [wake |-> r[i].wake, task |-> r[i].task]
    <2>1. ASSUME NEW i \in 1 .. n  PROVE r[i] = [wake |-> r[i].wake, task |-> r[i].task]
      <3> DEFINE w == IF s[i].wake = async_null_time THEN s[i].wake ELSE s[i].wake - 1
      <3>1. r[i] = [wake |-> w, task |-> s[i].task]
        BY <1>5
      <3> HIDE DEF w
      <3>2. QED BY <3>1
    <2>2. QED BY <1>2, <2>1
  <1>7. ASSUME NEW u, NEW v
        PROVE  /\ FiledIn(r, u, v) <=> \E i \in 1 .. n : r[i].wake = v /\ r[i].task = u
               /\ FiledIn(s, u, v) <=> \E i \in 1 .. n : s[i].wake = v /\ s[i].task = u
    <2>1. FiledIn(r, u, v) <=> \E i \in 1 .. n : r[i] = [wake |-> v, task |-> u]
      BY <1>6 DEF FiledIn, Range
    <2>2. FiledIn(s, u, v) <=> \E i \in 1 .. n : s[i] = [wake |-> v, task |-> u]
      BY <1>1 DEF FiledIn, Range
    <2>3. \A i \in 1 .. n : r[i] = [wake |-> v, task |-> u] <=> r[i].wake = v /\ r[i].task = u
      BY <1>6
    <2>4. \A i \in 1 .. n : s[i] = [wake |-> v, task |-> u] <=> s[i].wake = v /\ s[i].task = u
      BY <1>4
    <2>5. QED BY <2>1, <2>2, <2>3, <2>4
  <1>8. \A i \in 1 .. n : /\ r[i].task = s[i].task
                          /\ s[i].wake = async_null_time => r[i].wake = async_null_time
                          /\ s[i].wake # async_null_time => r[i].wake = s[i].wake - 1
    <2> TAKE i \in 1 .. n
    <2> DEFINE w == IF s[i].wake = async_null_time THEN s[i].wake ELSE s[i].wake - 1
    <2>1. r[i] = [wake |-> w, task |-> s[i].task]
      BY <1>5
    <2>2. /\ s[i].wake = async_null_time => w = async_null_time
          /\ s[i].wake # async_null_time => w = s[i].wake - 1
      OBVIOUS
    <2> HIDE DEF w
    <2>3. QED BY <2>1, <2>2
  <1>9. ASSUME NEW u, NEW v, FiledIn(r, u, v)
        PROVE  \/ v = async_null_time /\ FiledIn(s, u, v)
               \/ \E w \in Int : w > - MaxLate /\ v = w - 1 /\ FiledIn(s, u, w)
    <2>1. PICK i \in 1 .. n : r[i].wake = v /\ r[i].task = u
      BY <1>7, <1>9
    <2>2. FiledIn(s, u, s[i].wake)
      BY <1>7, <1>8, <2>1
    <2>3. QED BY <1>1, <1>3, <1>8, <2>1, <2>2
  <1>10. ASSUME NEW u, FiledIn(s, u, async_null_time)  PROVE FiledIn(r, u, async_null_time)
    BY <1>7, <1>8, <1>10
  <1>11. ASSUME NEW u, NEW w \in Int, w > - MaxLate, FiledIn(s, u, w)
         PROVE  FiledIn(r, u, w - 1)
    <2>1. PICK i \in 1 .. n : s[i].wake = w /\ s[i].task = u
      BY <1>7, <1>11
    <2>2. w # async_null_time
      BY <1>1, <1>11
    <2>3. r[i].wake = w - 1 /\ r[i].task = u
      BY <1>8, <2>1, <2>2
    <2>4. QED BY <1>7, <2>3
  <1>12. QED BY <1>9, <1>10, <1>11 DEF Filed, s, r

-----------------------------------------------------------------------------

(* What a task's status says of the place of its stack. *)
Statuses == {"absent", "running", "continuing", "detached", "blocked", "ready", "sleeping"}

Mapped ==
  \A t \in Task :
    /\ Status(t) \in Statuses
    /\ Status(t) = "absent" <=> depth[t] = 0
    /\ Status(t) = "running" <=> Runs(t)
    /\ Status(t) = "continuing" <=> shortcut_task_stack = t
    /\ Status(t) = "detached" <=> t \in detached
    /\ Status(t) = "blocked" <=> \E l \in Lock : t \in Blocked(l)
    /\ Status(t) = "ready" <=> Filed(t, async_null_time)
    /\ Status(t) = "sleeping" <=> \E w \in WakeTime : w # async_null_time /\ Filed(t, w)
    /\ \A w \in WakeTime : w # async_null_time /\ Filed(t, w) => Due(t) = w
    /\ Status(t) # "sleeping" => Due(t) = 0

(* The stacks on the schedule are the ones filed for some time.            *)
LEMMA QueuedIsFiled ==
  ASSUME TypeOK
  PROVE  /\ \A t : t \in Queued <=> \E w \in WakeTime : Filed(t, w)
         /\ \A t, w : Filed(t, w) => w \in WakeTime /\ t \in Task
         /\ \A t, w : Filed(t, w) <=>
              \E i \in DOMAIN schedule : schedule[i].wake = w /\ schedule[i].task = t
         /\ Queued = Range([i \in DOMAIN schedule |-> schedule[i].task])
  <1> DEFINE s == schedule
  <1>1. \A i \in DOMAIN s : /\ s[i] \in Entry /\ s[i].wake \in WakeTime /\ s[i].task \in Task
                            /\ s[i] = [wake |-> s[i].wake, task |-> s[i].task]
    <2>1. \A i \in DOMAIN s : s[i] \in Entry
      BY ElementOfSeq DEF TypeOK
    <2>2. QED BY <2>1 DEF Entry
  <1> HIDE DEF s
  <1>2. \A t, w : FiledIn(s, t, w) <=> \E i \in DOMAIN s : s[i] = [wake |-> w, task |-> t]
    BY DEF FiledIn, Range
  <1>3. \A t, w : FiledIn(s, t, w) <=> \E i \in DOMAIN s : s[i].wake = w /\ s[i].task = t
    <2> TAKE t, w
    <2>1. \A i \in DOMAIN s : s[i] = [wake |-> w, task |-> t] <=> s[i].wake = w /\ s[i].task = t
      BY <1>1
    <2>2. QED BY <1>2, <2>1
  <1>4. \A t : t \in TasksOf(s) <=> \E i \in DOMAIN s : s[i].task = t
    BY DEF TasksOf
  <1>5. \A t : t \in TasksOf(s) <=> \E w \in WakeTime : FiledIn(s, t, w)
    BY <1>1, <1>3, <1>4
  <1>6. TasksOf(s) = Range([i \in DOMAIN s |-> s[i].task])
    BY DEF TasksOf, Range
  <1>7. QED BY <1>1, <1>3, <1>5, <1>6 DEF s, Filed, Queued

(* The same after a step.                                                  *)
LEMMA QueuedIsFiledNext ==
  ASSUME TypeOK'
  PROVE  \A t, w : Filed(t, w)' => w \in WakeTime'
  <1>1. schedule' \in Seq(Entry)
    BY DEF TypeOK, Entry, WakeTime, async_null_time
  <1>2. \A i \in DOMAIN schedule' : schedule'[i] \in Entry
    BY <1>1, ElementOfSeq
  <1>3. \A e \in Entry : e.wake \in WakeTime
    BY DEF Entry
  <1>4. ASSUME NEW t, NEW w, Filed(t, w)'  PROVE w \in WakeTime
    <2>1. PICK i \in DOMAIN schedule' : schedule'[i] = [wake |-> w, task |-> t]
      BY <1>4 DEF Filed, FiledIn, Range
    <2>2. schedule'[i].wake = w
      BY <2>1
    <2>3. QED BY <1>2, <1>3, <2>1, <2>2
  <1>5. QED BY <1>4 DEF WakeTime, async_null_time

(* A stack is in one place, and so has the status of that place.           *)
LEMMA PlaceIsMapped == PlaceInv => Mapped
  <1> SUFFICES ASSUME PlaceInv, NEW t \in Task
               PROVE  /\ Status(t) \in Statuses
                      /\ Status(t) = "absent" <=> depth[t] = 0
                      /\ Status(t) = "running" <=> Runs(t)
                      /\ Status(t) = "continuing" <=> shortcut_task_stack = t
                      /\ Status(t) = "detached" <=> t \in detached
                      /\ Status(t) = "blocked" <=> \E l \in Lock : t \in Blocked(l)
                      /\ Status(t) = "ready" <=> Filed(t, async_null_time)
                      /\ Status(t) = "sleeping" <=>
                           \E w \in WakeTime : w # async_null_time /\ Filed(t, w)
                      /\ \A w \in WakeTime :
                           w # async_null_time /\ Filed(t, w) => Due(t) = w
                      /\ Status(t) # "sleeping" => Due(t) = 0
    BY DEF Mapped
  <1> USE DEF PlaceInv
  <1> DEFINE waits == \E l \in Lock : t \in Blocked(l)
             filed == \E w \in WakeTime : Filed(t, w)
  <1>1. /\ \A w : Filed(t, w) => w \in WakeTime
        /\ \A w : Filed(t, w) <=>
             \E i \in DOMAIN schedule : schedule[i].wake = w /\ schedule[i].task = t
        /\ t \in Queued <=> filed
        /\ Queued = Range([i \in DOMAIN schedule |-> schedule[i].task])
        /\ depth[t] \in Nat
    BY QueuedIsFiled DEF TypeOK
  <1>2. Status(t) = IF depth[t] = 0 THEN "absent"
                    ELSE IF Runs(t) THEN "running"
                    ELSE IF shortcut_task_stack = t THEN "continuing"
                    ELSE IF t \in detached THEN "detached"
                    ELSE IF waits THEN "blocked"
                    ELSE IF t \notin Queued THEN "lost"
                    ELSE IF Filed(t, async_null_time) THEN "ready"
                    ELSE "sleeping"
    BY <1>1 DEF Status, Blocked, Filed, FiledIn
  <1>3. /\ filed => t \notin detached /\ shortcut_task_stack # t /\ ~ Runs(t) /\ ~ waits
        /\ t \in detached => shortcut_task_stack # t /\ ~ Runs(t) /\ ~ waits
        /\ shortcut_task_stack = t \/ Runs(t) => ~ waits
        /\ ~ (shortcut_task_stack = t /\ Runs(t))
        /\ depth[t] # 0 <=> \/ filed \/ t \in detached
                            \/ shortcut_task_stack = t \/ Runs(t) \/ waits
    BY <1>1, AsyncAssumption DEF AsyncAssumption, PlacedOnce, LiveIsPlaced, Runs
  <1>4. \A v, w : Filed(t, v) /\ Filed(t, w) => v = w
    BY <1>1 DEF PlacedOnce, DistinctTasks
  <1>5. async_null_time \in WakeTime
    BY WakeTimes
  <1>6. ASSUME NEW w \in WakeTime, w # async_null_time, Filed(t, w)
        PROVE  Status(t) = "sleeping" /\ Due(t) = w
    <2>1. Status(t) = "sleeping"
      BY <1>1, <1>2, <1>3, <1>4, <1>6
    <2> DEFINE i == CHOOSE i \in DOMAIN schedule : schedule[i].task = t
    <2>2. Due(t) = schedule[i].wake
      BY <2>1 DEF Due
    <2>3. i \in DOMAIN schedule /\ schedule[i].task = t
      BY <1>1, <1>6
    <2> HIDE DEF i
    <2>4. Filed(t, schedule[i].wake)
      BY <1>1, <2>3
    <2>5. QED BY <1>4, <1>6, <2>1, <2>2, <2>4
  <1>7. Status(t) # "sleeping" => Due(t) = 0
    BY DEF Due
  <1> HIDE DEF PlaceInv, waits, filed
  <1>8. Status(t) = "sleeping" => \E w \in WakeTime : w # async_null_time /\ Filed(t, w)
    <2>1. Status(t) = "sleeping" => filed /\ ~ Filed(t, async_null_time)
      BY <1>1, <1>2
    <2>2. QED BY <2>1 DEF filed
  <1>9. /\ Status(t) \in Statuses
        /\ Status(t) = "absent" <=> depth[t] = 0
        /\ Status(t) = "running" <=> Runs(t)
        /\ Status(t) = "continuing" <=> shortcut_task_stack = t
        /\ Status(t) = "detached" <=> t \in detached
        /\ Status(t) = "blocked" <=> waits
        /\ Status(t) = "ready" <=> Filed(t, async_null_time)
    <2>1. Filed(t, async_null_time) => filed
      BY <1>5 DEF filed
    <2>2. QED BY <1>1, <1>2, <1>3, <2>1 DEF Statuses
  <1>10. QED BY <1>6, <1>7, <1>8, <1>9 DEF waits

-----------------------------------------------------------------------------

(* A stack whose places a step leaves alone keeps its status.              *)
LEMMA Stays ==
  ASSUME Mapped, Mapped', NEW u \in Task,
         depth'[u] = 0 <=> depth[u] = 0,
         Runs(u)' <=> Runs(u),
         shortcut_task_stack' = u <=> shortcut_task_stack = u,
         u \in detached' <=> u \in detached,
         \A l \in Lock : u \in Blocked(l)' <=> u \in Blocked(l),
         \A w : Filed(u, w)' <=> Filed(u, w)
  PROVE  Status(u)' = Status(u) /\ Due(u)' = Due(u)
  <1>1. Status(u)' = Status(u)
    <2>1. \/ Status(u)' \in {"absent", "running", "continuing", "detached"}
          \/ Status(u)' \in {"blocked", "ready", "sleeping"}
      BY DEF Mapped, Statuses
    <2>2. CASE Status(u)' \in {"absent", "running", "continuing", "detached"}
      BY <2>2 DEF Mapped
    <2>3. CASE Status(u)' = "blocked"
      BY <2>3 DEF Mapped
    <2>4. CASE Status(u)' = "ready"
      BY <2>4 DEF Mapped, async_null_time
    <2>5. CASE Status(u)' = "sleeping"
      BY <2>5 DEF Mapped, WakeTime, async_null_time
    <2>6. QED BY <2>1, <2>2, <2>3, <2>4, <2>5
  <1>2. Due(u)' = Due(u)
    <2>1. CASE Status(u) = "sleeping"
      <3>1. PICK w \in WakeTime : w # async_null_time /\ Filed(u, w)
        BY <2>1 DEF Mapped
      <3>2. Due(u) = w
        BY <3>1 DEF Mapped
      <3>3. Due(u)' = w
        BY <3>1 DEF Mapped, WakeTime, async_null_time
      <3>4. QED BY <3>2, <3>3
    <2>2. CASE Status(u) # "sleeping"
      BY <1>1, <2>2 DEF Mapped
    <2>3. QED BY <2>1, <2>2
  <1>3. QED BY <1>1, <1>2

(* One task's status changes: the abstract action's assignment.            *)
LEMMA Becomes ==
  ASSUME NEW t \in Task, \A u \in Task : u # t => Status(u)' = Status(u)
  PROVE  Coroutine!Become(t, Status(t)')
  BY DEF Coroutine!Become

(* What is the same of every stack is the same function of the stacks.     *)
LEMMA StatusStays ==
  ASSUME \A u \in Task : Status(u)' = Status(u)
  PROVE  UNCHANGED [t \in Task |-> Status(t)]
  OBVIOUS

(* The same of the times they are due at ...                               *)
LEMMA DueStays ==
  ASSUME \A u \in Task : Due(u)' = Due(u)
  PROVE  UNCHANGED [t \in Task |-> Due(t)]
  OBVIOUS

(* Claimants are the tasks that have the lock; if having locks does not    *)
(* change, keepers do not.                                                 *)
LEMMA ClaimantsAre ==
  \A l, t : t \in Claimants(l) <=> t \in Task /\ HasLock(t, l)
  BY DEF Claimants, HasLock, Blocked

(* ... and of who keeps each lock.                                         *)
LEMMA KeepersStay ==
  ASSUME \A l \in Lock, t \in Task : HasLock(t, l)' <=> HasLock(t, l)
  PROVE  UNCHANGED [l \in Lock |-> Claimants(l)]
  <1>1. \A l \in Lock, t \in Task : t \in Claimants(l)' <=> HasLock(t, l)'
    BY DEF Claimants, HasLock, Blocked
  <1>2. \A l \in Lock : Claimants(l)' \subseteq Task /\ Claimants(l) \subseteq Task
    BY DEF Claimants
  <1>3. \A l \in Lock : Claimants(l)' = Claimants(l)
    BY <1>1, <1>2, ClaimantsAre
  <1>4. QED BY <1>3

(* What the abstract variables are while the locks are left alone.         *)
LEMMA LocksStay ==
  ASSUME UNCHANGED locks
  PROVE  UNCHANGED <<held, [l \in Lock |-> Claimants(l)],
                     [l \in Lock |-> Reverse(waiting_stacks[l])]>>
         /\ \A l \in Lock : Blocked(l)' = Blocked(l)
  <1>1. UNCHANGED <<held, waiting_stacks, owns, acquiring>>
    BY DEF locks
  <1>2. \A l \in Lock, t \in Task : HasLock(t, l)' <=> HasLock(t, l)
    BY <1>1 DEF HasLock, Blocked
  <1>3. QED BY <1>1, <1>2, KeepersStay DEF Blocked

(* What the steps are proved from. *)
Known ==
  /\ PlaceInv /\ LockInv /\ ScheduleSorted /\ Mapped
  /\ PlaceInv' /\ Mapped'

(* The loop picks stack t and calls its top function: t runs, the others   *)
(* stay, and so does who has which lock.                                   *)
LEMMA CallTopMapped ==
  ASSUME Known, NEW t \in Task, phase = "pick", CallTop(t),
         \A l \in Lock : t \notin Blocked(l),
         \A u \in Task : u # t =>
           /\ shortcut_task_stack' = u <=> shortcut_task_stack = u
           /\ u \in detached' <=> u \in detached
           /\ \A w : Filed(u, w)' <=> Filed(u, w)
  PROVE  /\ Coroutine!Become(t, "running")
         /\ [u \in Task |-> Due(u)]' = [[u \in Task |-> Due(u)] EXCEPT ![t] = 0]
         /\ UNCHANGED <<held, [l \in Lock |-> Claimants(l)],
                        [l \in Lock |-> Reverse(waiting_stacks[l])]>>
         /\ \A u \in Task : Status(u) # "running"
  <1>1. /\ phase' = "run" /\ task_stack' = t /\ UNCHANGED <<depth, held, waiting_stacks>>
        /\ owns' = [owns EXCEPT ![t] = IF acquiring[t] = NoLock THEN @ ELSE @ \cup {acquiring[t]}]
        /\ acquiring' = [acquiring EXCEPT ![t] = NoLock]
    BY DEF CallTop
  <1>2. /\ \A u \in Task : ~ Runs(u) /\ (Runs(u)' <=> u = t)
        /\ \A l \in Lock : Blocked(l)' = Blocked(l)
    BY <1>1 DEF Runs, Blocked
  <1>3. \A u \in Task : u # t => Status(u)' = Status(u) /\ Due(u)' = Due(u)
    BY <1>1, <1>2, Stays DEF Known
  <1>4. Status(t)' = "running" /\ Due(t)' = 0
    BY <1>2 DEF Known, Mapped
  <1>5. Coroutine!Become(t, "running")
    BY <1>3, <1>4, Becomes
  <1>6. \A l \in Lock, u \in Task : HasLock(u, l)' <=> HasLock(u, l)
    <2>1. /\ owns \in [Task -> SUBSET Lock] /\ acquiring \in [Task -> Lock \cup {NoLock}]
          /\ NoLock \notin Lock
      BY AsyncAssumption DEF AsyncAssumption, Known, PlaceInv, TypeOK
    <2>2. ASSUME NEW l \in Lock  PROVE HasLock(t, l)' <=> HasLock(t, l)
      <3>1. acquiring'[t] = NoLock /\ NoLock # l
        BY <1>1, <2>1
      <3>2. l \in owns'[t] <=> l \in owns[t] \/ acquiring[t] = l
        BY <1>1, <2>1, <3>1
      <3>3. QED BY <3>1, <3>2 DEF HasLock
    <2>3. ASSUME NEW l \in Lock, NEW u \in Task, u # t  PROVE HasLock(u, l)' <=> HasLock(u, l)
      <3>1. acquiring'[u] = acquiring[u] /\ owns'[u] = owns[u]
        BY <1>1, <2>1, <2>3
      <3>2. QED BY <1>2, <3>1 DEF HasLock
    <2>4. QED BY <2>2, <2>3
  <1>7. [u \in Task |-> Due(u)]' = [[u \in Task |-> Due(u)] EXCEPT ![t] = 0]
    BY <1>3, <1>4
  <1>8. \A u \in Task : Status(u) # "running"
    BY <1>2 DEF Known, Mapped
  <1>9. QED BY <1>1, <1>5, <1>6, <1>7, <1>8, KeepersStay

(* Nothing of the schedule is due before its head; if the head is not for  *)
(* at once, no task is ready.                                              *)
LEMMA HeadIsFirst ==
  ASSUME Known, schedule # <<>>
  PROVE  /\ Head(schedule).task \in Task /\ Head(schedule).wake \in WakeTime
         /\ Filed(Head(schedule).task, Head(schedule).wake)
         /\ \A u, w : Filed(u, w) => w \in Int /\ Head(schedule).wake <= w
         /\ Head(schedule).wake # async_null_time => \A u : ~ Filed(u, async_null_time)
  <1>1. schedule \in Seq(Entry) /\ TypeOK
    BY DEF Known, PlaceInv, TypeOK
  <1>2. /\ Len(schedule) \in Nat \ {0} /\ DOMAIN schedule = 1 .. Len(schedule)
        /\ Head(schedule) = schedule[1]
    BY <1>1, TailFacts
  <1>3. 1 \in 1 .. Len(schedule)
    BY <1>2
  <1>4. \A i \in 1 .. Len(schedule) : /\ schedule[i].wake \in WakeTime /\ schedule[i].wake \in Int
                                      /\ async_null_time <= schedule[i].wake
                                      /\ schedule[i].task \in Task
    BY <1>1, EntryFacts
  <1>5. \A i \in 1 .. Len(schedule) : schedule[1].wake <= schedule[i].wake
    <2> TAKE i \in 1 .. Len(schedule)
    <2>1. CASE i = 1
      BY <1>3, <1>4, <2>1
    <2>2. CASE i # 1
      <3>1. 1 < i
        BY <1>2, <2>2
      <3>2. QED BY <1>2, <1>3, <3>1 DEF Known, ScheduleSorted
    <2>3. QED BY <2>1, <2>2
  <1>6. \A u, w : Filed(u, w) <=>
          \E i \in DOMAIN schedule : schedule[i].wake = w /\ schedule[i].task = u
    BY <1>1, QueuedIsFiled
  <1>7. \A u, w : Filed(u, w) => w \in Int /\ schedule[1].wake <= w
    BY <1>2, <1>4, <1>5, <1>6
  <1>8. schedule[1].wake # async_null_time => \A u : ~ Filed(u, async_null_time)
    BY <1>3, <1>4, <1>7, WakeTimes
  <1>9. Filed(schedule[1].task, schedule[1].wake)
    BY <1>2, <1>3, <1>6
  <1>10. QED BY <1>2, <1>3, <1>4, <1>7, <1>8, <1>9

(* Every way the loop picks a stack is the abstract scheduler's choice.    *)
LEMMA PickResumes ==
  ASSUME Known, PickShortcut \/ PickScheduled \/ PickEvented
  PROVE  \E t \in Task : Coroutine!Resume(t)
  <1>0. /\ TypeOK /\ PlacedOnce /\ NoTask \notin Task /\ schedule \in Seq(Entry)
    BY AsyncAssumption DEF AsyncAssumption, Known, PlaceInv, TypeOK
  <1>1. CASE PickShortcut
    <2> DEFINE t == shortcut_task_stack
    <2>1. /\ t \in Task /\ phase = "pick" /\ CallTop(t) /\ shortcut_task_stack' = NoTask
          /\ UNCHANGED <<schedule, detached>>
      BY <1>0, <1>1 DEF PickShortcut, TypeOK
    <2>2. /\ \A l \in Lock : t \notin Blocked(l)
          /\ \A u \in Task : u # t =>
               /\ shortcut_task_stack' = u <=> shortcut_task_stack = u
               /\ u \in detached' <=> u \in detached
               /\ \A w : Filed(u, w)' <=> Filed(u, w)
      BY <1>0, <2>1 DEF PlacedOnce, Filed
    <2>3. Status(t) = "continuing"
      BY <2>1 DEF Known, Mapped
    <2>4. QED BY <2>1, <2>2, <2>3, CallTopMapped DEF Coroutine!Resume, Coroutine!Are
  <1>2. CASE PickScheduled
    <2> DEFINE t == Head(schedule).task
               w == Head(schedule).wake
    <2>1. /\ phase = "pick" /\ shortcut_task_stack = NoTask /\ schedule # <<>>
          /\ w = async_null_time \/ w <= 0
          /\ schedule' = Tail(schedule) /\ CallTop(t)
          /\ UNCHANGED <<shortcut_task_stack, detached>>
      BY <1>2 DEF PickScheduled, async_time_is_null
    <2>2. /\ t \in Task /\ w \in WakeTime /\ Filed(t, w)
          /\ \A u, v : Filed(u, v) => v \in Int /\ w <= v
          /\ w # async_null_time => \A u : ~ Filed(u, async_null_time)
      BY <2>1, HeadIsFirst
    <2>3. t \in Queued
      BY <1>0, <2>2, QueuedIsFiled
    <2>4. \A u, v : Filed(u, v)' <=> Filed(u, v) /\ u # t
      BY <1>0, <2>1, FiledInTail DEF Filed, PlacedOnce
    <2>5. /\ \A l \in Lock : t \notin Blocked(l)
          /\ \A u \in Task : u # t =>
               /\ shortcut_task_stack' = u <=> shortcut_task_stack = u
               /\ u \in detached' <=> u \in detached
               /\ \A v : Filed(u, v)' <=> Filed(u, v)
      BY <1>0, <2>1, <2>2, <2>3, <2>4 DEF PlacedOnce
    <2> HIDE DEF t, w
    <2>6. \A u \in Task : Status(u) # "continuing"
      BY <1>0, <2>1 DEF Known, Mapped
    <2>7. CASE w = async_null_time
      <3>1. Status(t) = "ready"
        BY <2>2, <2>7 DEF Known, Mapped
      <3>2. /\ Coroutine!Become(t, "running")
            /\ [u \in Task |-> Due(u)]' = [[u \in Task |-> Due(u)] EXCEPT ![t] = 0]
            /\ UNCHANGED <<held, [l \in Lock |-> Claimants(l)],
                           [l \in Lock |-> Reverse(waiting_stacks[l])]>>
            /\ \A u \in Task : Status(u) # "running"
        BY <2>1, <2>2, <2>5, CallTopMapped
      <3>3. QED BY <2>2, <2>6, <3>1, <3>2 DEF Coroutine!Resume, Coroutine!Are
    <2>8. CASE w # async_null_time
      <3>1. Status(t) = "sleeping" /\ Due(t) = w /\ w <= 0
        BY <2>1, <2>2, <2>8 DEF Known, Mapped
      <3>2. \A u \in Task : Status(u) # "ready"
        BY <2>2, <2>8 DEF Known, Mapped
      <3>3. \A u \in Task : Status(u) = "sleeping" => Due(t) <= Due(u)
        <4> SUFFICES ASSUME NEW u \in Task, Status(u) = "sleeping"  PROVE Due(t) <= Due(u)
          OBVIOUS
        <4>1. PICK v \in WakeTime : v # async_null_time /\ Filed(u, v)
          BY DEF Known, Mapped
        <4>2. Due(u) = v
          BY <4>1 DEF Known, Mapped
        <4>3. QED BY <2>2, <3>1, <4>1, <4>2
      <3>4. /\ Coroutine!Become(t, "running")
            /\ [u \in Task |-> Due(u)]' = [[u \in Task |-> Due(u)] EXCEPT ![t] = 0]
            /\ UNCHANGED <<held, [l \in Lock |-> Claimants(l)],
                           [l \in Lock |-> Reverse(waiting_stacks[l])]>>
            /\ \A u \in Task : Status(u) # "running"
        BY <2>1, <2>2, <2>5, CallTopMapped
      <3>5. /\ Coroutine!Are("running") = {} /\ Coroutine!Are("continuing") \cup Coroutine!Are("ready") = {}
            /\ \A u \in Coroutine!Are("sleeping") : u \in Task /\ Status(u) = "sleeping"
        BY <2>6, <3>2, <3>4 DEF Coroutine!Are
      <3>6. Coroutine!Resume(t)
        BY <2>2, <3>1, <3>3, <3>4, <3>5 DEF Coroutine!Resume
      <3>7. QED BY <2>2, <3>6
    <2>9. QED BY <2>7, <2>8
  <1>3. CASE PickEvented
    <2>1. PICK t \in detached : Evented(t)
      BY <1>3 DEF PickEvented
    <2>2. /\ t \in Task /\ phase = "pick" /\ shortcut_task_stack = NoTask /\ CallTop(t)
          /\ schedule # <<>> => Head(schedule).wake # async_null_time
          /\ detached' = detached \ {t} /\ UNCHANGED <<schedule, shortcut_task_stack>>
      BY <1>0, <2>1 DEF Evented, ScheduleAfterEvent, TypeOK, async_time_is_null
    <2>3. /\ \A l \in Lock : t \notin Blocked(l)
          /\ \A u \in Task : u # t =>
               /\ shortcut_task_stack' = u <=> shortcut_task_stack = u
               /\ u \in detached' <=> u \in detached
               /\ \A w : Filed(u, w)' <=> Filed(u, w)
      BY <1>0, <2>2 DEF PlacedOnce, Filed
    <2>4. \A u \in Task : Status(u) # "continuing"
      BY <1>0, <2>2 DEF Known, Mapped
    <2>5. \A u : ~ Filed(u, async_null_time)
      <3>1. CASE schedule = <<>>
        BY <3>1 DEF Filed, FiledIn, Range
      <3>2. CASE schedule # <<>>
        BY <2>2, <3>2, HeadIsFirst
      <3>3. QED BY <3>1, <3>2
    <2>6. \A u \in Task : Status(u) # "ready"
      BY <2>5 DEF Known, Mapped
    <2>7. Status(t) = "detached"
      BY <2>1, <2>2 DEF Known, Mapped
    <2>8. QED BY <2>2, <2>3, <2>4, <2>6, <2>7, CallTopMapped DEF Coroutine!Resume, Coroutine!Are
  <1>4. QED BY <1>1, <1>2, <1>3

(* A tick of the clock brings all deadlines one nearer.                    *)
LEMMA TickTicks ==
  ASSUME Known, Tick
  PROVE  Coroutine!Tick
  <1>1. /\ TypeOK /\ async_null_time = - 1 - MaxLate /\ MaxLate \in Nat
        /\ WakeTime \subseteq Int
    BY WakeTimes, AsyncAssumption DEF AsyncAssumption, Known, PlaceInv
  <1>2. UNCHANGED <<phase, shortcut_task_stack, task_stack, depth, detached, locks>>
    BY DEF Tick
  <1>3. \A u, v : Filed(u, v)' <=>
           \/ v = async_null_time /\ Filed(u, v)
           \/ \E w \in Int : /\ w > - MaxLate /\ v = w - 1 /\ Filed(u, w)
    BY <1>1, FiledByTick
  <1>4. \A u : Filed(u, async_null_time)' <=> Filed(u, async_null_time)
    BY <1>1, <1>3
  <1>5. /\ \A l \in Lock : Blocked(l)' = Blocked(l)
        /\ \A u \in Task : Runs(u)' <=> Runs(u)
        /\ WakeTime' = WakeTime /\ async_null_time' = async_null_time
    BY <1>2 DEF locks, Blocked, Runs, WakeTime, async_null_time
  <1>6. ASSUME NEW u \in Task, Status(u) # "sleeping"
        PROVE  Status(u)' = Status(u) /\ Due(u)' = Due(u)
    <2>1. \A w \in WakeTime : w # async_null_time => ~ Filed(u, w)
      BY <1>6 DEF Known, Mapped
    <2>2. \A w : Filed(u, w) => w \in WakeTime
      BY <1>1, QueuedIsFiled
    <2>3. \A w : Filed(u, w)' <=> Filed(u, w)
      <3>1. \A w : Filed(u, w) => w = async_null_time
        BY <2>1, <2>2
      <3>2. \A w \in Int : w > - MaxLate => ~ Filed(u, w)
        BY <1>1, <3>1
      <3>3. \A w : Filed(u, w)' <=> w = async_null_time /\ Filed(u, w)
        BY <1>3, <3>2
      <3>4. QED BY <3>1, <3>3
    <2>4. QED BY <1>2, <1>5, <2>3, Stays DEF Known
  <1>7. ASSUME NEW u \in Task, Status(u) = "sleeping"
        PROVE  Status(u)' = "sleeping" /\ Due(u) > - MaxLate /\ Due(u)' = Due(u) - 1
    <2>1. PICK w \in WakeTime : w # async_null_time /\ Filed(u, w)
      BY <1>7 DEF Known, Mapped
    <2>2. Due(u) = w
      BY <2>1 DEF Known, Mapped
    <2>3. w > - MaxLate
      <3>1. PICK i \in DOMAIN schedule : schedule[i].wake = w
        BY <1>1, <2>1, QueuedIsFiled
      <3>2. QED BY <2>1, <3>1 DEF Tick, async_time_is_null
    <2>4. Filed(u, w - 1)' /\ w \in Int /\ w - 1 # async_null_time
      BY <1>1, <1>3, <2>1, <2>3
    <2>5. w - 1 \in WakeTime'
      <3>1. TypeOK'
        BY DEF Known, PlaceInv
      <3>2. \A t, v : Filed(t, v)' => v \in WakeTime'
        BY <3>1, QueuedIsFiledNext
      <3>3. QED BY <2>4, <3>2
    <2>6. Status(u)' = "sleeping" /\ Due(u)' = w - 1
      BY <1>5, <2>4, <2>5 DEF Known, Mapped
    <2>7. QED BY <2>2, <2>3, <2>6
  <1>8. \A u \in Task : Status(u)' = Status(u)
    BY <1>6, <1>7
  <1>9. [u \in Task |-> Due(u)]' =
          [u \in Task |-> IF Status(u) = "sleeping" THEN Due(u) - 1 ELSE Due(u)]
    BY <1>6, <1>7
  <1>10. UNCHANGED <<[t \in Task |-> Status(t)], held, [l \in Lock |-> Claimants(l)],
                     [l \in Lock |-> Reverse(waiting_stacks[l])]>>
    BY <1>2, <1>8, StatusStays, LocksStay
  <1>11. QED BY <1>7, <1>9, <1>10 DEF Coroutine!Tick, Coroutine!Are

(* async_spawn makes a new task ready, with locks nobody keeps.            *)
LEMMA SpawnSpawns ==
  ASSUME Known, NEW t \in Task, NEW adopts \in SUBSET InitHeld, async_spawn(t, adopts)
  PROVE  Coroutine!Spawn(t)
  <1>1. /\ TypeOK /\ async_null_time \in WakeTime /\ schedule \in Seq(Entry)
        /\ InitHeld \subseteq Lock /\ NoLock \notin Lock
        /\ owns \in [Task -> SUBSET Lock]
    BY WakeTimes, AsyncAssumption DEF AsyncAssumption, Known, PlaceInv, TypeOK
  <1>2. /\ depth[t] = 0 /\ adopts \subseteq unadopted
        /\ schedule' = schedule_a_value(schedule, async_null_time, t)
        /\ owns' = [owns EXCEPT ![t] = adopts]
        /\ depth' = [depth EXCEPT ![t] = 1]
        /\ UNCHANGED <<phase, shortcut_task_stack, task_stack, detached,
                       held, waiting_stacks, acquiring>>
    BY DEF async_spawn
  <1>3. \A u, v : Filed(u, v)' <=> Filed(u, v) \/ (u = t /\ v = async_null_time)
    BY <1>1, <1>2, FiledByScheduling DEF Filed
  <1>4. /\ \A l \in Lock : Blocked(l)' = Blocked(l)
        /\ \A u \in Task : Runs(u)' <=> Runs(u)
        /\ \A u \in Task : u # t => depth'[u] = depth[u]
    BY <1>1, <1>2 DEF Blocked, Runs, TypeOK
  <1>5. \A u \in Task : u # t => Status(u)' = Status(u) /\ Due(u)' = Due(u)
    BY <1>2, <1>3, <1>4, Stays DEF Known
  <1>6. /\ Status(t) = "absent" /\ Status(t)' = "ready"
        /\ Due(t) = 0 /\ Due(t)' = 0
    <2>1. Status(t) = "absent" /\ Due(t) = 0
      BY <1>2 DEF Known, Mapped
    <2>2. Status(t)' = "ready"
      BY <1>3 DEF Known, Mapped, async_null_time
    <2>3. QED BY <2>1, <2>2 DEF Known, Mapped
  <1>7. /\ Coroutine!Become(t, "ready")
        /\ UNCHANGED [u \in Task |-> Due(u)]
    BY <1>5, <1>6, Becomes, DueStays
  <1>8. /\ owns[t] = {} /\ acquiring[t] = NoLock
        /\ \A l \in adopts : held[l] /\ \A u \in Task : ~ HasLock(u, l)
    BY <1>1, <1>2 DEF Known, LockInv
  <1>9. \A l \in Lock, u \in Task :
          HasLock(u, l)' <=> IF l \in adopts THEN u = t ELSE HasLock(u, l)
    <2> TAKE l \in Lock, u \in Task
    <2>1. CASE u = t
      BY <1>1, <1>2, <1>8, <2>1 DEF HasLock
    <2>2. CASE u # t
      BY <1>1, <1>2, <1>4, <1>8, <2>2 DEF HasLock
    <2>3. QED BY <2>1, <2>2
  <1>10. \A l \in Lock : Claimants(l)' = IF l \in adopts THEN {t} ELSE Claimants(l)
    <2> TAKE l \in Lock
    <2>1. \A u : /\ u \in Claimants(l)' <=> u \in Task /\ HasLock(u, l)'
                 /\ u \in Claimants(l) <=> u \in Task /\ HasLock(u, l)
      BY DEF Claimants, HasLock, Blocked
    <2>2. QED BY <1>9, <2>1
  <1>11. adopts \in SUBSET {l \in InitHeld : held[l] /\ [m \in Lock |-> Claimants(m)][l] = {}}
    <2>1. \A l \in adopts : Claimants(l) = {}
      BY <1>8 DEF Claimants, HasLock, Blocked
    <2>2. QED BY <1>1, <1>8, <2>1
  <1>12. [l \in Lock |-> Claimants(l)]' =
           [l \in Lock |-> IF l \in adopts THEN {t} ELSE [m \in Lock |-> Claimants(m)][l]]
    BY <1>10
  <1>13. UNCHANGED <<held, [l \in Lock |-> Reverse(waiting_stacks[l])]>>
    BY <1>2
  <1>14. QED BY <1>6, <1>7, <1>11, <1>12, <1>13 DEF Coroutine!Spawn

(* Neither taking a lock that is free, ... *)
LEMMA LockTaken ==
  ASSUME Known, NEW t \in Task, NEW k \in Lock, Runs(t), ~ held[k],
         held' = [held EXCEPT ![k] = TRUE],
         \A l \in Lock, u \in Task :
           HasLock(u, l)' <=> HasLock(u, l) \/ (u = t /\ l = k)
  PROVE  /\ held' = [held EXCEPT ![k] = TRUE]
         /\ [l \in Lock |-> Claimants(l)]' = [[l \in Lock |-> Claimants(l)] EXCEPT ![k] = {t}]
  <1>1. \A u \in Task : ~ HasLock(u, k)
    BY DEF Known, LockInv
  <1>2. \A l \in Lock : \A u : /\ u \in Claimants(l)' <=> u \in Task /\ HasLock(u, l)'
                               /\ u \in Claimants(l) <=> u \in Task /\ HasLock(u, l)
    BY DEF Claimants, HasLock, Blocked
  <1>3. Claimants(k)' = {t} /\ \A l \in Lock : l # k => Claimants(l)' = Claimants(l)
    BY <1>1, <1>2
  <1>4. QED BY <1>3

(* A lock that is tried and free is taken.                                 *)
LEMMA TryAcquireTakes ==
  ASSUME Known, NEW t \in Task, NEW k \in Lock, async_lock_try_acquire(t, k)
  PROVE  Coroutine!Take(t, k)
  <1>1. /\ Runs(t) /\ ~ held[k]
        /\ held' = [held EXCEPT ![k] = TRUE]
        /\ owns' = [owns EXCEPT ![t] = @ \cup {k}]
        /\ UNCHANGED <<phase, schedule, shortcut_task_stack, task_stack, depth, detached,
                       waiting_stacks, acquiring>>
        /\ owns \in [Task -> SUBSET Lock]
    BY DEF async_lock_try_acquire, timers, Known, PlaceInv, TypeOK
  <1>2. /\ \A l \in Lock : Blocked(l)' = Blocked(l)
        /\ \A u \in Task : Runs(u)' <=> Runs(u)
        /\ \A u, w : Filed(u, w)' <=> Filed(u, w)
    BY <1>1 DEF Blocked, Runs, Filed
  <1>3. \A u \in Task : Status(u)' = Status(u) /\ Due(u)' = Due(u)
    BY <1>1, <1>2, Stays DEF Known
  <1>4. UNCHANGED <<[u \in Task |-> Status(u)], [u \in Task |-> Due(u)],
                    [l \in Lock |-> Reverse(waiting_stacks[l])]>>
    BY <1>1, <1>3
  <1>5. Status(t) = "running"
    BY <1>1 DEF Known, Mapped
  <1>6. \A l \in Lock, u \in Task : HasLock(u, l)' <=> HasLock(u, l) \/ (u = t /\ l = k)
    <2> TAKE l \in Lock, u \in Task
    <2>1. l \in owns'[u] <=> l \in owns[u] \/ (u = t /\ l = k)
      BY <1>1
    <2>2. QED BY <1>1, <1>2, <2>1 DEF HasLock
  <1>7. [l \in Lock |-> Claimants(l)]' = [[l \in Lock |-> Claimants(l)] EXCEPT ![k] = {t}]
    BY <1>1, <1>6, LockTaken
  <1>8. QED BY <1>1, <1>4, <1>5, <1>7 DEF Coroutine!Take

(* async_lock_release hands the lock to the head of its line.              *)
LEMMA ReleaseReleases ==
  ASSUME Known, NEW t \in Task, NEW k \in Lock, async_lock_release(t, k)
  PROVE  Coroutine!Release(t, k)
  <1> DEFINE ws == waiting_stacks[k]
             line == Reverse(ws)
  <1>1. /\ TypeOK /\ async_null_time \in WakeTime /\ schedule \in Seq(Entry)
        /\ owns \in [Task -> SUBSET Lock] /\ held \in [Lock -> BOOLEAN]
        /\ waiting_stacks \in [Lock -> Seq(Task)] /\ ws \in Seq(Task)
        /\ unadopted \subseteq Lock
    BY WakeTimes, AsyncAssumption DEF AsyncAssumption, Known, PlaceInv, TypeOK
  <1>2. /\ Runs(t) /\ k \in owns[t]
        /\ owns' = [owns EXCEPT ![t] = @ \ {k}]
        /\ held' = [held EXCEPT ![k] = StaysHeld(k)]
        /\ UNCHANGED <<phase, shortcut_task_stack, task_stack, depth, detached, acquiring>>
        /\ \A v \in Task : Runs(v)' <=> Runs(v)
    BY DEF async_lock_release, Runs
  <1>3. /\ HasLock(t, k) /\ held[k] /\ acquiring[t] = NoLock
        /\ \A v \in Task : HasLock(v, k) => v = t
        /\ Status(t) = "running"
    BY <1>2 DEF Known, LockInv, HasLock, Mapped
  <1>4. \A l \in Lock : \A v : /\ v \in Claimants(l)' <=> v \in Task /\ HasLock(v, l)'
                               /\ v \in Claimants(l) <=> v \in Task /\ HasLock(v, l)
    BY DEF Claimants, HasLock, Blocked
  <1>5. Claimants(k) = {t}
    BY <1>3, <1>4
  <1>6. /\ \A l \in Lock : l # k => owns'[t] \cap {l} = owns[t] \cap {l}
        /\ k \notin owns'[t] /\ \A v \in Task : v # t => owns'[v] = owns[v]
    BY <1>1, <1>2
  <1>7. CASE ws = <<>>
    <2>1. UNCHANGED <<schedule, waiting_stacks>> /\ held' = [held EXCEPT ![k] = FALSE]
      BY <1>2, <1>7 DEF async_lock_release, StaysHeld
    <2>2. /\ \A l \in Lock : Blocked(l)' = Blocked(l)
          /\ \A v, w : Filed(v, w)' <=> Filed(v, w)
      BY <2>1 DEF Blocked, Filed
    <2>3. \A v \in Task : Status(v)' = Status(v) /\ Due(v)' = Due(v)
      BY <1>2, <2>1, <2>2, Stays DEF Known
    <2>4. UNCHANGED <<[v \in Task |-> Status(v)], [v \in Task |-> Due(v)],
                      [l \in Lock |-> Reverse(waiting_stacks[l])]>>
      BY <2>1, <2>3
    <2>5. /\ \A v \in Task : ~ HasLock(v, k)'
          /\ \A l \in Lock, v \in Task : l # k => (HasLock(v, l)' <=> HasLock(v, l))
      <3>1. ASSUME NEW v \in Task  PROVE ~ HasLock(v, k)'
        <4>1. acquiring[v] = k => v \notin Blocked(k)
          BY <1>1, <1>7, WaitersFacts DEF Blocked
        <4>2. ~ (acquiring[v] = k /\ v # t)
          BY <1>3, <4>1 DEF HasLock
        <4>3. NoLock # k
          BY AsyncAssumption DEF AsyncAssumption
        <4>4. v # t => k \notin owns[v]
          BY <1>3 DEF HasLock
        <4>5. QED BY <1>2, <1>3, <1>6, <4>2, <4>3, <4>4 DEF HasLock
      <3>2. ASSUME NEW l \in Lock, NEW v \in Task, l # k  PROVE HasLock(v, l)' <=> HasLock(v, l)
        <4>1. l \in owns'[v] <=> l \in owns[v]
          BY <1>1, <1>2, <3>2
        <4>2. QED BY <1>2, <2>2, <4>1 DEF HasLock
      <3>3. QED BY <3>1, <3>2
    <2>6. [l \in Lock |-> Claimants(l)]' = [[l \in Lock |-> Claimants(l)] EXCEPT ![k] = {}]
      <3>1. Claimants(k)' = {} /\ \A l \in Lock : l # k => Claimants(l)' = Claimants(l)
        BY <1>4, <2>5
      <3>2. QED BY <3>1
    <2>7. line = <<>>
      BY <1>1, <1>7, ReverseFacts
    <2>8. QED BY <1>3, <1>5, <2>1, <2>4, <2>6, <2>7 DEF Coroutine!Release
  <1>8. CASE ws # <<>>
    <2>0. PICK u \in Task : u = Last(ws)
      BY <1>1, <1>8, FrontFacts
    <2>1. /\ waiting_stacks' = [waiting_stacks EXCEPT ![k] = Front(ws)]
          /\ schedule' = schedule_a_value(schedule, async_null_time, u)
          /\ UNCHANGED held
      <3>1. waiting_stacks' = [waiting_stacks EXCEPT ![k] = Front(ws)]
        BY <1>8, <1>1 DEF async_lock_release
      <3>2. schedule' = schedule_a_value(schedule, async_null_time, u)
        BY <1>8, <2>0 DEF async_lock_release, NextWaiter
      <3>3. StaysHeld(k) = TRUE /\ held[k] = TRUE
        BY <1>1, <1>3, <1>8 DEF StaysHeld
      <3>4. UNCHANGED held
        BY <1>1, <1>2, <3>3
      <3>5. QED BY <3>1, <3>2, <3>4
    <2>2. /\ u \in Task /\ u \in Blocked(k)
          /\ Blocked(k) = Range(Front(ws)) \cup {u} /\ u \notin Range(Front(ws))
      BY <1>1, <1>8, <2>0, WaitersFacts DEF Blocked, Known, PlaceInv, PlacedOnce
    <2>3. /\ line # <<>> /\ Head(line) = u /\ Tail(line) = Reverse(Front(ws))
      <3>1. ws \in Seq(Task) /\ ws # <<>>
        BY <1>1, <1>8
      <3> HIDE DEF ws
      <3>2. /\ Reverse(ws) # <<>> /\ Head(Reverse(ws)) = Last(ws)
            /\ Tail(Reverse(ws)) = Reverse(Front(ws))
        BY <3>1, ReverseFacts
      <3>3. QED BY <2>0, <3>2 DEF line
    <2> HIDE DEF ws, line
    <2>4. /\ Blocked(k)' = Blocked(k) \ {u}
          /\ \A l \in Lock : l # k => Blocked(l)' = Blocked(l)
      BY <1>1, <2>1, <2>2 DEF Blocked
    <2>5. \A v, w : Filed(v, w)' <=> Filed(v, w) \/ (v = u /\ w = async_null_time)
      BY <1>1, <2>1, <2>2, FiledByScheduling DEF Filed
    <2>6. \A v \in Task : v # u => Status(v)' = Status(v) /\ Due(v)' = Due(v)
      <3> SUFFICES ASSUME NEW v \in Task, v # u
                   PROVE  Status(v)' = Status(v) /\ Due(v)' = Due(v)
        OBVIOUS
      <3>1. \A l \in Lock : v \in Blocked(l)' <=> v \in Blocked(l)
        BY <2>4
      <3>2. \A w : Filed(v, w)' <=> Filed(v, w)
        BY <2>5
      <3>3. QED BY <1>2, <3>1, <3>2, Stays DEF Known
    <2>7. Status(u)' = "ready" /\ Due(u)' = 0 /\ Due(u) = 0
      <3>1. Status(u) = "blocked"
        BY <2>2 DEF Known, Mapped
      <3>2. Status(u)' = "ready"
        BY <2>2, <2>5 DEF Known, Mapped, async_null_time
      <3>3. QED BY <2>2, <3>1, <3>2 DEF Known, Mapped
    <2>8. /\ Coroutine!Become(u, "ready")
          /\ UNCHANGED [v \in Task |-> Due(v)]
      BY <2>2, <2>6, <2>7, Becomes, DueStays
    <2>9. acquiring[u] = k /\ u # t
      BY <1>3, <2>2, AsyncAssumption DEF AsyncAssumption, Known, LockInv
    <2>10. /\ \A v \in Task : HasLock(v, k)' <=> v = u
           /\ \A l \in Lock, v \in Task : l # k => (HasLock(v, l)' <=> HasLock(v, l))
      <3>1. HasLock(u, k)'
        BY <1>2, <2>4, <2>9 DEF HasLock
      <3>2. ASSUME NEW v \in Task, v # u  PROVE ~ HasLock(v, k)'
        <4>1. v \in Blocked(k)' <=> v \in Blocked(k)
          BY <2>4, <3>2
        <4>2. v # t => ~ HasLock(v, k) /\ owns'[v] = owns[v]
          BY <1>3, <1>6
        <4>3. NoLock # k
          BY AsyncAssumption DEF AsyncAssumption
        <4>4. QED BY <1>2, <1>3, <1>6, <4>1, <4>2, <4>3 DEF HasLock
      <3>3. ASSUME NEW l \in Lock, NEW v \in Task, l # k  PROVE HasLock(v, l)' <=> HasLock(v, l)
        <4>1. l \in owns'[v] <=> l \in owns[v]
          BY <1>1, <1>2, <3>3
        <4>2. QED BY <1>2, <2>4, <3>3, <4>1 DEF HasLock
      <3>4. QED BY <2>2, <3>1, <3>2, <3>3
    <2>11. [l \in Lock |-> Claimants(l)]' = [[l \in Lock |-> Claimants(l)] EXCEPT ![k] = {u}]
      <3>1. Claimants(k)' = {u} /\ \A l \in Lock : l # k => Claimants(l)' = Claimants(l)
        BY <1>4, <2>2, <2>10
      <3>2. QED BY <3>1
    <2>12. [l \in Lock |-> Reverse(waiting_stacks[l])]' =
             [[l \in Lock |-> Reverse(waiting_stacks[l])] EXCEPT ![k] = Tail(line)]
      BY <1>1, <2>1, <2>3
    <2>13. [l \in Lock |-> Reverse(waiting_stacks[l])][k] = line
      BY DEF line, ws
    <2>14. QED BY <1>3, <1>5, <2>1, <2>3, <2>8, <2>11, <2>12, <2>13
               DEF Coroutine!Release
  <1>9. QED BY <1>7, <1>8

(* Every return code files the running task as Coroutines says.            *)
LEMMA ReturnReturns ==
  ASSUME Known, NEW t \in Task, Return(t)
  PROVE  \/ Coroutine!Proceed(t) \/ Coroutine!Finish(t) \/ Coroutine!Sleep(t)
         \/ Coroutine!Detach(t)
         \/ \E l \in Lock : Coroutine!Take(t, l) \/ Coroutine!LineUp(t, l)
  <1>1. /\ Runs(t) /\ phase' = "pick" /\ \A u \in Task : ~ Runs(u)'
        /\ PlaceInv
    BY DEF Known, Return, ReturnDone, ReturnSleep, ReturnAwait, ReturnDetach,
           ReturnLockAcquire, Runs
  <1>2. /\ depth[t] \in 1 .. MaxDepth /\ MaxDepth \in Nat
        /\ shortcut_task_stack = NoTask /\ NoTask \notin Task
        /\ t \notin Queued /\ t \notin detached
        /\ \A l \in Lock : t \notin Blocked(l)
        /\ \A u \in Task : Runs(u) <=> u = t
    BY <1>1, RunningTask
  <1>3. /\ depth \in [Task -> 0 .. MaxDepth] /\ schedule \in Seq(Entry)
        /\ waiting_stacks \in [Lock -> Seq(Task)] /\ held \in [Lock -> BOOLEAN]
        /\ acquiring \in [Task -> Lock \cup {NoLock}]
    BY <1>1 DEF PlaceInv, TypeOK
  <1>4. Status(t) = "running" /\ Due(t) = 0 /\ acquiring[t] = NoLock
    BY <1>1 DEF Known, Mapped, LockInv
  <1>5. \A v : ~ Filed(t, v)
    BY <1>1, <1>2, QueuedIsFiled DEF PlaceInv
  \* A task other than t that is left alone:
  <1>6. ASSUME NEW u \in Task, u # t,
               depth'[u] = depth[u],
               shortcut_task_stack' = u <=> shortcut_task_stack = u,
               u \in detached' <=> u \in detached,
               \A l \in Lock : u \in Blocked(l)' <=> u \in Blocked(l),
               \A w : Filed(u, w)' <=> Filed(u, w)
        PROVE  Status(u)' = Status(u) /\ Due(u)' = Due(u)
    BY <1>1, <1>2, <1>6, Stays DEF Known
  <1>7. CASE ReturnDone(t)
    <2>1. /\ UNCHANGED <<schedule, detached>> /\ UNCHANGED locks
          /\ depth' = [depth EXCEPT ![t] = @ - 1]
          /\ depth[t] = 1 => owns[t] = {}
          /\ \/ depth[t] > 1 /\ shortcut_task_stack' = t
             \/ depth[t] = 1 /\ shortcut_task_stack' = NoTask
      BY <1>2, <1>7 DEF ReturnDone, HasCaller
    <2>2. /\ depth'[t] = depth[t] - 1
          /\ \A u \in Task : u # t => depth'[u] = depth[u]
          /\ \A u, w : Filed(u, w)' <=> Filed(u, w)
      <3>1. depth' = [depth EXCEPT ![t] = @ - 1] /\ UNCHANGED schedule
        BY <2>1
      <3>2. QED BY <1>3, <3>1 DEF Filed
    <2>3. \A u \in Task : u # t => Status(u)' = Status(u) /\ Due(u)' = Due(u)
      BY <1>2, <1>6, <2>1, <2>2, LocksStay
    <2>4. CASE depth[t] > 1
      <3>1. shortcut_task_stack' = t
        BY <2>1, <2>4
      <3>2. Status(t)' = "continuing" /\ Due(t)' = 0
        BY <3>1 DEF Known, Mapped
      <3>3. Coroutine!Become(t, "continuing") /\ UNCHANGED [u \in Task |-> Due(u)]
        BY <1>4, <2>3, <3>2, Becomes, DueStays
      <3>4. Coroutine!Proceed(t)
        BY <1>4, <2>1, <3>3, LocksStay DEF Coroutine!Proceed
      <3>5. QED BY <3>4
    <2>5. CASE depth[t] = 1
      <3>1. Status(t)' = "absent" /\ Due(t)' = 0
        BY <2>2, <2>5 DEF Known, Mapped
      <3>2. Coroutine!Become(t, "absent") /\ UNCHANGED [u \in Task |-> Due(u)]
        BY <1>4, <2>3, <3>1, Becomes, DueStays
      <3>3. \A l \in Lock : ~ HasLock(t, l)
        <4>1. owns[t] = {}
          BY <2>1, <2>5
        <4>2. QED BY <1>4, <4>1, AsyncAssumption DEF AsyncAssumption, HasLock
      <3>4. \A l \in Lock : t \notin [m \in Lock |-> Claimants(m)][l]
        BY <3>3 DEF Claimants, HasLock, Blocked
      <3>5. Coroutine!Finish(t)
        BY <1>4, <2>1, <3>2, <3>4, LocksStay DEF Coroutine!Finish
      <3>6. QED BY <3>5
    <2>6. QED BY <1>2, <2>4, <2>5
  <1>8. ASSUME NEW d \in 0 .. MaxSleep, ReturnSleep(t, d)  PROVE Coroutine!Sleep(t)
    <2>1. /\ UNCHANGED <<shortcut_task_stack, depth, detached>> /\ UNCHANGED locks
          /\ schedule' = schedule_a_value(schedule, d, t)
      BY <1>8 DEF ReturnSleep, async_get_time_after
    <2>2. d \in WakeTime /\ d # async_null_time
      BY WakeTimes
    <2>3. \A u, w : Filed(u, w)' <=> Filed(u, w) \/ (u = t /\ w = d)
      BY <1>3, <2>1, <2>2, FiledByScheduling DEF Filed
    <2>4. \A u \in Task : u # t => Status(u)' = Status(u) /\ Due(u)' = Due(u)
      BY <1>6, <2>1, <2>3, LocksStay
    <2>5. Status(t)' = "sleeping" /\ Due(t)' = d
      BY <2>2, <2>3 DEF Known, Mapped, WakeTime, async_null_time
    <2>6. Coroutine!Become(t, "sleeping")
      BY <2>4, <2>5, Becomes
    <2>7. [u \in Task |-> Due(u)]' = [[u \in Task |-> Due(u)] EXCEPT ![t] = d]
      BY <2>4, <2>5
    <2>8. QED BY <1>4, <2>1, <2>6, <2>7, LocksStay DEF Coroutine!Sleep
  <1>9. CASE ReturnAwait(t)
    <2>1. /\ UNCHANGED <<schedule, detached>> /\ UNCHANGED locks
          /\ depth' = [depth EXCEPT ![t] = @ + 1] /\ shortcut_task_stack' = t
      BY <1>9 DEF ReturnAwait
    <2>2. /\ \A u \in Task : u # t => depth'[u] = depth[u]
          /\ \A u, w : Filed(u, w)' <=> Filed(u, w)
      BY <1>3, <2>1 DEF Filed
    <2>3. \A u \in Task : u # t => Status(u)' = Status(u) /\ Due(u)' = Due(u)
      BY <1>2, <1>6, <2>1, <2>2, LocksStay
    <2>4. Status(t)' = "continuing" /\ Due(t)' = 0
      BY <2>1 DEF Known, Mapped
    <2>5. Coroutine!Become(t, "continuing") /\ UNCHANGED [u \in Task |-> Due(u)]
      BY <1>4, <2>3, <2>4, Becomes, DueStays
    <2>6. Coroutine!Proceed(t)
      BY <1>4, <2>1, <2>5, LocksStay DEF Coroutine!Proceed
    <2>7. QED BY <2>6
  <1>10. CASE ReturnDetach(t)
    <2>1. /\ UNCHANGED <<schedule, shortcut_task_stack, depth>> /\ UNCHANGED locks
          /\ detached' = detached \cup {t}
      BY <1>10 DEF ReturnDetach
    <2>2. \A u, w : Filed(u, w)' <=> Filed(u, w)
      BY <2>1 DEF Filed
    <2>3. \A u \in Task : u # t => Status(u)' = Status(u) /\ Due(u)' = Due(u)
      BY <1>6, <2>1, <2>2, LocksStay
    <2>4. Status(t)' = "detached" /\ Due(t)' = 0
      BY <2>1 DEF Known, Mapped
    <2>5. Coroutine!Become(t, "detached") /\ UNCHANGED [u \in Task |-> Due(u)]
      BY <1>4, <2>3, <2>4, Becomes, DueStays
    <2>6. Coroutine!Detach(t)
      BY <1>4, <2>1, <2>5, LocksStay DEF Coroutine!Detach
    <2>7. QED BY <2>6
  <1>11. ASSUME NEW k \in Lock, ReturnLockAcquire(t, k)
         PROVE  Coroutine!Take(t, k) \/ Coroutine!LineUp(t, k)
    <2>1. /\ UNCHANGED <<schedule, depth, detached, owns>> /\ k \notin owns[t]
          /\ acquiring' = [acquiring EXCEPT ![t] = k]
          /\ acquiring'[t] = k /\ \A u \in Task : u # t => acquiring'[u] = acquiring[u]
          /\ \A u, w : Filed(u, w)' <=> Filed(u, w)
      BY <1>3, <1>11 DEF ReturnLockAcquire, Filed
    <2>2. CASE ~ held[k]
      <3>1. /\ held' = [held EXCEPT ![k] = TRUE] /\ shortcut_task_stack' = t
            /\ UNCHANGED waiting_stacks
            /\ \A l \in Lock : Blocked(l)' = Blocked(l)
        BY <1>11, <2>2 DEF ReturnLockAcquire, Blocked
      <3>2. \A u \in Task : u # t => Status(u)' = Status(u) /\ Due(u)' = Due(u)
        BY <1>2, <1>6, <2>1, <3>1
      <3>3. Status(t)' = "continuing" /\ Due(t)' = 0
        BY <3>1 DEF Known, Mapped
      <3>4. Coroutine!Become(t, "continuing") /\ UNCHANGED [u \in Task |-> Due(u)]
        BY <1>4, <3>2, <3>3, Becomes, DueStays
      <3>5. \A l \in Lock, u \in Task : HasLock(u, l)' <=> HasLock(u, l) \/ (u = t /\ l = k)
        BY <1>2, <1>4, <2>1, <3>1, AsyncAssumption DEF AsyncAssumption, HasLock
      <3>6. [l \in Lock |-> Claimants(l)]' = [[l \in Lock |-> Claimants(l)] EXCEPT ![k] = {t}]
        BY <1>1, <2>2, <3>1, <3>5, LockTaken
      <3>7. UNCHANGED [l \in Lock |-> Reverse(waiting_stacks[l])]
        BY <3>1
      <3>8. Coroutine!Take(t, k)
        BY <1>4, <2>2, <3>1, <3>4, <3>6, <3>7 DEF Coroutine!Take
      <3>9. QED BY <3>8
    <2>3. CASE held[k]
      <3>1. /\ UNCHANGED <<held, shortcut_task_stack>>
            /\ waiting_stacks' = [waiting_stacks EXCEPT ![k] = Cons(t, waiting_stacks[k])]
        BY <1>11, <2>3 DEF ReturnLockAcquire
      <3>2. Range(Cons(t, waiting_stacks[k])) = Blocked(k) \cup {t}
        BY <1>3, WaitersFacts DEF Blocked
      <3>3. \A l \in Lock, u \in Task :
              u \in Blocked(l)' <=> u \in Blocked(l) \/ (u = t /\ l = k)
        BY <1>3, <3>1, <3>2 DEF Blocked
      <3>4. \A u \in Task : u # t => Status(u)' = Status(u) /\ Due(u)' = Due(u)
        BY <1>2, <1>6, <2>1, <3>1, <3>3
      <3>5. Status(t)' = "blocked" /\ Due(t)' = 0
        BY <3>3 DEF Known, Mapped
      <3>6. Coroutine!Become(t, "blocked") /\ UNCHANGED [u \in Task |-> Due(u)]
        BY <1>4, <3>4, <3>5, Becomes, DueStays
      <3>7. /\ \A l \in Lock, u \in Task : HasLock(u, l)' <=> HasLock(u, l)
            /\ ~ HasLock(t, k)
        BY <1>2, <1>4, <2>1, <3>3, AsyncAssumption DEF AsyncAssumption, HasLock
      <3>8. t \notin [l \in Lock |-> Claimants(l)][k]
        BY <3>7 DEF Claimants, HasLock, Blocked
      <3>9. Reverse(Cons(t, waiting_stacks[k])) = Append(Reverse(waiting_stacks[k]), t)
        <4>1. waiting_stacks[k] \in Seq(Task)
          BY <1>3
        <4>2. QED BY <4>1, ReverseFacts
      <3>10. [l \in Lock |-> Reverse(waiting_stacks[l])]' =
               [[l \in Lock |-> Reverse(waiting_stacks[l])]
                  EXCEPT ![k] = Append(Reverse(waiting_stacks[k]), t)]
        BY <1>3, <3>1, <3>9
      <3>11. UNCHANGED [l \in Lock |-> Claimants(l)]
        BY <3>7, KeepersStay
      <3>12. Coroutine!LineUp(t, k)
        BY <1>4, <2>3, <3>1, <3>6, <3>8, <3>10, <3>11 DEF Coroutine!LineUp
      <3>13. QED BY <3>12
    <2>4. QED BY <2>2, <2>3
  <1>12. QED BY <1>7, <1>8, <1>9, <1>10, <1>11 DEF Return

(* The initial states are initial states of Coroutines.                    *)
LEMMA InitMapped == Init => Coroutine!Init
  <1> SUFFICES ASSUME Init  PROVE Coroutine!Init
    OBVIOUS
  <1>1. PlaceInv /\ LockInv /\ Mapped
    BY InitPlace, InitLock, PlaceIsMapped
  <1>2. \A t \in Task : Status(t) = "absent" /\ Due(t) = 0
    BY <1>1 DEF Init, Mapped
  <1>3. \A l \in Lock : Claimants(l) = {}
    BY AsyncAssumption DEF AsyncAssumption, Init, Claimants
  <1>4. \A l \in Lock : Reverse(waiting_stacks[l]) = <<>>
    <2>1. TypeOK
      BY <1>1 DEF PlaceInv
    <2>2. \A l \in Lock : waiting_stacks[l] \in Seq(Task) /\ waiting_stacks[l] = <<>>
      BY <2>1 DEF TypeOK, Init
    <2>3. QED BY <2>2, ReverseFacts
  <1>5. held = [l \in Lock |-> l \in InitHeld]
    BY DEF Init
  <1>6. QED BY <1>2, <1>3, <1>4, <1>5 DEF Coroutine!Init

(* Every step is one of the abstract steps, or none.                       *)
LEMMA NextMapped ==
  ASSUME Known, [Next]_vars
  PROVE  [Coroutine!Next]_Coroutine!vars
  <1>1. ASSUME UNCHANGED timers, UNCHANGED locks, \A u \in Task : Runs(u)' <=> Runs(u)
        PROVE  UNCHANGED Coroutine!vars
    <2>1. /\ UNCHANGED <<schedule, shortcut_task_stack, depth, detached>>
          /\ \A u, w : Filed(u, w)' <=> Filed(u, w)
      BY <1>1 DEF timers, Filed
    <2>2. \A u \in Task : Status(u)' = Status(u) /\ Due(u)' = Due(u)
      BY <1>1, <2>1, LocksStay, Stays DEF Known
    <2>3. QED BY <1>1, <2>2, LocksStay, StatusStays, DueStays DEF Coroutine!vars
  <1>2. CASE UNCHANGED vars
    <2>1. UNCHANGED timers /\ UNCHANGED locks /\ \A u \in Task : Runs(u)' <=> Runs(u)
      BY <1>2 DEF vars, timers, locks, Runs
    <2>2. QED BY <1>1, <2>1
  <1>3. CASE EnterLoop \/ LoopReturns
    <2>1. UNCHANGED timers /\ UNCHANGED locks /\ \A u \in Task : Runs(u)' <=> Runs(u)
      BY <1>3 DEF EnterLoop, LoopReturns, Runs
    <2>2. QED BY <1>1, <2>1
  <1>4. CASE PickShortcut \/ PickScheduled \/ PickEvented
    BY <1>4, PickResumes DEF Coroutine!Next
  <1>5. CASE Tick
    BY <1>5, TickTicks DEF Coroutine!Next
  <1>6. ASSUME NEW t \in Task, Call(t)  PROVE Coroutine!Next
    BY <1>6, SpawnSpawns, TryAcquireTakes, ReleaseReleases DEF Call, Coroutine!Next
  <1>7. ASSUME NEW t \in Task, Return(t)  PROVE Coroutine!Next
    BY <1>7, ReturnReturns DEF Coroutine!Next
  <1>8. QED BY <1>2, <1>3, <1>4, <1>5, <1>6, <1>7 DEF Next, Pick

(* async.c implements Coroutines: calls and returns inside a task do not   *)
(* yield the processor, ready tasks run before the loop waits, sleepers in *)
(* the order of their deadlines, and locks go to waiters in arrival order. *)
THEOREM Refinement == Spec => ImplementsCoroutines
  <1>1. PlaceInv /\ LockInv /\ ScheduleSorted /\ Mapped /\ PlaceInv' /\ Mapped' /\ [Next]_vars
          => [Coroutine!Next]_Coroutine!vars
    BY NextMapped DEF Known
  <1>2. QED BY <1>1, InitMapped, PlaceIsMapped, PlaceInvariant, LockInvariant,
               SortedSchedule, PTL DEF Spec, ImplementsCoroutines, Coroutine!Spec

-----------------------------------------------------------------------------

(* The loop is entered when every lock initialised held has its task, and  *)
(* left when no stack is on the schedule or at its shortcut.               *)
ExitInv ==
  /\ phase \in {"boot", "pick", "run", "exited"}
  /\ phase # "boot" => unadopted = {}
  /\ phase = "exited" => schedule = <<>> /\ shortcut_task_stack = NoTask

(* The loop is left only when nothing is left to run.                      *)
LEMMA ExitInvariant == Spec => []ExitInv
  <1>1. Init => ExitInv
    BY DEF Init, ExitInv
  <1>2. ExitInv /\ [Next]_vars => ExitInv'
    <2> SUFFICES ASSUME ExitInv, [Next]_vars  PROVE ExitInv'
      OBVIOUS
    <2> USE DEF ExitInv
    <2>1. CASE EnterLoop
      BY <2>1 DEF EnterLoop, timers, locks
    <2>2. CASE Pick
      BY <2>2 DEF Pick, PickShortcut, PickScheduled, PickEvented, Evented, LoopReturns,
                  CallTop, timers, locks
    <2>3. CASE Tick
      <3>1. phase # "exited" /\ UNCHANGED <<phase, unadopted>>
        BY <2>3 DEF Tick, locks
      <3>2. QED BY <3>1
    <2>4. ASSUME NEW t \in Task, Call(t)  PROVE ExitInv'
      <3>1. phase \in {"boot", "run"} /\ phase' = phase /\ unadopted' \subseteq unadopted
        BY <2>4 DEF Call, async_spawn, async_lock_try_acquire, async_lock_release, Runs
      <3>2. QED BY <3>1
    <2>5. ASSUME NEW t \in Task, Return(t)  PROVE ExitInv'
      <3>1. phase = "run" /\ phase' = "pick" /\ unadopted' = unadopted
        BY <2>5 DEF Return, ReturnDone, ReturnSleep, ReturnAwait, ReturnDetach,
                    ReturnLockAcquire, Runs, locks
      <3>2. QED BY <3>1
    <2>6. CASE UNCHANGED vars
      BY <2>6 DEF vars, timers, locks
    <2>7. QED BY <2>1, <2>2, <2>3, <2>4, <2>5, <2>6 DEF Next
  <1>3. QED BY <1>1, <1>2, PTL DEF Spec

(* When async_loop returns, the tasks left are parked, and one that waits  *)
(* for a lock waits for a parked task: nothing that could run is dropped.  *)
THEOREM ExitStrands == Spec => []ExitStrandsOnlyParked
  <1>1. PlaceInv /\ LockInv /\ ExitInv => ExitStrandsOnlyParked
    <2> SUFFICES ASSUME PlaceInv, LockInv, ExitInv, phase = "exited"
                 PROVE  \A t \in Task : depth[t] > 0 =>
                          /\ t \in detached \/ \E l \in Lock : t \in Blocked(l)
                          /\ \A l \in Lock : t \in Blocked(l) =>
                               \E u \in Claimants(l) :
                                 u \in detached \/ \E m \in Lock : u \in Blocked(m)
      BY DEF ExitStrandsOnlyParked, Blocked
    <2>1. /\ unadopted = {} /\ schedule = <<>> /\ shortcut_task_stack = NoTask
          /\ NoTask \notin Task /\ NoLock \notin Lock
          /\ \A t \in Task : ~ Runs(t) /\ depth[t] \in Nat
      BY AsyncAssumption DEF AsyncAssumption, ExitInv, Runs, PlaceInv, TypeOK
    <2>2. Queued = {}
      BY <2>1 DEF Queued, TasksOf
    <2>3. \A t \in Task : depth[t] > 0 =>
            t \in detached \/ \E l \in Lock : t \in Blocked(l)
      BY <2>1, <2>2 DEF PlaceInv, LiveIsPlaced
    <2>4. ASSUME NEW l \in Lock, NEW t \in Task, t \in Blocked(l)
          PROVE  \E u \in Claimants(l) : u \in Task /\ depth[u] > 0
      <3>1. held[l]
        BY <2>4 DEF LockInv
      <3>2. PICK u \in Task : HasLock(u, l)
        BY <2>1, <3>1 DEF LockInv
      <3>3. depth[u] # 0
        BY <2>1, <3>2 DEF LockInv, HasLock
      <3>4. u \in Claimants(l) /\ depth[u] > 0
        BY <2>1, <3>2, <3>3 DEF Claimants, HasLock, Blocked
      <3>5. QED BY <3>4
    <2>5. QED BY <2>3, <2>4
  <1>2. QED BY <1>1, PlaceInvariant, LockInvariant, ExitInvariant, PTL
=============================================================================
