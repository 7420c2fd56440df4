-------------------------- MODULE HostBridgeProofs --------------------------
(***************************************************************************)
(* Proofs about HostBridge, for every set of callers, every length of their *)
(* arguments and results, and every size of a pointer and of the socket.   *)
(*                                                                         *)
(* One inductive invariant, BridgeIndInv, carries them, since each part    *)
(* needs the others: that the wait wakes only stacks it was given (so that *)
(* the steps of the bridge are steps of Async, and PlaceInv holds) needs   *)
(* the wake-up the reader asks for to be the caller's, which needs the     *)
(* bytes of a reply to be those the host sent, which needs the requests to *)
(* be framed, which needs the writer to be one task that is woken once.    *)
(***************************************************************************)
EXTENDS HostBridge, AsyncProofs

CallerLines == {"start", "slept", "transmit", "asked", "returned"}
ReaderLines == {"start", "stack", "ret", "len", "data"}
Lines == CallerLines \cup ReaderLines \cup {"sending"}

CallerFrames(where) == IF where \in {"transmit", "asked"} THEN 2 ELSE 1

(* Where a caller is filed says where it is in its code. *)
CallerInv(c) ==
  /\ line[c] \in CallerLines
  /\ depth[c] = CallerFrames(line[c]) \/ (depth[c] = 0 /\ line[c] = "start")
  /\ c \in Queued => line[c] \in {"start", "slept"}
  /\ shortcut_task_stack = c => line[c] \in {"transmit", "returned"}
  /\ c \in detached => line[c] = "asked"

(* The writer, once started, is detached with its node known to the wait,  *)
(* or runs because there is something to send.                             *)
WriterInv ==
  /\ line[Writer] \in {"start", "sending"} /\ depth[Writer] \in {0, 1}
  /\ line[Writer] = "sending" => depth[Writer] = 1
  /\ Writer \in Queued => line[Writer] = "start"
  /\ shortcut_task_stack # Writer
  /\ Writer \in detached => line[Writer] = "sending"
  /\ line[Writer] = "sending" => writer_stack = [task |-> Writer, frame |-> 1]
  /\ At(Writer, "sending") => tx_queue # <<>>
  /\ is_polling_write <=> tx_queue # <<>>

(* The same of the reader.  It stays detached while its wake-up for a      *)
(* caller has not been delivered.                                          *)
ReaderInv ==
  /\ line[Reader] \in ReaderLines
  /\ IF line[Reader] = "start" THEN depth[Reader] \in {0, 1} ELSE depth[Reader] \in {1, 2}
  /\ Reader \in Queued => line[Reader] = "start"
  /\ shortcut_task_stack = Reader => line[Reader] # "start"
  /\ Reader \in detached => reader_stack = [task |-> Reader, frame |-> depth[Reader]]
  /\ wake_me_up # NoNode => Reader \in detached

(* The writer and the reader are only ever on the schedule to run at once, *)
(* and have been spawned when the loop is entered.                         *)
SpawnedInv ==
  /\ \A t \in {Writer, Reader}, w \in WakeTime : Filed(t, w) => w = async_null_time
  /\ phase # "boot" => depth[Writer] # 0 /\ depth[Reader] # 0

(* What has been read of a reply: the fields before the current one are    *)
(* whole, the current one is whole when the sub has returned, the later    *)
(* ones are empty.                                                         *)
Reading(read, n) == IF depth[Reader] = 2 THEN Len(read) < n ELSE Len(read) = n

RxInv ==
  \/ line[Reader] = "start" /\ rx = NothingRead
  \/ /\ line[Reader] = "stack" /\ Reading(rx.stack, PtrLen)
     /\ rx.ret = <<>> /\ rx.len = <<>> /\ rx.data = <<>>
  \/ /\ line[Reader] = "ret" /\ Reading(rx.ret, PtrLen)
     /\ Len(rx.stack) = PtrLen /\ rx.len = <<>> /\ rx.data = <<>>
  \/ /\ line[Reader] = "len" /\ Reading(rx.len, 1)
     /\ Len(rx.stack) = PtrLen /\ Len(rx.ret) = PtrLen /\ rx.data = <<>>
  \/ /\ line[Reader] = "data" /\ Reading(rx.data, rx.len[1].val)
     /\ Len(rx.stack) = PtrLen /\ Len(rx.ret) = PtrLen /\ Len(rx.len) = 1

(* The types of the bridge's own variables. *)
BridgeTypes ==
  /\ line \in [Task -> Lines]
  /\ tx_queue \in Seq(Seq(Byte)) /\ is_polling_write \in BOOLEAN
  /\ front_i \in 0 .. (IF tx_queue = <<>> THEN 0 ELSE Len(Head(tx_queue)))
  /\ rx \in [stack : Seq(Byte), ret : Seq(Byte), len : Seq(Byte), data : Seq(Byte)]
  /\ ret \in [Caller -> Seq(Byte)]
  /\ toHost \in Seq(Byte) /\ toPhone \in Seq(Byte)
  /\ hostIn \in Seq(Byte) /\ hostOut \in Seq(Byte)
  /\ Len(toHost) <= SndBuf
  /\ writer_stack \in Pointer /\ reader_stack \in Pointer /\ wake_me_up \in Pointer

(* The fields of c's request and of the reply to it: the request ends in   *)
(* the pointers the reply begins with.                                     *)
Kind(c, k) ==
  CASE k = "code" -> Field("code", c, 0, 1)
    [] k = "bytes" -> Field("bytes", c, 0, Arg[c])
    [] k = "size" -> Field("size", c, PtrLen, 1)
    [] k = "stack" -> Field("stack", c, 2, PtrLen)
    [] k = "ret" -> Field("ret", c, 0, PtrLen)
    [] k = "len" -> Field("len", c, Ret[c], 1)
    [] k = "data" -> Field("data", c, 0, Ret[c])

Asks(c) == Kind(c, "code") \o (Kind(c, "bytes") \o Kind(c, "size"))
Echo(c) == Kind(c, "stack") \o Kind(c, "ret")
Results(c) == Kind(c, "len") \o Kind(c, "data")
Reply(c) == Echo(c) \o Results(c)

(* The callers whose replies are on their way. *)
Replied == CallersOf(Incoming, "stack")

Requests == [c \in Caller |-> Request(c)]
Replies == [c \in Caller |-> Reply(c)]

(* Both directions carry whole messages, the host having read less than    *)
(* one.                                                                    *)
StreamInv ==
  /\ Outgoing = Joined(Requests, Waiting)
  /\ hostIn # <<>> => Len(hostIn) < Len(Request(Head(Waiting)))
  /\ Incoming = Joined(Replies, Replied)

Own(c) == ret[c] = Field("data", c, 0, Ret[c])

(* A caller that has asked is waited for in one place: in the request      *)
(* stream, in the reply stream, in wake_me_up, or it runs.                 *)
FlightInv ==
  /\ IsInjective(Waiting) /\ IsInjective(AnsweredCallers)
  /\ Range(Waiting) \cap Range(AnsweredCallers) = {}
  /\ Range(Waiting) \cup Range(AnsweredCallers) = {c \in Caller : line[c] = "asked"}
  /\ wake_me_up # NoNode =>
       /\ \E c \in Caller : wake_me_up = [task |-> c, frame |-> 2] /\ Own(c)
       /\ \A c \in Caller : ~ At(c, "asked")
  /\ \A c \in Caller : line[c] = "returned" \/ At(c, "asked") => Own(c)

BridgeIndInv ==
  /\ PlaceInv /\ ScheduleSorted
  /\ BridgeTypes
  /\ \A c \in Caller : CallerInv(c)
  /\ WriterInv /\ ReaderInv /\ SpawnedInv
  /\ RxInv /\ StreamInv /\ FlightInv

-----------------------------------------------------------------------------
(* What the constants are.                                                 *)
LEMMA Names ==
  /\ Writer \in Task /\ Reader \in Task /\ Writer # Reader
  /\ Caller \subseteq Task /\ Writer \notin Caller /\ Reader \notin Caller
  /\ \A t \in Task : t = Writer \/ t = Reader \/ t \in Caller
  /\ NoTask \notin Task
  /\ PtrLen \in Nat \ {0} /\ SndBuf \in Nat \ {0}
  /\ Arg \in [Caller -> Nat] /\ Ret \in [Caller -> 0 .. 255]
  /\ EventSource /\ Lock = {} /\ NoNode \notin [task : Task, frame : 1 .. MaxDepth]
  /\ MaxDepth \in Nat
  BY BridgeAssumption, AsyncAssumption DEF BridgeAssumption, AsyncAssumption, Caller

(* Stack u is where it was, or has left that place and is none of the      *)
(* parties of the step.                                                    *)
Same(u) ==
  /\ depth'[u] = depth[u]
  /\ u \in Queued' <=> u \in Queued
  /\ u \in detached' <=> u \in detached
  /\ shortcut_task_stack' = u <=> shortcut_task_stack = u
  /\ Runs(u)' <=> Runs(u)

Others(t) == \A u \in Task \ {t} : Same(u)

(* The one place stack t is in after the step. *)
GoesTo(t, where) ==
  /\ t \in Queued' <=> where = "queue"
  /\ t \in detached' <=> where = "detached"
  /\ shortcut_task_stack' = t <=> where = "shortcut"
  /\ Runs(t)' <=> where = "run"

(* Each return code moves one stack.                                       *)
LEMMA ReturnMoves ==
  ASSUME PlaceInv, NEW t \in Task, Runs(t)
  PROVE  /\ ReturnDone(t) /\ depth[t] > 1 =>
              /\ Others(t) /\ GoesTo(t, "shortcut") /\ depth'[t] = depth[t] - 1
              /\ phase' = "pick" /\ UNCHANGED schedule
         /\ \A d \in 0 .. MaxSleep : ReturnSleep(t, d) =>
              /\ Others(t) /\ GoesTo(t, "queue") /\ depth'[t] = depth[t]
              /\ phase' = "pick" /\ schedule' = schedule_a_value(schedule, d, t)
         /\ ReturnAwait(t) =>
              /\ Others(t) /\ GoesTo(t, "shortcut") /\ depth'[t] = depth[t] + 1
              /\ phase' = "pick" /\ UNCHANGED schedule
         /\ ReturnDetach(t) =>
              /\ Others(t) /\ GoesTo(t, "detached") /\ depth'[t] = depth[t]
              /\ phase' = "pick" /\ UNCHANGED schedule
  <1>1. /\ TypeOK /\ depth \in [Task -> 0 .. MaxDepth] /\ depth[t] \in 1 .. MaxDepth /\ MaxDepth \in Nat
        /\ phase = "run" /\ task_stack = t
        /\ shortcut_task_stack = NoTask /\ NoTask \notin Task /\ t \notin Queued /\ t \notin detached
        /\ \A u \in Task : Runs(u) <=> u = t
    BY RunningTask DEF PlaceInv, TypeOK
  <1>2. ASSUME ReturnDone(t), depth[t] > 1
        PROVE  /\ Others(t) /\ GoesTo(t, "shortcut") /\ depth'[t] = depth[t] - 1
               /\ phase' = "pick" /\ UNCHANGED schedule
    BY <1>1, <1>2 DEF ReturnDone, HasCaller, Others, Same, GoesTo, Queued, Runs
  <1>3. ASSUME NEW d \in 0 .. MaxSleep, ReturnSleep(t, d)
        PROVE  /\ Others(t) /\ GoesTo(t, "queue") /\ depth'[t] = depth[t]
               /\ phase' = "pick" /\ schedule' = schedule_a_value(schedule, d, t)
    <2>1. schedule' = schedule_a_value(schedule, d, t) /\ d \in WakeTime
      BY <1>3, WakeTimes DEF ReturnSleep, async_get_time_after
    <2>2. Queued' = Queued \cup {t}
      BY <1>1, <2>1, ScheduleReady
    <2>3. QED BY <1>1, <1>3, <2>1, <2>2 DEF ReturnSleep, Others, Same, GoesTo, Runs
  <1>4. ASSUME ReturnAwait(t)
        PROVE  /\ Others(t) /\ GoesTo(t, "shortcut") /\ depth'[t] = depth[t] + 1
               /\ phase' = "pick" /\ UNCHANGED schedule
    BY <1>1, <1>4 DEF ReturnAwait, Others, Same, GoesTo, Queued, Runs
  <1>5. ASSUME ReturnDetach(t)
        PROVE  /\ Others(t) /\ GoesTo(t, "detached") /\ depth'[t] = depth[t]
               /\ phase' = "pick" /\ UNCHANGED schedule
    BY <1>1, <1>5 DEF ReturnDetach, Others, Same, GoesTo, Queued, Runs, timers
  <1>6. QED BY <1>2, <1>3, <1>4, <1>5

(* So does every pick, and a spawn.                                        *)
LEMMA PickMoves ==
  ASSUME PlaceInv
  PROVE  /\ \A t \in detached : Evented(t) =>
              /\ t \in Task /\ Others(t) /\ GoesTo(t, "run") /\ depth'[t] = depth[t]
              /\ phase' = "run" /\ UNCHANGED schedule
         /\ PickShortcut => \E t \in Task :
              /\ shortcut_task_stack = t /\ Others(t) /\ GoesTo(t, "run") /\ depth'[t] = depth[t]
              /\ phase' = "run" /\ UNCHANGED schedule
         /\ PickScheduled => \E t \in Task :
              /\ t \in Queued /\ Others(t) /\ GoesTo(t, "run") /\ depth'[t] = depth[t]
              /\ phase' = "run" /\ schedule # <<>> /\ schedule' = Tail(schedule)
         /\ \A t \in Task : async_spawn(t, {}) =>
              /\ Others(t) /\ GoesTo(t, "queue") /\ depth'[t] = 1 /\ depth[t] = 0
              /\ phase' = phase /\ schedule' = schedule_a_value(schedule, async_null_time, t)
  <1>1. /\ TypeOK /\ depth \in [Task -> 0 .. MaxDepth] /\ detached \subseteq Task
        /\ shortcut_task_stack \in Task \cup {NoTask} /\ NoTask \notin Task
    BY AsyncAssumption DEF AsyncAssumption, PlaceInv, TypeOK
  <1>2. ASSUME NEW t \in Task, CallTop(t), phase = "pick"
        PROVE  /\ \A u \in Task : ~ Runs(u) /\ (Runs(u)' <=> u = t)
               /\ UNCHANGED depth /\ phase' = "run"
    BY <1>2, CallPlace
  <1>3. ASSUME NEW t \in detached, Evented(t)
        PROVE  /\ t \in Task /\ Others(t) /\ GoesTo(t, "run") /\ depth'[t] = depth[t]
               /\ phase' = "run" /\ UNCHANGED schedule
    <2>1. /\ t \in Task /\ CallTop(t) /\ phase = "pick" /\ detached' = detached \ {t}
          /\ UNCHANGED <<schedule, shortcut_task_stack>> /\ shortcut_task_stack = NoTask
      BY <1>1, <1>3 DEF Evented, ScheduleAfterEvent
    <2>2. t \notin Queued /\ Queued' = Queued
      BY <1>3, <2>1 DEF Queued, PlaceInv, PlacedOnce
    <2>3. QED BY <1>1, <1>2, <2>1, <2>2 DEF Others, Same, GoesTo
  <1>4. ASSUME PickShortcut
        PROVE  \E t \in Task :
                 /\ shortcut_task_stack = t /\ Others(t) /\ GoesTo(t, "run") /\ depth'[t] = depth[t]
                 /\ phase' = "run" /\ UNCHANGED schedule
    <2>1. PICK t \in Task : /\ t = shortcut_task_stack /\ CallTop(t) /\ phase = "pick"
                            /\ shortcut_task_stack' = NoTask /\ UNCHANGED <<schedule, detached>>
      BY <1>1, <1>4 DEF PickShortcut
    <2>2. t \notin Queued /\ t \notin detached /\ Queued' = Queued
      BY <2>1 DEF Queued, PlaceInv, PlacedOnce
    <2>3. QED BY <1>1, <1>2, <2>1, <2>2 DEF Others, Same, GoesTo
  <1>5. ASSUME PickScheduled
        PROVE  \E t \in Task :
                 /\ t \in Queued /\ Others(t) /\ GoesTo(t, "run") /\ depth'[t] = depth[t]
                 /\ phase' = "run" /\ schedule # <<>> /\ schedule' = Tail(schedule)
    <2>1. schedule # <<>> /\ schedule' = Tail(schedule)
      BY <1>5 DEF PickScheduled
    <2>2. PICK h \in Task : h = Head(schedule).task
      BY <1>1, <2>1, TailEntries
    <2>3. /\ CallTop(h) /\ phase = "pick"
          /\ shortcut_task_stack = NoTask /\ UNCHANGED <<shortcut_task_stack, detached>>
      BY <1>5, <2>2 DEF PickScheduled
    <2>4. /\ Queued = Queued' \cup {h}
          /\ DistinctTasks(schedule) => h \notin Queued'
      BY <1>1, <2>1, <2>2, TailEntries
    <2>5. h \in Queued /\ h \notin Queued' /\ h \notin detached /\ shortcut_task_stack # h
      BY <2>4 DEF PlaceInv, PlacedOnce
    <2>6. Others(h) /\ GoesTo(h, "run") /\ depth'[h] = depth[h] /\ phase' = "run"
      <3>1. /\ \A u \in Task : ~ Runs(u) /\ (Runs(u)' <=> u = h)
            /\ UNCHANGED depth /\ phase' = "run"
        BY <1>2, <2>3, <2>4
      <3>2. \A u \in Task \ {h} : u \in Queued' <=> u \in Queued
        BY <2>4
      <3>3. Others(h)
        BY <2>3, <3>1, <3>2 DEF Others, Same
      <3>4. GoesTo(h, "run")
        BY <2>3, <2>4, <2>5, <3>1 DEF GoesTo
      <3>5. QED BY <3>1, <3>3, <3>4
    <2>7. QED BY <2>1, <2>5, <2>6
  <1>6. ASSUME NEW t \in Task, async_spawn(t, {})
        PROVE  /\ Others(t) /\ GoesTo(t, "queue") /\ depth'[t] = 1 /\ depth[t] = 0
               /\ phase' = phase /\ schedule' = schedule_a_value(schedule, async_null_time, t)
    <2>1. /\ depth[t] = 0 /\ depth' = [depth EXCEPT ![t] = 1]
          /\ schedule' = schedule_a_value(schedule, async_null_time, t)
          /\ UNCHANGED <<phase, shortcut_task_stack, task_stack, detached>>
      BY <1>6 DEF async_spawn
    <2>2. Queued' = Queued \cup {t}
      BY <1>1, <2>1, ScheduleReady, WakeTimes
    <2>3. /\ t \notin Queued /\ t \notin detached /\ shortcut_task_stack # t /\ ~ Runs(t)
      BY <1>1, <2>1 DEF PlaceInv, LiveIsPlaced
    <2>4. QED BY <1>1, <2>1, <2>2, <2>3 DEF Others, Same, GoesTo, Runs
  <1>7. QED BY <1>3, <1>4, <1>5, <1>6

-----------------------------------------------------------------------------
(* A caller whose wake-up is pending has asked.                            *)
LEMMA WokenHasAsked ==
  ASSUME FlightInv, wake_me_up # NoNode, NEW c \in Caller, wake_me_up = [task |-> c, frame |-> 2]
  PROVE  line[c] = "asked"
  <1>1. AnsweredCallers = (<<c>> \o (IF \E d \in Caller : At(d, "asked") THEN <<task_stack>> ELSE <<>>))
                            \o CallersOf(Incoming, "stack")
    BY DEF AnsweredCallers
  <1>2. \A d \in Caller : ~ At(d, "asked")
    BY DEF FlightInv
  <1>3. AnsweredCallers = <<c>> \o Replied
    <2>1. <<c>> \o <<>> = <<c>>
      OBVIOUS
    <2>2. QED BY <1>1, <1>2, <2>1 DEF Replied
  <1>4. c \in Range(AnsweredCallers)
    BY <1>3 DEF Range
  <1>5. QED BY <1>4 DEF FlightInv

(* What the wait has to choose from when it is called, unless the head of  *)
(* the schedule is to run at once.                                         *)
LEMMA Parked ==
  ASSUME BridgeIndInv, phase = "pick", shortcut_task_stack = NoTask,
         schedule # <<>> => ~ async_time_is_null(Head(schedule).wake)
  PROVE  /\ Writer \in detached /\ line[Writer] = "sending" /\ depth[Writer] = 1
         /\ writer_stack = [task |-> Writer, frame |-> 1]
         /\ Reader \in detached /\ reader_stack = [task |-> Reader, frame |-> depth[Reader]]
         /\ wake_me_up # NoNode => \E c \in Caller :
              /\ wake_me_up = [task |-> c, frame |-> 2]
              /\ c \in detached /\ depth[c] = 2 /\ line[c] = "asked" /\ Own(c)
  <1> USE Names
  <1>1. PlaceInv /\ TypeOK
    BY DEF BridgeIndInv, PlaceInv
  <1>2. ASSUME NEW t \in {Writer, Reader}, t \in Queued  PROVE FALSE
    <2>1. PICK w \in WakeTime : Filed(t, w)
      BY <1>1, <1>2, QueuedIsFiled
    <2>2. w = async_null_time
      BY <2>1 DEF BridgeIndInv, SpawnedInv
    <2>3. PICK i \in DOMAIN schedule : schedule[i].wake = w /\ schedule[i].task = t
      BY <1>1, <2>1, QueuedIsFiled
    <2>4. /\ schedule \in Seq(Entry) /\ DOMAIN schedule = 1 .. Len(schedule) /\ Len(schedule) \in Nat
          /\ \A j \in 1 .. Len(schedule) : schedule[j].wake \in Int /\ async_null_time <= schedule[j].wake
      BY <1>1, EntryFacts DEF TypeOK
    <2>5. 1 \in 1 .. Len(schedule) /\ schedule # <<>> /\ Head(schedule) = schedule[1]
      <3>1. schedule # <<>>
        BY <2>3, <2>4
      <3>2. QED BY <3>1, <2>4, TailFacts
    <2>6. schedule[1].wake <= schedule[i].wake
      <3>1. CASE i = 1
        BY <3>1, <2>4, <2>5
      <3>2. CASE i # 1
        <4>1. 1 < i
          BY <3>2, <2>3, <2>4
        <4>2. QED BY <4>1, <2>3, <2>4, <2>5 DEF BridgeIndInv, ScheduleSorted
      <3>3. QED BY <3>1, <3>2
    <2>7. schedule[1].wake = async_null_time
      BY <2>2, <2>3, <2>4, <2>5, <2>6, WakeTimes
    <2>8. QED BY <2>5, <2>7 DEF async_time_is_null
  <1>3. \A t \in Task : depth[t] > 0 => t \in Queued \/ t \in detached
    BY <1>1, AsyncAssumption DEF PlaceInv, LiveIsPlaced, Runs
  <1>4. /\ depth[Writer] \in {0, 1} /\ depth[Reader] \in {0, 1, 2}
        /\ depth[Writer] # 0 /\ depth[Reader] # 0
    BY DEF BridgeIndInv, WriterInv, ReaderInv, SpawnedInv
  <1>5. Writer \in detached /\ Reader \in detached
    BY <1>2, <1>3, <1>4
  <1>6. line[Writer] = "sending" /\ writer_stack = [task |-> Writer, frame |-> 1]
        /\ reader_stack = [task |-> Reader, frame |-> depth[Reader]]
    BY <1>5 DEF BridgeIndInv, WriterInv, ReaderInv
  <1>7. ASSUME wake_me_up # NoNode
        PROVE  \E c \in Caller :
                 /\ wake_me_up = [task |-> c, frame |-> 2]
                 /\ c \in detached /\ depth[c] = 2 /\ line[c] = "asked" /\ Own(c)
    <2>1. PICK c \in Caller : wake_me_up = [task |-> c, frame |-> 2] /\ Own(c)
      BY <1>7 DEF BridgeIndInv, FlightInv
    <2>2. line[c] = "asked"
      BY <1>7, <2>1, WokenHasAsked DEF BridgeIndInv
    <2>3. depth[c] = 2 /\ c \notin Queued
      BY <2>2 DEF BridgeIndInv, CallerInv, CallerFrames
    <2>4. c \in detached
      BY <1>3, <2>3
    <2>5. QED BY <2>1, <2>2, <2>3, <2>4
  <1>8. QED BY <1>4, <1>5, <1>6, <1>7

(* The wait's two kinds of event are stacks it holds.                      *)
LEMMA WaitsMove ==
  ASSUME BridgeIndInv
  PROVE  /\ WaitWakes => \E c \in Caller :
              /\ wake_me_up # NoNode /\ wake_me_up = [task |-> c, frame |-> 2]
              /\ c \in detached /\ line[c] = "asked" /\ Own(c) /\ Evented(c)
         /\ WaitPolls => /\ wake_me_up = NoNode
                         /\ \/ Writer \in detached /\ Evented(Writer) /\ is_polling_write
                            \/ Reader \in detached /\ Evented(Reader)
  <1> USE Names
  <1>1. ASSUME NEW t, Evented(t)
        PROVE  /\ phase = "pick" /\ shortcut_task_stack = NoTask
               /\ schedule # <<>> => ~ async_time_is_null(Head(schedule).wake)
    BY <1>1 DEF Evented
  <1>2. ASSUME WaitWakes
        PROVE  \E c \in Caller :
              /\ wake_me_up # NoNode /\ wake_me_up = [task |-> c, frame |-> 2]
              /\ c \in detached /\ line[c] = "asked" /\ Own(c) /\ Evented(c)
    <2>1. wake_me_up # NoNode /\ Evented(wake_me_up.task)
      BY <1>2 DEF WaitWakes
    <2>2. PICK c \in Caller : /\ wake_me_up = [task |-> c, frame |-> 2]
                              /\ c \in detached /\ line[c] = "asked" /\ Own(c)
      BY <1>1, <2>1, Parked
    <2>3. wake_me_up.task = c
      BY <2>2
    <2>4. QED BY <2>1, <2>2, <2>3
  <1>3. ASSUME WaitPolls
        PROVE  /\ wake_me_up = NoNode
               /\ \/ Writer \in detached /\ Evented(Writer) /\ is_polling_write
                  \/ Reader \in detached /\ Evented(Reader)
    <2>1. wake_me_up = NoNode
      BY <1>3 DEF WaitPolls, WakeMeUpFirst
    <2>2. \/ is_polling_write /\ Evented(writer_stack.task)
          \/ Evented(reader_stack.task)
      BY <1>3 DEF WaitPolls, Writable
    <2>3. /\ Writer \in detached /\ writer_stack = [task |-> Writer, frame |-> 1]
          /\ Reader \in detached /\ reader_stack = [task |-> Reader, frame |-> depth[Reader]]
      BY <1>1, <2>2, Parked
    <2>4. writer_stack.task = Writer /\ reader_stack.task = Reader
      BY <2>3
    <2>5. QED BY <2>1, <2>2, <2>3, <2>4
  <1>4. QED BY <1>2, <1>3

(* Every step of the bridge is a step of the runtime, or none.             *)
LEMMA BridgeStepIsAsync ==
  ASSUME BridgeIndInv, [BridgeNext]_bridgeVars
  PROVE  [Next]_vars
  <1> USE Names
  <1>1. CASE Boot
    <2>1. ASSUME NEW t \in Task, async_spawn(t, {})  PROVE Next
      <3>1. {} \in SUBSET InitHeld
        OBVIOUS
      <3>2. QED BY <2>1, <3>1 DEF Next, Call
    <2>2. EnterLoop => Next
      BY DEF Next
    <2>3. QED BY <1>1, <2>1, <2>2 DEF Boot
  <1>2. ASSUME NEW t \in Task, Return(t)  PROVE Next
    BY <1>2 DEF Next
  <1>3. ASSUME NEW c \in Caller, Calls(c)  PROVE Next
    <2>1. Return(c)
      BY <1>3 DEF Calls, CallerSleeps, CallerCalls, host_transmit, host_transmit_returns, Return
    <2>2. QED BY <1>2, <2>1
  <1>4. CASE Writes
    <2>1. Return(Writer) \/ UNCHANGED vars
      BY <1>4 DEF Writes, WriterStarts, WriterSends, Sends, WriterBlocks, Return, asyncVars
    <2>2. QED BY <1>2, <2>1
  <1>5. CASE Reads
    <2>1. Return(Reader) \/ UNCHANGED vars
      BY <1>5 DEF Reads, ReaderAwaits, ReaderAnswers, SubReceives, SubBlocks, Return, asyncVars
    <2>2. QED BY <1>2, <2>1
  <1>6. CASE Waits
    <2>1. ASSUME NEW t \in detached, Evented(t)  PROVE Next
      BY <2>1 DEF Next, Pick, PickEvented
    <2>2. WaitTimesOut => Next
      BY DEF WaitTimesOut, Next, Pick
    <2>3. QED BY <1>6, <2>1, <2>2, WaitsMove DEF Waits
  <1>7. CASE Clock
    BY <1>7 DEF Clock, Next
  <1>8. CASE HostReads \/ Deliver \/ UNCHANGED bridgeVars
    <2>1. UNCHANGED asyncVars
      <3>1. HostReads => UNCHANGED asyncVars
        BY Zenon DEF HostReads
      <3>2. Deliver => UNCHANGED asyncVars
        BY DEF Deliver
      <3>3. UNCHANGED bridgeVars => UNCHANGED asyncVars
        BY DEF bridgeVars
      <3>4. QED BY <1>8, <3>1, <3>2, <3>3
    <2>2. QED BY <2>1 DEF asyncVars
  <1>9. QED BY <1>1, <1>3, <1>4, <1>5, <1>6, <1>7, <1>8 DEF BridgeNext, Phone

-----------------------------------------------------------------------------
(* Where the parties are *)

ControlInv == (\A c \in Caller : CallerInv(c)) /\ WriterInv /\ ReaderInv

(* A step that moves one stack leaves the others where they should be.     *)
LEMMA OthersKept ==
  ASSUME ControlInv, NEW t \in Task, Others(t),
         \A u \in Task \ {t} : line'[u] = line[u],
         t \in Caller => CallerInv(t)',
         t = Writer => WriterInv',
         t = Reader => ReaderInv',
         t # Writer => /\ UNCHANGED writer_stack
                       /\ is_polling_write' <=> tx_queue' # <<>>
                       /\ tx_queue # <<>> => tx_queue' # <<>>,
         t # Reader => UNCHANGED reader_stack /\ wake_me_up' \in {wake_me_up, NoNode}
  PROVE  ControlInv'
  <1> USE Names
  <1>1. ASSUME NEW c \in Caller, c # t  PROVE CallerInv(c)'
    <2>1. c \in Task /\ Same(c) /\ line'[c] = line[c] /\ CallerInv(c)
      BY <1>1 DEF Others, ControlInv
    <2>2. QED BY <2>1 DEF CallerInv, Same
  <1>2. ASSUME t # Writer  PROVE WriterInv'
    <2>1. Same(Writer) /\ line'[Writer] = line[Writer] /\ WriterInv
      BY <1>2 DEF Others, ControlInv
    <2>2. At(Writer, "sending")' => At(Writer, "sending")
      BY <2>1 DEF At, Same
    <2>3. QED BY <1>2, <2>1, <2>2 DEF WriterInv, Same
  <1>3. ASSUME t # Reader  PROVE ReaderInv'
    <2>1. Same(Reader) /\ line'[Reader] = line[Reader] /\ ReaderInv
      BY <1>3 DEF Others, ControlInv
    <2>2. wake_me_up' # NoNode => wake_me_up # NoNode
      BY <1>3
    <2>3. QED BY <1>3, <2>1, <2>2 DEF ReaderInv, Same
  <1>4. QED BY <1>1, <1>2, <1>3 DEF ControlInv

(* No stack moves when async.c is not at work.                             *)
LEMMA AsyncStill ==
  ASSUME UNCHANGED asyncVars
  PROVE  \A t \in Task : Others(t) /\ Same(t)
  BY DEF asyncVars, vars, timers, locks, Others, Same, Queued, Runs

(* The callers' steps.                                                     *)
LEMMA CallsControl ==
  ASSUME PlaceInv, ControlInv, line \in [Task -> Lines], NEW c \in Caller, Calls(c)
  PROVE  ControlInv'
  <1> USE Names
  <1>1. c \in Task /\ c # Writer /\ c # Reader /\ CallerInv(c) /\ WriterInv
    BY DEF ControlInv
  <1>2. ASSUME Runs(c)
        PROVE  depth[c] = CallerFrames(line[c]) /\ depth[c] \in 1 .. MaxDepth
    BY <1>1, <1>2, RunningTask DEF CallerInv
  <1>3. is_polling_write <=> tx_queue # <<>>
    BY <1>1 DEF WriterInv
  <1>4. CASE CallerSleeps(c)
    <2>1. Runs(c) /\ line[c] \in {"start", "returned"} /\ line' = [line EXCEPT ![c] = "slept"]
      BY <1>4 DEF CallerSleeps, At, GoTo
    <2>2. Others(c) /\ GoesTo(c, "queue") /\ depth'[c] = depth[c]
      <3>1. PICK d \in 0 .. MaxSleep : ReturnSleep(c, d)
        BY <1>4 DEF CallerSleeps
      <3>2. QED BY <1>1, <2>1, <3>1, ReturnMoves
    <2>3. CallerInv(c)'
      BY <1>1, <1>2, <2>1, <2>2 DEF CallerInv, CallerFrames, CallerLines, GoesTo
    <2>4. UNCHANGED <<txVars, writer_stack, reader_stack, wake_me_up>>
      BY <1>4 DEF CallerSleeps
    <2>5. QED BY <1>1, <1>3, <2>1, <2>2, <2>3, <2>4, OthersKept DEF txVars
  <1>5. CASE CallerCalls(c)
    <2>1. Runs(c) /\ line[c] = "slept" /\ line' = [line EXCEPT ![c] = "transmit"] /\ ReturnAwait(c)
      BY <1>5 DEF CallerCalls, At, GoTo
    <2>2. Others(c) /\ GoesTo(c, "shortcut") /\ depth'[c] = depth[c] + 1
      BY <1>1, <2>1, ReturnMoves
    <2>3. CallerInv(c)'
      BY <1>1, <1>2, <2>1, <2>2 DEF CallerInv, CallerFrames, CallerLines, GoesTo
    <2>4. UNCHANGED <<txVars, writer_stack, reader_stack, wake_me_up>>
      BY <1>5 DEF CallerCalls
    <2>5. QED BY <1>1, <1>3, <2>1, <2>2, <2>3, <2>4, OthersKept DEF txVars
  <1>6. CASE host_transmit(c)
    <2>1. Runs(c) /\ line[c] = "transmit" /\ line' = [line EXCEPT ![c] = "asked"] /\ ReturnDetach(c)
      BY <1>6 DEF host_transmit, At, GoTo
    <2>2. Others(c) /\ GoesTo(c, "detached") /\ depth'[c] = depth[c]
      BY <1>1, <2>1, ReturnMoves
    <2>3. CallerInv(c)'
      BY <1>1, <1>2, <2>1, <2>2 DEF CallerInv, CallerFrames, CallerLines, GoesTo
    <2>4. UNCHANGED <<writer_stack, reader_stack, wake_me_up>> /\ is_polling_write' = TRUE
          /\ tx_queue' = tx_queue \o Chunks(c, Node(c))
      BY <1>6 DEF host_transmit, star_push
    <2>5. tx_queue' # <<>>
      BY <2>4 DEF Chunks
    <2>6. QED BY <1>1, <2>1, <2>2, <2>3, <2>4, <2>5, OthersKept
  <1>7. CASE host_transmit_returns(c)
    <2>1. Runs(c) /\ line[c] = "asked" /\ line' = [line EXCEPT ![c] = "returned"] /\ ReturnDone(c)
      BY <1>7 DEF host_transmit_returns, At, GoTo
    <2>2. depth[c] = 2
      BY <1>2, <2>1 DEF CallerFrames
    <2>3. Others(c) /\ GoesTo(c, "shortcut") /\ depth'[c] = depth[c] - 1
      BY <1>1, <2>1, <2>2, ReturnMoves
    <2>4. CallerInv(c)'
      BY <1>1, <2>2, <2>1, <2>3 DEF CallerInv, CallerFrames, CallerLines, GoesTo
    <2>5. UNCHANGED <<txVars, writer_stack, reader_stack, wake_me_up>>
      BY <1>7 DEF host_transmit_returns
    <2>6. QED BY <1>1, <1>3, <2>1, <2>3, <2>4, <2>5, OthersKept DEF txVars
  <1>8. QED BY <1>4, <1>5, <1>6, <1>7 DEF Calls

(* The writer's steps.                                                     *)
LEMMA WritesControl ==
  ASSUME PlaceInv, ControlInv, BridgeTypes, Writes
  PROVE  ControlInv'
  <1> USE Names
  <1>1. /\ WriterInv /\ Runs(Writer) /\ depth[Writer] = 1
        /\ Writer \notin Queued /\ Writer \notin detached /\ line \in [Task -> Lines]
        /\ UNCHANGED <<reader_stack, wake_me_up>>
    <2>1. Runs(Writer) /\ UNCHANGED <<reader_stack, wake_me_up>>
      BY DEF Writes, WriterStarts, WriterSends, WriterBlocks, At
    <2>2. WriterInv /\ depth[Writer] \in 1 .. MaxDepth /\ Writer \notin Queued /\ Writer \notin detached
      BY <2>1, RunningTask DEF ControlInv
    <2>3. depth[Writer] = 1
      BY <2>2 DEF WriterInv
    <2>4. QED BY <2>1, <2>2, <2>3 DEF BridgeTypes
  <1>2. ASSUME ReturnDetach(Writer)
        PROVE  Others(Writer) /\ GoesTo(Writer, "detached") /\ depth'[Writer] = 1
    BY <1>1, <1>2, ReturnMoves
  <1>3. SUFFICES Others(Writer) /\ WriterInv' /\ \A u \in Task \ {Writer} : line'[u] = line[u]
    BY <1>1, OthersKept
  <1>4. CASE WriterStarts
    <2>1. /\ line' = [line EXCEPT ![Writer] = "sending"] /\ ReturnDetach(Writer)
          /\ writer_stack' = Node(Writer) /\ UNCHANGED txVars
      BY <1>4 DEF WriterStarts, GoTo
    <2>2. WriterInv'
      BY <1>1, <1>2, <2>1 DEF WriterInv, GoesTo, At, Node, txVars
    <2>3. QED BY <1>2, <2>1, <2>2
  <1>5. CASE WriterSends
    <2>1. /\ line[Writer] = "sending" /\ UNCHANGED <<line, writer_stack>>
          /\ tx_queue # <<>> /\ is_polling_write
      BY <1>1, <1>5 DEF WriterSends, At, WriterInv
    <2>2. PICK n : Sends(n)
      BY <1>5 DEF WriterSends
    <2>3. \/ UNCHANGED <<asyncVars, tx_queue, is_polling_write>>
          \/ UNCHANGED <<asyncVars, is_polling_write>> /\ tx_queue' # <<>>
          \/ tx_queue' = <<>> /\ is_polling_write' = FALSE /\ ReturnDetach(Writer)
      BY <2>2 DEF Sends
    <2>4. CASE ReturnDetach(Writer) /\ tx_queue' = <<>> /\ is_polling_write' = FALSE
      <3>1. WriterInv'
        BY <1>1, <1>2, <2>1, <2>4 DEF WriterInv, GoesTo, At
      <3>2. QED BY <1>2, <2>1, <2>4, <3>1
    <2>5. CASE UNCHANGED <<asyncVars, is_polling_write>> /\ tx_queue' # <<>>
      <3>1. Others(Writer) /\ Same(Writer)
        BY <2>5, AsyncStill
      <3>2. WriterInv'
        BY <1>1, <2>1, <2>5, <3>1 DEF WriterInv, Same, At
      <3>3. QED BY <2>1, <3>1, <3>2
    <2>6. QED BY <2>1, <2>3, <2>4, <2>5
  <1>6. CASE WriterBlocks
    <2>1. /\ line[Writer] = "sending" /\ UNCHANGED <<line, writer_stack>> /\ ReturnDetach(Writer)
          /\ UNCHANGED <<tx_queue, is_polling_write>>
      BY <1>6 DEF WriterBlocks, At, polling_after_EAGAIN
    <2>2. WriterInv'
      BY <1>1, <1>2, <2>1 DEF WriterInv, GoesTo, At
    <2>3. QED BY <1>2, <2>1, <2>2
  <1>7. QED BY <1>4, <1>5, <1>6 DEF Writes

(* The reader's steps.                                                     *)
LEMMA ReadsControl ==
  ASSUME PlaceInv, ControlInv, BridgeTypes, Reads
  PROVE  ControlInv'
  <1> USE Names
  <1>1. /\ ReaderInv /\ WriterInv /\ Runs(Reader) /\ depth[Reader] \in {1, 2} /\ MaxDepth \in Nat
        /\ Reader \notin Queued /\ Reader \notin detached /\ line \in [Task -> Lines]
        /\ UNCHANGED <<writer_stack, tx_queue, is_polling_write>>
    <2>1. Runs(Reader) /\ UNCHANGED <<writer_stack, tx_queue, is_polling_write>>
      BY DEF Reads, ReaderAwaits, ReaderAnswers, SubReceives, SubBlocks, txVars
    <2>2. /\ ReaderInv /\ WriterInv /\ depth[Reader] \in 1 .. MaxDepth /\ MaxDepth \in Nat
          /\ Reader \notin Queued /\ Reader \notin detached
      BY <2>1, RunningTask DEF ControlInv
    <2>3. depth[Reader] \in {1, 2}
      BY <2>2 DEF ReaderInv
    <2>4. QED BY <2>1, <2>2, <2>3 DEF BridgeTypes
  <1>2. is_polling_write <=> tx_queue # <<>>
    BY <1>1 DEF WriterInv
  <1>3. SUFFICES Others(Reader) /\ ReaderInv' /\ \A u \in Task \ {Reader} : line'[u] = line[u]
    BY <1>1, <1>2, OthersKept
  <1>4. wake_me_up = NoNode
    BY <1>1 DEF ReaderInv
  <1>5. ASSUME ReturnDetach(Reader)
        PROVE  Others(Reader) /\ GoesTo(Reader, "detached") /\ depth'[Reader] = depth[Reader]
    BY <1>1, <1>5, ReturnMoves
  <1>6. CASE ReaderAwaits
    <2>1. /\ depth[Reader] = 1 /\ ReturnAwait(Reader) /\ NextField # "start"
          /\ line' = [line EXCEPT ![Reader] = NextField]
          /\ UNCHANGED <<reader_stack, wake_me_up>>
      BY <1>6 DEF ReaderAwaits, GoTo
    <2>2. NextField \in ReaderLines
      BY <1>1 DEF NextField, ReaderInv, ReaderLines
    <2>3. Others(Reader) /\ GoesTo(Reader, "shortcut") /\ depth'[Reader] = 2
      BY <1>1, <2>1, ReturnMoves
    <2>4. ReaderInv'
      BY <1>4, <1>1, <2>1, <2>2, <2>3 DEF ReaderInv, GoesTo
    <2>5. QED BY <2>1, <2>3, <2>4
  <1>7. CASE ReaderAnswers
    <2>1. /\ depth[Reader] = 1 /\ ReturnDetach(Reader)
          /\ line' = [line EXCEPT ![Reader] = "start"]
          /\ reader_stack' = [task |-> Reader, frame |-> depth[Reader]]
      BY <1>7 DEF ReaderAnswers, GoTo, Node, reader_stack_set
    <2>2. ReaderInv'
      BY <1>1, <1>5, <2>1 DEF ReaderInv, GoesTo, ReaderLines
    <2>3. QED BY <1>5, <2>1, <2>2
  <1>8. CASE SubReceives
    <2>1. /\ depth[Reader] = 2 /\ UNCHANGED <<line, reader_stack, wake_me_up>>
          /\ ReturnDone(Reader) \/ UNCHANGED asyncVars
      BY <1>8 DEF SubReceives
    <2>2. CASE ReturnDone(Reader)
      <3>1. Others(Reader) /\ GoesTo(Reader, "shortcut") /\ depth'[Reader] = 1
        BY <1>1, <2>1, <2>2, ReturnMoves
      <3>2. ReaderInv'
        BY <1>1, <1>4, <2>1, <3>1 DEF ReaderInv, GoesTo
      <3>3. QED BY <2>1, <3>1, <3>2
    <2>3. CASE UNCHANGED asyncVars
      <3>1. Others(Reader) /\ Same(Reader)
        BY <2>3, AsyncStill
      <3>2. ReaderInv'
        BY <1>1, <1>4, <2>1, <3>1 DEF ReaderInv, Same
      <3>3. QED BY <2>1, <3>1, <3>2
    <2>4. QED BY <2>1, <2>2, <2>3
  <1>9. CASE SubBlocks
    <2>1. /\ depth[Reader] = 2 /\ UNCHANGED <<line, wake_me_up>> /\ ReturnDetach(Reader)
          /\ reader_stack' = [task |-> Reader, frame |-> depth[Reader]]
      BY <1>9 DEF SubBlocks, Node
    <2>2. ReaderInv'
      BY <1>1, <1>4, <1>5, <2>1 DEF ReaderInv, GoesTo
    <2>3. QED BY <1>5, <2>1, <2>2
  <1>10. QED BY <1>6, <1>7, <1>8, <1>9 DEF Reads

(* The loop's picks.                                                       *)
LEMMA WaitsControl ==
  ASSUME BridgeIndInv, Waits
  PROVE  ControlInv'
  <1> USE Names
  <1>1. /\ PlaceInv /\ ControlInv /\ WriterInv /\ ReaderInv /\ line \in [Task -> Lines]
        /\ UNCHANGED <<line, txVars, writer_stack, reader_stack>>
        /\ wake_me_up' \in {wake_me_up, NoNode}
    <2>1. PlaceInv /\ ControlInv /\ WriterInv /\ ReaderInv /\ line \in [Task -> Lines]
      BY DEF BridgeIndInv, ControlInv, BridgeTypes
    <2>2. /\ UNCHANGED <<line, txVars, writer_stack, reader_stack>>
          /\ wake_me_up' \in {wake_me_up, NoNode}
      BY DEF Waits, WaitWakes, WaitPolls, WaitTimesOut, WakeMeUpTaken
    <2>3. QED BY <2>1, <2>2
  <1>2. ASSUME NEW t \in Task, Others(t), GoesTo(t, "run"), depth'[t] = depth[t],
               t = Writer /\ line[t] = "sending" => tx_queue # <<>>,
               t = Reader => wake_me_up' = NoNode
        PROVE  ControlInv'
    <2>1. ASSUME t \in Caller  PROVE CallerInv(t)'
      BY <1>1, <1>2, <2>1 DEF ControlInv, CallerInv, GoesTo
    <2>2. ASSUME t = Writer  PROVE WriterInv'
      BY <1>1, <1>2, <2>2 DEF WriterInv, GoesTo, At, txVars
    <2>3. ASSUME t = Reader  PROVE ReaderInv'
      BY <1>1, <1>2, <2>3 DEF ReaderInv, GoesTo
    <2>4. is_polling_write' <=> tx_queue' # <<>>
      BY <1>1 DEF WriterInv, txVars
    <2>5. QED BY <1>1, <1>2, <2>1, <2>2, <2>3, <2>4, OthersKept DEF txVars
  <1>3. ASSUME NEW t \in detached, Evented(t)
        PROVE  t \in Task /\ Others(t) /\ GoesTo(t, "run") /\ depth'[t] = depth[t]
    BY <1>1, <1>3, PickMoves
  <1>4. CASE WaitWakes
    <2>1. PICK c \in Caller : c \in detached /\ Evented(c)
      BY <1>4, WaitsMove
    <2>2. QED BY <1>2, <1>3, <2>1
  <1>5. CASE WaitPolls
    <2>1. /\ wake_me_up = NoNode
          /\ \/ Writer \in detached /\ Evented(Writer) /\ is_polling_write
             \/ Reader \in detached /\ Evented(Reader)
      BY <1>5, WaitsMove
    <2>2. wake_me_up' = NoNode
      BY <1>1, <2>1
    <2>3. is_polling_write => tx_queue # <<>>
      BY <1>1 DEF WriterInv
    <2>4. QED BY <1>2, <1>3, <2>1, <2>2, <2>3
  <1>6. CASE PickShortcut
    <2>1. PICK t \in Task : /\ shortcut_task_stack = t /\ Others(t) /\ GoesTo(t, "run")
                            /\ depth'[t] = depth[t]
      BY <1>1, <1>6, PickMoves
    <2>2. t # Writer
      BY <1>1, <2>1 DEF WriterInv
    <2>3. t \notin detached
      BY <1>1, <2>1 DEF PlaceInv, PlacedOnce
    <2>4. t = Reader => wake_me_up' = NoNode
      BY <1>1, <2>3 DEF ReaderInv
    <2>5. QED BY <1>2, <2>1, <2>2, <2>4
  <1>7. CASE PickScheduled
    <2>1. PICK t \in Task : /\ t \in Queued /\ Others(t) /\ GoesTo(t, "run")
                            /\ depth'[t] = depth[t]
      BY <1>1, <1>7, PickMoves
    <2>2. t = Writer => line[t] = "start"
      BY <1>1, <2>1 DEF WriterInv
    <2>3. t \notin detached
      BY <1>1, <2>1 DEF PlaceInv, PlacedOnce
    <2>4. t = Reader => wake_me_up' = NoNode
      BY <1>1, <2>3 DEF ReaderInv
    <2>5. QED BY <1>2, <2>1, <2>2, <2>4
  <1>8. QED BY <1>4, <1>5, <1>6, <1>7 DEF Waits, WaitTimesOut

(* Nobody moves on the clock, in the host or on the network.               *)
LEMMA StillControl ==
  ASSUME PlaceInv, ControlInv, Clock \/ HostReads \/ Deliver \/ UNCHANGED bridgeVars
  PROVE  ControlInv'
  <1> USE Names
  <1>1. UNCHANGED <<line, txVars, writer_stack, reader_stack, wake_me_up>>
    <2>1. HostReads => UNCHANGED <<line, txVars, writer_stack, reader_stack, wake_me_up>>
      BY Zenon DEF HostReads
    <2>2. QED BY <2>1 DEF Clock, Deliver, bridgeVars
  <1>2. Others(Writer) /\ Same(Writer)
    <2>1. CASE Clock
      <3>1. Queued' = Queued
        BY <2>1, TickEntries DEF Clock, PlaceInv
      <3>2. UNCHANGED <<phase, shortcut_task_stack, task_stack, depth, detached>>
        BY <2>1 DEF Clock, Tick
      <3>3. QED BY <3>1, <3>2 DEF Others, Same, Runs
    <2>2. CASE UNCHANGED asyncVars
      BY <2>2, AsyncStill
    <2>3. HostReads => UNCHANGED asyncVars
      BY Zenon DEF HostReads
    <2>4. QED BY <2>1, <2>2, <2>3 DEF Deliver, bridgeVars
  <1>3. WriterInv'
    BY <1>1, <1>2 DEF ControlInv, WriterInv, Same, At, txVars
  <1>4. QED BY <1>1, <1>2, <1>3, OthersKept

(* Tasks are spawned at the start of their code.                           *)
LEMMA BootControl ==
  ASSUME PlaceInv, ControlInv, Boot
  PROVE  ControlInv'
  <1> USE Names
  <1>1. UNCHANGED <<line, txVars, writer_stack, reader_stack, wake_me_up>>
    BY DEF Boot
  <1>2. is_polling_write' <=> tx_queue' # <<>>
    BY <1>1 DEF ControlInv, WriterInv, txVars
  <1>3. ASSUME NEW t \in Task, async_spawn(t, {})  PROVE ControlInv'
    <2>1. Others(t) /\ GoesTo(t, "queue") /\ depth'[t] = 1 /\ depth[t] = 0
      BY <1>3, PickMoves
    <2>2. ASSUME t \in Caller  PROVE CallerInv(t)'
      <3>1. CallerInv(t) /\ line[t] = "start"
        BY <2>1, <2>2 DEF ControlInv, CallerInv, CallerFrames
      <3>2. QED BY <1>1, <2>1, <3>1 DEF CallerInv, CallerFrames, GoesTo
    <2>3. ASSUME t = Writer  PROVE WriterInv'
      <3>1. WriterInv /\ line[Writer] = "start"
        BY <2>1, <2>3 DEF ControlInv, WriterInv
      <3>2. QED BY <1>1, <1>2, <2>1, <2>3, <3>1 DEF WriterInv, GoesTo, At
    <2>4. ASSUME t = Reader  PROVE ReaderInv'
      <3>1. ReaderInv /\ line[Reader] = "start" /\ t \notin detached
        <4>1. t \notin detached
          BY <2>1 DEF PlaceInv, LiveIsPlaced
        <4>2. QED BY <2>1, <2>4, <4>1 DEF ControlInv, ReaderInv
      <3>2. QED BY <1>1, <2>1, <2>4, <3>1 DEF ReaderInv, GoesTo
    <2>5. QED BY <1>1, <1>2, <2>1, <2>2, <2>3, <2>4, OthersKept DEF txVars
  <1>4. CASE EnterLoop
    <2>1. Others(Writer) /\ Same(Writer)
      BY <1>4 DEF EnterLoop, timers, Boot, Others, Same, Runs, Queued
    <2>2. WriterInv'
      BY <1>1, <2>1 DEF ControlInv, WriterInv, Same, At, txVars
    <2>3. QED BY <1>1, <2>1, <2>2, OthersKept
  <1>5. QED BY <1>3, <1>4 DEF Boot

(* Every step leaves the parties where their invariants say.               *)
LEMMA ControlStep ==
  ASSUME BridgeIndInv, [BridgeNext]_bridgeVars
  PROVE  ControlInv'
  <1>1. PlaceInv /\ ControlInv /\ BridgeTypes /\ line \in [Task -> Lines]
    BY DEF BridgeIndInv, ControlInv, BridgeTypes
  <1>2. QED BY <1>1, CallsControl, WritesControl, ReadsControl, WaitsControl, StillControl, BootControl
            DEF BridgeNext, Phone

(* What a step does to the schedule and to the depths, boot's end apart.   *)
LEMMA StepFiles ==
  ASSUME BridgeIndInv, [BridgeNext]_bridgeVars
  PROVE  /\ \/ UNCHANGED schedule
            \/ schedule # <<>> /\ schedule' = Tail(schedule)
            \/ \E t \in Task : schedule' = schedule_a_value(schedule, async_null_time, t)
            \/ \E c \in Caller, d \in 0 .. MaxSleep : schedule' = schedule_a_value(schedule, d, c)
            \/ Tick
         /\ \A t \in {Writer, Reader} : depth[t] # 0 => depth'[t] # 0
         /\ phase' = "boot" \/ phase # "boot" \/ \A t \in Task : depth'[t] = 1
  <1> USE Names
  <1>1. PlaceInv /\ ControlInv /\ depth \in [Task -> 0 .. MaxDepth]
    BY DEF BridgeIndInv, ControlInv, PlaceInv, TypeOK
  <1>2. CASE Boot
    <2>1. ASSUME NEW t \in Task, async_spawn(t, {})
          PROVE  /\ schedule' = schedule_a_value(schedule, async_null_time, t)
                 /\ \A u \in Task : depth[u] # 0 => depth'[u] # 0
                 /\ phase' = phase
      BY <1>1, <2>1 DEF async_spawn
    <2>2. ASSUME EnterLoop
          PROVE  UNCHANGED <<schedule, depth>>
      BY <2>2 DEF EnterLoop, timers
    <2>3. phase = "boot"
      BY <1>2 DEF Boot
    <2>4. \/ \E t \in Task : async_spawn(t, {})
          \/ EnterLoop /\ \A t \in Task : depth[t] = 1
      BY <1>2 DEF Boot
    <2>5. QED BY <2>1, <2>2, <2>3, <2>4
  <1>3. ASSUME NEW c \in Caller, Calls(c)
        PROVE  /\ UNCHANGED schedule \/ \E d \in 0 .. MaxSleep : schedule' = schedule_a_value(schedule, d, c)
               /\ \A u \in Task \ {c} : depth'[u] = depth[u]
               /\ phase = "run"
    <2>1. \/ \E d \in 0 .. MaxSleep : ReturnSleep(c, d)
          \/ ReturnAwait(c) \/ ReturnDetach(c) \/ ReturnDone(c)
      BY <1>3 DEF Calls, CallerSleeps, CallerCalls, host_transmit, host_transmit_returns
    <2>2. QED BY <1>1, <2>1 DEF ReturnSleep, async_get_time_after, ReturnAwait, ReturnDetach, ReturnDone, Runs
  <1>4. CASE Writes
    <2>1. ReturnDetach(Writer) \/ UNCHANGED asyncVars
      BY <1>4 DEF Writes, WriterStarts, WriterSends, Sends, WriterBlocks
    <2>2. Runs(Writer)
      BY <1>4 DEF Writes, WriterStarts, WriterSends, WriterBlocks, At
    <2>3. QED BY <2>1, <2>2 DEF ReturnDetach, asyncVars, vars, timers, Runs
  <1>5. CASE Reads
    <2>1. /\ Runs(Reader)
          /\ \/ ReturnDetach(Reader) \/ ReturnAwait(Reader) \/ UNCHANGED asyncVars
             \/ ReturnDone(Reader) /\ depth[Reader] = 2
      BY <1>5 DEF Reads, ReaderAwaits, ReaderAnswers, SubReceives, SubBlocks
    <2>2. depth[Reader] \in Nat
      BY <1>1
    <2>3. QED BY <1>1, <2>1, <2>2 DEF ReturnDetach, ReturnAwait, ReturnDone, asyncVars, vars, timers, Runs
  <1>6. CASE Waits
    <2>1. \/ \E t \in detached : Evented(t)
          \/ PickShortcut \/ PickScheduled
      BY <1>6, WaitsMove DEF Waits, WaitTimesOut
    <2>2. QED BY <2>1 DEF Evented, ScheduleAfterEvent, PickShortcut, PickScheduled, CallTop
  <1>7. CASE Clock
    BY <1>7 DEF Clock, Tick
  <1>8. CASE UNCHANGED asyncVars
    BY <1>8 DEF asyncVars, vars, timers
  <1>9. HostReads => UNCHANGED asyncVars
    BY Zenon DEF HostReads
  <1>10. Deliver \/ UNCHANGED bridgeVars => UNCHANGED asyncVars
    BY DEF Deliver, bridgeVars
  <1>11. ASSUME NEW c \in Caller, Calls(c)
         PROVE  /\ UNCHANGED schedule \/ \E d \in 0 .. MaxSleep : schedule' = schedule_a_value(schedule, d, c)
                /\ \A t \in {Writer, Reader} : depth[t] # 0 => depth'[t] # 0
                /\ phase # "boot"
    BY <1>3, <1>11
  <1>12. QED BY <1>2, <1>4, <1>5, <1>6, <1>7, <1>8, <1>9, <1>10, <1>11 DEF BridgeNext, Phone

(* Nothing files the writer or the reader for a later time.                *)
LEMMA SpawnedStep ==
  ASSUME BridgeIndInv, [BridgeNext]_bridgeVars
  PROVE  SpawnedInv'
  <1> USE Names
  <1>1. /\ PlaceInv /\ TypeOK /\ SpawnedInv /\ schedule \in Seq(Entry)
        /\ DistinctTasks(schedule)
    BY DEF BridgeIndInv, PlaceInv, PlacedOnce, TypeOK
  <1>2. \A t \in {Writer, Reader} : \A w : Filed(t, w) => w = async_null_time
    BY <1>1, QueuedIsFiled DEF SpawnedInv
  <1>3. ASSUME NEW t \in {Writer, Reader}, NEW w, Filed(t, w)'  PROVE w = async_null_time
    <2>1. CASE UNCHANGED schedule
      BY <1>2, <1>3, <2>1 DEF Filed
    <2>2. CASE schedule # <<>> /\ schedule' = Tail(schedule)
      BY <1>1, <1>2, <1>3, <2>2, FiledInTail DEF Filed
    <2>3. ASSUME NEW u \in Task, schedule' = schedule_a_value(schedule, async_null_time, u)
          PROVE  w = async_null_time
      <3>1. FiledIn(schedule', t, w) <=> FiledIn(schedule, t, w) \/ (t = u /\ w = async_null_time)
        BY <1>1, <2>3, FiledByScheduling, WakeTimes
      <3>2. QED BY <1>2, <1>3, <3>1 DEF Filed
    <2>4. ASSUME NEW c \in Caller, NEW d \in 0 .. MaxSleep, schedule' = schedule_a_value(schedule, d, c)
          PROVE  w = async_null_time
      <3>1. d \in WakeTime /\ c \in Task
        BY WakeTimes
      <3>2. FiledIn(schedule', t, w) <=> FiledIn(schedule, t, w) \/ (t = c /\ w = d)
        BY <1>1, <2>4, <3>1, FiledByScheduling
      <3>3. QED BY <1>2, <1>3, <3>2 DEF Filed
    <2>5. CASE Tick
      <3>1. \/ w = async_null_time /\ Filed(t, w)
            \/ \E v \in Int : v > - MaxLate /\ w = v - 1 /\ Filed(t, v)
        BY <1>1, <1>3, <2>5, FiledByTick
      <3>2. ASSUME NEW v \in Int, v > - MaxLate, Filed(t, v)  PROVE FALSE
        <4>1. v = async_null_time
          BY <1>2, <3>2
        <4>2. QED BY <3>2, <4>1, AsyncAssumption DEF AsyncAssumption, async_null_time
      <3>3. QED BY <3>1, <3>2
    <2>6. QED BY <2>1, <2>2, <2>3, <2>4, <2>5, StepFiles
  <1>4. ASSUME phase' # "boot"  PROVE depth'[Writer] # 0 /\ depth'[Reader] # 0
    BY <1>1, <1>4, StepFiles DEF SpawnedInv
  <1>5. async_null_time' = async_null_time
    BY DEF async_null_time
  <1>6. QED BY <1>3, <1>4, <1>5 DEF SpawnedInv

-----------------------------------------------------------------------------
(* The bytes of requests and replies *)

Kinds == {"code", "bytes", "size", "stack", "ret", "len", "data"}

(* A field is a sequence of bytes.                                         *)
LEMMA FieldFacts ==
  ASSUME NEW k \in Kinds, NEW c \in Caller, NEW v \in Nat, NEW n \in Nat
  PROVE  /\ Field(k, c, v, n) \in Seq(Byte) /\ Len(Field(k, c, v, n)) = n
         /\ \A i \in 1 .. n : Field(k, c, v, n)[i] = [kind |-> k, of |-> c, val |-> v, i |-> i]
  <1>1. Field(k, c, v, n) = [i \in 1 .. n |-> [kind |-> k, of |-> c, val |-> v, i |-> i]]
    BY DEF Field
  <1>2. \A i \in 1 .. n : [kind |-> k, of |-> c, val |-> v, i |-> i] \in Byte
    BY DEF Byte, Kinds
  <1>3. QED BY <1>1, <1>2, IsASeq

(* Whose field of the kind a byte begins. *)
Begins(kind) == [b \in Byte |-> IF b.kind = kind /\ b.i = 1 THEN <<b.of>> ELSE <<>>]

(* So CallersOf is a join.                                                 *)
LEMMA CallersJoined ==
  ASSUME NEW kind
  PROVE  /\ Begins(kind) \in [Byte -> Seq(Caller)]
         /\ \A s \in Seq(Byte) : CallersOf(s, kind) = Joined(Begins(kind), s)
  <1>1. Begins(kind) \in [Byte -> Seq(Caller)]
    <2>1. \A b \in Byte : b.of \in Caller
      BY DEF Byte
    <2>2. \A b \in Byte : (IF b.kind = kind /\ b.i = 1 THEN <<b.of>> ELSE <<>>) \in Seq(Caller)
      BY <2>1
    <2>3. QED BY <2>2 DEF Begins
  <1>2. ASSUME NEW s \in Seq(Byte)  PROVE CallersOf(s, kind) = Joined(Begins(kind), s)
    <2>1. \A j \in DOMAIN s : s[j] \in Byte
      BY ElementOfSeq
    <2>2. \A j \in DOMAIN s : Begins(kind)[s[j]] =
                                IF s[j].kind = kind /\ s[j].i = 1 THEN <<s[j].of>> ELSE <<>>
      BY <2>1 DEF Begins
    <2>3. [j \in DOMAIN s |-> Begins(kind)[s[j]]] =
            [j \in DOMAIN s |-> IF s[j].kind = kind /\ s[j].i = 1 THEN <<s[j].of>> ELSE <<>>]
      BY <2>2
    <2>4. QED BY <2>3 DEF CallersOf, Joined
  <1>3. QED BY <1>1, <1>2

(* The callers of a stream are those of its parts.                         *)
LEMMA CallersFacts ==
  ASSUME NEW kind
  PROVE  /\ CallersOf(<<>>, kind) = <<>>
         /\ \A s \in Seq(Byte) : CallersOf(s, kind) \in Seq(Caller)
         /\ \A s, t \in Seq(Byte) : CallersOf(s \o t, kind) = CallersOf(s, kind) \o CallersOf(t, kind)
  <1>1. Begins(kind) \in [Byte -> Seq(Caller)]
    BY CallersJoined
  <1>2. /\ Joined(Begins(kind), <<>>) = <<>>
        /\ \A s \in Seq(Byte) : Joined(Begins(kind), s) \in Seq(Caller)
        /\ \A x \in Byte : Joined(Begins(kind), <<x>>) = Begins(kind)[x]
        /\ \A s, t \in Seq(Byte) : Joined(Begins(kind), s \o t)
                                     = Joined(Begins(kind), s) \o Joined(Begins(kind), t)
    BY <1>1, JoinedFacts
  <1>3. \A s \in Seq(Byte) : CallersOf(s, kind) = Joined(Begins(kind), s)
    BY CallersJoined
  <1>4. CallersOf(<<>>, kind) = <<>>
    <2>1. <<>> \in Seq(Byte)
      OBVIOUS
    <2>2. QED BY <1>2, <1>3, <2>1, Zenon
  <1>5. ASSUME NEW s \in Seq(Byte), NEW t \in Seq(Byte)
        PROVE  CallersOf(s \o t, kind) = CallersOf(s, kind) \o CallersOf(t, kind)
    <2>1. s \o t \in Seq(Byte)
      BY ConcatProperties
    <2>2. Joined(Begins(kind), s \o t) = Joined(Begins(kind), s) \o Joined(Begins(kind), t)
      BY <1>2
    <2>3. QED BY <1>3, <2>1, <2>2, Zenon
  <1>6. QED BY <1>2, <1>3, <1>4, <1>5

(* A field begins once, if it has a byte.                                  *)
LEMMA CallersOfField ==
  ASSUME NEW kind, NEW k \in Kinds, NEW c \in Caller, NEW v \in Nat, NEW n \in Nat
  PROVE  CallersOf(Field(k, c, v, n), kind) = IF k = kind /\ n # 0 THEN <<c>> ELSE <<>>
  <1> DEFINE f == Field(k, c, v, n)
             m == [j \in DOMAIN f |-> IF f[j].kind = kind /\ f[j].i = 1 THEN <<f[j].of>> ELSE <<>>]
  <1>1. /\ f \in Seq(Byte) /\ Len(f) = n
        /\ \A i \in 1 .. n : f[i] = [kind |-> k, of |-> c, val |-> v, i |-> i]
    BY FieldFacts
  <1>2. DOMAIN f = 1 .. n
    BY <1>1
  <1> HIDE DEF f
  <1>3. \A j \in 1 .. n : m[j] = IF k = kind /\ j = 1 THEN <<c>> ELSE <<>>
    BY <1>1, <1>2
  <1>4. m \in Seq(Seq(Caller)) /\ Len(m) = n
    <2>1. m = [j \in 1 .. n |-> m[j]]
      BY <1>2
    <2>2. \A j \in 1 .. n : m[j] \in Seq(Caller)
      <3>1. <<c>> \in Seq(Caller) /\ <<>> \in Seq(Caller)
        OBVIOUS
      <3> HIDE DEF m
      <3>2. QED BY <1>3, <3>1
    <2> HIDE DEF m
    <2>3. QED BY <2>1, <2>2, IsASeq
  <1>5. CallersOf(f, kind) = FlattenSeq(m)
    BY DEF CallersOf
  <1> HIDE DEF m
  <1>6. CASE k = kind /\ n # 0
    <2>1. m # <<>> /\ Head(m) = <<c>>
      BY <1>3, <1>4, <1>6
    <2>2. /\ Tail(m) \in Seq(Seq(Caller)) /\ Len(Tail(m)) = n - 1
          /\ \A j \in 1 .. n - 1 : Tail(m)[j] = m[j + 1]
      BY <1>4, <2>1, TailFacts
    <2>3. PICK r \in Seq(Seq(Caller)) : r = Tail(m)
      BY <2>2
    <2>4. \A j \in 1 .. Len(r) : r[j] = <<>>
      <3>1. ASSUME NEW j \in 1 .. Len(r)  PROVE r[j] = <<>>
        <4>1. j + 1 \in 1 .. n /\ j + 1 # 1 /\ r[j] = m[j + 1]
          BY <2>2, <2>3
        <4>2. QED BY <1>3, <4>1
      <3>2. QED BY <3>1
    <2>5. FlattenSeq(r) = <<>>
      BY <2>4, FlattenEmpties
    <2>6. FlattenSeq(m) = Head(m) \o FlattenSeq(Tail(m))
      BY <1>4, <2>1, FlattenHead
    <2>7. <<c>> \o <<>> = <<c>>
      OBVIOUS
    <2>8. QED BY <1>5, <1>6, <2>1, <2>3, <2>5, <2>6, <2>7 DEF f
  <1>7. CASE ~ (k = kind /\ n # 0)
    <2>1. \A j \in 1 .. Len(m) : m[j] = <<>>
      BY <1>3, <1>4, <1>7
    <2>2. FlattenSeq(m) = <<>>
      BY <1>4, <2>1, FlattenEmpties
    <2>3. QED BY <1>5, <1>7, <2>2 DEF f
  <1>8. QED BY <1>6, <1>7

(* The fields of c's messages: their lengths, and where c's name is found. *)
LEMMA KindFacts ==
  ASSUME NEW c \in Caller
  PROVE  /\ \A k \in Kinds : Kind(c, k) \in Seq(Byte)
         /\ Len(Kind(c, "code")) = 1 /\ Len(Kind(c, "bytes")) = Arg[c] /\ Len(Kind(c, "size")) = 1
         /\ Len(Kind(c, "stack")) = PtrLen /\ Len(Kind(c, "ret")) = PtrLen
         /\ Len(Kind(c, "len")) = 1 /\ Len(Kind(c, "data")) = Ret[c]
         /\ Kind(c, "code")[1].of = c
         /\ \A k \in Kinds : CallersOf(Kind(c, k), "code") = IF k = "code" THEN <<c>> ELSE <<>>
         /\ \A k \in Kinds : CallersOf(Kind(c, k), "stack") = IF k = "stack" THEN <<c>> ELSE <<>>
  <1>1. Arg[c] \in Nat /\ Ret[c] \in Nat /\ PtrLen \in Nat /\ PtrLen # 0
    BY Names
  <1>2. \A k \in Kinds, v \in Nat, n \in Nat :
          Field(k, c, v, n) \in Seq(Byte) /\ Len(Field(k, c, v, n)) = n
    BY FieldFacts, Zenon
  <1>3. \A k \in Kinds, v \in Nat, n \in Nat : \A kind :
          CallersOf(Field(k, c, v, n), kind) = IF k = kind /\ n # 0 THEN <<c>> ELSE <<>>
    BY CallersOfField
  <1>4. {"code", "bytes", "size", "stack", "ret", "len", "data"} = Kinds
    BY DEF Kinds
  <1>5. ASSUME NEW k \in Kinds
        PROVE  \E v \in Nat, n \in Nat : /\ Kind(c, k) = Field(k, c, v, n)
                                         /\ k \in {"code", "stack"} => n # 0
    BY <1>1, <1>4, <1>5 DEF Kind
  <1>6. ASSUME NEW k \in Kinds  PROVE Kind(c, k) \in Seq(Byte)
    <2>1. PICK v \in Nat, n \in Nat : Kind(c, k) = Field(k, c, v, n)
      BY <1>5
    <2>2. QED BY <1>2, <2>1, Zenon
  <1>7. ASSUME NEW k \in Kinds
        PROVE  /\ CallersOf(Kind(c, k), "code") = IF k = "code" THEN <<c>> ELSE <<>>
               /\ CallersOf(Kind(c, k), "stack") = IF k = "stack" THEN <<c>> ELSE <<>>
    BY <1>3, <1>5
  <1>8. /\ Len(Kind(c, "code")) = 1 /\ Len(Kind(c, "bytes")) = Arg[c] /\ Len(Kind(c, "size")) = 1
        /\ Len(Kind(c, "stack")) = PtrLen /\ Len(Kind(c, "ret")) = PtrLen
        /\ Len(Kind(c, "len")) = 1 /\ Len(Kind(c, "data")) = Ret[c]
    <2>1. /\ Kind(c, "code") = Field("code", c, 0, 1) /\ Kind(c, "bytes") = Field("bytes", c, 0, Arg[c])
          /\ Kind(c, "size") = Field("size", c, PtrLen, 1)
          /\ Kind(c, "stack") = Field("stack", c, 2, PtrLen) /\ Kind(c, "ret") = Field("ret", c, 0, PtrLen)
          /\ Kind(c, "len") = Field("len", c, Ret[c], 1) /\ Kind(c, "data") = Field("data", c, 0, Ret[c])
      BY DEF Kind
    <2>2. /\ 0 \in Nat /\ 1 \in Nat /\ 2 \in Nat
          /\ "code" \in Kinds /\ "bytes" \in Kinds /\ "size" \in Kinds /\ "stack" \in Kinds
          /\ "ret" \in Kinds /\ "len" \in Kinds /\ "data" \in Kinds
      BY <1>4
    <2>3. /\ Len(Field("code", c, 0, 1)) = 1 /\ Len(Field("bytes", c, 0, Arg[c])) = Arg[c]
          /\ Len(Field("size", c, PtrLen, 1)) = 1
          /\ Len(Field("stack", c, 2, PtrLen)) = PtrLen /\ Len(Field("ret", c, 0, PtrLen)) = PtrLen
          /\ Len(Field("len", c, Ret[c], 1)) = 1 /\ Len(Field("data", c, 0, Ret[c])) = Ret[c]
      BY <1>1, <1>2, <2>2
    <2>4. QED BY <2>1, <2>3
  <1>9. Kind(c, "code")[1].of = c
    <2>1. Kind(c, "code") = Field("code", c, 0, 1)
      BY DEF Kind
    <2>2. Field("code", c, 0, 1)[1] = [kind |-> "code", of |-> c, val |-> 0, i |-> 1]
      <3>1. 1 \in 1 .. 1 /\ "code" \in Kinds /\ 0 \in Nat /\ 1 \in Nat
        BY <1>4
      <3>2. QED BY <3>1, FieldFacts, Zenon
    <2>3. QED BY <2>1, <2>2
  <1>10. QED BY <1>6, <1>7, <1>8, <1>9

(* The callers of two pieces of a stream are those of one and then the     *)
(* other's.                                                                *)
LEMMA CallersOfCat ==
  \A kind : \A x, y, z \in Seq(Byte) :
    Cat(x, y, z) => /\ Cat(CallersOf(x, kind), CallersOf(y, kind), CallersOf(z, kind))
                    /\ CallersOf(z, kind) \in Seq(Caller)
  <1> SUFFICES ASSUME NEW kind, NEW x \in Seq(Byte), NEW y \in Seq(Byte), NEW z \in Seq(Byte), Cat(x, y, z)
               PROVE  /\ Cat(CallersOf(x, kind), CallersOf(y, kind), CallersOf(z, kind))
                      /\ CallersOf(z, kind) \in Seq(Caller)
    BY Zenon
  <1>1. CallersOf(x \o y, kind) = CallersOf(x, kind) \o CallersOf(y, kind)
    BY CallersFacts, Zenon
  <1>2. z = x \o y
    BY DEF Cat
  <1>3. /\ CallersOf(x, kind) \in Seq(Caller) /\ CallersOf(y, kind) \in Seq(Caller)
        /\ CallersOf(z, kind) \in Seq(Caller)
    BY CallersFacts, Zenon
  <1>4. PICK u \in Seq(Caller) : Cat(CallersOf(x, kind), CallersOf(y, kind), u)
    BY <1>3, Cats
  <1>5. u = CallersOf(x, kind) \o CallersOf(y, kind)
    BY <1>4 DEF Cat
  <1>6. QED BY <1>1, <1>2, <1>3, <1>4, <1>5, Zenon

(* The arithmetic of the lengths.                                          *)
LEMMA Sums ==
  /\ \A x \in Nat : 1 + (x + 1) = 2 + x /\ x + x = 2 * x /\ (2 + x) + 1 = 3 + x
  /\ \A x, y \in Nat : 2 + x + 2 * y \in Nat /\ 2 + x + 2 * y > 1 /\ 2 + x + 2 * y # 0
  /\ \A x, y, i, n \in Nat : x + (i + n) = y /\ n + i = y => x = 0
  OBVIOUS

(* ... a request is longer than a byte ...                                   *)
LEMMA LongEnough ==
  \A x, y, l \in Nat : l = 2 + x + 2 * y => l > 1 /\ l # 0
  OBVIOUS

(* ... and what is left is the whole less what went before.                  *)
LEMMA NothingMore ==
  \A x, y, k \in Nat : x + k = y /\ k = y => x = 0
  OBVIOUS

(* A request ends in the two pointers, which the host echoes ...           *)
LEMMA RequestFacts ==
  ASSUME NEW c \in Caller
  PROVE  /\ Asks(c) \in Seq(Byte) /\ Echo(c) \in Seq(Byte) /\ Request(c) \in Seq(Byte)
         /\ Request(c) = Asks(c) \o Echo(c)
         /\ Len(Asks(c)) = 2 + Arg[c] /\ Len(Echo(c)) = 2 * PtrLen
         /\ Len(Request(c)) = 2 + Arg[c] + 2 * PtrLen
         /\ Request(c)[1].of = c
         /\ CallersOf(Request(c), "code") = <<c>>
         /\ CallersOf(Echo(c), "stack") = <<c>>
         /\ Chunks(c, [task |-> c, frame |-> 2]) \in Seq(Seq(Byte))
  <1>1. PICK cd \in Seq(Byte) : cd = Kind(c, "code")
    BY KindFacts DEF Kinds
  <1>2. PICK by \in Seq(Byte) : by = Kind(c, "bytes")
    BY KindFacts DEF Kinds
  <1>3. PICK sz \in Seq(Byte) : sz = Kind(c, "size")
    BY KindFacts DEF Kinds
  <1>4. PICK st \in Seq(Byte) : st = Kind(c, "stack")
    BY KindFacts DEF Kinds
  <1>5. PICK rt \in Seq(Byte) : rt = Kind(c, "ret")
    BY KindFacts DEF Kinds
  <1>6. /\ Len(cd) = 1 /\ Len(by) = Arg[c] /\ Len(sz) = 1 /\ Len(st) = PtrLen /\ Len(rt) = PtrLen
        /\ cd[1].of = c
    BY KindFacts, <1>1, <1>2, <1>3, <1>4, <1>5
  <1>7. /\ CallersOf(cd, "code") = <<c>> /\ CallersOf(by, "code") = <<>> /\ CallersOf(sz, "code") = <<>>
        /\ CallersOf(st, "code") = <<>> /\ CallersOf(rt, "code") = <<>>
        /\ CallersOf(st, "stack") = <<c>> /\ CallersOf(rt, "stack") = <<>>
    BY KindFacts, <1>1, <1>2, <1>3, <1>4, <1>5 DEF Kinds
  <1>8. Chunks(c, [task |-> c, frame |-> 2]) = <<cd, by, sz, st, rt>>
    BY <1>1, <1>2, <1>3, <1>4, <1>5 DEF Chunks, Kind
  <1>9. Arg[c] \in Nat /\ PtrLen \in Nat /\ PtrLen # 0
    BY Names
  <1>10. PICK m, h, t, r \in Seq(Byte) : FiveParts(cd, by, sz, st, rt, m, h, t, r)
    BY FiveFacts
  <1>11. Cat(by, sz, m) /\ Cat(cd, m, h) /\ Cat(st, rt, t) /\ Cat(h, t, r)
    BY <1>10 DEF FiveParts
  <1>12. Request(c) = r
    BY <1>8, <1>10 DEF Request, FiveParts
  <1>13. m = by \o sz /\ h = cd \o m /\ t = st \o rt /\ r = h \o t
    BY <1>11 DEF Cat
  <1>14. Asks(c) = h /\ Echo(c) = t
    BY <1>1, <1>2, <1>3, <1>4, <1>5, <1>13, Zenon DEF Asks, Echo
  <1>15. Len(h) = 2 + Arg[c] /\ Len(t) = 2 * PtrLen /\ Len(r) = 2 + Arg[c] + 2 * PtrLen
    <2>1. /\ Len(m) = Len(by) + Len(sz) /\ Len(h) = Len(cd) + Len(m) /\ Len(t) = Len(st) + Len(rt)
          /\ Len(r) = Len(h) + Len(t)
      BY <1>11, Zenon DEF Cat
    <2>2. Len(m) = Arg[c] + 1 /\ Len(h) = 1 + Len(m) /\ Len(t) = PtrLen + PtrLen
      BY <1>6, <2>1, Zenon
    <2>3. Len(h) = 2 + Arg[c] /\ Len(t) = 2 * PtrLen
      BY <1>9, <2>2, Sums, Zenon
    <2>4. QED BY <2>1, <2>3, Zenon
  <1>16. r[1].of = c
    <2>1. cd # <<>>
      <3>1. Len(cd) # 0
        BY <1>6
      <3>2. QED BY <3>1, Empties, Zenon
    <2>2. h # <<>> /\ h[1] = cd[1]
      BY <1>11, <2>1, Zenon DEF Cat
    <2>3. r[1] = h[1]
      BY <1>11, <2>2, Zenon DEF Cat
    <2>4. QED BY <1>6, <2>2, <2>3, Zenon
  <1>17. \A kind : \A x, y, z \in Seq(Byte) :
           Cat(x, y, z) => Cat(CallersOf(x, kind), CallersOf(y, kind), CallersOf(z, kind))
    BY CallersOfCat, Zenon
  <1>18. <<c>> \o <<>> = <<c>> /\ <<>> \o <<>> = <<>>
    OBVIOUS
  <1>19. CallersOf(m, "code") = <<>> /\ CallersOf(t, "code") = <<>> /\ CallersOf(t, "stack") = <<c>>
    <2>1. /\ Cat(CallersOf(by, "code"), CallersOf(sz, "code"), CallersOf(m, "code"))
          /\ Cat(CallersOf(st, "code"), CallersOf(rt, "code"), CallersOf(t, "code"))
          /\ Cat(CallersOf(st, "stack"), CallersOf(rt, "stack"), CallersOf(t, "stack"))
      BY <1>11, <1>17, Zenon
    <2>2. QED BY <1>7, <1>18, <2>1, Zenon DEF Cat
  <1>20. CallersOf(h, "code") = <<c>>
    <2>1. Cat(CallersOf(cd, "code"), CallersOf(m, "code"), CallersOf(h, "code"))
      BY <1>11, <1>17, Zenon
    <2>2. QED BY <1>7, <1>18, <1>19, <2>1, Zenon DEF Cat
  <1>21. CallersOf(r, "code") = <<c>>
    <2>1. Cat(CallersOf(h, "code"), CallersOf(t, "code"), CallersOf(r, "code"))
      BY <1>11, <1>17, Zenon
    <2>2. QED BY <1>18, <1>19, <1>20, <2>1, Zenon DEF Cat
  <1>22. <<cd, by, sz, st, rt>> \in Seq(Seq(Byte))
    OBVIOUS
  <1>23. QED BY <1>8, <1>12, <1>13, <1>14, <1>15, <1>16, <1>19, <1>21, <1>22, Zenon

(* ... and puts in front of the result.                                    *)
LEMMA ReplyFacts ==
  ASSUME NEW c \in Caller
  PROVE  /\ Results(c) \in Seq(Byte) /\ Reply(c) \in Seq(Byte)
         /\ CallersOf(Reply(c), "stack") = <<c>>
  <1>1. PICK t \in Seq(Byte) : t = Echo(c) /\ CallersOf(t, "stack") = <<c>>
    BY RequestFacts
  <1>2. PICK ln \in Seq(Byte) : ln = Kind(c, "len")
    BY KindFacts DEF Kinds
  <1>3. PICK dt \in Seq(Byte) : dt = Kind(c, "data")
    BY KindFacts DEF Kinds
  <1>4. CallersOf(ln, "stack") = <<>> /\ CallersOf(dt, "stack") = <<>>
    BY KindFacts, <1>2, <1>3 DEF Kinds
  <1>5. PICK m \in Seq(Byte) : Cat(ln, dt, m)
    BY Cats
  <1>6. PICK r \in Seq(Byte) : Cat(t, m, r)
    BY Cats
  <1>7. Results(c) = m /\ Reply(c) = r
    BY <1>1, <1>2, <1>3, <1>5, <1>6, Zenon DEF Cat, Results, Reply
  <1>8. \A kind : \A x, y, z \in Seq(Byte) :
          Cat(x, y, z) => Cat(CallersOf(x, kind), CallersOf(y, kind), CallersOf(z, kind))
    BY CallersOfCat, Zenon
  <1>9. /\ Cat(CallersOf(ln, "stack"), CallersOf(dt, "stack"), CallersOf(m, "stack"))
        /\ Cat(CallersOf(t, "stack"), CallersOf(m, "stack"), CallersOf(r, "stack"))
    BY <1>5, <1>6, <1>8, Zenon
  <1>10. <<c>> \o <<>> = <<c>> /\ <<>> \o <<>> = <<>>
    OBVIOUS
  <1>11. CallersOf(r, "stack") = <<c>>
    BY <1>1, <1>4, <1>9, <1>10, Zenon DEF Cat
  <1>12. QED BY <1>7, <1>11

(* What is asked for in order, and back.                                   *)
LEMMA StreamFacts ==
  /\ Requests \in [Caller -> Seq(Byte)] /\ Replies \in [Caller -> Seq(Byte)]
  /\ \A c \in Caller : Requests[c] = Request(c) /\ Replies[c] = Reply(c)
  /\ \A q \in Seq(Caller) : CallersOf(Joined(Requests, q), "code") = q
  /\ \A q \in Seq(Caller) : CallersOf(Joined(Replies, q), "stack") = q
  <1>1. Requests \in [Caller -> Seq(Byte)] /\ Replies \in [Caller -> Seq(Byte)]
    BY RequestFacts, ReplyFacts DEF Requests, Replies
  <1>2. \A c \in Caller : Requests[c] = Request(c) /\ Replies[c] = Reply(c)
    BY DEF Requests, Replies
  <1>3. /\ Begins("code") \in [Byte -> Seq(Caller)] /\ Begins("stack") \in [Byte -> Seq(Caller)]
        /\ \A s \in Seq(Byte) : CallersOf(s, "code") = Joined(Begins("code"), s)
        /\ \A s \in Seq(Byte) : CallersOf(s, "stack") = Joined(Begins("stack"), s)
    BY CallersJoined
  <1>4. \A c \in Caller : Joined(Begins("code"), Requests[c]) = <<c>>
    <2>1. \A c \in Caller : Requests[c] \in Seq(Byte) /\ CallersOf(Requests[c], "code") = <<c>>
      BY <1>2, RequestFacts
    <2>2. QED BY <1>3, <2>1, Zenon
  <1>5. \A c \in Caller : Joined(Begins("stack"), Replies[c]) = <<c>>
    <2>1. \A c \in Caller : Replies[c] \in Seq(Byte) /\ CallersOf(Replies[c], "stack") = <<c>>
      BY <1>2, ReplyFacts
    <2>2. QED BY <1>3, <2>1, Zenon
  <1>6. \A f \in [Caller -> Seq(Byte)], g \in [Byte -> Seq(Caller)] :
          (\A c \in Caller : Joined(g, f[c]) = <<c>>) => \A q \in Seq(Caller) : Joined(g, Joined(f, q)) = q
    <2> TAKE f \in [Caller -> Seq(Byte)], g \in [Byte -> Seq(Caller)]
    <2> QED BY JoinedBack
  <1>7. /\ \A q \in Seq(Caller) : Joined(Begins("code"), Joined(Requests, q)) = q
        /\ \A q \in Seq(Caller) : Joined(Begins("stack"), Joined(Replies, q)) = q
    BY <1>1, <1>3, <1>4, <1>5, <1>6, Zenon
  <1>8. \A q \in Seq(Caller) : Joined(Requests, q) \in Seq(Byte) /\ Joined(Replies, q) \in Seq(Byte)
    BY <1>1, JoinedFacts, Zenon
  <1>9. \A q \in Seq(Caller) : CallersOf(Joined(Requests, q), "code") = q
    BY <1>3, <1>7, <1>8, Zenon
  <1>10. \A q \in Seq(Caller) : CallersOf(Joined(Replies, q), "stack") = q
    BY <1>3, <1>7, <1>8, Zenon
  <1>11. QED BY <1>1, <1>2, <1>9, <1>10, Zenon

(* One more is asked or answered, the first one taken off.                 *)
LEMMA StreamEnds ==
  \A f \in {Requests, Replies} :
    /\ Joined(f, <<>>) = <<>>
    /\ \A q \in Seq(Caller) : Joined(f, q) \in Seq(Byte)
    /\ \A q \in Seq(Caller), c \in Caller : Cat(Joined(f, q), f[c], Joined(f, Append(q, c)))
    /\ \A q \in Seq(Caller) : q # <<>> => Cat(f[Head(q)], Joined(f, Tail(q)), Joined(f, q))
  <1> SUFFICES ASSUME NEW f \in [Caller -> Seq(Byte)]
               PROVE  /\ Joined(f, <<>>) = <<>>
                      /\ \A q \in Seq(Caller) : Joined(f, q) \in Seq(Byte)
                      /\ \A q \in Seq(Caller), c \in Caller : Cat(Joined(f, q), f[c], Joined(f, Append(q, c)))
                      /\ \A q \in Seq(Caller) : q # <<>> => Cat(f[Head(q)], Joined(f, Tail(q)), Joined(f, q))
    BY StreamFacts, Zenon
  <1>1. /\ Joined(f, <<>>) = <<>>
        /\ \A q \in Seq(Caller) : Joined(f, q) \in Seq(Byte)
    BY JoinedFacts
  <1>2. /\ \A q \in Seq(Caller), c \in Caller : Joined(f, Append(q, c)) = Joined(f, q) \o f[c]
        /\ \A q \in Seq(Caller) : q # <<>> => Joined(f, q) = f[Head(q)] \o Joined(f, Tail(q))
    BY JoinedEnds
  <1>3. ASSUME NEW q \in Seq(Caller), NEW c \in Caller
        PROVE  Cat(Joined(f, q), f[c], Joined(f, Append(q, c)))
    <2>1. PICK x, y \in Seq(Byte) : x = Joined(f, q) /\ y = f[c]
      BY <1>1
    <2>2. PICK z : z = Joined(f, Append(q, c))
      OBVIOUS
    <2>3. z = x \o y
      BY <1>2, <2>1, <2>2, Zenon
    <2>4. QED BY <2>1, <2>2, <2>3, CatIs
  <1>4. ASSUME NEW q \in Seq(Caller), q # <<>>
        PROVE  Cat(f[Head(q)], Joined(f, Tail(q)), Joined(f, q))
    <2>1. PICK c \in Caller, w \in Seq(Caller) : c = Head(q) /\ w = Tail(q)
      <3>1. Head(q) \in Caller /\ Tail(q) \in Seq(Caller)
        BY <1>4
      <3>2. QED BY <3>1
    <2>2. PICK x, y \in Seq(Byte) : x = f[c] /\ y = Joined(f, w)
      BY <1>1
    <2>3. PICK z : z = Joined(f, q)
      OBVIOUS
    <2>4. z = x \o y
      BY <1>2, <1>4, <2>1, <2>2, <2>3, Zenon
    <2>5. QED BY <2>1, <2>2, <2>3, <2>4, CatIs
  <1>5. QED BY <1>1, <1>3, <1>4, Zenon

-----------------------------------------------------------------------------
(* The bytes of the transmit queue *)

QueueBytes(queue, i) ==
  IF queue = <<>> THEN <<>>
  ELSE SubSeq(Head(queue), i + 1, Len(Head(queue))) \o FlattenSeq(Tail(queue))

(* i is how far into the front chunk the queue has been sent. *)
Sent(queue, i) ==
  /\ queue \in Seq(Seq(Byte))
  /\ i \in 0 .. (IF queue = <<>> THEN 0 ELSE Len(Head(queue)))

(* A queue none of which has been sent.                                    *)
LEMMA QueueWhole ==
  ASSUME NEW queue \in Seq(Seq(Byte))
  PROVE  QueueBytes(queue, 0) = FlattenSeq(queue) /\ FlattenSeq(queue) \in Seq(Byte)
  <1>1. CASE queue = <<>>
    BY <1>1, FlattenFacts DEF QueueBytes
  <1>2. CASE queue # <<>>
    <2>1. PICK h \in Seq(Byte) : h = Head(queue)
      BY <1>2
    <2>2. SubSeq(h, 0 + 1, Len(h)) = h
      <3>1. 0 + 1 = 1
        OBVIOUS
      <3>2. QED BY <3>1, SubSeqFull
    <2>3. FlattenSeq(queue) = h \o FlattenSeq(Tail(queue))
      BY <1>2, <2>1, FlattenHead
    <2>4. FlattenSeq(queue) \in Seq(Byte)
      BY FlattenFacts
    <2>5. QED BY <1>2, <2>1, <2>2, <2>3, <2>4, Zenon DEF QueueBytes
  <1>3. QED BY <1>1, <1>2

(* The queue's front chunk apart.                                          *)
LEMMA QueueParts ==
  ASSUME NEW queue, NEW i, Sent(queue, i), queue # <<>>
  PROVE  /\ Head(queue) \in Seq(Byte) /\ Tail(queue) \in Seq(Seq(Byte))
         /\ \E a, b \in Seq(Byte) :
              /\ CutUp(Head(queue), 0, i, a, b, Head(queue))
              /\ Cat(b, FlattenSeq(Tail(queue)), QueueBytes(queue, i))
         /\ QueueBytes(queue, i) \in Seq(Byte)
  <1>1. PICK h \in Seq(Byte), t \in Seq(Seq(Byte)) : h = Head(queue) /\ t = Tail(queue)
    <2>1. Head(queue) \in Seq(Byte) /\ Tail(queue) \in Seq(Seq(Byte))
      BY DEF Sent
    <2>2. QED BY <2>1
  <1>2. i \in 0 .. Len(h)
    BY <1>1 DEF Sent
  <1>3. PICK a, b \in Seq(Byte) : CutUp(h, 0, i, a, b, h)
    BY <1>2, CutAt
  <1>4. PICK f \in Seq(Byte) : f = FlattenSeq(t)
    BY FlattenFacts
  <1>5. PICK q \in Seq(Byte) : Cat(b, f, q)
    BY Cats
  <1>6. b = SubSeq(h, i + 1, Len(h))
    BY <1>3 DEF CutUp
  <1>7. QueueBytes(queue, i) = q
    BY <1>1, <1>4, <1>5, <1>6, Zenon DEF QueueBytes, Cat
  <1>8. CutUp(Head(queue), 0, i, a, b, Head(queue)) /\ Cat(b, FlattenSeq(Tail(queue)), QueueBytes(queue, i))
    BY <1>1, <1>3, <1>4, <1>5, <1>7, Zenon
  <1>9. QED BY <1>1, <1>7, <1>8, Zenon

(* enque puts its chunks' bytes at the end of those queued.                *)
LEMMA QueuePush ==
  ASSUME NEW queue, NEW i, Sent(queue, i), NEW chunks \in Seq(Seq(Byte)), chunks # <<>>,
         NEW pushed, pushed = queue \o chunks, NEW j, j = IF queue = <<>> THEN 0 ELSE i
  PROVE  /\ QueueBytes(queue, i) \in Seq(Byte)
         /\ Sent(pushed, j)
         /\ Cat(QueueBytes(queue, i), FlattenSeq(chunks), QueueBytes(pushed, j))
  <1>1. queue \in Seq(Seq(Byte)) /\ pushed \in Seq(Seq(Byte)) /\ pushed # <<>>
    BY DEF Sent
  <1>2. PICK c \in Seq(Byte) : c = FlattenSeq(chunks)
    BY FlattenFacts
  <1>3. CASE queue = <<>>
    <2>1. pushed = chunks /\ j = 0
      BY <1>3
    <2>2. Sent(pushed, j)
      BY <1>1, <2>1 DEF Sent
    <2>3. QueueBytes(pushed, j) = c /\ QueueBytes(queue, i) = <<>>
      BY <1>2, <1>3, <2>1, QueueWhole DEF QueueBytes
    <2>4. PICK e \in Seq(Byte) : e = <<>>
      <3>1. <<>> \in Seq(Byte)
        OBVIOUS
      <3>2. QED BY <3>1, Zenon
    <2>5. PICK z \in Seq(Byte) : Cat(e, c, z)
      BY Cats
    <2>6. z = c
      BY <2>4, <2>5 DEF Cat
    <2>7. QED BY <1>2, <2>2, <2>3, <2>4, <2>5, <2>6
  <1>4. CASE queue # <<>>
    <2>1. PICK a, b \in Seq(Byte) :
            /\ CutUp(Head(queue), 0, i, a, b, Head(queue))
            /\ Cat(b, FlattenSeq(Tail(queue)), QueueBytes(queue, i))
      BY <1>4, QueueParts
    <2>2. PICK q \in Seq(Byte) : q = QueueBytes(queue, i)
      BY <1>4, QueueParts
    <2>3. PICK h \in Seq(Byte), t \in Seq(Seq(Byte)) : h = Head(queue) /\ t = Tail(queue)
      BY <1>4, QueueParts
    <2>4. Head(pushed) = h /\ Tail(pushed) = t \o chunks
      <3>1. Head(queue \o chunks) = Head(queue) /\ Tail(queue \o chunks) = Tail(queue) \o chunks
        BY <1>1, <1>4, EndsOfConcat
      <3>2. QED BY <2>3, <3>1, Zenon
    <2>5. PICK f \in Seq(Byte) : f = FlattenSeq(t)
      BY FlattenFacts
    <2>6. PICK fc \in Seq(Byte) : Cat(f, c, fc)
      BY Cats
    <2>7. FlattenSeq(Tail(pushed)) = fc
      BY <1>2, <2>4, <2>5, <2>6, FlattenConcat DEF Cat
    <2>8. PICK z \in Seq(Byte) : Cat(q, c, z)
      BY Cats
    <2>9. Cat(b, f, q)
      BY <2>1, <2>2, <2>3, <2>5, Zenon
    <2>10. Cat(b, fc, z)
      BY <2>6, <2>8, <2>9, CatsAssociate, Zenon
    <2>11. b = SubSeq(h, i + 1, Len(h))
      BY <2>1, <2>3 DEF CutUp
    <2>12. QueueBytes(pushed, j) = z
      BY <1>1, <1>4, <2>4, <2>7, <2>10, <2>11, Zenon DEF QueueBytes, Cat
    <2>13. Sent(pushed, j)
      BY <1>1, <1>4, <2>3, <2>4 DEF Sent
    <2>14. QED BY <1>2, <2>2, <2>8, <2>12, <2>13, Zenon
  <1>5. QED BY <1>3, <1>4

(* What the queue is when s, the first n of the front chunk's unsent bytes, *)
(* has been sent: the chunk goes when that is all of them.                 *)
Sending(queue, i, unsent, n, s) ==
  /\ s \in Seq(Byte) /\ Len(s) = n
  /\ n < Len(unsent) =>
       /\ Sent(queue, i + n) /\ QueueBytes(queue, i + n) \in Seq(Byte)
       /\ Cat(s, QueueBytes(queue, i + n), QueueBytes(queue, i))
  /\ n = Len(unsent) =>
       /\ Sent(Tail(queue), 0) /\ QueueBytes(Tail(queue), 0) \in Seq(Byte)
       /\ Cat(s, QueueBytes(Tail(queue), 0), QueueBytes(queue, i))

(* send leaves the rest of the bytes.                                      *)
LEMMA QueueSend ==
  ASSUME NEW queue, NEW i, Sent(queue, i), queue # <<>>,
         NEW unsent, unsent = SubSeq(Head(queue), i + 1, Len(Head(queue))),
         NEW n \in Nat, n <= Len(unsent), NEW s, s = SubSeq(unsent, 1, n)
  PROVE  Sending(queue, i, unsent, n, s)
  <1>1. PICK h \in Seq(Byte), t \in Seq(Seq(Byte)) : h = Head(queue) /\ t = Tail(queue)
    BY QueueParts
  <1>2. queue \in Seq(Seq(Byte)) /\ i \in Nat /\ i <= Len(h) /\ Len(h) \in Nat
    BY <1>1 DEF Sent
  <1>3. PICK a0, b0 \in Seq(Byte) :
          /\ CutUp(Head(queue), 0, i, a0, b0, Head(queue))
          /\ Cat(b0, FlattenSeq(Tail(queue)), QueueBytes(queue, i))
    BY QueueParts
  <1>4. b0 = unsent /\ Len(b0) + i = Len(h)
    BY <1>1, <1>3, Zenon DEF CutUp
  <1>5. Len(b0) \in Nat
    OBVIOUS
  <1>6. PICK j \in i .. Len(h) : j = i + n
    BY <1>2, <1>4, <1>5
  <1>7. i \in 0 .. Len(h)
    BY <1>2
  <1>8. PICK a, b, c \in Seq(Byte) : CutUp(h, i, j, a, b, c)
    BY <1>7, Cut
  <1>9. c = unsent /\ a = SubSeq(c, 1, Len(a)) /\ b = SubSeq(h, j + 1, Len(h)) /\ c = a \o b
    BY <1>1, <1>8, Zenon DEF CutUp
  <1>10. Len(a) = n /\ Len(b) + j = Len(h)
    <2>1. Len(a) + i = j /\ Len(b) + j = Len(h)
      BY <1>8 DEF CutUp
    <2>2. Len(a) \in Nat
      OBVIOUS
    <2>3. QED BY <1>2, <1>6, <2>1, <2>2
  <1>11. a = SubSeq(unsent, 1, n)
    BY <1>9, <1>10, Zenon
  <1>12. PICK f \in Seq(Byte) : f = FlattenSeq(t) /\ QueueBytes(t, 0) = f
    BY QueueWhole
  <1>13. PICK q \in Seq(Byte) : q = QueueBytes(queue, i)
    BY QueueParts
  <1>14. Cat(c, f, q)
    BY <1>1, <1>3, <1>4, <1>9, <1>12, <1>13, Zenon
  <1>15. PICK r \in Seq(Byte) : Cat(b, f, r)
    BY Cats
  <1>16. Cat(a, b, c)
    <2>1. PICK z \in Seq(Byte) : Cat(a, b, z)
      BY Cats
    <2>2. z = c
      BY <1>9, <2>1 DEF Cat
    <2>3. QED BY <2>1, <2>2
  <1>17. Cat(a, r, q)
    BY <1>14, <1>15, <1>16, CatsAssociate, Zenon
  <1>18. ASSUME n < Len(unsent)
         PROVE  /\ Sent(queue, i + n) /\ QueueBytes(queue, i + n) = r
    <2>1. QueueBytes(queue, j) = r
      BY <1>1, <1>9, <1>12, <1>15, Zenon DEF QueueBytes, Cat
    <2>2. Sent(queue, j)
      BY <1>1, <1>2, <1>6 DEF Sent
    <2>3. QED BY <1>6, <2>1, <2>2
  <1>19. ASSUME n = Len(unsent)
         PROVE  Sent(t, 0) /\ QueueBytes(t, 0) = r
    <2>1. b = <<>>
      <3>1. Len(b) = 0
        <4>1. Len(b) \in Nat
          OBVIOUS
        <4>2. Len(b) + (i + n) = Len(h) /\ n + i = Len(h)
          BY <1>4, <1>6, <1>10, <1>19, Zenon
        <4>3. PICK k \in Nat : k = i + n
          BY <1>2
        <4>4. Len(h) \in Nat
          OBVIOUS
        <4>5. k = n + i
          BY <1>2, <4>3
        <4>6. Len(b) + k = Len(h) /\ k = Len(h)
          BY <4>2, <4>3, <4>5, Zenon
        <4>7. QED BY <4>1, <4>3, <4>4, <4>6, NothingMore, Zenon
      <3>2. QED BY <3>1, Empties, Zenon
    <2>2. <<>> \o f = f
      OBVIOUS
    <2>3. r = f
      BY <1>15, <2>1, <2>2, Zenon DEF Cat
    <2>4. Sent(t, 0)
      <3>1. 0 \in 0 .. (IF t = <<>> THEN 0 ELSE Len(Head(t)))
        OBVIOUS
      <3>2. QED BY <3>1 DEF Sent
    <2>5. QED BY <1>12, <2>3, <2>4
  <1>20. s = a /\ Cat(s, r, QueueBytes(queue, i))
    BY <1>11, <1>13, <1>17, Zenon
  <1>21. QED BY <1>1, <1>10, <1>18, <1>19, <1>20, Zenon DEF Sending

-----------------------------------------------------------------------------
(* The bytes on their way to the host *)

(* Outgoing is what the host has read, what is in the socket and what is   *)
(* queued.                                                                 *)
LEMMA OutgoingIs ==
  /\ Outgoing = (hostIn \o toHost) \o QueueBytes(tx_queue, front_i)
  /\ Outgoing' = (hostIn' \o toHost') \o QueueBytes(tx_queue', front_i')
  <1>1. Outgoing = (hostIn \o toHost) \o QueueBytes(tx_queue, front_i)
    BY Zenon DEF Outgoing, QueueBytes, Unsent
  <1>2. Outgoing' = (hostIn' \o toHost') \o QueueBytes(tx_queue', front_i')
    BY Zenon DEF Outgoing, QueueBytes, Unsent
  <1>3. QED BY <1>1, <1>2

(* Its parts before a step.                                                *)
LEMMA OutgoingParts ==
  ASSUME BridgeTypes
  PROVE  /\ Sent(tx_queue, front_i) /\ QueueBytes(tx_queue, front_i) \in Seq(Byte)
         /\ Outgoing \in Seq(Byte) /\ Waiting \in Seq(Caller)
         /\ \E p \in Seq(Byte) : /\ Cat(hostIn, toHost, p)
                                 /\ Cat(p, QueueBytes(tx_queue, front_i), Outgoing)
  <1>1. Sent(tx_queue, front_i) /\ hostIn \in Seq(Byte) /\ toHost \in Seq(Byte)
    BY Zenon DEF BridgeTypes, Sent
  <1>2. QueueBytes(tx_queue, front_i) \in Seq(Byte)
    <2>1. CASE tx_queue = <<>>
      <3>1. <<>> \in Seq(Byte)
        OBVIOUS
      <3>2. QED BY <2>1, <3>1, Zenon DEF QueueBytes
    <2>2. CASE tx_queue # <<>>
      BY <1>1, <2>2, QueueParts
    <2>3. QED BY <2>1, <2>2
  <1>3. PICK q \in Seq(Byte) : q = QueueBytes(tx_queue, front_i)
    BY <1>2
  <1>4. PICK p \in Seq(Byte) : Cat(hostIn, toHost, p)
    BY <1>1, Cats, Zenon
  <1>5. PICK o \in Seq(Byte) : Cat(p, q, o)
    BY Cats
  <1>6. o = Outgoing
    BY <1>3, <1>4, <1>5, OutgoingIs, Zenon DEF Cat
  <1>7. Waiting \in Seq(Caller)
    BY <1>6, CallersFacts, Zenon DEF Waiting
  <1>8. QED BY <1>1, <1>3, <1>4, <1>5, <1>6, <1>7, Zenon

(* A step that does not touch these variables leaves the bytes.            *)
LEMMA OutgoingKept ==
  ASSUME UNCHANGED <<tx_queue, front_i, toHost, hostIn>>
  PROVE  Outgoing' = Outgoing /\ Waiting' = Waiting
  <1>1. Outgoing' = Outgoing
    BY OutgoingIs, Zenon
  <1>2. QED BY <1>1, Zenon DEF Waiting, CallersOf

(* A call puts its request at the end.                                     *)
LEMMA Transmits ==
  ASSUME BridgeTypes, NEW c \in Caller, CallerInv(c), host_transmit(c)
  PROVE  Sent(tx_queue', front_i') /\ Outgoing' \in Seq(Byte) /\ Cat(Outgoing, Request(c), Outgoing')
  <1> USE Names
  <1>1. /\ tx_queue' = tx_queue \o Chunks(c, Node(c))
        /\ front_i' = IF tx_queue = <<>> THEN 0 ELSE front_i
        /\ toHost' = toHost /\ hostIn' = hostIn
        /\ line[c] = "transmit"
    BY DEF host_transmit, star_push, front_i_after_push, At, hostVars
  <1>2. Node(c) = [task |-> c, frame |-> 2]
    BY <1>1 DEF CallerInv, CallerFrames, Node
  <1>3. PICK ch \in Seq(Seq(Byte)) : ch = Chunks(c, Node(c))
    BY <1>2, RequestFacts
  <1>4. ch # <<>>
    BY <1>3 DEF Chunks
  <1>5. PICK r \in Seq(Byte) : r = Request(c) /\ r = FlattenSeq(ch)
    BY <1>2, <1>3, RequestFacts DEF Request
  <1>6. PICK p \in Seq(Byte) : /\ Cat(hostIn, toHost, p)
                               /\ Cat(p, QueueBytes(tx_queue, front_i), Outgoing)
    BY OutgoingParts
  <1>7. PICK q, o \in Seq(Byte) : q = QueueBytes(tx_queue, front_i) /\ o = Outgoing
    BY OutgoingParts, Zenon
  <1>8. Sent(tx_queue', front_i') /\ Cat(q, r, QueueBytes(tx_queue', front_i'))
    <2>1. Sent(tx_queue, front_i)
      BY OutgoingParts
    <2>2. PICK pushed, j : pushed = tx_queue' /\ j = front_i'
      OBVIOUS
    <2>3. pushed = tx_queue \o ch /\ j = IF tx_queue = <<>> THEN 0 ELSE front_i
      BY <1>1, <1>3, <2>2
    <2>4. Sent(pushed, j) /\ Cat(QueueBytes(tx_queue, front_i), FlattenSeq(ch), QueueBytes(pushed, j))
      BY <1>4, <2>1, <2>3, QueuePush
    <2>5. QED BY <1>5, <1>7, <2>2, <2>4, Zenon
  <1>9. PICK q2 \in Seq(Byte) : Cat(q, r, q2)
    BY Cats
  <1>10. PICK o2 \in Seq(Byte) : Cat(o, r, o2)
    BY Cats
  <1>11. Cat(p, q2, o2)
    <2>1. Cat(p, q, o) /\ Cat(q, r, q2) /\ Cat(o, r, o2)
      BY <1>6, <1>7, <1>9, <1>10, Zenon
    <2>2. QED BY <2>1, CatRight
  <1>12. q2 = QueueBytes(tx_queue', front_i')
    BY <1>8, <1>9, Zenon DEF Cat
  <1>13. o2 = Outgoing'
    BY <1>1, <1>6, <1>11, <1>12, OutgoingIs, Zenon DEF Cat
  <1>14. QED BY <1>5, <1>7, <1>8, <1>10, <1>13, Zenon

(* A send moves bytes from the queue to the socket, as many as fit.        *)
LEMMA SendsBytes ==
  ASSUME BridgeTypes, WriterInv, WriterSends
  PROVE  /\ Sent(tx_queue', front_i') /\ Outgoing' = Outgoing
         /\ toHost' \in Seq(Byte) /\ Len(toHost') <= SndBuf
  <1> USE Names
  <1>1. PICK n : /\ n = IF Len(Unsent) < Room THEN Len(Unsent) ELSE Room
                 /\ Sends(n)
    BY DEF WriterSends
  <1>2. /\ tx_queue # <<>> /\ hostIn' = hostIn
        /\ toHost \in Seq(Byte) /\ hostIn \in Seq(Byte) /\ Len(toHost) <= SndBuf
    BY DEF WriterSends, WriterInv, hostVars, BridgeTypes
  <1>3. Sent(tx_queue, front_i)
    BY OutgoingParts
  <1>4. PICK u : u = Unsent
    OBVIOUS
  <1>5. u = SubSeq(Head(tx_queue), front_i + 1, Len(Head(tx_queue))) /\ u \in Seq(Byte)
    <2>1. u = SubSeq(Head(tx_queue), front_i + 1, Len(Head(tx_queue)))
      BY <1>4 DEF Unsent
    <2>2. PICK a, b \in Seq(Byte) : CutUp(Head(tx_queue), 0, front_i, a, b, Head(tx_queue))
      BY <1>2, <1>3, QueueParts
    <2>3. b = u
      BY <2>1, <2>2 DEF CutUp
    <2>4. QED BY <2>1, <2>3
  <1>6. n \in Nat /\ n <= Len(u) /\ Len(toHost) + n <= SndBuf
    <2>1. Len(u) \in Nat /\ Len(toHost) \in Nat
      BY <1>2, <1>5
    <2>2. QED BY <1>1, <1>2, <1>4, <2>1 DEF Room
  <1>7. PICK s : s = SubSeq(u, 1, n)
    OBVIOUS
  <1>8. Sending(tx_queue, front_i, u, n, s) /\ s \in Seq(Byte) /\ Len(s) = n
    <2>1. Sending(tx_queue, front_i, u, n, s)
      BY <1>2, <1>3, <1>5, <1>6, <1>7, QueueSend, Zenon
    <2>2. QED BY <2>1 DEF Sending
  <1>9. /\ toHost' = toHost \o s
        /\ n < Len(u) => tx_queue' = tx_queue /\ front_i' = front_i + n
        /\ ~ (n < Len(u)) => tx_queue' = Tail(tx_queue) /\ front_i' = 0
    BY <1>1, <1>4, <1>7 DEF Sends, front_i_after_discard
  <1>10. /\ Sent(tx_queue', front_i') /\ QueueBytes(tx_queue', front_i') \in Seq(Byte)
         /\ Cat(s, QueueBytes(tx_queue', front_i'), QueueBytes(tx_queue, front_i))
    <2>1. n < Len(u) \/ (n = Len(u) /\ ~ (n < Len(u)))
      BY <1>5, <1>6
    <2>2. CASE n < Len(u)
      <3>1. tx_queue' = tx_queue /\ front_i' = front_i + n
        BY <1>9, <2>2, Zenon
      <3>2. QED BY <1>8, <2>2, <3>1, Zenon DEF Sending
    <2>3. CASE n = Len(u) /\ ~ (n < Len(u))
      <3>1. tx_queue' = Tail(tx_queue) /\ front_i' = 0
        BY <1>9, <2>3, Zenon
      <3>2. QED BY <1>8, <2>3, <3>1, Zenon DEF Sending
    <2>4. QED BY <2>1, <2>2, <2>3
  <1>11. PICK t2 \in Seq(Byte) : Cat(toHost, s, t2)
    BY <1>2, <1>8, Cats, Zenon
  <1>12. t2 = toHost' /\ Len(t2) = Len(toHost) + n
    BY <1>8, <1>9, <1>11, Zenon DEF Cat
  <1>13. PICK p \in Seq(Byte) : /\ Cat(hostIn, toHost, p)
                                /\ Cat(p, QueueBytes(tx_queue, front_i), Outgoing)
    BY OutgoingParts
  <1>14. PICK p2 \in Seq(Byte) : Cat(p, s, p2)
    BY <1>8, Cats, Zenon
  <1>15. Cat(hostIn, t2, p2)
    BY <1>2, <1>8, <1>11, <1>13, <1>14, CatsAssociate, Zenon
  <1>16. PICK q2 \in Seq(Byte) : q2 = QueueBytes(tx_queue', front_i')
    BY <1>10
  <1>17. PICK o2 \in Seq(Byte) : Cat(p2, q2, o2)
    BY Cats
  <1>18. Cat(p, QueueBytes(tx_queue, front_i), o2)
    BY <1>8, <1>10, <1>14, <1>16, <1>17, CatsAssociate, Zenon
  <1>19. o2 = Outgoing
    BY <1>13, <1>18, Zenon DEF Cat
  <1>20. o2 = Outgoing'
    BY <1>2, <1>12, <1>15, <1>16, <1>17, OutgoingIs, Zenon DEF Cat
  <1>21. toHost' \in Seq(Byte) /\ Len(toHost') <= SndBuf
    BY <1>6, <1>12
  <1>22. QED BY <1>10, <1>19, <1>20, <1>21

(* The host reads a byte of the first request, or the last one: then it    *)
(* has read that request, and replies.                                     *)
LEMMA HostReadsByte ==
  ASSUME BridgeTypes, StreamInv, HostReads
  PROVE  /\ Waiting # <<>> /\ Waiting \in Seq(Caller)
         /\ toHost' \in Seq(Byte) /\ Len(toHost) = Len(toHost') + 1
         /\ hostIn' \in Seq(Byte) /\ hostOut' \in Seq(Byte)
         /\ \/ /\ Outgoing' = Outgoing /\ UNCHANGED hostOut
               /\ Len(hostIn') < Len(Request(Head(Waiting)))
            \/ /\ Outgoing' = Joined(Requests, Tail(Waiting)) /\ hostIn' = <<>>
               /\ Cat(hostOut, Reply(Head(Waiting)), hostOut')
  <1>1. /\ toHost # <<>> /\ toHost \in Seq(Byte) /\ hostIn \in Seq(Byte) /\ hostOut \in Seq(Byte)
        /\ UNCHANGED <<tx_queue, front_i>>
    BY DEF HostReads, txVars, BridgeTypes
  <1>2. PICK in, th \in Seq(Byte) : HeadMoved(hostIn, toHost, in, th)
    BY <1>1, Moves
  <1>3. PICK d : d = in[1].of
    OBVIOUS
  <1>4. /\ toHost' = th
        /\ IF Len(in) < 2 + Arg[d] + 2 * PtrLen
           THEN hostIn' = in /\ UNCHANGED hostOut
           ELSE /\ hostIn' = <<>>
                /\ hostOut' = hostOut \o SubSeq(in, 3 + Arg[d], Len(in))
                                \o Field("len", d, Ret[d], 1) \o Field("data", d, 0, Ret[d])
    <2>1. in = Append(hostIn, Head(toHost)) /\ th = Tail(toHost)
      BY <1>2 DEF HeadMoved
    <2>2. QED BY <1>3, <2>1, Zenon DEF HostReads
  <1>5. PICK p \in Seq(Byte) : /\ Cat(hostIn, toHost, p)
                               /\ Cat(p, QueueBytes(tx_queue, front_i), Outgoing)
    BY OutgoingParts
  <1>6. PICK q, o \in Seq(Byte) : q = QueueBytes(tx_queue, front_i) /\ o = Outgoing
    BY OutgoingParts, Zenon
  <1>7. PICK rest \in Seq(Byte) : Cat(th, q, rest)
    BY Cats
  <1>8. Cat(in, th, p)
    <2>1. p = in \o th
      BY <1>2, <1>5, Zenon DEF Cat, HeadMoved
    <2>2. QED BY <2>1, CatIs
  <1>9. Cat(p, q, o)
    BY <1>5, <1>6, Zenon
  <1>10. Cat(in, rest, o)
    BY <1>7, <1>8, <1>9, CatsAssociate, Zenon
  <1>11. Waiting \in Seq(Caller) /\ o = Joined(Requests, Waiting)
    BY <1>6, OutgoingParts DEF StreamInv
  <1>12. Len(in) = Len(hostIn) + 1 /\ Len(toHost) = Len(th) + 1
    BY <1>2 DEF HeadMoved
  <1>13. in # <<>> /\ Len(hostIn) \in Nat /\ Len(in) \in Nat /\ (hostIn = <<>> => Len(hostIn) = 0)
    <2>1. Len(hostIn) \in Nat /\ Len(in) \in Nat /\ (hostIn = <<>> => Len(hostIn) = 0)
      BY <1>1, Empties, Zenon
    <2>2. Len(in) # 0
      BY <1>12, <2>1
    <2>3. QED BY <2>1, <2>2, Empties, Zenon
  <1>14. Waiting # <<>>
    <2>1. o # <<>>
      BY <1>10, <1>13 DEF Cat
    <2>2. Joined(Requests, <<>>) = <<>>
      BY StreamEnds, Zenon
    <2>3. QED BY <1>11, <2>1, <2>2, Zenon
  <1>15. PICK c \in Caller, w \in Seq(Caller) : c = Head(Waiting) /\ w = Tail(Waiting)
    <2>1. Head(Waiting) \in Caller /\ Tail(Waiting) \in Seq(Caller)
      BY <1>11, <1>14
    <2>2. QED BY <2>1
  <1>16. PICK r \in Seq(Byte) : r = Request(c)
    BY RequestFacts
  <1>17. PICK j \in Seq(Byte) : j = Joined(Requests, w)
    BY StreamEnds, Zenon
  <1>18. Cat(r, j, o)
    <2>1. Cat(Requests[c], j, o)
      BY <1>11, <1>14, <1>15, <1>17, StreamEnds, Zenon
    <2>2. QED BY <1>16, <2>1, StreamFacts, Zenon
  <1>19. Arg[c] \in Nat /\ PtrLen \in Nat /\ PtrLen # 0 /\ Len(r) = 2 + Arg[c] + 2 * PtrLen /\ r[1].of = c
    <2>1. Arg[c] \in Nat /\ PtrLen \in Nat /\ PtrLen # 0
      BY Names
    <2>2. QED BY <1>16, <2>1, RequestFacts
  <1>20. d = c
    <2>1. Len(r) # 0
      <3>1. Len(r) \in Nat
        BY <1>16
      <3>2. QED BY <1>19, <3>1, LongEnough, Zenon
    <2>2. r # <<>>
      BY <2>1, Empties, Zenon
    <2>3. o[1] = r[1] /\ o[1] = in[1]
      BY <1>10, <1>13, <1>18, <2>2, Zenon DEF Cat
    <2>4. QED BY <1>3, <1>19, <2>3, Zenon
  <1>21. CASE Len(in) < Len(r)
    <2>1. hostIn' = in /\ hostOut' = hostOut
      BY <1>4, <1>19, <1>20, <1>21
    <2>2. Outgoing' = o
      BY <1>1, <1>4, <1>6, <1>8, <1>9, <2>1, OutgoingIs, Zenon DEF Cat
    <2>3. QED BY <1>1, <1>4, <1>6, <1>11, <1>12, <1>14, <1>15, <1>16, <1>21, <2>1, <2>2, Zenon
  <1>22. CASE ~ (Len(in) < Len(r))
    <2>1. Len(in) = Len(r)
      <3>1. hostIn # <<>> => Len(hostIn) < Len(r)
        BY <1>15, <1>16 DEF StreamInv
      <3>2. Len(r) \in Nat /\ Len(r) > 1
        <4>1. Len(r) \in Nat
          BY <1>16
        <4>2. QED BY <1>19, <4>1, LongEnough, Zenon
      <3>3. QED BY <1>12, <1>13, <1>22, <3>1, <3>2
    <2>2. in = r /\ rest = j
      BY <1>10, <1>18, <2>1, CatSplits
    <2>3. /\ hostIn' = <<>>
          /\ hostOut' = hostOut \o SubSeq(in, 3 + Arg[c], Len(in))
                          \o Field("len", c, Ret[c], 1) \o Field("data", c, 0, Ret[c])
      BY <1>4, <1>19, <1>20, <1>22
    <2>4. PICK e \in Seq(Byte) : e = Echo(c)
      BY RequestFacts
    <2>5. PICK as \in Seq(Byte) : as = Asks(c) /\ in = as \o e /\ Len(as) = 2 + Arg[c]
      BY <1>16, <2>2, <2>4, RequestFacts
    <2>6. SubSeq(in, 3 + Arg[c], Len(in)) = e
      <3>1. Len(as) + 1 = 3 + Arg[c]
        BY <1>19, <2>5, Sums, Zenon
      <3>2. SubSeq(in, Len(as) + 1, Len(in)) = e
        BY <2>5, CutFirst
      <3>3. QED BY <3>1, <3>2
    <2>7. PICK ln, dt \in Seq(Byte) : ln = Field("len", c, Ret[c], 1) /\ dt = Field("data", c, 0, Ret[c])
      <3>1. Kind(c, "len") \in Seq(Byte) /\ Kind(c, "data") \in Seq(Byte)
        BY KindFacts DEF Kinds
      <3>2. Kind(c, "len") = Field("len", c, Ret[c], 1) /\ Kind(c, "data") = Field("data", c, 0, Ret[c])
        BY DEF Kind
      <3>3. QED BY <3>1, <3>2, Zenon
    <2>8. PICK m \in Seq(Byte) : Cat(ln, dt, m)
      BY Cats
    <2>9. PICK rp \in Seq(Byte) : Cat(e, m, rp)
      BY Cats
    <2>10. rp = Reply(c)
      BY <2>4, <2>7, <2>8, <2>9, Zenon DEF Reply, Results, Kind, Cat
    <2>11. PICK x1 \in Seq(Byte) : Cat(hostOut, e, x1)
      BY <1>1, Cats, Zenon
    <2>12. PICK x2 \in Seq(Byte) : Cat(x1, ln, x2)
      BY Cats
    <2>13. PICK x3 \in Seq(Byte) : Cat(x2, dt, x3)
      BY Cats
    <2>14. hostOut' = x3
      BY <2>3, <2>6, <2>7, <2>11, <2>12, <2>13, Zenon DEF Cat
    <2>15. Cat(x1, m, x3)
      BY <2>8, <2>12, <2>13, CatsAssociate, Zenon
    <2>16. Cat(hostOut, rp, x3)
      BY <1>1, <2>9, <2>11, <2>15, CatsAssociate, Zenon
    <2>17. Outgoing' = rest
      <3>1. \A x \in Seq(Byte) : <<>> \o x = x
        OBVIOUS
      <3>2. Outgoing' = (<<>> \o th) \o q
        BY <1>1, <1>4, <1>6, <2>3, OutgoingIs, Zenon
      <3>3. QED BY <1>7, <3>1, <3>2, Zenon DEF Cat
    <2>18. <<>> \in Seq(Byte)
      OBVIOUS
    <2>19. QED BY <1>4, <1>11, <1>12, <1>14, <1>15, <1>17, <2>2, <2>3, <2>10, <2>14, <2>16, <2>17, <2>18, Zenon
  <1>23. QED BY <1>21, <1>22

-----------------------------------------------------------------------------
(* The bytes on their way back *)

(* What a step that is not the reader's leaves alone of it.                *)
LEMMA ReaderKept ==
  ASSUME PlaceInv, ControlInv, BridgeTypes, [BridgeNext]_bridgeVars, ~ Reads
  PROVE  /\ UNCHANGED rx /\ line'[Reader] = line[Reader]
         /\ depth'[Reader] = depth[Reader] \/ line[Reader] = "start"
  <1> USE Names
  <1>1. depth \in [Task -> 0 .. MaxDepth] /\ line \in [Task -> Lines]
    BY DEF PlaceInv, TypeOK, BridgeTypes
  <1>2. CASE Boot
    <2>1. UNCHANGED <<line, rx>>
      BY <1>2 DEF Boot
    <2>2. ASSUME NEW t \in Task, async_spawn(t, {})
          PROVE  depth'[Reader] = depth[Reader] \/ line[Reader] = "start"
      <3>1. depth[t] = 0 /\ depth' = [depth EXCEPT ![t] = 1]
        BY <2>2 DEF async_spawn
      <3>2. depth[Reader] = 0 => line[Reader] = "start"
        BY DEF ControlInv, ReaderInv
      <3>3. QED BY <1>1, <3>1, <3>2
    <2>3. EnterLoop => depth' = depth
      BY DEF EnterLoop, timers
    <2>4. QED BY <1>2, <2>1, <2>2, <2>3 DEF Boot
  <1>3. ASSUME NEW c \in Caller, Calls(c)
        PROVE  UNCHANGED rx /\ line'[Reader] = line[Reader] /\ depth'[Reader] = depth[Reader]
    <2>1. \/ \E d \in 0 .. MaxSleep : ReturnSleep(c, d)
          \/ ReturnAwait(c) \/ ReturnDetach(c) \/ ReturnDone(c)
      BY <1>3 DEF Calls, CallerSleeps, CallerCalls, host_transmit, host_transmit_returns
    <2>2. depth'[Reader] = depth[Reader]
      BY <1>1, <2>1 DEF ReturnSleep, ReturnAwait, ReturnDetach, ReturnDone
    <2>3. UNCHANGED rx /\ \E w : GoTo(c, w)
      BY <1>3 DEF Calls, CallerSleeps, CallerCalls, host_transmit, host_transmit_returns
    <2>4. QED BY <1>1, <2>2, <2>3 DEF GoTo
  <1>4. CASE Writes
    <2>1. (ReturnDetach(Writer) \/ UNCHANGED asyncVars) /\ UNCHANGED rx
      BY <1>4 DEF Writes, WriterStarts, WriterSends, Sends, WriterBlocks
    <2>2. depth' = depth
      BY <2>1 DEF ReturnDetach, asyncVars, vars, timers
    <2>3. line'[Reader] = line[Reader]
      BY <1>1, <1>4 DEF Writes, WriterStarts, WriterSends, WriterBlocks, GoTo
    <2>4. QED BY <2>1, <2>2, <2>3
  <1>5. CASE Waits
    <2>1. (\E t : Evented(t)) \/ PickShortcut \/ PickScheduled
      BY <1>5 DEF Waits, WaitWakes, WaitPolls, WaitTimesOut
    <2>2. depth' = depth
      BY <2>1 DEF Evented, PickShortcut, PickScheduled, CallTop
    <2>3. QED BY <1>5, <2>2 DEF Waits, WaitWakes, WaitPolls, WaitTimesOut
  <1>6. CASE Clock
    BY <1>6 DEF Clock, Tick
  <1>7. ASSUME UNCHANGED <<asyncVars, line, rx>>
        PROVE  UNCHANGED rx /\ line'[Reader] = line[Reader] /\ depth'[Reader] = depth[Reader]
    BY <1>7 DEF asyncVars, vars, timers
  <1>8. HostReads \/ Deliver \/ UNCHANGED bridgeVars => UNCHANGED <<asyncVars, line, rx>>
    <2>1. HostReads => UNCHANGED <<asyncVars, line, rx>>
      BY Zenon DEF HostReads
    <2>2. Deliver => UNCHANGED <<asyncVars, line, rx>>
      BY DEF Deliver
    <2>3. UNCHANGED bridgeVars => UNCHANGED <<asyncVars, line, rx>>
      BY DEF bridgeVars
    <2>4. QED BY <2>1, <2>2, <2>3
  <1>9. QED BY <1>2, <1>3, <1>4, <1>5, <1>6, <1>7, <1>8 DEF BridgeNext, Phone

(* The field the reader reads and its length.                              *)
LEMMA FieldRead ==
  ASSUME BridgeTypes, RxInv, line[Reader] # "start"
  PROVE  /\ line[Reader] \in {"stack", "ret", "len", "data"}
         /\ Reading(rx[line[Reader]], FieldLen(line[Reader]))
         /\ FieldLen(line[Reader]) \in Nat /\ rx[line[Reader]] \in Seq(Byte)
  <1>1. rx \in [stack : Seq(Byte), ret : Seq(Byte), len : Seq(Byte), data : Seq(Byte)]
    BY DEF BridgeTypes
  <1>2. CASE line[Reader] \in {"stack", "ret", "len"}
    BY <1>1, <1>2, Names DEF RxInv, FieldLen
  <1>3. CASE line[Reader] = "data"
    <2>1. Len(rx.len) = 1 /\ rx.len \in Seq(Byte)
      BY <1>1, <1>3 DEF RxInv
    <2>2. rx.len[1] \in Byte
      BY <2>1
    <2>3. rx.len[1].val \in Nat
      BY <2>2 DEF Byte
    <2>4. FieldLen("data") = rx.len[1].val
      BY DEF FieldLen, ret_len
    <2>5. Reading(rx.data, rx.len[1].val)
      BY <1>3 DEF RxInv
    <2>6. QED BY <1>1, <1>3, <2>3, <2>4, <2>5
  <1>4. QED BY <1>2, <1>3 DEF RxInv

(* recv takes the bytes that are there, up to those missing of the field.  *)
LEMMA SubReceivesBytes ==
  ASSUME BridgeTypes, RxInv, ReaderInv, SubReceives
  PROVE  /\ line[Reader] \in {"stack", "ret", "len", "data"}
         /\ \E a, b, r \in Seq(Byte) :
              /\ Cat(a, b, toPhone) /\ Cat(rx[line[Reader]], a, r)
              /\ rx' = [rx EXCEPT ![line[Reader]] = r] /\ toPhone' = b
              /\ IF Received = Missing THEN Len(r) = FieldLen(line[Reader])
                                       ELSE Len(r) < FieldLen(line[Reader])
  <1>1. depth[Reader] = 2 /\ line[Reader] # "start"
    BY DEF SubReceives, ReaderInv
  <1>2. PICK f \in {"stack", "ret", "len", "data"} : f = line[Reader]
    BY <1>1, FieldRead
  <1>3. PICK s \in Seq(Byte), n \in Nat : s = rx[f] /\ n = FieldLen(f)
    BY <1>1, <1>2, FieldRead
  <1>4. Len(s) < n
    BY <1>1, <1>2, <1>3, FieldRead DEF Reading
  <1>5. toPhone \in Seq(Byte) /\ Len(toPhone) \in Nat /\ Len(s) \in Nat
    BY DEF BridgeTypes
  <1>6. PICK m : m = Missing /\ m = n - Len(s)
    BY <1>2, <1>3 DEF Missing
  <1>7. PICK k \in 0 .. Len(toPhone) : k = Received /\ k <= m
    BY <1>3, <1>4, <1>5, <1>6 DEF Received
  <1>8. PICK a, b \in Seq(Byte) : CutUp(toPhone, 0, k, a, b, toPhone)
    BY <1>5, CutAt
  <1>9. /\ a = SubSeq(toPhone, 0 + 1, k) /\ b = SubSeq(toPhone, k + 1, Len(toPhone))
        /\ toPhone = a \o b /\ Len(a) + 0 = k
    BY <1>8, Zenon DEF CutUp
  <1>10. a = SubSeq(toPhone, 1, k) /\ Len(a) = k
    <2>1. 0 + 1 = 1 /\ Len(a) \in Nat /\ (Len(a) + 0 = k => Len(a) = k)
      OBVIOUS
    <2>2. QED BY <1>9, <2>1
  <1>11. PICK r \in Seq(Byte) : Cat(s, a, r)
    BY Cats
  <1>12. r = s \o a /\ Len(r) = Len(s) + Len(a)
    BY <1>11, Zenon DEF Cat
  <1>13. Cat(a, b, toPhone)
    BY <1>9, CatIs
  <1>14. rx' = [rx EXCEPT ![f] = r] /\ toPhone' = b
    <2>1. /\ rx' = [rx EXCEPT ![line[Reader]] = rx[line[Reader]] \o SubSeq(toPhone, 1, Received)]
          /\ toPhone' = SubSeq(toPhone, Received + 1, Len(toPhone))
      BY Zenon DEF SubReceives
    <2>2. QED BY <1>2, <1>3, <1>7, <1>9, <1>10, <1>12, <2>1, Zenon
  <1>15. IF k = m THEN Len(r) = n ELSE Len(r) < n
    <2>1. Len(r) = Len(s) + k
      BY <1>10, <1>12, Zenon
    <2>2. k \in Nat /\ k <= n - Len(s) /\ m = n - Len(s) /\ Len(s) \in Nat
      BY <1>5, <1>6, <1>7
    <2>3. n \in Nat
      OBVIOUS
    <2>4. QED BY <2>1, <2>2, <2>3
  <1>16. QED BY <1>2, <1>3, <1>6, <1>7, <1>11, <1>13, <1>14, <1>15, Zenon

(* The reader goes through the fields in order.                            *)
LEMMA ReadsRx ==
  ASSUME PlaceInv, ControlInv, BridgeTypes, RxInv, Reads
  PROVE  RxInv' /\ rx' \in [stack : Seq(Byte), ret : Seq(Byte), len : Seq(Byte), data : Seq(Byte)]
  <1>1. /\ rx \in [stack : Seq(Byte), ret : Seq(Byte), len : Seq(Byte), data : Seq(Byte)]
        /\ line \in [Task -> Lines] /\ Reader \in Task /\ PtrLen \in Nat /\ PtrLen # 0
        /\ Runs(Reader) /\ ReaderInv
    BY Names DEF BridgeTypes, Reads, ReaderAwaits, ReaderAnswers, SubReceives, SubBlocks, ControlInv
  <1>2. <<>> \in Seq(Byte) /\ Len(<<>>) = 0 /\ \A x \in Seq(Byte) : x = <<>> => Len(x) = 0
    OBVIOUS
  <1>3. CASE ReaderAwaits
    <2>1. /\ depth[Reader] = 1 /\ NextField # "start" /\ line'[Reader] = NextField /\ rx' = rx
          /\ ReturnAwait(Reader)
      BY <1>1, <1>3 DEF ReaderAwaits, GoTo
    <2>2. depth'[Reader] = 2
      BY <1>1, <2>1, ReturnMoves
    <2>3. CASE line[Reader] = "start"
      BY <1>1, <1>2, <2>1, <2>2, <2>3 DEF RxInv, NextField, Reading, NothingRead
    <2>4. CASE line[Reader] = "stack"
      BY <1>1, <1>2, <2>1, <2>2, <2>4 DEF RxInv, NextField, Reading
    <2>5. CASE line[Reader] = "ret"
      BY <1>1, <1>2, <2>1, <2>2, <2>5 DEF RxInv, NextField, Reading
    <2>6. CASE line[Reader] = "len"
      <3>1. /\ Len(rx.len) = 1 /\ Len(rx.stack) = PtrLen /\ Len(rx.ret) = PtrLen /\ rx.data = <<>>
        BY <2>1, <2>6 DEF RxInv, Reading
      <3>2. rx.len[1].val > 0 /\ line'[Reader] = "data"
        BY <2>1, <2>6 DEF NextField, ret_len
      <3>3. Len(rx.data) = 0
        BY <3>1, <1>2
      <3>4. rx.len[1] \in Byte
        BY <1>1, <3>1
      <3>5. rx.len[1].val \in Nat
        BY <3>4 DEF Byte
      <3>6. QED BY <1>1, <2>1, <2>2, <3>1, <3>2, <3>3, <3>5 DEF RxInv, Reading
    <2>7. CASE line[Reader] = "data"
      BY <2>1, <2>7 DEF NextField
    <2>8. QED BY <1>1, <2>3, <2>4, <2>5, <2>6, <2>7 DEF ReaderInv, ReaderLines
  <1>4. CASE ReaderAnswers
    <2>1. line'[Reader] = "start" /\ rx' = NothingRead
      BY <1>1, <1>4 DEF ReaderAnswers, GoTo
    <2>2. QED BY <1>2, <2>1 DEF RxInv, NothingRead
  <1>5. CASE SubReceives
    <2>1. line[Reader] \in {"stack", "ret", "len", "data"}
      BY <1>1, <1>5, SubReceivesBytes
    <2>2. PICK r \in Seq(Byte) :
            /\ rx' = [rx EXCEPT ![line[Reader]] = r]
            /\ IF Received = Missing THEN Len(r) = FieldLen(line[Reader])
                                     ELSE Len(r) < FieldLen(line[Reader])
      BY <1>1, <1>5, SubReceivesBytes
    <2>3. line' = line /\ depth[Reader] = 2
          /\ IF Received = Missing THEN ReturnDone(Reader) ELSE UNCHANGED asyncVars
      BY <1>5 DEF SubReceives
    <2>4. IF Received = Missing THEN depth'[Reader] = 1 ELSE depth'[Reader] = 2
      <3>1. ReturnDone(Reader) => depth'[Reader] = 1
        BY <1>1, <2>3, ReturnMoves
      <3>2. UNCHANGED asyncVars => depth'[Reader] = 2
        BY <2>3 DEF asyncVars, vars, timers
      <3>3. QED BY <2>3, <3>1, <3>2
    <2>5. IF depth'[Reader] = 2 THEN Len(r) < FieldLen(line[Reader]) ELSE Len(r) = FieldLen(line[Reader])
      BY <2>2, <2>4
    <2>6. CASE line[Reader] = "stack"
      BY <1>1, <2>2, <2>3, <2>5, <2>6 DEF RxInv, FieldLen, Reading
    <2>7. CASE line[Reader] = "ret"
      BY <1>1, <2>2, <2>3, <2>5, <2>7 DEF RxInv, FieldLen, Reading
    <2>8. CASE line[Reader] = "len"
      BY <1>1, <2>2, <2>3, <2>5, <2>8 DEF RxInv, FieldLen, Reading
    <2>9. CASE line[Reader] = "data"
      BY <1>1, <2>2, <2>3, <2>5, <2>9 DEF RxInv, FieldLen, Reading, ret_len
    <2>10. QED BY <2>1, <2>6, <2>7, <2>8, <2>9
  <1>6. CASE SubBlocks
    <2>1. UNCHANGED <<line, rx>> /\ ReturnDetach(Reader)
      BY <1>6 DEF SubBlocks
    <2>2. depth'[Reader] = depth[Reader]
      BY <1>1, <2>1, ReturnMoves
    <2>3. QED BY <1>1, <2>1, <2>2 DEF RxInv, Reading
  <1>7. QED BY <1>3, <1>4, <1>5, <1>6 DEF Reads

(* Nobody else touches what the reader has read.                           *)
LEMMA RxStep ==
  ASSUME PlaceInv, ControlInv, BridgeTypes, RxInv, [BridgeNext]_bridgeVars
  PROVE  RxInv' /\ rx' \in [stack : Seq(Byte), ret : Seq(Byte), len : Seq(Byte), data : Seq(Byte)]
  <1>1. CASE Reads
    BY <1>1, ReadsRx
  <1>2. CASE ~ Reads
    <2>1. /\ UNCHANGED rx /\ line'[Reader] = line[Reader]
          /\ depth'[Reader] = depth[Reader] \/ line[Reader] = "start"
      BY <1>2, ReaderKept
    <2>2. QED BY <2>1 DEF RxInv, Reading, BridgeTypes
  <1>3. QED BY <1>1, <1>2

(* The bytes of the reply the reader is in the middle of. *)
RxBytes == rx.stack \o rx.ret \o rx.len \o rx.data

(* Incoming, part by part.                                                 *)
LEMMA IncomingParts ==
  ASSUME BridgeTypes
  PROVE  /\ RxBytes \in Seq(Byte) /\ Incoming \in Seq(Byte) /\ Replied \in Seq(Caller)
         /\ \E d \in Seq(Byte) : Cat(RxBytes, toPhone, d) /\ Cat(d, hostOut, Incoming)
         /\ \E p, q \in Seq(Byte) :
              Cat(rx.stack, rx.ret, p) /\ Cat(p, rx.len, q) /\ Cat(q, rx.data, RxBytes)
  <1>1. /\ rx.stack \in Seq(Byte) /\ rx.ret \in Seq(Byte) /\ rx.len \in Seq(Byte) /\ rx.data \in Seq(Byte)
        /\ toPhone \in Seq(Byte) /\ hostOut \in Seq(Byte)
    BY DEF BridgeTypes
  <1>2. PICK p \in Seq(Byte) : Cat(rx.stack, rx.ret, p)
    BY <1>1, Cats, Zenon
  <1>3. PICK q \in Seq(Byte) : Cat(p, rx.len, q)
    BY <1>1, Cats, Zenon
  <1>4. PICK r \in Seq(Byte) : Cat(q, rx.data, r)
    BY <1>1, Cats, Zenon
  <1>5. PICK d \in Seq(Byte) : Cat(r, toPhone, d)
    BY <1>1, Cats, Zenon
  <1>6. PICK z \in Seq(Byte) : Cat(d, hostOut, z)
    BY <1>1, Cats, Zenon
  <1>7. RxBytes = r
    BY <1>2, <1>3, <1>4, Zenon DEF RxBytes, Cat
  <1>8. Incoming = z
    BY <1>2, <1>3, <1>4, <1>5, <1>6, Zenon DEF Incoming, Cat
  <1>9. Replied \in Seq(Caller)
    BY <1>8, CallersFacts, Zenon DEF Replied
  <1>10. QED BY <1>2, <1>3, <1>4, <1>5, <1>6, <1>7, <1>8, <1>9, Zenon

(* The same after a step.                                                  *)
LEMMA IncomingAfter ==
  /\ RxBytes' = rx'.stack \o rx'.ret \o rx'.len \o rx'.data
  /\ Incoming' = (RxBytes' \o toPhone') \o hostOut'
  <1>1. RxBytes' = rx'.stack \o rx'.ret \o rx'.len \o rx'.data
    BY Zenon DEF RxBytes
  <1>2. Incoming' = (RxBytes' \o toPhone') \o hostOut'
    BY Zenon DEF RxBytes, Incoming
  <1>3. QED BY <1>1, <1>2

(* A step that touches none of it leaves the bytes.                        *)
LEMMA IncomingKept ==
  ASSUME UNCHANGED <<rx, toPhone, hostOut>>
  PROVE  Incoming' = Incoming /\ Replied' = Replied
  <1>1. Incoming' = Incoming
    BY Zenon DEF Incoming
  <1>2. QED BY <1>1, Zenon DEF Replied, CallersOf

(* The network moves a byte.                                               *)
LEMMA Delivers ==
  ASSUME BridgeTypes, Deliver
  PROVE  /\ toPhone' \in Seq(Byte) /\ hostOut' \in Seq(Byte)
         /\ Incoming' = Incoming
  <1>1. /\ toPhone \in Seq(Byte) /\ hostOut \in Seq(Byte) /\ hostOut # <<>>
        /\ toPhone' = Append(toPhone, Head(hostOut)) /\ hostOut' = Tail(hostOut) /\ rx' = rx
    BY DEF BridgeTypes, Deliver
  <1>2. PICK x, t \in Seq(Byte) : HeadMoved(toPhone, hostOut, x, t)
    BY <1>1, Moves
  <1>3. x = toPhone' /\ t = hostOut' /\ x \o t = toPhone \o hostOut
    BY <1>1, <1>2, Zenon DEF HeadMoved
  <1>4. RxBytes' = RxBytes
    BY <1>1, Zenon DEF RxBytes
  <1>5. PICK r \in Seq(Byte), i \in Seq(Byte) : r = RxBytes /\ i = Incoming
    BY IncomingParts, Zenon
  <1>6. PICK d \in Seq(Byte) : Cat(r, toPhone, d) /\ Cat(d, hostOut, i)
    BY <1>5, IncomingParts, Zenon
  <1>7. PICK m \in Seq(Byte) : Cat(toPhone, hostOut, m)
    BY <1>1, Cats, Zenon
  <1>8. Cat(r, m, i)
    BY <1>1, <1>6, <1>7, CatRight
  <1>9. Cat(x, t, m)
    <2>1. m = x \o t
      BY <1>3, <1>7, Zenon DEF Cat
    <2>2. QED BY <2>1, CatIs
  <1>10. PICK e \in Seq(Byte) : Cat(r, x, e)
    BY Cats
  <1>11. PICK j \in Seq(Byte) : Cat(e, t, j)
    BY Cats
  <1>12. Cat(r, m, j)
    BY <1>9, <1>10, <1>11, CatRight
  <1>13. j = i
    BY <1>8, <1>12, Zenon DEF Cat
  <1>14. j = Incoming'
    BY <1>3, <1>4, <1>5, <1>10, <1>11, IncomingAfter, Zenon DEF Cat
  <1>15. QED BY <1>3, <1>5, <1>13, <1>14, Zenon

(* The host sends bytes.                                                   *)
LEMMA HostSends ==
  ASSUME BridgeTypes, UNCHANGED <<rx, toPhone>>, NEW b \in Seq(Byte), Cat(hostOut, b, hostOut')
  PROVE  Incoming' \in Seq(Byte) /\ Cat(Incoming, b, Incoming')
  <1>1. hostOut \in Seq(Byte) /\ hostOut' = hostOut \o b
    BY DEF BridgeTypes, Cat
  <1>2. RxBytes' = RxBytes
    BY Zenon DEF RxBytes
  <1>3. PICK i \in Seq(Byte), d \in Seq(Byte) :
          i = Incoming /\ Cat(RxBytes, toPhone, d) /\ Cat(d, hostOut, i)
    BY IncomingParts, Zenon
  <1>4. PICK j \in Seq(Byte) : Cat(i, b, j)
    BY Cats
  <1>5. Cat(d, hostOut', j)
    <2>1. Cat(d, hostOut, i) /\ Cat(hostOut, b, hostOut') /\ Cat(i, b, j)
      BY <1>3, <1>4
    <2>2. QED BY <1>1, <2>1, CatRight
  <1>6. j = Incoming'
    BY <1>2, <1>3, <1>5, IncomingAfter, Zenon DEF Cat
  <1>7. QED BY <1>3, <1>4, <1>6, Zenon

(* What the reader has read grows at its end.                              *)
LEMMA RxGrows ==
  ASSUME BridgeTypes, RxInv, ReaderInv, SubReceives
  PROVE  \E a, b, r \in Seq(Byte) :
           /\ Cat(a, b, toPhone) /\ toPhone' = b
           /\ Cat(RxBytes, a, r) /\ RxBytes' = r
  <1>1. PICK f \in {"stack", "ret", "len", "data"} : f = line[Reader]
    BY SubReceivesBytes
  <1>2. PICK a, b, r \in Seq(Byte) :
          /\ Cat(a, b, toPhone) /\ Cat(rx[f], a, r)
          /\ rx' = [rx EXCEPT ![f] = r] /\ toPhone' = b
    BY <1>1, SubReceivesBytes, Zenon
  <1>3. rx \in [stack : Seq(Byte), ret : Seq(Byte), len : Seq(Byte), data : Seq(Byte)]
    BY DEF BridgeTypes
  <1>4. PICK st, rt, ln, dt \in Seq(Byte) : st = rx.stack /\ rt = rx.ret /\ ln = rx.len /\ dt = rx.data
    BY <1>3
  <1>5. PICK e \in Seq(Byte) : e = <<>>
    <2>1. <<>> \in Seq(Byte)
      OBVIOUS
    <2>2. QED BY <2>1, Zenon
  <1>6. \A x \in Seq(Byte) : x \o e = x /\ e \o x = x
    BY <1>5
  <1>7. RxBytes = st \o rt \o ln \o dt
    BY <1>4, Zenon DEF RxBytes
  <1>8. \E p \in Seq(Byte) : RxBytes = p \o rx[f] /\ RxBytes' = p \o r
    <2>1. CASE f = "stack"
      <3>1. rt = e /\ ln = e /\ dt = e
        BY <1>1, <1>4, <1>5, <2>1 DEF RxInv
      <3>2. rx'.stack = r /\ rx'.ret = rt /\ rx'.len = ln /\ rx'.data = dt /\ rx[f] = st
        BY <1>2, <1>3, <1>4, <2>1
      <3>3. RxBytes' = r
        <4>1. RxBytes' = r \o rt \o ln \o dt
          BY <3>2, IncomingAfter, Zenon
        <4>2. QED BY <1>6, <3>1, <4>1, Zenon
      <3>4. RxBytes = st
        BY <1>6, <1>7, <3>1, Zenon
      <3>5. QED BY <1>6, <3>2, <3>3, <3>4, Zenon
    <2>2. CASE f = "ret"
      <3>1. ln = e /\ dt = e
        BY <1>1, <1>4, <1>5, <2>2 DEF RxInv
      <3>2. rx'.stack = st /\ rx'.ret = r /\ rx'.len = ln /\ rx'.data = dt /\ rx[f] = rt
        BY <1>2, <1>3, <1>4, <2>2
      <3>3. st \o rt \in Seq(Byte) /\ st \o r \in Seq(Byte)
        BY ConcatProperties
      <3>4. RxBytes' = st \o r
        <4>1. RxBytes' = st \o r \o ln \o dt
          BY <3>2, IncomingAfter, Zenon
        <4>2. QED BY <1>6, <3>1, <3>3, <4>1, Zenon
      <3>5. RxBytes = st \o rt
        BY <1>6, <1>7, <3>1, <3>3, Zenon
      <3>6. QED BY <3>2, <3>4, <3>5, Zenon
    <2>3. CASE f = "len"
      <3>1. dt = e
        BY <1>1, <1>4, <1>5, <2>3 DEF RxInv
      <3>2. rx'.stack = st /\ rx'.ret = rt /\ rx'.len = r /\ rx'.data = dt /\ rx[f] = ln
        BY <1>2, <1>3, <1>4, <2>3
      <3>3. PICK p \in Seq(Byte) : p = st \o rt
        BY ConcatProperties
      <3>4. p \o ln \in Seq(Byte) /\ p \o r \in Seq(Byte)
        BY ConcatProperties
      <3>5. RxBytes' = p \o r
        <4>1. RxBytes' = st \o rt \o r \o dt
          BY <3>2, IncomingAfter, Zenon
        <4>2. QED BY <1>6, <3>1, <3>3, <3>4, <4>1, Zenon
      <3>6. RxBytes = p \o ln
        BY <1>6, <1>7, <3>1, <3>3, <3>4, Zenon
      <3>7. QED BY <3>2, <3>5, <3>6, Zenon
    <2>4. CASE f = "data"
      <3>1. rx'.stack = st /\ rx'.ret = rt /\ rx'.len = ln /\ rx'.data = r /\ rx[f] = dt
        BY <1>2, <1>3, <1>4, <2>4
      <3>2. PICK p \in Seq(Byte) : p = st \o rt
        BY ConcatProperties
      <3>3. PICK q \in Seq(Byte) : q = p \o ln
        BY ConcatProperties
      <3>4. RxBytes' = q \o r
        BY <3>1, <3>2, <3>3, IncomingAfter, Zenon
      <3>5. RxBytes = q \o dt
        BY <1>7, <3>2, <3>3, Zenon
      <3>6. QED BY <3>1, <3>4, <3>5, Zenon
    <2>5. QED BY <2>1, <2>2, <2>3, <2>4
  <1>9. PICK p \in Seq(Byte) : RxBytes = p \o rx[f] /\ RxBytes' = p \o r
    BY <1>8
  <1>10. PICK s \in Seq(Byte) : s = rx[f]
    BY <1>3
  <1>11. PICK x \in Seq(Byte) : Cat(p, s, x)
    BY Cats
  <1>12. PICK w \in Seq(Byte) : Cat(x, a, w)
    BY Cats
  <1>13. Cat(p, r, w)
    <2>1. Cat(p, s, x) /\ Cat(s, a, r) /\ Cat(x, a, w)
      BY <1>2, <1>10, <1>11, <1>12, Zenon
    <2>2. QED BY <2>1, CatRight
  <1>14. RxBytes = x /\ RxBytes' = w
    BY <1>9, <1>10, <1>11, <1>13, Zenon DEF Cat
  <1>15. QED BY <1>2, <1>12, <1>14, Zenon

(* The reader takes bytes from the socket.                                 *)
LEMMA Receives ==
  ASSUME BridgeTypes, RxInv, ReaderInv, SubReceives
  PROVE  toPhone' \in Seq(Byte) /\ Incoming' = Incoming
  <1>1. PICK a, b, r \in Seq(Byte) : /\ Cat(a, b, toPhone) /\ toPhone' = b
                                     /\ Cat(RxBytes, a, r) /\ RxBytes' = r
    BY RxGrows
  <1>2. PICK x \in Seq(Byte), d \in Seq(Byte), i \in Seq(Byte) :
          x = RxBytes /\ i = Incoming /\ Cat(x, toPhone, d) /\ Cat(d, hostOut, i)
    BY IncomingParts, Zenon
  <1>3. PICK e \in Seq(Byte) : Cat(r, b, e)
    BY Cats
  <1>4. Cat(x, toPhone, e)
    <2>1. Cat(x, a, r) /\ Cat(a, b, toPhone) /\ Cat(r, b, e)
      BY <1>1, <1>2, <1>3, Zenon
    <2>2. QED BY <2>1, CatRight
  <1>5. e = d
    BY <1>2, <1>4, Zenon DEF Cat
  <1>6. hostOut' = hostOut
    BY DEF SubReceives, hostVars
  <1>7. Incoming' = i
    BY <1>1, <1>2, <1>3, <1>5, <1>6, IncomingAfter, Zenon DEF Cat
  <1>8. QED BY <1>1, <1>2, <1>7

(* The lengths of the fields that vary.                                    *)
LEMMA Lengths ==
  \A c \in Caller : Arg[c] \in Nat /\ Ret[c] \in Nat
  BY Names

(* The bytes of the fields the reader looks into.                          *)
LEMMA FirstBytes ==
  \A c \in Caller :
    /\ Kind(c, "stack")[1].of = c /\ Kind(c, "stack")[1].val = 2
    /\ Kind(c, "ret")[1].of = c /\ Kind(c, "len")[1].val = Ret[c]
  <1> SUFFICES ASSUME NEW c \in Caller
               PROVE  /\ Kind(c, "stack")[1].of = c /\ Kind(c, "stack")[1].val = 2
                      /\ Kind(c, "ret")[1].of = c /\ Kind(c, "len")[1].val = Ret[c]
    OBVIOUS
  <1>1. PtrLen \in Nat /\ PtrLen # 0 /\ Ret[c] \in Nat
    BY Names, Lengths
  <1>2. /\ Kind(c, "stack") = Field("stack", c, 2, PtrLen) /\ Kind(c, "ret") = Field("ret", c, 0, PtrLen)
        /\ Kind(c, "len") = Field("len", c, Ret[c], 1)
    BY DEF Kind
  <1>3. QED BY <1>1, <1>2 DEF Field

(* z is a to e one after the other.                                        *)
Nests(a, b, c, d, e, z) == \E x, y, w \in Seq(Byte) : Nested(a, b, c, d, e, x, y, w, z)

(* The fields are those of the reply to c; and so is what is after them.   *)
IsReply(c, st, rt, ln, dt, rest, j) ==
  /\ st = Kind(c, "stack") /\ rt = Kind(c, "ret") /\ ln = Kind(c, "len")
  /\ Len(dt) = Ret[c] => dt = Kind(c, "data") /\ rest = j

(* What begins with as many bytes as a reply begins with a reply.          *)
LEMMA ReplySplits ==
  ASSUME NEW c \in Caller, NEW st \in Seq(Byte), NEW rt \in Seq(Byte), NEW ln \in Seq(Byte),
         NEW dt \in Seq(Byte), NEW rest \in Seq(Byte), NEW j \in Seq(Byte),
         NEW i, Nests(st, rt, ln, dt, rest, i),
         Nests(Kind(c, "stack"), Kind(c, "ret"), Kind(c, "len"), Kind(c, "data"), j, i),
         Len(st) = PtrLen, Len(rt) = PtrLen, Len(ln) = 1
  PROVE  IsReply(c, st, rt, ln, dt, rest, j)
  <1>1. /\ Kind(c, "stack") \in Seq(Byte) /\ Kind(c, "ret") \in Seq(Byte)
        /\ Kind(c, "len") \in Seq(Byte) /\ Kind(c, "data") \in Seq(Byte)
    BY KindFacts DEF Kinds
  <1>2. /\ Len(Kind(c, "stack")) = PtrLen /\ Len(Kind(c, "ret")) = PtrLen
        /\ Len(Kind(c, "len")) = 1 /\ Len(Kind(c, "data")) = Ret[c]
    BY KindFacts
  <1>3. PICK x, y, w, x1, y1, w1 \in Seq(Byte) :
          /\ Cat(dt, rest, x) /\ Cat(ln, x, y) /\ Cat(rt, y, w) /\ Cat(st, w, i)
          /\ Cat(Kind(c, "data"), j, x1) /\ Cat(Kind(c, "len"), x1, y1)
          /\ Cat(Kind(c, "ret"), y1, w1) /\ Cat(Kind(c, "stack"), w1, i)
    BY Zenon DEF Nests, Nested
  <1>4. st = Kind(c, "stack") /\ w = w1
    <2>1. Cat(st, w, i) /\ Cat(Kind(c, "stack"), w1, i) /\ Len(st) = Len(Kind(c, "stack"))
      BY <1>2, <1>3
    <2>2. QED BY <1>1, <2>1, CatSplits
  <1>5. rt = Kind(c, "ret") /\ y = y1
    <2>1. Cat(rt, y, w) /\ Cat(Kind(c, "ret"), y1, w) /\ Len(rt) = Len(Kind(c, "ret"))
      BY <1>2, <1>3, <1>4, Zenon
    <2>2. QED BY <1>1, <2>1, CatSplits
  <1>6. ln = Kind(c, "len") /\ x = x1
    <2>1. Cat(ln, x, y) /\ Cat(Kind(c, "len"), x1, y) /\ Len(ln) = Len(Kind(c, "len"))
      BY <1>2, <1>3, <1>5, Zenon
    <2>2. QED BY <1>1, <2>1, CatSplits
  <1>7. ASSUME Len(dt) = Ret[c]  PROVE dt = Kind(c, "data") /\ rest = j
    <2>1. Cat(dt, rest, x) /\ Cat(Kind(c, "data"), j, x) /\ Len(dt) = Len(Kind(c, "data"))
      BY <1>2, <1>3, <1>6, <1>7, Zenon
    <2>2. QED BY <1>1, <2>1, CatSplits
  <1>8. QED BY <1>4, <1>5, <1>6, <1>7 DEF IsReply

(* A reply that has been read whole is the reply to the caller at the      *)
(* front: the reader stores its result and has it woken.                   *)
LEMMA Answers ==
  ASSUME BridgeTypes, RxInv, StreamInv, ReaderAnswers
  PROVE  /\ Replied # <<>> /\ Replied \in Seq(Caller)
         /\ Incoming' = Joined(Replies, Tail(Replied))
         /\ ret' = [ret EXCEPT ![Head(Replied)] = Field("data", Head(Replied), 0, Ret[Head(Replied)])]
         /\ wake_me_up' = [task |-> Head(Replied), frame |-> 2]
  <1>1. /\ depth[Reader] = 1 /\ line[Reader] # "start" /\ NextField = "start"
        /\ ret' = [ret EXCEPT ![rx.ret[1].of] = rx.data]
        /\ wake_me_up' = [task |-> rx.stack[1].of, frame |-> rx.stack[1].val]
        /\ rx' = NothingRead /\ toPhone' = toPhone /\ hostOut' = hostOut
    BY DEF ReaderAnswers, hostVars
  <1>2. rx \in [stack : Seq(Byte), ret : Seq(Byte), len : Seq(Byte), data : Seq(Byte)]
        /\ toPhone \in Seq(Byte) /\ hostOut \in Seq(Byte)
    BY DEF BridgeTypes
  <1>3. PICK st, rt, ln, dt \in Seq(Byte) : st = rx.stack /\ rt = rx.ret /\ ln = rx.len /\ dt = rx.data
    BY <1>2
  <1>4. PtrLen \in Nat /\ PtrLen # 0
    BY Names
  <1>5. Len(st) = PtrLen /\ Len(rt) = PtrLen /\ Len(ln) = 1 /\ Len(dt) = ln[1].val
    <2>1. CASE line[Reader] = "len"
      <3>1. Len(rx.len) = 1 /\ Len(rx.stack) = PtrLen /\ Len(rx.ret) = PtrLen /\ rx.data = <<>>
        BY <1>1, <2>1 DEF RxInv, Reading
      <3>2. ~ (rx.len[1].val > 0)
        BY <1>1, <2>1 DEF NextField, ret_len
      <3>3. ln[1] \in Byte
        BY <1>3, <3>1
      <3>4. ln[1].val \in Nat
        BY <3>3 DEF Byte
      <3>5. Len(dt) = 0
        BY <1>3, <3>1, Empties, Zenon
      <3>6. ln[1].val = 0
        BY <1>3, <3>2, <3>4
      <3>7. QED BY <1>3, <3>1, <3>5, <3>6
    <2>2. CASE line[Reader] = "data"
      BY <1>1, <1>3, <2>2 DEF RxInv, Reading
    <2>3. QED BY <1>1, <2>1, <2>2 DEF RxInv, NextField
  <1>6. PICK i \in Seq(Byte), q \in Seq(Caller) : i = Incoming /\ q = Replied
    BY IncomingParts, Zenon
  <1>7. PICK p1, p2, p3, d \in Seq(Byte) :
          /\ Cat(st, rt, p1) /\ Cat(p1, ln, p2) /\ Cat(p2, dt, p3) /\ p3 = RxBytes
          /\ Cat(p3, toPhone, d) /\ Cat(d, hostOut, i)
    <2>1. PICK p1, p2 \in Seq(Byte) : Cat(st, rt, p1) /\ Cat(p1, ln, p2) /\ Cat(p2, dt, RxBytes)
      BY <1>3, IncomingParts, Zenon
    <2>2. PICK d \in Seq(Byte) : Cat(RxBytes, toPhone, d) /\ Cat(d, hostOut, i)
      BY <1>6, IncomingParts, Zenon
    <2>3. PICK p3 \in Seq(Byte) : p3 = RxBytes
      BY IncomingParts
    <2>4. QED BY <2>1, <2>2, <2>3, Zenon
  <1>8. PICK rest \in Seq(Byte) : Cat(toPhone, hostOut, rest)
    BY <1>2, Cats, Zenon
  <1>9. Cat(p3, rest, i)
    BY <1>2, <1>7, <1>8, CatRight
  <1>10. Nests(st, rt, ln, dt, rest, i)
    BY <1>7, <1>9, NestedFromLeft, Zenon DEF Nests
  <1>11. q # <<>>
    <2>1. st # <<>>
      <3>1. Len(st) # 0
        BY <1>4, <1>5
      <3>2. QED BY <3>1, Empties, Zenon
    <2>2. i # <<>>
      BY <1>10, <2>1, Zenon DEF Nests, Nested, Cat
    <2>3. Joined(Replies, <<>>) = <<>>
      BY StreamEnds, Zenon
    <2>4. QED BY <1>6, <2>2, <2>3, Zenon DEF StreamInv
  <1>12. PICK c \in Caller, t \in Seq(Caller) : c = Head(q) /\ t = Tail(q)
    <2>1. Head(q) \in Caller /\ Tail(q) \in Seq(Caller)
      BY <1>11
    <2>2. QED BY <2>1
  <1>13. PICK rp, j \in Seq(Byte) : rp = Reply(c) /\ j = Joined(Replies, t)
    <2>1. Reply(c) \in Seq(Byte) /\ Joined(Replies, t) \in Seq(Byte)
      BY ReplyFacts, StreamEnds, Zenon
    <2>2. QED BY <2>1
  <1>14. Cat(rp, j, i)
    <2>1. i = Joined(Replies, q)
      BY <1>6 DEF StreamInv
    <2>2. Cat(Replies[c], j, i)
      BY <1>11, <1>12, <1>13, <2>1, StreamEnds, Zenon
    <2>3. QED BY <1>13, <2>2, StreamFacts, Zenon
  <1>15. PICK ks, kr, kl, kd \in Seq(Byte) :
           /\ ks = Kind(c, "stack") /\ kr = Kind(c, "ret") /\ kl = Kind(c, "len") /\ kd = Kind(c, "data")
    <2>1. /\ Kind(c, "stack") \in Seq(Byte) /\ Kind(c, "ret") \in Seq(Byte)
          /\ Kind(c, "len") \in Seq(Byte) /\ Kind(c, "data") \in Seq(Byte)
      BY KindFacts DEF Kinds
    <2>2. QED BY <2>1
  <1>16. PICK e, r \in Seq(Byte) : Cat(ks, kr, e) /\ Cat(kl, kd, r)
    BY Cats
  <1>17. Cat(e, r, rp)
    <2>1. rp = e \o r
      BY <1>13, <1>15, <1>16, Zenon DEF Reply, Echo, Results, Cat
    <2>2. QED BY <2>1, CatIs
  <1>18. Nests(ks, kr, kl, kd, j, i)
    BY <1>14, <1>16, <1>17, NestedFromPairs, Zenon DEF Nests
  <1>19. Len(ks) = PtrLen /\ Len(kr) = PtrLen /\ Len(kl) = 1 /\ Len(kd) = Ret[c] /\ Ret[c] \in Nat
    <2>1. Ret[c] \in Nat
      BY Lengths, Zenon
    <2>2. QED BY <1>15, <2>1, KindFacts
  <1>20. st = ks /\ rt = kr /\ ln = kl /\ (Len(dt) = Len(kd) => dt = kd /\ rest = j)
    <2>1. Nests(Kind(c, "stack"), Kind(c, "ret"), Kind(c, "len"), Kind(c, "data"), j, i)
      BY <1>15, <1>18, Zenon
    <2>2. Len(st) = PtrLen /\ Len(rt) = PtrLen /\ Len(ln) = 1
      BY <1>5
    <2>3. IsReply(c, st, rt, ln, dt, rest, j)
      BY <1>10, <2>1, <2>2, ReplySplits, Zenon
    <2>4. QED BY <1>15, <1>19, <2>3 DEF IsReply
  <1>21. kl[1].val = Ret[c] /\ ks[1].of = c /\ ks[1].val = 2 /\ kr[1].of = c
    BY <1>15, FirstBytes, Zenon
  <1>22. dt = kd /\ rest = j
    BY <1>5, <1>19, <1>20, <1>21
  <1>23. Incoming' = rest
    <2>1. RxBytes' = <<>> \o <<>> \o <<>> \o <<>>
      BY <1>1, IncomingAfter DEF NothingRead
    <2>2. \A s \in Seq(Byte) : <<>> \o s = s
      OBVIOUS
    <2>3. <<>> \o <<>> = <<>>
      OBVIOUS
    <2>4. RxBytes' = <<>>
      BY <2>1, <2>3, Zenon
    <2>5. QED BY <1>1, <1>2, <1>8, <2>2, <2>4, IncomingAfter, Zenon DEF Cat
  <1>24. kd = Field("data", c, 0, Ret[c])
    BY <1>15 DEF Kind
  <1>25. /\ ret' = [ret EXCEPT ![c] = Field("data", c, 0, Ret[c])]
         /\ wake_me_up' = [task |-> c, frame |-> 2]
    BY <1>1, <1>3, <1>20, <1>21, <1>22, <1>24, Zenon
  <1>26. QED BY <1>6, <1>11, <1>12, <1>13, <1>22, <1>23, <1>25, Zenon

-----------------------------------------------------------------------------
(* The two streams from step to step *)

(* The types of the bytes on their way. *)
ByteTypes ==
  /\ Sent(tx_queue, front_i)
  /\ toHost \in Seq(Byte) /\ toPhone \in Seq(Byte)
  /\ hostIn \in Seq(Byte) /\ hostOut \in Seq(Byte)
  /\ Len(toHost) <= SndBuf

(* Streams of whole messages are those of the callers in them.             *)
LEMMA StreamFrom ==
  ASSUME NEW w \in Seq(Caller), NEW r \in Seq(Caller),
         Outgoing' = Joined(Requests, w), Incoming' = Joined(Replies, r),
         hostIn' # <<>> => Len(hostIn') < Len(Request(Head(w)))
  PROVE  StreamInv' /\ Waiting' = w /\ Replied' = r
  <1>1. Waiting' = CallersOf(Outgoing', "code") /\ Replied' = CallersOf(Incoming', "stack")
    BY Zenon DEF Waiting, Replied, CallersOf
  <1>2. Waiting' = w /\ Replied' = r
    BY <1>1, StreamFacts, Zenon
  <1>3. Requests' = Requests /\ Replies' = Replies
    BY DEF Requests, Replies
  <1>4. \A c : Request(c)' = Request(c)
    BY DEF Request
  <1>5. \A f, s : Joined(f, s)' = Joined(f, s)
    BY DEF Joined
  <1>6. QED BY <1>2, <1>3, <1>4, <1>5, Zenon DEF StreamInv

(* A call asks for one more request.                                       *)
LEMMA TransmitStream ==
  ASSUME BridgeTypes, StreamInv, NEW c \in Caller, CallerInv(c), host_transmit(c)
  PROVE  /\ ByteTypes' /\ StreamInv'
         /\ Waiting' = Append(Waiting, c) /\ Replied' = Replied
  <1>1. Sent(tx_queue', front_i') /\ Outgoing' \in Seq(Byte) /\ Cat(Outgoing, Request(c), Outgoing')
    BY Transmits
  <1>2. /\ toHost' = toHost /\ hostIn' = hostIn /\ UNCHANGED <<rx, toPhone, hostOut>>
        /\ toHost \in Seq(Byte) /\ toPhone \in Seq(Byte) /\ hostIn \in Seq(Byte) /\ hostOut \in Seq(Byte)
        /\ Len(toHost) <= SndBuf
    BY DEF host_transmit, hostVars, BridgeTypes
  <1>3. ByteTypes'
    BY <1>1, <1>2 DEF ByteTypes
  <1>4. PICK w, r : w = Waiting /\ r = Replied /\ w \in Seq(Caller) /\ r \in Seq(Caller)
    BY OutgoingParts, IncomingParts, Zenon
  <1>5. Outgoing = Joined(Requests, w) /\ Incoming = Joined(Replies, r)
    BY <1>4, Zenon DEF StreamInv
  <1>6. Append(w, c) \in Seq(Caller)
    BY <1>4
  <1>7. Outgoing' = Joined(Requests, Append(w, c))
    <2>1. Cat(Joined(Requests, w), Requests[c], Joined(Requests, Append(w, c)))
      BY <1>4, StreamEnds, Zenon
    <2>2. Requests[c] = Request(c)
      BY StreamFacts
    <2>3. QED BY <1>1, <1>5, <2>1, <2>2, Zenon DEF Cat
  <1>8. Incoming' = Joined(Replies, r)
    BY <1>2, <1>5, IncomingKept
  <1>9. ASSUME hostIn' # <<>>  PROVE Len(hostIn') < Len(Request(Head(Append(w, c))))
    <2>1. hostIn # <<>> /\ Len(hostIn) < Len(Request(Head(w)))
      BY <1>2, <1>4, <1>9 DEF StreamInv
    <2>2. w # <<>>
      <3>1. PICK p \in Seq(Byte) : /\ Cat(hostIn, toHost, p)
                                   /\ Cat(p, QueueBytes(tx_queue, front_i), Outgoing)
        BY OutgoingParts
      <3>2. Outgoing # <<>>
        BY <2>1, <3>1, Zenon DEF Cat
      <3>3. Joined(Requests, <<>>) = <<>>
        BY StreamEnds, Zenon
      <3>4. QED BY <1>5, <3>2, <3>3, Zenon
    <2>3. Head(Append(w, c)) = Head(w)
      BY <1>4, <2>2
    <2>4. QED BY <1>2, <2>1, <2>3
  <1>10. StreamInv' /\ Waiting' = Append(w, c) /\ Replied' = r
    BY <1>4, <1>6, <1>7, <1>8, <1>9, StreamFrom
  <1>11. QED BY <1>3, <1>4, <1>10

(* The host serves the first request when it has read the last of it.      *)
LEMMA HostStream ==
  ASSUME BridgeTypes, StreamInv, HostReads
  PROVE  /\ ByteTypes' /\ StreamInv'
         /\ \/ Waiting' = Waiting /\ Replied' = Replied
            \/ /\ Waiting # <<>> /\ Waiting' = Tail(Waiting)
               /\ Replied' = Append(Replied, Head(Waiting))
  <1>1. PICK w, r : w = Waiting /\ r = Replied /\ w \in Seq(Caller) /\ r \in Seq(Caller)
    BY OutgoingParts, IncomingParts, Zenon
  <1>2. Outgoing = Joined(Requests, w) /\ Incoming = Joined(Replies, r)
    BY <1>1, Zenon DEF StreamInv
  <1>3. /\ w # <<>>
        /\ toHost' \in Seq(Byte) /\ Len(toHost) = Len(toHost') + 1
        /\ hostIn' \in Seq(Byte) /\ hostOut' \in Seq(Byte)
        /\ \/ /\ Outgoing' = Outgoing /\ UNCHANGED hostOut
              /\ Len(hostIn') < Len(Request(Head(w)))
           \/ /\ Outgoing' = Joined(Requests, Tail(w)) /\ hostIn' = <<>>
              /\ Cat(hostOut, Reply(Head(w)), hostOut')
    BY <1>1, HostReadsByte, Zenon
  <1>4. UNCHANGED <<tx_queue, front_i, rx, toPhone>>
    BY Zenon DEF HostReads, txVars
  <1>5. ByteTypes'
    <2>1. Sent(tx_queue, front_i)
      BY OutgoingParts
    <2>2. Sent(tx_queue', front_i')
      BY <1>4, <2>1, Zenon
    <2>3. toHost \in Seq(Byte) /\ Len(toHost) <= SndBuf /\ toPhone \in Seq(Byte)
      BY DEF BridgeTypes
    <2>4. Len(toHost) \in Nat /\ Len(toHost') \in Nat /\ SndBuf \in Nat
      BY <1>3, <2>3, Names
    <2>5. Len(toHost') <= SndBuf
      BY <1>3, <2>3, <2>4
    <2>6. QED BY <1>3, <1>4, <2>2, <2>3, <2>5, Zenon DEF ByteTypes
  <1>6. PICK c \in Caller, t \in Seq(Caller) : c = Head(w) /\ t = Tail(w)
    <2>1. Head(w) \in Caller /\ Tail(w) \in Seq(Caller)
      BY <1>1, <1>3
    <2>2. QED BY <2>1
  <1>7. CASE Outgoing' = Outgoing /\ UNCHANGED hostOut /\ Len(hostIn') < Len(Request(c))
    <2>1. Incoming' = Incoming
      BY <1>4, <1>7, IncomingKept
    <2>2. StreamInv' /\ Waiting' = w /\ Replied' = r
      BY <1>1, <1>2, <1>6, <1>7, <2>1, StreamFrom
    <2>3. QED BY <1>1, <1>5, <2>2
  <1>8. CASE Outgoing' = Joined(Requests, t) /\ hostIn' = <<>> /\ Cat(hostOut, Reply(c), hostOut')
    <2>1. PICK b \in Seq(Byte) : b = Reply(c)
      BY ReplyFacts
    <2>2. Cat(Incoming, b, Incoming')
      BY <1>4, <1>8, <2>1, HostSends
    <2>3. Append(r, c) \in Seq(Caller)
      BY <1>1
    <2>4. Incoming' = Joined(Replies, Append(r, c))
      <3>1. Cat(Joined(Replies, r), Replies[c], Joined(Replies, Append(r, c)))
        BY <1>1, StreamEnds, Zenon
      <3>2. Replies[c] = b
        BY <2>1, StreamFacts, Zenon
      <3>3. QED BY <1>2, <2>2, <3>1, <3>2, Zenon DEF Cat
    <2>5. StreamInv' /\ Waiting' = t /\ Replied' = Append(r, c)
      BY <1>8, <2>3, <2>4, StreamFrom
    <2>6. QED BY <1>1, <1>3, <1>5, <1>6, <2>5
  <1>9. QED BY <1>3, <1>6, <1>7, <1>8

(* The reader takes the reply it has answered off the stream.              *)
LEMMA AnswerStream ==
  ASSUME BridgeTypes, RxInv, StreamInv, ReaderAnswers
  PROVE  /\ ByteTypes' /\ StreamInv'
         /\ Replied # <<>> /\ Waiting' = Waiting /\ Replied' = Tail(Replied)
  <1>1. /\ Replied # <<>> /\ Replied \in Seq(Caller) /\ Incoming' = Joined(Replies, Tail(Replied))
    BY Answers
  <1>2. UNCHANGED <<tx_queue, front_i, toHost, toPhone, hostIn, hostOut>>
    BY DEF ReaderAnswers, txVars, hostVars
  <1>3. ByteTypes'
    <2>1. Sent(tx_queue, front_i)
      BY OutgoingParts
    <2>2. QED BY <1>2, <2>1 DEF ByteTypes, BridgeTypes
  <1>4. PICK w \in Seq(Caller), t \in Seq(Caller) : w = Waiting /\ t = Tail(Replied)
    <2>1. Waiting \in Seq(Caller) /\ Tail(Replied) \in Seq(Caller)
      BY <1>1, OutgoingParts
    <2>2. QED BY <2>1
  <1>5. Outgoing' = Joined(Requests, w)
    BY <1>2, <1>4, OutgoingKept DEF StreamInv
  <1>6. hostIn' # <<>> => Len(hostIn') < Len(Request(Head(w)))
    BY <1>2, <1>4 DEF StreamInv
  <1>7. StreamInv' /\ Waiting' = w /\ Replied' = t
    BY <1>1, <1>4, <1>5, <1>6, StreamFrom
  <1>8. QED BY <1>1, <1>3, <1>4, <1>7

(* The steps that only carry bytes, and those that touch none.             *)
Carries == WriterSends \/ SubReceives \/ Deliver
Quiet ==
  \/ Boot \/ Clock \/ Waits \/ WriterStarts \/ WriterBlocks \/ ReaderAwaits \/ SubBlocks
  \/ \E c \in Caller : CallerSleeps(c) \/ CallerCalls(c) \/ host_transmit_returns(c)
  \/ UNCHANGED bridgeVars

(* Neither changes the streams.                                            *)
LEMMA QuietStream ==
  ASSUME BridgeTypes, RxInv, StreamInv, ControlInv, Carries \/ Quiet
  PROVE  /\ ByteTypes' /\ StreamInv'
         /\ Waiting' = Waiting /\ Replied' = Replied
  <1>1. WriterInv /\ ReaderInv /\ Sent(tx_queue, front_i)
    BY OutgoingParts DEF ControlInv
  <1>2. /\ ByteTypes' /\ Outgoing' = Outgoing /\ Incoming' = Incoming
        /\ UNCHANGED hostIn
    <2>1. CASE WriterSends
      <3>1. /\ Sent(tx_queue', front_i') /\ Outgoing' = Outgoing
            /\ toHost' \in Seq(Byte) /\ Len(toHost') <= SndBuf
        BY <1>1, <2>1, SendsBytes
      <3>2. UNCHANGED <<rx, toPhone, hostIn, hostOut>>
        BY <2>1 DEF WriterSends, hostVars
      <3>3. Incoming' = Incoming
        BY <3>2, IncomingKept
      <3>4. QED BY <3>1, <3>2, <3>3 DEF ByteTypes, BridgeTypes
    <2>2. CASE SubReceives
      <3>1. toPhone' \in Seq(Byte) /\ Incoming' = Incoming
        BY <1>1, <2>2, Receives
      <3>2. UNCHANGED <<tx_queue, front_i, toHost, hostIn, hostOut>>
        BY <2>2 DEF SubReceives, txVars, hostVars
      <3>3. Outgoing' = Outgoing
        BY <3>2, OutgoingKept
      <3>4. QED BY <1>1, <3>1, <3>2, <3>3 DEF ByteTypes, BridgeTypes
    <2>3. CASE Deliver
      <3>1. toPhone' \in Seq(Byte) /\ hostOut' \in Seq(Byte) /\ Incoming' = Incoming
        BY <2>3, Delivers
      <3>2. UNCHANGED <<tx_queue, front_i, toHost, hostIn>>
        BY <2>3 DEF Deliver, txVars
      <3>3. Outgoing' = Outgoing
        BY <3>2, OutgoingKept
      <3>4. QED BY <1>1, <3>1, <3>2, <3>3 DEF ByteTypes, BridgeTypes
    <2>4. CASE Quiet
      <3>1. UNCHANGED <<tx_queue, front_i, toHost, hostIn, rx, toPhone, hostOut>>
        <4>1. Boot \/ Clock \/ Waits =>
                UNCHANGED <<tx_queue, front_i, toHost, hostIn, rx, toPhone, hostOut>>
          BY DEF Boot, Clock, Waits, WaitWakes, WaitPolls, WaitTimesOut, txVars, hostVars
        <4>2. WriterStarts \/ WriterBlocks \/ ReaderAwaits \/ SubBlocks =>
                UNCHANGED <<tx_queue, front_i, toHost, hostIn, rx, toPhone, hostOut>>
          BY DEF WriterStarts, WriterBlocks, ReaderAwaits, SubBlocks, txVars, hostVars
        <4>3. ASSUME NEW c \in Caller, CallerSleeps(c) \/ CallerCalls(c) \/ host_transmit_returns(c)
              PROVE  UNCHANGED <<tx_queue, front_i, toHost, hostIn, rx, toPhone, hostOut>>
          BY <4>3 DEF CallerSleeps, CallerCalls, host_transmit_returns, txVars, hostVars
        <4>4. UNCHANGED bridgeVars => UNCHANGED <<tx_queue, front_i, toHost, hostIn, rx, toPhone, hostOut>>
          BY DEF bridgeVars, txVars, hostVars
        <4>5. QED BY <2>4, <4>1, <4>2, <4>3, <4>4 DEF Quiet
      <3>2. Outgoing' = Outgoing /\ Incoming' = Incoming
        BY <3>1, OutgoingKept, IncomingKept
      <3>3. QED BY <1>1, <3>1, <3>2 DEF ByteTypes, BridgeTypes
    <2>5. QED BY <2>1, <2>2, <2>3, <2>4 DEF Carries
  <1>3. PICK w \in Seq(Caller), r \in Seq(Caller) : w = Waiting /\ r = Replied
    <2>1. Waiting \in Seq(Caller) /\ Replied \in Seq(Caller)
      BY OutgoingParts, IncomingParts
    <2>2. QED BY <2>1
  <1>4. Outgoing' = Joined(Requests, w) /\ Incoming' = Joined(Replies, r)
    BY <1>2, <1>3, Zenon DEF StreamInv
  <1>5. hostIn' # <<>> => Len(hostIn') < Len(Request(Head(w)))
    BY <1>2, <1>3 DEF StreamInv
  <1>6. StreamInv' /\ Waiting' = w /\ Replied' = r
    BY <1>4, <1>5, StreamFrom
  <1>7. QED BY <1>2, <1>3, <1>6

(* Every step is of one of these kinds.                                    *)
LEMMA StepKinds ==
  ASSUME [BridgeNext]_bridgeVars
  PROVE  \/ Carries \/ Quiet \/ ReaderAnswers \/ HostReads
         \/ \E c \in Caller : host_transmit(c)
  BY DEF BridgeNext, Phone, Writes, Reads, Calls, Carries, Quiet

(* The streams carry whole messages after every step.                      *)
LEMMA StreamStep ==
  ASSUME BridgeTypes, RxInv, StreamInv, ControlInv, [BridgeNext]_bridgeVars
  PROVE  ByteTypes' /\ StreamInv'
  <1>1. \A c \in Caller : CallerInv(c)
    BY DEF ControlInv
  <1>2. QED BY <1>1, StepKinds, QuietStream, AnswerStream, HostStream, TransmitStream

-----------------------------------------------------------------------------
(* The calls under way *)

(* w waits for the host, a has been served, and they are all who asked.    *)
Flight(w, a, asked) ==
  /\ w \in Seq(Caller) /\ a \in Seq(Caller)
  /\ IsInjective(w) /\ IsInjective(a)
  /\ Range(w) \cap Range(a) = {} /\ Range(w) \cup Range(a) = asked

(* Another asks, ...                                                       *)
LEMMA FlightAsk ==
  ASSUME NEW w, NEW a, NEW asked, Flight(w, a, asked), NEW c \in Caller, c \notin asked
  PROVE  Flight(Append(w, c), a, asked \cup {c}) /\ c \notin Range(w) \cup Range(a)
  <1>1. /\ w \in Seq(Caller) /\ a \in Seq(Caller) /\ IsInjective(w) /\ IsInjective(a)
        /\ Range(w) \cap Range(a) = {} /\ Range(w) \cup Range(a) = asked
    BY DEF Flight
  <1>2. /\ Append(w, c) \in Seq(Caller) /\ Range(Append(w, c)) = Range(w) \cup {c}
        /\ c \notin Range(w) => IsInjective(Append(w, c))
    BY <1>1, RangeAppend
  <1>3. QED BY <1>1, <1>2 DEF Flight

(* ... the first is served, ...                                            *)
LEMMA FlightServe ==
  ASSUME NEW w, NEW a, NEW asked, Flight(w, a, asked), w # <<>>
  PROVE  Flight(Tail(w), Append(a, Head(w)), asked)
  <1>1. /\ w \in Seq(Caller) /\ a \in Seq(Caller) /\ IsInjective(w) /\ IsInjective(a)
        /\ Range(w) \cap Range(a) = {} /\ Range(w) \cup Range(a) = asked
    BY DEF Flight
  <1>2. /\ Head(w) \in Caller /\ Tail(w) \in Seq(Caller) /\ Range(w) = {Head(w)} \cup Range(Tail(w))
        /\ IsInjective(Tail(w)) /\ Head(w) \notin Range(Tail(w))
    BY <1>1, RangeTail
  <1>3. /\ Append(a, Head(w)) \in Seq(Caller) /\ Range(Append(a, Head(w))) = Range(a) \cup {Head(w)}
        /\ Head(w) \notin Range(a) => IsInjective(Append(a, Head(w)))
    BY <1>1, <1>2, RangeAppend
  <1>4. QED BY <1>1, <1>2, <1>3 DEF Flight

(* ... or returns.                                                         *)
LEMMA FlightReturn ==
  ASSUME NEW w, NEW a, NEW asked, Flight(w, a, asked), a # <<>>
  PROVE  Flight(w, Tail(a), asked \ {Head(a)}) /\ Head(a) \in asked /\ Head(a) \in Caller
  <1>1. /\ w \in Seq(Caller) /\ a \in Seq(Caller) /\ IsInjective(w) /\ IsInjective(a)
        /\ Range(w) \cap Range(a) = {} /\ Range(w) \cup Range(a) = asked
    BY DEF Flight
  <1>2. /\ Head(a) \in Caller /\ Tail(a) \in Seq(Caller) /\ Range(a) = {Head(a)} \cup Range(Tail(a))
        /\ IsInjective(Tail(a)) /\ Head(a) \notin Range(Tail(a))
    BY <1>1, RangeTail
  <1>3. QED BY <1>1, <1>2 DEF Flight

(* The callers that have asked, and whose wake-up the wait will deliver. *)
AskedSet == {c \in Caller : line[c] = "asked"}
Woken(c) == wake_me_up # NoNode /\ wake_me_up = [task |-> c, frame |-> 2] /\ Own(c)
NoneAsked == \A c \in Caller : ~ At(c, "asked")

(* What FlightInv says of the phone: no two callers are on their way back. *)
BackInv ==
  /\ wake_me_up # NoNode => NoneAsked /\ \E c \in Caller : Woken(c)
  /\ \A c \in Caller : line[c] = "returned" \/ At(c, "asked") => Own(c)

(* FlightInv has these two parts.                                          *)
LEMMA FlightParts ==
  Waiting \in Seq(Caller) /\ AnsweredCallers \in Seq(Caller) =>
    (FlightInv <=> Flight(Waiting, AnsweredCallers, AskedSet) /\ BackInv)
  BY DEF FlightInv, Flight, AskedSet, BackInv, Woken, NoneAsked

(* The answered callers are one that is woken or runs, if there is one,    *)
(* and those with replies on their way.                                    *)
LEMMA AnsweredAre ==
  /\ wake_me_up = NoNode /\ NoneAsked /\ Replied \in Seq(Caller) => AnsweredCallers = Replied
  /\ \A c \in Caller : wake_me_up = NoNode /\ At(c, "asked") => AnsweredCallers = <<c>> \o Replied
  /\ \A c \in Caller : Woken(c) /\ NoneAsked => AnsweredCallers = <<c>> \o Replied
  <1>1. AnsweredCallers = ((IF wake_me_up # NoNode THEN <<wake_me_up.task>> ELSE <<>>)
                             \o (IF \E c \in Caller : At(c, "asked") THEN <<task_stack>> ELSE <<>>)) \o Replied
    BY Zenon DEF AnsweredCallers, Replied
  <1>2. NoneAsked <=> ~ \E c \in Caller : At(c, "asked")
    BY DEF NoneAsked
  <1>3. ASSUME wake_me_up = NoNode, NoneAsked, Replied \in Seq(Caller)
        PROVE  AnsweredCallers = Replied
    <2>1. AnsweredCallers = (<<>> \o <<>>) \o Replied
      BY <1>1, <1>2, <1>3, Zenon
    <2>2. <<>> \o <<>> = <<>>
      OBVIOUS
    <2>3. \A s \in Seq(Caller) : <<>> \o s = s
      OBVIOUS
    <2>4. QED BY <1>3, <2>1, <2>2, <2>3, Zenon
  <1>4. ASSUME NEW c \in Caller, wake_me_up = NoNode, At(c, "asked")
        PROVE  AnsweredCallers = <<c>> \o Replied
    <2>1. task_stack = c
      BY <1>4 DEF At, Runs
    <2>2. AnsweredCallers = (<<>> \o <<c>>) \o Replied
      BY <1>1, <1>4, <2>1, Zenon
    <2>3. <<>> \o <<c>> = <<c>>
      OBVIOUS
    <2>4. QED BY <2>2, <2>3, Zenon
  <1>5. ASSUME NEW c \in Caller, Woken(c), NoneAsked
        PROVE  AnsweredCallers = <<c>> \o Replied
    <2>1. wake_me_up # NoNode /\ wake_me_up.task = c
      BY <1>5 DEF Woken
    <2>2. AnsweredCallers = (<<c>> \o <<>>) \o Replied
      BY <1>1, <1>2, <1>5, <2>1, Zenon
    <2>3. <<c>> \o <<>> = <<c>>
      OBVIOUS
    <2>4. QED BY <2>2, <2>3, Zenon
  <1>6. QED BY <1>3, <1>4, <1>5

(* The same after a step.                                                  *)
LEMMA AnsweredAfter ==
  /\ wake_me_up' = NoNode /\ NoneAsked' /\ Replied' \in Seq(Caller) => AnsweredCallers' = Replied'
  /\ \A c \in Caller : wake_me_up' = NoNode /\ At(c, "asked")' => AnsweredCallers' = <<c>> \o Replied'
  /\ \A c \in Caller : Woken(c)' /\ NoneAsked' => AnsweredCallers' = <<c>> \o Replied'
  <1>1. (/\ wake_me_up = NoNode /\ NoneAsked /\ Replied \in Seq(Caller) => AnsweredCallers = Replied
         /\ \A c \in Caller : wake_me_up = NoNode /\ At(c, "asked") => AnsweredCallers = <<c>> \o Replied
         /\ \A c \in Caller : Woken(c) /\ NoneAsked => AnsweredCallers = <<c>> \o Replied)'
    BY AnsweredAre, PTL
  <1>2. QED BY <1>1

(* What a step can do to the calls under way. *)
FlightMove ==
  \/ UNCHANGED <<Waiting, AnsweredCallers, AskedSet>>
  \/ \E c \in Caller \ AskedSet :
       /\ Waiting' = Append(Waiting, c) /\ AskedSet' = AskedSet \cup {c}
       /\ UNCHANGED AnsweredCallers
  \/ /\ Waiting # <<>> /\ Waiting' = Tail(Waiting)
     /\ AnsweredCallers' = Append(AnsweredCallers, Head(Waiting)) /\ UNCHANGED AskedSet
  \/ /\ AnsweredCallers # <<>> /\ AnsweredCallers' = Tail(AnsweredCallers)
     /\ AskedSet' = AskedSet \ {Head(AnsweredCallers)} /\ UNCHANGED Waiting

(* Those are the steps of HostRpc.                                         *)
LEMMA FlightMoves ==
  ASSUME Flight(Waiting, AnsweredCallers, AskedSet), FlightMove
  PROVE  Flight(Waiting, AnsweredCallers, AskedSet)' /\ [Rpc!Next]_(Rpc!vars)
  <1>1. PICK w, a, k : w = Waiting /\ a = AnsweredCallers /\ k = AskedSet
    OBVIOUS
  <1>2. PICK w1, a1, k1 : w1 = Waiting' /\ a1 = AnsweredCallers' /\ k1 = AskedSet'
    OBVIOUS
  <1>3. Flight(w, a, k)
    BY <1>1
  <1>4. \/ w1 = w /\ a1 = a /\ k1 = k
        \/ \E c \in Caller \ k : w1 = Append(w, c) /\ k1 = k \cup {c} /\ a1 = a
        \/ w # <<>> /\ w1 = Tail(w) /\ a1 = Append(a, Head(w)) /\ k1 = k
        \/ a # <<>> /\ a1 = Tail(a) /\ k1 = k \ {Head(a)} /\ w1 = w
    BY <1>1, <1>2 DEF FlightMove
  <1>5. /\ Flight(w1, a1, k1)
        /\ \/ w1 = w /\ a1 = a
           \/ \E c \in Caller \ (Range(w) \cup Range(a)) : w1 = Append(w, c) /\ a1 = a
           \/ w # <<>> /\ w1 = Tail(w) /\ a1 = Append(a, Head(w))
           \/ a # <<>> /\ a1 = Tail(a) /\ w1 = w
    <2>1. CASE w1 = w /\ a1 = a /\ k1 = k
      BY <1>3, <2>1
    <2>2. ASSUME NEW c \in Caller \ k, w1 = Append(w, c), k1 = k \cup {c}, a1 = a
          PROVE  Flight(w1, a1, k1) /\ c \in Caller \ (Range(w) \cup Range(a))
      BY <1>3, <2>2, FlightAsk
    <2>3. CASE w # <<>> /\ w1 = Tail(w) /\ a1 = Append(a, Head(w)) /\ k1 = k
      BY <1>3, <2>3, FlightServe
    <2>4. CASE a # <<>> /\ a1 = Tail(a) /\ k1 = k \ {Head(a)} /\ w1 = w
      BY <1>3, <2>4, FlightReturn
    <2>5. QED BY <1>4, <2>1, <2>2, <2>3, <2>4
  <1>6. Flight(Waiting, AnsweredCallers, AskedSet)' <=> Flight(w1, a1, k1)
    BY <1>2 DEF Flight
  <1>7. [Rpc!Next]_(Rpc!vars)
    <2>1. CASE w1 = w /\ a1 = a
      BY <1>1, <1>2, <2>1 DEF Rpc!vars
    <2>2. CASE \E c \in Caller \ (Range(w) \cup Range(a)) : w1 = Append(w, c) /\ a1 = a
      <3>1. \E c \in Caller : Rpc!Ask(c)
        BY <1>1, <1>2, <2>2 DEF Rpc!Ask, Range, Rpc!Range
      <3>2. QED BY <3>1 DEF Rpc!Next
    <2>3. CASE w # <<>> /\ w1 = Tail(w) /\ a1 = Append(a, Head(w))
      BY <1>1, <1>2, <2>3 DEF Rpc!Next, Rpc!Serve
    <2>4. CASE a # <<>> /\ a1 = Tail(a) /\ w1 = w
      <3>1. Head(a) \in Caller
        BY <1>3, <2>4 DEF Flight
      <3>2. Rpc!Return(Head(a))
        BY <1>1, <1>2, <2>4 DEF Rpc!Return
      <3>3. QED BY <3>1, <3>2 DEF Rpc!Next
    <2>5. QED BY <1>5, <2>1, <2>2, <2>3, <2>4
  <1>8. QED BY <1>5, <1>6, <1>7

(* Nobody has asked and runs when a task runs that has not asked, nor when *)
(* none runs.                                                              *)
LEMMA NotAsked ==
  /\ phase # "run" => NoneAsked
  /\ \A t : Runs(t) /\ (t \in Caller => line[t] # "asked") => NoneAsked
  BY DEF NoneAsked, At, Runs

(* The same after a step.                                                  *)
LEMMA NotAskedAfter ==
  /\ phase' # "run" => NoneAsked'
  /\ \A t : Runs(t)' /\ (t \in Caller => line'[t] # "asked") => NoneAsked'
  BY DEF NoneAsked, At, Runs

(* A step in which nobody who has asked runs, before or after.             *)
LEMMA QuietFlight ==
  ASSUME BackInv, Replied \in Seq(Caller), NoneAsked, NoneAsked',
         Waiting' = Waiting, Replied' = Replied, wake_me_up' = wake_me_up,
         \A c \in Caller : line'[c] = "asked" <=> line[c] = "asked",
         \A c \in Caller : line'[c] = "returned" \/ line[c] = "asked" => ret'[c] = ret[c],
         \A c \in Caller : line'[c] = "returned" => line[c] = "returned",
         \A c \in Caller : Woken(c) => line[c] = "asked"
  PROVE  FlightMove /\ BackInv'
  <1>1. AskedSet' = AskedSet
    BY DEF AskedSet
  <1>2. \A c \in Caller : Woken(c) => Woken(c)'
    BY DEF Woken, Own
  <1>3. AnsweredCallers' = AnsweredCallers
    <2>1. CASE wake_me_up = NoNode
      <3>1. AnsweredCallers = Replied /\ AnsweredCallers' = Replied'
        BY <2>1, AnsweredAre, AnsweredAfter
      <3>2. QED BY <3>1
    <2>2. CASE wake_me_up # NoNode
      <3>1. PICK c \in Caller : Woken(c)
        BY <2>2 DEF BackInv
      <3>2. Woken(c)'
        BY <1>2, <3>1
      <3>3. AnsweredCallers = <<c>> \o Replied /\ AnsweredCallers' = <<c>> \o Replied'
        BY <3>1, <3>2, AnsweredAre, AnsweredAfter, Zenon
      <3>4. QED BY <3>3
    <2>3. QED BY <2>1, <2>2
  <1>4. BackInv'
    <2>1. wake_me_up' # NoNode => \E c \in Caller : Woken(c)'
      BY <1>2 DEF BackInv
    <2>2. \A c \in Caller : line'[c] = "returned" => Own(c)'
      BY DEF BackInv, Own
    <2>3. \A c \in Caller : ~ At(c, "asked")'
      BY DEF NoneAsked
    <2>4. QED BY <2>1, <2>2, <2>3 DEF BackInv
  <1>5. QED BY <1>1, <1>3, <1>4 DEF FlightMove

(* A step of the host, the network or the clock.                           *)
LEMMA StillFlight ==
  ASSUME BackInv, Waiting \in Seq(Caller), Replied \in Seq(Caller),
         UNCHANGED <<line, wake_me_up, ret, phase, task_stack>>,
         \/ Waiting' = Waiting /\ Replied' = Replied
         \/ /\ Waiting # <<>> /\ Waiting' = Tail(Waiting)
            /\ Replied' = Append(Replied, Head(Waiting))
  PROVE  FlightMove /\ BackInv'
  <1>1. /\ AskedSet' = AskedSet /\ \A c \in Caller : Woken(c)' <=> Woken(c)
        /\ \A c \in Caller : At(c, "asked")' <=> At(c, "asked")
        /\ NoneAsked' <=> NoneAsked
    BY DEF AskedSet, Woken, Own, At, Runs, NoneAsked
  <1>2. BackInv'
    <2>1. wake_me_up' # NoNode => NoneAsked' /\ \E c \in Caller : Woken(c)'
      BY <1>1 DEF BackInv
    <2>2. \A c \in Caller : line'[c] = "returned" \/ At(c, "asked")' => Own(c)'
      BY <1>1 DEF BackInv, Own
    <2>3. QED BY <2>1, <2>2 DEF BackInv
  <1>3. Replied' \in Seq(Caller)
    BY RangeTail, RangeAppend
  <1>4. \/ /\ AnsweredCallers = Replied /\ AnsweredCallers' = Replied'
        \/ \E c \in Caller : /\ AnsweredCallers = <<c>> \o Replied
                             /\ AnsweredCallers' = <<c>> \o Replied'
    <2>1. CASE wake_me_up = NoNode /\ NoneAsked
      BY <1>1, <1>3, <2>1, AnsweredAre, AnsweredAfter
    <2>2. CASE wake_me_up = NoNode /\ ~ NoneAsked
      <3>1. PICK c \in Caller : At(c, "asked")
        BY <2>2 DEF NoneAsked
      <3>2. At(c, "asked")' /\ wake_me_up' = NoNode
        BY <1>1, <2>2, <3>1
      <3>3. AnsweredCallers = <<c>> \o Replied /\ AnsweredCallers' = <<c>> \o Replied'
        BY <2>2, <3>1, <3>2, AnsweredAre, AnsweredAfter, Zenon
      <3>4. QED BY <3>3
    <2>3. CASE wake_me_up # NoNode
      <3>1. PICK c \in Caller : Woken(c) /\ NoneAsked
        BY <2>3 DEF BackInv
      <3>2. Woken(c)' /\ NoneAsked'
        BY <1>1, <3>1
      <3>3. AnsweredCallers = <<c>> \o Replied /\ AnsweredCallers' = <<c>> \o Replied'
        BY <3>1, <3>2, AnsweredAre, AnsweredAfter, Zenon
      <3>4. QED BY <3>3
    <2>4. QED BY <2>1, <2>2, <2>3
  <1>5. CASE Waiting' = Waiting /\ Replied' = Replied
    BY <1>1, <1>2, <1>4, <1>5 DEF FlightMove
  <1>6. CASE Waiting # <<>> /\ Waiting' = Tail(Waiting) /\ Replied' = Append(Replied, Head(Waiting))
    <2>1. PICK h \in Caller : h = Head(Waiting)
      BY <1>6, RangeTail
    <2>2. \A c \in Caller : Append(<<c>> \o Replied, h) = <<c>> \o Append(Replied, h)
      BY FrontedFacts
    <2>3. AnsweredCallers' = Append(AnsweredCallers, h)
      <3>1. CASE AnsweredCallers = Replied /\ AnsweredCallers' = Replied'
        BY <1>6, <2>1, <3>1
      <3>2. ASSUME NEW c \in Caller, AnsweredCallers = <<c>> \o Replied, AnsweredCallers' = <<c>> \o Replied'
            PROVE  AnsweredCallers' = Append(AnsweredCallers, h)
        BY <1>6, <2>1, <2>2, <3>2, Zenon
      <3>3. QED BY <1>4, <3>1, <3>2
    <2>4. QED BY <1>1, <1>2, <1>6, <2>1, <2>3 DEF FlightMove
  <1>7. QED BY <1>5, <1>6

(* The reader has the caller at the front woken.                           *)
LEMMA AnswerFlight ==
  ASSUME BridgeIndInv, ReaderAnswers
  PROVE  FlightMove /\ BackInv' /\ wake_me_up' \in Pointer /\ \E c \in Caller : Woken(c)'
  <1> USE Names
  <1>1. PlaceInv /\ BridgeTypes /\ RxInv /\ StreamInv /\ FlightInv /\ ReaderInv
    BY DEF BridgeIndInv
  <1>2. /\ Runs(Reader) /\ ReturnDetach(Reader) /\ line' = [line EXCEPT ![Reader] = "start"]
    BY DEF ReaderAnswers, GoTo
  <1>3. /\ wake_me_up = NoNode /\ NoneAsked /\ phase' = "pick" /\ NoneAsked'
    <2>1. Reader \notin detached
      BY <1>1, <1>2, RunningTask
    <2>2. NoneAsked
      BY <1>2, NotAsked
    <2>3. phase' = "pick"
      BY <1>1, <1>2, ReturnMoves
    <2>4. QED BY <1>1, <2>1, <2>2, <2>3, NotAskedAfter DEF ReaderInv
  <1>4. /\ Replied # <<>> /\ Replied \in Seq(Caller) /\ Waiting' = Waiting /\ Replied' = Tail(Replied)
        /\ ret' = [ret EXCEPT ![Head(Replied)] = Field("data", Head(Replied), 0, Ret[Head(Replied)])]
        /\ wake_me_up' = [task |-> Head(Replied), frame |-> 2]
    BY <1>1, Answers, AnswerStream
  <1>5. PICK c \in Caller : c = Head(Replied)
    BY <1>4, RangeTail
  <1>6. line[c] = "asked"
    <2>1. AnsweredCallers = Replied
      BY <1>3, <1>4, AnsweredAre
    <2>2. c \in Range(AnsweredCallers)
      BY <1>4, <1>5, <2>1, RangeTail
    <2>3. QED BY <1>1, <2>2 DEF FlightInv
  <1>7. 2 \in 1 .. MaxDepth
    <2>1. depth[c] = 2
      BY <1>6 DEF BridgeIndInv, CallerInv, CallerFrames
    <2>2. depth[c] \in 0 .. MaxDepth
      BY <1>1 DEF PlaceInv, TypeOK
    <2>3. QED BY <2>1, <2>2
  <1>8. wake_me_up' \in [task : Task, frame : 1 .. MaxDepth] /\ wake_me_up' # NoNode
    BY <1>4, <1>5, <1>7
  <1>9. ret \in [Caller -> Seq(Byte)] /\ line \in [Task -> Lines]
    BY <1>1 DEF BridgeTypes
  <1>10. Own(c)' /\ \A d \in Caller \ {c} : ret'[d] = ret[d]
    BY <1>4, <1>5, <1>9 DEF Own
  <1>11. Woken(c)'
    BY <1>4, <1>5, <1>8, <1>10 DEF Woken
  <1>12. AnsweredCallers' = AnsweredCallers
    <2>1. AnsweredCallers = Replied
      BY <1>3, <1>4, AnsweredAre
    <2>2. AnsweredCallers' = <<c>> \o Replied'
      BY <1>3, <1>11, AnsweredAfter, Zenon
    <2>3. <<Head(Replied)>> \o Tail(Replied) = Replied
      BY <1>4, FrontedFacts, <1>5
    <2>4. QED BY <1>4, <1>5, <2>1, <2>2, <2>3, Zenon
  <1>13. \A d \in Caller : line'[d] = line[d]
    BY <1>2, <1>9
  <1>14. AskedSet' = AskedSet
    BY <1>13 DEF AskedSet
  <1>15. BackInv'
    <2>1. \A d \in Caller : line'[d] = "returned" => Own(d)'
      <3>1. \A d \in Caller \ {c} : line[d] = "returned" => Own(d)'
        BY <1>1, <1>10 DEF FlightInv, Own
      <3>2. QED BY <1>10, <1>13, <3>1
    <2>2. \A d \in Caller : ~ At(d, "asked")'
      BY <1>3 DEF NoneAsked
    <2>3. QED BY <1>3, <1>11, <2>1, <2>2 DEF BackInv
  <1>16. QED BY <1>4, <1>8, <1>11, <1>12, <1>14, <1>15 DEF FlightMove, Pointer

(* The calls under way are those that FlightInv says.                      *)
LEMMA FlightNow ==
  ASSUME BridgeIndInv
  PROVE  /\ Waiting \in Seq(Caller) /\ Replied \in Seq(Caller)
         /\ Flight(Waiting, AnsweredCallers, AskedSet) /\ BackInv
         /\ \A c \in Caller : Woken(c) => line[c] = "asked"
  <1>1. BridgeTypes /\ StreamInv /\ FlightInv
    BY DEF BridgeIndInv
  <1>2. Waiting \in Seq(Caller) /\ Replied \in Seq(Caller)
    BY <1>1, OutgoingParts, IncomingParts
  <1>3. BackInv
    BY <1>1 DEF FlightInv, BackInv, Woken, NoneAsked
  <1>4. AnsweredCallers \in Seq(Caller)
    <2>1. \A c \in Caller : <<c>> \o Replied \in Seq(Caller)
      BY <1>2
    <2>2. CASE wake_me_up = NoNode /\ NoneAsked
      BY <1>2, <2>2, AnsweredAre
    <2>3. CASE wake_me_up = NoNode /\ ~ NoneAsked
      <3>1. PICK c \in Caller : At(c, "asked")
        BY <2>3 DEF NoneAsked
      <3>2. AnsweredCallers = <<c>> \o Replied
        BY <2>3, <3>1, AnsweredAre, Zenon
      <3>3. QED BY <2>1, <3>2
    <2>4. CASE wake_me_up # NoNode
      <3>1. PICK c \in Caller : Woken(c) /\ NoneAsked
        BY <1>3, <2>4 DEF BackInv
      <3>2. AnsweredCallers = <<c>> \o Replied
        BY <3>1, AnsweredAre, Zenon
      <3>3. QED BY <2>1, <3>2
    <2>5. QED BY <2>2, <2>3, <2>4
  <1>5. \A c \in Caller : Woken(c) => line[c] = "asked"
    BY <1>1, WokenHasAsked DEF Woken
  <1>6. QED BY <1>1, <1>2, <1>3, <1>4, <1>5, FlightParts

(* A call is made.                                                         *)
LEMMA TransmitFlight ==
  ASSUME BridgeIndInv, NEW c \in Caller, host_transmit(c)
  PROVE  FlightMove /\ BackInv'
  <1> USE Names
  <1>1. PlaceInv /\ BridgeTypes /\ StreamInv /\ CallerInv(c) /\ BackInv /\ Replied \in Seq(Caller)
    BY FlightNow DEF BridgeIndInv
  <1>2. /\ Runs(c) /\ line[c] = "transmit" /\ line' = [line EXCEPT ![c] = "asked"]
        /\ ReturnDetach(c) /\ UNCHANGED <<wake_me_up, ret>> /\ line \in [Task -> Lines]
    BY <1>1 DEF host_transmit, At, GoTo, BridgeTypes
  <1>3. NoneAsked /\ NoneAsked'
    <2>1. phase' = "pick"
      BY <1>1, <1>2, ReturnMoves
    <2>2. QED BY <1>2, <2>1, NotAsked, NotAskedAfter
  <1>4. Waiting' = Append(Waiting, c) /\ Replied' = Replied
    BY <1>1, TransmitStream
  <1>5. \A d \in Caller : line'[d] = IF d = c THEN "asked" ELSE line[d]
    BY <1>2
  <1>6. AskedSet' = AskedSet \cup {c} /\ c \notin AskedSet
    BY <1>2, <1>5 DEF AskedSet
  <1>7. \A d \in Caller : Woken(d) => Woken(d)'
    BY <1>2 DEF Woken, Own
  <1>8. AnsweredCallers' = AnsweredCallers
    <2>1. CASE wake_me_up = NoNode
      <3>1. AnsweredCallers = Replied /\ AnsweredCallers' = Replied'
        BY <1>1, <1>2, <1>3, <1>4, <2>1, AnsweredAre, AnsweredAfter
      <3>2. QED BY <1>4, <3>1
    <2>2. CASE wake_me_up # NoNode
      <3>1. PICK d \in Caller : Woken(d) /\ Woken(d)'
        BY <1>1, <1>7, <2>2 DEF BackInv
      <3>2. AnsweredCallers = <<d>> \o Replied /\ AnsweredCallers' = <<d>> \o Replied'
        BY <1>3, <3>1, AnsweredAre, AnsweredAfter, Zenon
      <3>3. QED BY <1>4, <3>2
    <2>3. QED BY <2>1, <2>2
  <1>9. BackInv'
    <2>1. wake_me_up' # NoNode => \E d \in Caller : Woken(d)'
      BY <1>1, <1>2, <1>7 DEF BackInv
    <2>2. \A d \in Caller : line'[d] = "returned" => Own(d)'
      BY <1>1, <1>2, <1>5 DEF BackInv, Own
    <2>3. \A d \in Caller : ~ At(d, "asked")'
      BY <1>3 DEF NoneAsked
    <2>4. QED BY <1>3, <2>1, <2>2, <2>3 DEF BackInv
  <1>10. QED BY <1>4, <1>6, <1>8, <1>9 DEF FlightMove

(* The caller that runs has its answer, and returns.                       *)
LEMMA ReturnFlight ==
  ASSUME BridgeIndInv, NEW c \in Caller, host_transmit_returns(c)
  PROVE  FlightMove /\ BackInv'
  <1> USE Names
  <1>1. /\ PlaceInv /\ BridgeTypes /\ RxInv /\ StreamInv /\ ControlInv /\ CallerInv(c) /\ BackInv
        /\ Replied \in Seq(Caller)
    BY FlightNow DEF BridgeIndInv, ControlInv
  <1>2. /\ At(c, "asked") /\ Runs(c) /\ line[c] = "asked" /\ line' = [line EXCEPT ![c] = "returned"]
        /\ ReturnDone(c) /\ UNCHANGED <<wake_me_up, ret>> /\ line \in [Task -> Lines]
    BY <1>1 DEF host_transmit_returns, At, GoTo, BridgeTypes
  <1>3. wake_me_up = NoNode /\ wake_me_up' = NoNode
    BY <1>1, <1>2 DEF BackInv, NoneAsked
  <1>4. NoneAsked'
    <2>1. depth[c] = 2
      BY <1>1, <1>2, RunningTask DEF CallerInv, CallerFrames
    <2>2. phase' = "pick"
      BY <1>1, <1>2, <2>1, ReturnMoves
    <2>3. QED BY <2>2, NotAskedAfter
  <1>5. Waiting' = Waiting /\ Replied' = Replied
    BY <1>1, QuietStream DEF Quiet
  <1>6. \A d \in Caller : line'[d] = IF d = c THEN "returned" ELSE line[d]
    BY <1>2
  <1>7. AskedSet' = AskedSet \ {c}
    BY <1>6 DEF AskedSet
  <1>8. AnsweredCallers = <<c>> \o Replied /\ AnsweredCallers' = Replied
    <2>1. AnsweredCallers = <<c>> \o Replied
      BY <1>2, <1>3, AnsweredAre, Zenon
    <2>2. AnsweredCallers' = Replied'
      BY <1>1, <1>3, <1>4, <1>5, AnsweredAfter
    <2>3. QED BY <1>5, <2>1, <2>2
  <1>9. AnsweredCallers # <<>> /\ Head(AnsweredCallers) = c /\ Tail(AnsweredCallers) = Replied
    <2>1. /\ <<c>> \o Replied # <<>> /\ Head(<<c>> \o Replied) = c
          /\ Tail(<<c>> \o Replied) = Replied
      BY <1>1, FrontedFacts
    <2>2. QED BY <1>8, <2>1, Zenon
  <1>10. BackInv'
    <2>1. \A d \in Caller : line'[d] = "returned" => Own(d)'
      BY <1>1, <1>2, <1>6 DEF BackInv, Own
    <2>2. \A d \in Caller : ~ At(d, "asked")'
      BY <1>4 DEF NoneAsked
    <2>3. QED BY <1>3, <2>1, <2>2 DEF BackInv
  <1>11. QED BY <1>5, <1>7, <1>8, <1>9, <1>10 DEF FlightMove

(* The wait wakes the caller whose wake-up is pending.                     *)
LEMMA WakeFlight ==
  ASSUME BridgeIndInv, WaitWakes
  PROVE  FlightMove /\ BackInv' /\ wake_me_up' = NoNode
  <1> USE Names
  <1>1. /\ PlaceInv /\ BridgeTypes /\ RxInv /\ StreamInv /\ ControlInv /\ BackInv
        /\ Replied \in Seq(Caller)
    BY FlightNow DEF BridgeIndInv, ControlInv
  <1>2. PICK c \in Caller : Woken(c) /\ c \in detached /\ line[c] = "asked" /\ Evented(c)
    BY WaitsMove DEF Woken
  <1>3. wake_me_up' = NoNode /\ line' = line /\ ret' = ret
    BY DEF WaitWakes, WakeMeUpTaken
  <1>4. NoneAsked
    BY <1>1, <1>2 DEF BackInv, Woken
  <1>5. Runs(c)' /\ \A d \in Task : Runs(d)' => d = c
    <2>1. GoesTo(c, "run")
      BY <1>1, <1>2, PickMoves
    <2>2. QED BY <2>1 DEF GoesTo, Runs
  <1>6. At(c, "asked")' /\ \A d \in Caller : At(d, "asked")' => d = c
    BY <1>2, <1>3, <1>5 DEF At
  <1>7. Waiting' = Waiting /\ Replied' = Replied
    BY <1>1, QuietStream DEF Quiet, Waits
  <1>8. AskedSet' = AskedSet
    BY <1>3 DEF AskedSet
  <1>9. AnsweredCallers = <<c>> \o Replied /\ AnsweredCallers' = <<c>> \o Replied'
    BY <1>2, <1>3, <1>4, <1>6, AnsweredAre, AnsweredAfter, Zenon
  <1>10. Own(c)
    BY <1>2 DEF Woken
  <1>11. BackInv'
    BY <1>1, <1>3, <1>6, <1>10 DEF BackInv, Own
  <1>12. QED BY <1>3, <1>7, <1>8, <1>9, <1>11 DEF FlightMove

(* The steps in which no caller that has asked takes part.                 *)
LEMMA ApartFlight ==
  ASSUME BridgeIndInv, NoneAsked, NoneAsked', wake_me_up' = wake_me_up,
         Waiting' = Waiting, Replied' = Replied,
         \A c \in Caller : line'[c] = "asked" <=> line[c] = "asked",
         \A c \in Caller : line'[c] = "returned" \/ line[c] = "asked" => ret'[c] = ret[c],
         \A c \in Caller : line'[c] = "returned" => line[c] = "returned"
  PROVE  FlightMove /\ BackInv'
  BY FlightNow, QuietFlight

(* What a turn of the writer, or of the reader, does to its stack. *)
Activity(t) ==
  \/ ReturnDetach(t) \/ ReturnAwait(t) \/ UNCHANGED asyncVars
  \/ ReturnDone(t) /\ depth[t] > 1

(* Such are the steps of the writer and of the reader, but for its answers, *)
(* ...                                                                     *)
LEMMA ServerFlight ==
  ASSUME BridgeIndInv, Writes \/ ReaderAwaits \/ SubReceives \/ SubBlocks
  PROVE  FlightMove /\ BackInv'
  <1> USE Names
  <1>1. /\ PlaceInv /\ BridgeTypes /\ RxInv /\ StreamInv /\ ControlInv /\ line \in [Task -> Lines]
    BY DEF BridgeIndInv, ControlInv, BridgeTypes
  <1>2. PICK t \in {Writer, Reader} :
          /\ Runs(t) /\ Activity(t)
          /\ \A u \in Task \ {t} : line'[u] = line[u]
          /\ UNCHANGED <<wake_me_up, ret>>
    <2>1. CASE Writes
      <3>1. Runs(Writer) /\ Activity(Writer) /\ UNCHANGED <<wake_me_up, ret>>
        BY <2>1 DEF Activity, Writes, WriterStarts, WriterSends, Sends, WriterBlocks, At, asyncVars
      <3>2. \A u \in Task \ {Writer} : line'[u] = line[u]
        BY <1>1, <2>1 DEF Writes, WriterStarts, WriterSends, WriterBlocks, GoTo
      <3>3. QED BY <3>1, <3>2
    <2>2. CASE ReaderAwaits \/ SubReceives \/ SubBlocks
      <3>1. Runs(Reader) /\ Activity(Reader) /\ UNCHANGED <<wake_me_up, ret>>
        BY <2>2 DEF Activity, ReaderAwaits, SubReceives, SubBlocks
      <3>2. \A u \in Task \ {Reader} : line'[u] = line[u]
        BY <1>1, <2>2 DEF ReaderAwaits, SubReceives, SubBlocks, GoTo
      <3>3. QED BY <3>1, <3>2
    <2>3. QED BY <2>1, <2>2
  <1>3. NoneAsked
    BY <1>2, NotAsked
  <1>4. NoneAsked'
    <2>1. phase' = "pick" \/ Runs(t)'
      <3>1. CASE UNCHANGED asyncVars
        BY <1>2, <3>1 DEF asyncVars, vars, timers, locks, Runs
      <3>2. CASE ~ UNCHANGED asyncVars
        BY <1>1, <1>2, <3>2, ReturnMoves DEF Activity
      <3>3. QED BY <3>1, <3>2
    <2>2. QED BY <2>1, NotAskedAfter
  <1>5. Waiting' = Waiting /\ Replied' = Replied
    <2>1. Carries \/ Quiet
      BY DEF Writes, Carries, Quiet
    <2>2. QED BY <1>1, <2>1, QuietStream
  <1>6. \A c \in Caller : line'[c] = line[c] /\ ret'[c] = ret[c]
    BY <1>2
  <1>7. QED BY <1>2, <1>3, <1>4, <1>5, <1>6, ApartFlight

(* ... of the callers between calls, ...                                   *)
LEMMA CallerFlight ==
  ASSUME BridgeIndInv, NEW c \in Caller, CallerSleeps(c) \/ CallerCalls(c)
  PROVE  FlightMove /\ BackInv'
  <1> USE Names
  <1>1. /\ PlaceInv /\ BridgeTypes /\ RxInv /\ StreamInv /\ ControlInv
        /\ line \in [Task -> Lines] /\ ret \in [Caller -> Seq(Byte)]
    BY DEF BridgeIndInv, ControlInv, BridgeTypes
  <1>2. /\ Runs(c) /\ line[c] \in {"start", "returned", "slept"} /\ wake_me_up' = wake_me_up
        /\ \E where \in {"slept", "transmit"} : line' = [line EXCEPT ![c] = where]
        /\ ret' = ret \/ ret' = [ret EXCEPT ![c] = <<>>]
    BY DEF CallerSleeps, CallerCalls, At, GoTo
  <1>3. phase' = "pick"
    BY <1>1, <1>2, ReturnMoves DEF CallerSleeps, CallerCalls
  <1>4. NoneAsked /\ NoneAsked'
    BY <1>2, <1>3, NotAsked, NotAskedAfter
  <1>5. Waiting' = Waiting /\ Replied' = Replied
    BY <1>1, QuietStream DEF Quiet
  <1>6. /\ line'[c] \in {"slept", "transmit"}
        /\ \A d \in Caller \ {c} : line'[d] = line[d] /\ ret'[d] = ret[d]
    BY <1>1, <1>2
  <1>7. QED BY <1>2, <1>4, <1>5, <1>6, ApartFlight

(* ... and those that start a stack or pick one that was not woken.        *)
LEMMA PickFlight ==
  ASSUME BridgeIndInv, Boot \/ WaitPolls \/ WaitTimesOut
  PROVE  FlightMove /\ BackInv'
  <1> USE Names
  <1>1. /\ PlaceInv /\ BridgeTypes /\ RxInv /\ StreamInv /\ ControlInv
        /\ \A c \in Caller : CallerInv(c)
    BY DEF BridgeIndInv, ControlInv
  <1>2. UNCHANGED <<line, wake_me_up, ret>>
    BY DEF Boot, WaitPolls, WaitTimesOut
  <1>3. phase # "run" /\ NoneAsked
    <2>1. phase # "run"
      BY DEF Boot, WaitPolls, Evented, WaitTimesOut, PickShortcut, PickScheduled
    <2>2. QED BY <2>1, NotAsked
  <1>4. NoneAsked'
    <2>1. CASE Boot
      <3>1. phase' # "run"
        BY <2>1 DEF Boot, async_spawn, EnterLoop
      <3>2. QED BY <3>1, NotAskedAfter
    <2>2. CASE WaitPolls
      <3>1. PICK t \in {Writer, Reader} : t \in detached /\ Evented(t)
        BY <2>2, WaitsMove
      <3>2. Runs(t)'
        BY <1>1, <3>1, PickMoves DEF GoesTo
      <3>3. QED BY <3>2, NotAskedAfter
    <2>3. CASE WaitTimesOut
      <3>1. PickShortcut \/ PickScheduled
        BY <2>3 DEF WaitTimesOut
      <3>2. PICK t \in Task : /\ shortcut_task_stack = t \/ t \in Queued
                              /\ GoesTo(t, "run")
        BY <1>1, <3>1, PickMoves
      <3>3. Runs(t)'
        BY <3>2 DEF GoesTo
      <3>4. t \in Caller => line'[t] # "asked"
        BY <1>1, <1>2, <3>2 DEF CallerInv
      <3>5. QED BY <3>3, <3>4, NotAskedAfter
    <2>4. QED BY <2>1, <2>2, <2>3
  <1>5. Waiting' = Waiting /\ Replied' = Replied
    BY <1>1, QuietStream DEF Quiet, Waits
  <1>6. QED BY <1>2, <1>3, <1>4, <1>5, ApartFlight

(* Every step keeps account of the calls under way, and is one of HostRpc. *)
LEMMA FlightStep ==
  ASSUME BridgeIndInv, [BridgeNext]_bridgeVars
  PROVE  FlightInv' /\ [Rpc!Next]_(Rpc!vars)
  <1> USE Names
  <1>1. FlightMove /\ BackInv'
    <2>1. CASE \E c \in Caller : Calls(c)
      BY <2>1, CallerFlight, TransmitFlight, ReturnFlight DEF Calls
    <2>2. CASE Writes \/ Reads
      BY <2>2, ServerFlight, AnswerFlight DEF Reads
    <2>3. CASE Boot \/ Waits
      BY <2>3, PickFlight, WakeFlight DEF Waits
    <2>4. CASE Clock \/ HostReads \/ Deliver \/ UNCHANGED bridgeVars
      <3>1. /\ BridgeTypes /\ RxInv /\ StreamInv /\ ControlInv
            /\ BackInv /\ Waiting \in Seq(Caller) /\ Replied \in Seq(Caller)
        BY FlightNow DEF BridgeIndInv, ControlInv
      <3>2. UNCHANGED <<line, wake_me_up, ret, phase, task_stack>>
        <4>1. Clock \/ Deliver \/ UNCHANGED bridgeVars =>
                UNCHANGED <<line, wake_me_up, ret, phase, task_stack>>
          BY DEF Clock, Tick, Deliver, bridgeVars, asyncVars, vars, timers, locks
        <4>2. HostReads => UNCHANGED asyncVars /\ UNCHANGED <<line, wake_me_up, ret>>
          BY Zenon DEF HostReads
        <4>3. UNCHANGED asyncVars => UNCHANGED <<phase, task_stack>>
          BY DEF asyncVars, vars, timers, locks
        <4>4. QED BY <2>4, <4>1, <4>2, <4>3
      <3>3. \/ Waiting' = Waiting /\ Replied' = Replied
            \/ /\ Waiting # <<>> /\ Waiting' = Tail(Waiting)
               /\ Replied' = Append(Replied, Head(Waiting))
        BY <2>4, <3>1, QuietStream, HostStream DEF Carries, Quiet
      <3>4. QED BY <3>1, <3>2, <3>3, StillFlight
    <2>5. QED BY <2>1, <2>2, <2>3, <2>4 DEF BridgeNext, Phone
  <1>2. Flight(Waiting, AnsweredCallers, AskedSet)' /\ [Rpc!Next]_(Rpc!vars)
    BY <1>1, FlightNow, FlightMoves
  <1>3. (Waiting \in Seq(Caller) /\ AnsweredCallers \in Seq(Caller) =>
          (FlightInv <=> Flight(Waiting, AnsweredCallers, AskedSet) /\ BackInv))'
    BY FlightParts, PTL
  <1>4. FlightInv'
    BY <1>1, <1>2, <1>3 DEF Flight
  <1>5. QED BY <1>2, <1>4

-----------------------------------------------------------------------------
(* The invariant *)

(* A wake-up is set when there is none, by the reader, and taken by the    *)
(* wait that delivers it.                                                  *)
LEMMA WakeUps ==
  ASSUME BridgeIndInv, [BridgeNext]_bridgeVars
  PROVE  /\ wake_me_up' \in Pointer
         /\ \/ wake_me_up' = wake_me_up
            \/ wake_me_up = NoNode
            \/ wake_me_up' = NoNode /\ phase' = "run" /\ task_stack' = wake_me_up.task
  <1> USE Names
  <1>1. PlaceInv /\ ReaderInv /\ wake_me_up \in Pointer
    BY DEF BridgeIndInv, BridgeTypes
  <1>2. CASE ReaderAnswers
    <2>1. wake_me_up' \in Pointer
      BY <1>2, AnswerFlight
    <2>2. Reader \notin detached
      BY <1>1, <1>2, RunningTask DEF ReaderAnswers
    <2>3. QED BY <1>1, <2>1, <2>2 DEF ReaderInv
  <1>3. CASE WaitWakes
    <2>1. wake_me_up' = NoNode
      BY <1>3, WakeFlight
    <2>2. PICK c \in Caller : c \in detached /\ wake_me_up = [task |-> c, frame |-> 2] /\ Evented(c)
      BY <1>3, WaitsMove
    <2>3. GoesTo(c, "run")
      BY <1>1, <2>2, PickMoves
    <2>4. phase' = "run" /\ task_stack' = c
      BY <2>3 DEF GoesTo, Runs
    <2>5. wake_me_up.task = c
      BY <2>2
    <2>6. QED BY <2>1, <2>4, <2>5 DEF Pointer
  <1>4. CASE ~ ReaderAnswers /\ ~ WaitWakes
    <2>1. wake_me_up' = wake_me_up
      <3>1. Boot \/ WaitPolls \/ WaitTimesOut => wake_me_up' = wake_me_up
        BY DEF Boot, WaitPolls, WaitTimesOut
      <3>2. Writes \/ ReaderAwaits \/ SubReceives \/ SubBlocks => wake_me_up' = wake_me_up
        BY DEF Writes, WriterStarts, WriterSends, WriterBlocks, ReaderAwaits, SubReceives, SubBlocks
      <3>3. \A c \in Caller : Calls(c) => wake_me_up' = wake_me_up
        BY DEF Calls, CallerSleeps, CallerCalls, host_transmit, host_transmit_returns
      <3>4. Clock \/ Deliver \/ UNCHANGED bridgeVars => wake_me_up' = wake_me_up
        BY DEF Clock, Deliver, bridgeVars
      <3>5. HostReads => wake_me_up' = wake_me_up
        BY Zenon DEF HostReads
      <3>6. QED BY <1>4, <3>1, <3>2, <3>3, <3>4, <3>5 DEF BridgeNext, Phone, Reads, Waits
    <2>2. QED BY <1>1, <2>1
  <1>5. QED BY <1>2, <1>3, <1>4

(* The types of what a step writes into the other variables.               *)
LEMMA TypesStep ==
  ASSUME BridgeIndInv, [BridgeNext]_bridgeVars
  PROVE  BridgeTypes'
  <1> USE Names
  <1>1. /\ PlaceInv /\ BridgeTypes /\ RxInv /\ StreamInv /\ ControlInv
        /\ depth \in [Task -> 0 .. MaxDepth]
    BY DEF BridgeIndInv, ControlInv, PlaceInv, TypeOK
  <1>2. ByteTypes' /\ wake_me_up' \in Pointer
        /\ rx' \in [stack : Seq(Byte), ret : Seq(Byte), len : Seq(Byte), data : Seq(Byte)]
    BY <1>1, StreamStep, WakeUps, RxStep
  <1>3. line' \in [Task -> Lines]
    <2>1. line \in [Task -> Lines]
      BY <1>1 DEF BridgeTypes
    <2>2. \A t \in Task, where \in Lines : GoTo(t, where) => line' \in [Task -> Lines]
      BY <2>1 DEF GoTo
    <2>3. Writes => UNCHANGED line \/ GoTo(Writer, "sending")
      BY DEF Writes, WriterStarts, WriterSends, WriterBlocks
    <2>4. Reads => UNCHANGED line \/ \E where \in ReaderLines : GoTo(Reader, where)
      <3>1. ReaderAwaits => GoTo(Reader, NextField) /\ NextField \in ReaderLines
        <4>1. line[Reader] \in ReaderLines
          BY <1>1 DEF ControlInv, ReaderInv
        <4>2. QED BY <4>1 DEF ReaderAwaits, NextField, ReaderLines
      <3>2. QED BY <3>1 DEF Reads, ReaderAnswers, SubReceives, SubBlocks, ReaderLines
    <2>5. \A c \in Caller : Calls(c) => \E where \in CallerLines : GoTo(c, where)
      BY DEF Calls, CallerSleeps, CallerCalls, host_transmit, host_transmit_returns, CallerLines
    <2>6. Boot \/ Waits \/ Clock \/ Deliver \/ UNCHANGED bridgeVars => UNCHANGED line
      BY DEF Boot, Waits, WaitWakes, WaitPolls, WaitTimesOut, Clock, Deliver, bridgeVars
    <2>7. HostReads => UNCHANGED line
      BY Zenon DEF HostReads
    <2>8. QED BY <2>1, <2>2, <2>3, <2>4, <2>5, <2>6, <2>7 DEF BridgeNext, Phone, Lines
  <1>4. is_polling_write' \in BOOLEAN
    <2>1. is_polling_write \in BOOLEAN
      BY <1>1 DEF BridgeTypes
    <2>2. Boot \/ Waits \/ Reads \/ WriterStarts \/ WriterBlocks => UNCHANGED is_polling_write
      BY DEF Boot, Waits, WaitWakes, WaitPolls, WaitTimesOut, Reads, ReaderAwaits, ReaderAnswers,
             SubReceives, SubBlocks, WriterStarts, WriterBlocks, polling_after_EAGAIN, txVars
    <2>3. WriterSends => is_polling_write' = FALSE \/ UNCHANGED is_polling_write
      BY DEF WriterSends, Sends
    <2>4. \A c \in Caller : Calls(c) => is_polling_write' = TRUE \/ UNCHANGED is_polling_write
      BY DEF Calls, CallerSleeps, CallerCalls, host_transmit, host_transmit_returns, txVars
    <2>5. Clock \/ Deliver \/ UNCHANGED bridgeVars => UNCHANGED is_polling_write
      BY DEF Clock, Deliver, bridgeVars, txVars
    <2>6. HostReads => UNCHANGED is_polling_write
      BY Zenon DEF HostReads, txVars
    <2>7. QED BY <2>1, <2>2, <2>3, <2>4, <2>5, <2>6 DEF BridgeNext, Phone, Writes
  <1>5. ret' \in [Caller -> Seq(Byte)]
    <2>1. ret \in [Caller -> Seq(Byte)]
      BY <1>1 DEF BridgeTypes
    <2>2. CASE ReaderAnswers
      <3>1. PICK c \in Caller : ret' = [ret EXCEPT ![c] = Field("data", c, 0, Ret[c])]
        BY <1>1, <2>2, Answers, RangeTail
      <3>2. Field("data", c, 0, Ret[c]) \in Seq(Byte)
        <4>1. Ret[c] \in Nat /\ 0 \in Nat /\ "data" \in Kinds
          BY DEF Kinds
        <4>2. QED BY <4>1, FieldFacts
      <3>3. QED BY <2>1, <3>1, <3>2
    <2>3. ASSUME NEW c \in Caller, CallerSleeps(c)  PROVE ret' \in [Caller -> Seq(Byte)]
      BY <2>1, <2>3 DEF CallerSleeps
    <2>4. CASE ~ ReaderAnswers /\ \A c \in Caller : ~ CallerSleeps(c)
      <3>1. Boot \/ Waits \/ Writes \/ ReaderAwaits \/ SubReceives \/ SubBlocks => ret' = ret
        BY DEF Boot, Waits, WaitWakes, WaitPolls, WaitTimesOut, Writes, WriterStarts, WriterSends,
               WriterBlocks, ReaderAwaits, SubReceives, SubBlocks
      <3>2. \A c \in Caller : CallerCalls(c) \/ host_transmit(c) \/ host_transmit_returns(c) => ret' = ret
        BY DEF CallerCalls, host_transmit, host_transmit_returns
      <3>3. Clock \/ Deliver \/ UNCHANGED bridgeVars => ret' = ret
        BY DEF Clock, Deliver, bridgeVars
      <3>4. HostReads => ret' = ret
        BY Zenon DEF HostReads
      <3>5. QED BY <2>1, <2>4, <3>1, <3>2, <3>3, <3>4 DEF BridgeNext, Phone, Reads, Calls
    <2>5. QED BY <2>2, <2>3, <2>4
  <1>6. writer_stack' \in Pointer /\ reader_stack' \in Pointer
    <2>1. \A t \in Task : Runs(t) => Node(t) \in Pointer
      BY <1>1, RunningTask DEF Node, Pointer
    <2>2. writer_stack \in Pointer /\ reader_stack \in Pointer
      BY <1>1 DEF BridgeTypes
    <2>3. Boot \/ Waits \/ WriterSends \/ WriterBlocks \/ ReaderAwaits \/ SubReceives =>
            UNCHANGED <<writer_stack, reader_stack>>
      BY DEF Boot, Waits, WaitWakes, WaitPolls, WaitTimesOut, WriterSends, WriterBlocks,
             ReaderAwaits, SubReceives
    <2>4. WriterStarts => Runs(Writer) /\ writer_stack' = Node(Writer) /\ UNCHANGED reader_stack
      BY DEF WriterStarts, At
    <2>5. ReaderAnswers \/ SubBlocks =>
            Runs(Reader) /\ reader_stack' = Node(Reader) /\ UNCHANGED writer_stack
      BY DEF ReaderAnswers, SubBlocks, reader_stack_set
    <2>6. \A c \in Caller : Calls(c) => UNCHANGED <<writer_stack, reader_stack>>
      BY DEF Calls, CallerSleeps, CallerCalls, host_transmit, host_transmit_returns
    <2>7. Clock \/ Deliver \/ UNCHANGED bridgeVars => UNCHANGED <<writer_stack, reader_stack>>
      BY DEF Clock, Deliver, bridgeVars
    <2>8. HostReads => UNCHANGED <<writer_stack, reader_stack>>
      BY Zenon DEF HostReads
    <2>9. QED BY <2>1, <2>2, <2>3, <2>4, <2>5, <2>6, <2>7, <2>8 DEF BridgeNext, Phone, Writes, Reads
  <1>7. QED BY <1>2, <1>3, <1>4, <1>5, <1>6 DEF BridgeTypes, ByteTypes, Sent

(* The bridge starts with nothing under way.                               *)
LEMMA BridgeStarts ==
  ASSUME BridgeInit
  PROVE  BridgeIndInv /\ Rpc!Init
  <1> USE Names
  <1>1. PlaceInv /\ ScheduleSorted
    <2>1. Init
      BY DEF BridgeInit
    <2>2. QED BY <2>1, InitPlace DEF Init, ScheduleSorted
  <1>2. /\ phase = "boot" /\ schedule = <<>> /\ shortcut_task_stack = NoTask
        /\ depth = [t \in Task |-> 0] /\ detached = {} /\ Queued = {}
        /\ line = [t \in Task |-> "start"]
        /\ tx_queue = <<>> /\ front_i = 0 /\ is_polling_write = FALSE
        /\ writer_stack = NoNode /\ reader_stack = NoNode /\ wake_me_up = NoNode
        /\ rx = NothingRead /\ ret = [c \in Caller |-> <<>>]
        /\ toHost = <<>> /\ toPhone = <<>> /\ hostIn = <<>> /\ hostOut = <<>>
    BY DEF BridgeInit, Init, Queued, TasksOf, Range
  <1>3. BridgeTypes
    <2>1. /\ line \in [Task -> Lines] /\ is_polling_write \in BOOLEAN
          /\ writer_stack \in Pointer /\ reader_stack \in Pointer /\ wake_me_up \in Pointer
      BY <1>2 DEF Lines, CallerLines, Pointer
    <2>2. <<>> \in Seq(Byte) /\ <<>> \in Seq(Seq(Byte)) /\ Len(<<>>) = 0
      OBVIOUS
    <2>3. ret \in [Caller -> Seq(Byte)]
      BY <1>2, <2>2
    <2>4. rx \in [stack : Seq(Byte), ret : Seq(Byte), len : Seq(Byte), data : Seq(Byte)]
      BY <1>2, <2>2 DEF NothingRead
    <2>5. front_i \in 0 .. (IF tx_queue = <<>> THEN 0 ELSE Len(Head(tx_queue)))
      BY <1>2
    <2>6. Len(toHost) <= SndBuf
      BY <1>2, <2>2
    <2>7. QED BY <1>2, <2>1, <2>2, <2>3, <2>4, <2>5, <2>6, Zenon DEF BridgeTypes
  <1>4. \A t \in Task : ~ Runs(t)
    BY <1>2 DEF Runs
  <1>5. \A c \in Caller : CallerInv(c)
    BY <1>2 DEF CallerInv, CallerLines
  <1>6. WriterInv /\ ReaderInv
    BY <1>2, <1>4 DEF WriterInv, ReaderInv, ReaderLines, At
  <1>7. SpawnedInv
    <2>1. \A t \in {Writer, Reader}, w \in WakeTime : ~ Filed(t, w)
      <3>1. PlaceInv /\ TypeOK
        BY <1>1 DEF PlaceInv
      <3>2. QED BY <1>2, <3>1, QueuedIsFiled
    <2>2. QED BY <1>2, <2>1 DEF SpawnedInv
  <1>8. RxInv
    BY <1>2 DEF RxInv
  <1>9. Outgoing = <<>> /\ Incoming = <<>>
    BY <1>2 DEF Outgoing, Incoming, NothingRead
  <1>10. /\ <<>> \in Seq(Caller) /\ Joined(Requests, <<>>) = <<>> /\ Joined(Replies, <<>>) = <<>>
    <2>1. <<>> \in Seq(Caller)
      OBVIOUS
    <2>2. Joined(Requests, <<>>) = <<>> /\ Joined(Replies, <<>>) = <<>>
      BY StreamEnds, Zenon
    <2>3. QED BY <2>1, <2>2
  <1>11. Waiting = <<>> /\ Replied = <<>>
    BY <1>9, <1>10, StreamFacts, Zenon DEF Waiting, Replied
  <1>12. StreamInv
    BY <1>2, <1>9, <1>10, <1>11, Zenon DEF StreamInv
  <1>13. AnsweredCallers = <<>>
    BY <1>2, <1>4, <1>10, <1>11, AnsweredAre DEF NoneAsked, At
  <1>14. FlightInv
    <2>1. AskedSet = {}
      BY <1>2 DEF AskedSet
    <2>2. Flight(<<>>, <<>>, {})
      BY DEF Flight, IsInjective, Range
    <2>3. BackInv
      BY <1>2, <1>4 DEF BackInv, At
    <2>4. QED BY <1>10, <1>11, <1>13, <2>1, <2>2, <2>3, FlightParts
  <1>15. QED BY <1>1, <1>3, <1>5, <1>6, <1>7, <1>8, <1>11, <1>12, <1>13, <1>14 DEF BridgeIndInv, Rpc!Init

(* Every step preserves the invariant.                                     *)
LEMMA BridgeStep == BridgeIndInv /\ [BridgeNext]_bridgeVars => BridgeIndInv'
  <1> SUFFICES ASSUME BridgeIndInv, [BridgeNext]_bridgeVars  PROVE BridgeIndInv'
    OBVIOUS
  <1>1. PlaceInv' /\ ScheduleSorted'
    <2>1. PlaceInv /\ ScheduleSorted /\ TypeOK
      BY DEF BridgeIndInv, PlaceInv
    <2>2. QED BY <2>1, BridgeStepIsAsync, NextPlace, SortedStep
  <1>2. BridgeTypes' /\ ControlInv' /\ SpawnedInv'
    BY TypesStep, ControlStep, SpawnedStep
  <1>3. RxInv' /\ StreamInv'
    <2>1. PlaceInv /\ ControlInv /\ BridgeTypes /\ RxInv /\ StreamInv
      BY DEF BridgeIndInv, ControlInv
    <2>2. QED BY <2>1, RxStep, StreamStep
  <1>4. FlightInv'
    BY FlightStep
  <1>5. QED BY <1>1, <1>2, <1>3, <1>4 DEF BridgeIndInv, ControlInv

(* Between any two steps of the bridge, all of the above holds.            *)
THEOREM BridgeIndInvariant == BridgeSpec => []BridgeIndInv
  <1>1. BridgeInit => BridgeIndInv
    BY BridgeStarts
  <1>2. QED BY <1>1, BridgeStep, PTL DEF BridgeSpec

-----------------------------------------------------------------------------
(* What the bridge promises *)

(* The host finds whole requests, one after the other, however sends are   *)
(* cut and callers overlap.                                                *)
THEOREM Framing == BridgeSpec => []StreamIsRequests
  <1>1. BridgeIndInv => StreamIsRequests
    <2> SUFFICES ASSUME BridgeIndInv  PROVE StreamIsRequests
      OBVIOUS
    <2>1. PICK w \in Seq(Caller) : w = Waiting
      BY FlightNow
    <2>2. Outgoing = Joined(Requests, w)
      BY <2>1 DEF BridgeIndInv, StreamInv
    <2>3. [k \in DOMAIN w |-> Requests[w[k]]] = [k \in DOMAIN w |-> Request(w[k])]
      BY DEF Requests
    <2>4. QED BY <2>1, <2>2, <2>3, Zenon DEF StreamIsRequests, Waiting, Joined
  <1>2. QED BY <1>1, BridgeIndInvariant, PTL

(* The bridge's variables keep their types, the socket is polled for       *)
(* writing while there is something to write, the wait wakes only parked   *)
(* stacks at their tops, and every caller gets its own result, whole.      *)
THEOREM BridgeCorrect == BridgeSpec => []BridgeInv
  <1>1. BridgeIndInv => BridgeInv
    <2> SUFFICES ASSUME BridgeIndInv  PROVE BridgeInv
      OBVIOUS
    <2>1. PlaceInv /\ TypeOK /\ BridgeTypes /\ WriterInv
      BY DEF BridgeIndInv, PlaceInv
    <2>2. BridgeTypeOK
      BY <2>1 DEF BridgeTypes, BridgeTypeOK, Lines, CallerLines, ReaderLines
    <2>3. PollingWhileQueued
      BY <2>1 DEF WriterInv, PollingWhileQueued
    <2>4. WakesParkedTop
      <3>1. SUFFICES ASSUME phase = "pick", shortcut_task_stack = NoTask,
                            schedule # <<>> => ~ async_time_is_null(Head(schedule).wake)
                     PROVE  LET Top(p) == p # NoNode /\ p.task \in detached /\ p.frame = depth[p.task]
                            IN  /\ wake_me_up # NoNode => Top(wake_me_up)
                                /\ Top(writer_stack) /\ Top(reader_stack)
        BY Zenon DEF WakesParkedTop
      <3>2. /\ Writer \in detached /\ depth[Writer] = 1 /\ writer_stack = [task |-> Writer, frame |-> 1]
            /\ Reader \in detached /\ reader_stack = [task |-> Reader, frame |-> depth[Reader]]
            /\ wake_me_up # NoNode => \E c \in Caller :
                 wake_me_up = [task |-> c, frame |-> 2] /\ c \in detached /\ depth[c] = 2
        BY <3>1, Parked
      <3>3. \A t \in detached : t \in Task /\ depth[t] \in 1 .. MaxDepth
        BY <2>1 DEF PlaceInv, TypeOK, LiveIsPlaced
      <3>4. QED BY <3>2, <3>3, Names
    <2>5. AnswersAreOwn
      BY FlightNow DEF BackInv, AnswersAreOwn, Own
    <2>6. QED BY <2>2, <2>3, <2>4, <2>5 DEF BridgeInv
  <1>2. QED BY <1>1, BridgeIndInvariant, PTL

(* No reply overwrites the wake-up of another: the wait delivers each.     *)
THEOREM WakeUpsDelivered == BridgeSpec => NoWakeupOverwritten
  <1>1. BridgeIndInv /\ [BridgeNext]_bridgeVars =>
          [wake_me_up # NoNode =>
             \/ wake_me_up' = wake_me_up
             \/ wake_me_up' = NoNode /\ phase' = "run" /\ task_stack' = wake_me_up.task]_bridgeVars
    BY WakeUps
  <1>2. QED BY <1>1, BridgeIndInvariant, PTL DEF BridgeSpec, NoWakeupOverwritten

(* The bridge drives async_loop as Async lets its event source drive it:   *)
(* only detached stacks are woken, and by their tops.                      *)
THEOREM BridgeIsAsync == BridgeSpec => ImplementsAsync
  <1>1. BridgeInit => Init
    BY DEF BridgeInit
  <1>2. BridgeIndInv /\ [BridgeNext]_bridgeVars => [Next]_vars
    BY BridgeStepIsAsync
  <1>3. QED BY <1>1, <1>2, BridgeIndInvariant, PTL DEF BridgeSpec, ImplementsAsync, Spec

(* host_transmit is a remote procedure call: calls are served in their     *)
(* order, each once, and return in that order.                             *)
THEOREM BridgeIsRpc == BridgeSpec => ImplementsHostRpc
  <1>1. BridgeInit => Rpc!Init
    BY BridgeStarts
  <1>2. BridgeIndInv /\ [BridgeNext]_bridgeVars => [Rpc!Next]_(Rpc!vars)
    BY FlightStep
  <1>3. QED BY <1>1, <1>2, BridgeIndInvariant, PTL DEF BridgeSpec, ImplementsHostRpc, Rpc!Spec

=============================================================================
