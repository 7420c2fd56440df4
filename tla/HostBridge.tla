----------------------------- MODULE HostBridge -----------------------------
(***************************************************************************)
(* mock-backend/host_bridge.c: host_transmit, the two tasks that move      *)
(* bytes over the socket, and host_wait_for_ms_or_event, the event source  *)
(* of async_loop.  The module is Async with its arbitrary functions        *)
(* replaced by these, plus callers that sleep and call host_transmit again *)
(* and again, as the display, encoder, button and file system code does.   *)
(* At the other end is the loop of mock-host/main.py.                      *)
(*                                                                         *)
(* Abstractions.                                                           *)
(*  - A byte says what it is a byte of: [kind, of, val, i] is byte i of the *)
(*    `kind' field of a request or reply of caller `of'.                    *)
(*  - A pointer to a task stack is a pointer to its top list node, so it is *)
(*    the task and the height of that node; a node is freed when its frame *)
(*    returns.  A pointer to a caller's ret field is the caller.           *)
(*  - Each send and recv is a step, since the host runs meanwhile; the rest *)
(*    of an activation goes with the system call before it.                *)
(*  - Error returns other than EAGAIN, and the end of the connection, which *)
(*    end the program, are left out.                                       *)
(***************************************************************************)
EXTENDS Async

CONSTANTS
  Writer, Reader,  \* the two tasks of host_bridge.c
  PtrLen,          \* sizeof(void *)
  SndBuf,          \* bytes the socket takes before send fails with EAGAIN
  Arg,             \* Arg[c]: bytes of argument in caller c's request (data->len)
  Ret,             \* Ret[c]: bytes of result the host sends c
  NoNode           \* NULL for a pointer to a list node

Caller == Task \ {Writer, Reader}

ASSUME BridgeAssumption ==
  /\ Writer \in Task /\ Reader \in Task /\ Writer # Reader
  /\ PtrLen \in Nat \ {0} /\ SndBuf \in Nat \ {0}
  /\ Arg \in [Caller -> Nat] /\ Ret \in [Caller -> 0 .. 255]
  /\ EventSource /\ Lock = {}
  /\ NoNode \notin [task : Task, frame : 1 .. MaxDepth]

VARIABLES
  line,             \* the suspension point each task will go on from
  tx_queue,         \* chunks not wholly sent, front first
  front_i,          \* bytes of the front chunk already sent
  is_polling_write, \* EPOLLOUT is in the poll set
  writer_stack, reader_stack, wake_me_up,  \* pointers to list nodes
  rx,               \* reader_task_data: the bytes read of each field so far
  ret,              \* data->ret of each caller, <<>> until the reader sets it
  toHost, toPhone,  \* bytes in the socket, each way
  hostIn, hostOut   \* the host: the request it has read so far, its unsent bytes

asyncVars == vars
txVars == <<tx_queue, front_i, is_polling_write>>
hostVars == <<hostIn, hostOut>>
bridgeVars == <<asyncVars, line, txVars, writer_stack, reader_stack, wake_me_up,
                rx, ret, toHost, toPhone, hostVars>>

Field(kind, c, val, n) == [i \in 1 .. n |-> [kind |-> kind, of |-> c, val |-> val, i |-> i]]

(* async_get_task_stack *)
Node(t) == [task |-> t, frame |-> depth[t]]

At(t, where) == Runs(t) /\ line[t] = where
GoTo(t, where) == line' = [line EXCEPT ![t] = where]

-----------------------------------------------------------------------------
(* The callers, and host_transmit *)

CallerSleeps(c) ==
  /\ At(c, "start") \/ At(c, "returned")
  /\ \E d \in 0 .. MaxSleep : ReturnSleep(c, d)
  /\ GoTo(c, "slept")
  /\ ret' = [ret EXCEPT ![c] = <<>>]
  /\ UNCHANGED <<txVars, writer_stack, reader_stack, wake_me_up, rx, toHost, toPhone, hostVars>>

CallerCalls(c) ==
  /\ At(c, "slept")
  /\ ReturnAwait(c)
  /\ GoTo(c, "transmit")
  /\ UNCHANGED <<txVars, writer_stack, reader_stack, wake_me_up, rx, ret, toHost, toPhone, hostVars>>

(* The five enque calls of host_transmit. *)
Chunks(c, node) ==
  << Field("code", c, 0, 1), Field("bytes", c, 0, Arg[c]), Field("size", c, PtrLen, 1),
     Field("stack", c, node.frame, PtrLen), Field("ret", c, 0, PtrLen) >>

Bug_front_i_reset(i, queue) == 0
front_i_after_push(i, queue) == IF queue = <<>> THEN 0 ELSE i

Bug_pushed_in_front(queue, chunks) == chunks \o queue
star_push(queue, chunks) == queue \o chunks

host_transmit(c) ==
  /\ At(c, "transmit")
  /\ tx_queue' = star_push(tx_queue, Chunks(c, Node(c)))
  /\ front_i' = front_i_after_push(front_i, tx_queue)
  /\ is_polling_write' = TRUE
  /\ ReturnDetach(c)
  /\ GoTo(c, "asked")
  /\ UNCHANGED <<writer_stack, reader_stack, wake_me_up, rx, ret, toHost, toPhone, hostVars>>

host_transmit_returns(c) ==
  /\ At(c, "asked")
  /\ ReturnDone(c)
  /\ GoTo(c, "returned")
  /\ UNCHANGED <<txVars, writer_stack, reader_stack, wake_me_up, rx, ret, toHost, toPhone, hostVars>>

-----------------------------------------------------------------------------
(* writer_task *)

WriterStarts ==
  /\ At(Writer, "start")
  /\ writer_stack' = Node(Writer)
  /\ ReturnDetach(Writer)
  /\ GoTo(Writer, "sending")
  /\ UNCHANGED <<txVars, reader_stack, wake_me_up, rx, ret, toHost, toPhone, hostVars>>

Room == SndBuf - Len(toHost)
Unsent == SubSeq(Head(tx_queue), front_i + 1, Len(Head(tx_queue)))

Bug_front_i_kept(i) == i
front_i_after_discard(i) == 0

(* send takes what there is room for; nothing at all needs no room.        *)
Sends(n) ==
  /\ toHost' = toHost \o SubSeq(Unsent, 1, n)
  /\ IF n < Len(Unsent)
     THEN front_i' = front_i + n /\ UNCHANGED <<asyncVars, tx_queue, is_polling_write>>
     ELSE /\ tx_queue' = Tail(tx_queue)
          /\ front_i' = front_i_after_discard(front_i)
          /\ IF Tail(tx_queue) = <<>>
             THEN is_polling_write' = FALSE /\ ReturnDetach(Writer)
             ELSE UNCHANGED <<asyncVars, is_polling_write>>

WriterSends ==
  /\ At(Writer, "sending")
  /\ Unsent = <<>> \/ Room > 0
  /\ Sends(IF Len(Unsent) < Room THEN Len(Unsent) ELSE Room)
  /\ UNCHANGED <<line, writer_stack, reader_stack, wake_me_up, rx, ret, toPhone, hostVars>>

Bug_polling_stopped(polling) == FALSE
polling_after_EAGAIN(polling) == polling

WriterBlocks ==
  /\ At(Writer, "sending")
  /\ Unsent # <<>> /\ Room <= 0
  /\ ReturnDetach(Writer)
  /\ is_polling_write' = polling_after_EAGAIN(is_polling_write)
  /\ UNCHANGED <<line, tx_queue, front_i, writer_stack, reader_stack, wake_me_up,
                 rx, ret, toHost, toPhone, hostVars>>

-----------------------------------------------------------------------------
(* reader_task, which reads the fields of a reply in turn ... *)

NothingRead == [stack |-> <<>>, ret |-> <<>>, len |-> <<>>, data |-> <<>>]

Bug_len_ignored(len) == 1
ret_len(len) == len[1].val

FieldLen(field) ==
  CASE field \in {"stack", "ret"} -> PtrLen
    [] field = "len"  -> 1
    [] field = "data" -> ret_len(rx.len)

NextField ==
  CASE line[Reader] = "start" -> "stack"
    [] line[Reader] = "stack" -> "ret"
    [] line[Reader] = "ret"   -> "len"
    [] line[Reader] = "len"   -> IF ret_len(rx.len) > 0 THEN "data" ELSE "start"
    [] line[Reader] = "data"  -> "start"

ReaderAwaits ==
  /\ Runs(Reader) /\ depth[Reader] = 1
  /\ NextField # "start"
  /\ ReturnAwait(Reader)
  /\ GoTo(Reader, NextField)
  /\ UNCHANGED <<txVars, writer_stack, reader_stack, wake_me_up, rx, ret, toHost, toPhone, hostVars>>

(* ... gives the caller its result and has it woken by the next wait.      *)
Bug_reader_stack_kept(node) == reader_stack
reader_stack_set(node) == node

ReaderAnswers ==
  /\ Runs(Reader) /\ depth[Reader] = 1
  /\ line[Reader] # "start" /\ NextField = "start"
  /\ ret' = [ret EXCEPT ![rx.ret[1].of] = rx.data]
  /\ wake_me_up' = [task |-> rx.stack[1].of, frame |-> rx.stack[1].val]
  /\ reader_stack' = reader_stack_set(Node(Reader))
  /\ ReturnDetach(Reader)
  /\ GoTo(Reader, "start")
  /\ rx' = NothingRead
  /\ UNCHANGED <<txVars, writer_stack, toHost, toPhone, hostVars>>

(* reader_task_sub *)

Missing == FieldLen(line[Reader]) - Len(rx[line[Reader]])
Received == IF Missing < Len(toPhone) THEN Missing ELSE Len(toPhone)

SubReceives ==
  /\ Runs(Reader) /\ depth[Reader] = 2
  /\ toPhone # <<>>
  /\ rx' = [rx EXCEPT ![line[Reader]] = @ \o SubSeq(toPhone, 1, Received)]
  /\ toPhone' = SubSeq(toPhone, Received + 1, Len(toPhone))
  /\ IF Received = Missing THEN ReturnDone(Reader) ELSE UNCHANGED asyncVars
  /\ UNCHANGED <<line, txVars, writer_stack, reader_stack, wake_me_up, ret, toHost, hostVars>>

SubBlocks ==
  /\ Runs(Reader) /\ depth[Reader] = 2
  /\ toPhone = <<>>
  /\ reader_stack' = Node(Reader)
  /\ ReturnDetach(Reader)
  /\ UNCHANGED <<line, txVars, writer_stack, wake_me_up, rx, ret, toHost, toPhone, hostVars>>

-----------------------------------------------------------------------------
(* host_wait_for_ms_or_event; Evented(t) says when async_loop waits *)

Writable == is_polling_write /\ Room > 0
Readable == toPhone # <<>>

Bug_poll_first == ~ Writable /\ ~ Readable
WakeMeUpFirst == TRUE

Bug_wakeup_repeated == wake_me_up
WakeMeUpTaken == NoNode

WaitWakes ==
  /\ wake_me_up # NoNode /\ WakeMeUpFirst
  /\ Evented(wake_me_up.task)
  /\ wake_me_up' = WakeMeUpTaken
  /\ UNCHANGED <<line, txVars, writer_stack, reader_stack, rx, ret, toHost, toPhone, hostVars>>

WaitPolls ==
  /\ wake_me_up = NoNode \/ ~ WakeMeUpFirst
  /\ IF Writable THEN Evented(writer_stack.task)
                 ELSE Readable /\ Evented(reader_stack.task)
  /\ UNCHANGED <<line, txVars, writer_stack, reader_stack, wake_me_up,
                 rx, ret, toHost, toPhone, hostVars>>

(* The head of the schedule is due at once, or no event came before it was. *)
WaitTimesOut ==
  /\ PickShortcut
     \/ /\ PickScheduled
        /\ \/ async_time_is_null(Head(schedule).wake)
           \/ wake_me_up = NoNode /\ ~ Writable /\ ~ Readable
  /\ UNCHANGED <<line, txVars, writer_stack, reader_stack, wake_me_up,
                 rx, ret, toHost, toPhone, hostVars>>

-----------------------------------------------------------------------------
(* host_init spawns the writer and then the reader; core the callers       *)

Boot ==
  /\ phase = "boot"
  /\ \/ depth[Writer] = 0 /\ async_spawn(Writer, {})
     \/ depth[Writer] = 1 /\ async_spawn(Reader, {})
     \/ depth[Reader] = 1 /\ \E c \in Caller : async_spawn(c, {})
     \/ (\A t \in Task : depth[t] = 1) /\ EnterLoop
  /\ UNCHANGED <<line, txVars, writer_stack, reader_stack, wake_me_up,
                 rx, ret, toHost, toPhone, hostVars>>

Clock ==
  /\ Tick
  /\ UNCHANGED <<line, txVars, writer_stack, reader_stack, wake_me_up,
                 rx, ret, toHost, toPhone, hostVars>>

(* main.py: the request's first byte says how long it is; when it has been *)
(* read, finishTransaction echoes the pointers and adds the result.        *)
HostReads ==
  /\ toHost # <<>>
  /\ toHost' = Tail(toHost)
  /\ LET in == Append(hostIn, Head(toHost))
         c  == in[1].of
     IN  IF Len(in) < 2 + Arg[c] + 2 * PtrLen
         THEN hostIn' = in /\ UNCHANGED hostOut
         ELSE /\ hostIn' = <<>>
              /\ hostOut' = hostOut \o SubSeq(in, 3 + Arg[c], Len(in))
                                    \o Field("len", c, Ret[c], 1) \o Field("data", c, 0, Ret[c])
  /\ UNCHANGED <<asyncVars, line, txVars, writer_stack, reader_stack, wake_me_up, rx, ret, toPhone>>

(* The network delivers a byte. *)
Deliver ==
  /\ hostOut # <<>>
  /\ toPhone' = Append(toPhone, Head(hostOut))
  /\ hostOut' = Tail(hostOut)
  /\ UNCHANGED <<asyncVars, line, txVars, writer_stack, reader_stack, wake_me_up,
                 rx, ret, toHost, hostIn>>

BridgeInit ==
  /\ Init
  /\ line = [t \in Task |-> "start"]
  /\ tx_queue = <<>> /\ front_i = 0 /\ is_polling_write = FALSE
  /\ writer_stack = NoNode /\ reader_stack = NoNode /\ wake_me_up = NoNode
  /\ rx = NothingRead
  /\ ret = [c \in Caller |-> <<>>]
  /\ toHost = <<>> /\ toPhone = <<>>
  /\ hostIn = <<>> /\ hostOut = <<>>

Writes == WriterStarts \/ WriterSends \/ WriterBlocks
Reads == ReaderAwaits \/ ReaderAnswers \/ SubReceives \/ SubBlocks
Calls(c) == CallerSleeps(c) \/ CallerCalls(c) \/ host_transmit(c) \/ host_transmit_returns(c)
Waits == WaitWakes \/ WaitPolls \/ WaitTimesOut

Phone == Boot \/ Writes \/ Reads \/ Waits \/ \E c \in Caller : Calls(c)

BridgeNext == Phone \/ Clock \/ HostReads \/ Deliver

(* The processor keeps running while it can, the clock advances, and the   *)
(* host and the network make progress.                                     *)
BridgeSpec ==
  /\ BridgeInit /\ [][BridgeNext]_bridgeVars
  /\ WF_bridgeVars(Phone) /\ WF_bridgeVars(Clock)
  /\ WF_bridgeVars(HostReads) /\ WF_bridgeVars(Deliver)

-----------------------------------------------------------------------------
(* Properties *)

Pointer == [task : Task, frame : 1 .. MaxDepth] \cup {NoNode}
Byte == [kind : {"code", "bytes", "size", "stack", "ret", "len", "data"},
         of : Caller, val : Nat, i : Nat]

(* The types of the bridge's state; the front chunk, if any, has a byte or *)
(* an end still to send.                                                   *)
BridgeTypeOK ==
  /\ TypeOK
  /\ \A t \in Task : line[t] \in {"start", "slept", "transmit", "asked", "returned",
                                  "sending", "stack", "ret", "len", "data"}
  /\ tx_queue \in Seq(Seq(Byte)) /\ is_polling_write \in BOOLEAN
  /\ front_i \in 0 .. (IF tx_queue = <<>> THEN 0 ELSE Len(Head(tx_queue)))
  /\ {writer_stack, reader_stack, wake_me_up} \subseteq Pointer
  /\ \A f \in DOMAIN rx : rx[f] \in Seq(Byte)
  /\ \A c \in Caller : ret[c] \in Seq(Byte)
  /\ toHost \in Seq(Byte) /\ toPhone \in Seq(Byte)
  /\ hostIn \in Seq(Byte) /\ hostOut \in Seq(Byte)
  /\ Len(toHost) <= SndBuf

(* The bytes on their way to the host, from the request it is reading.     *)
Outgoing ==
  hostIn \o toHost \o
  (IF tx_queue = <<>> THEN <<>>
   ELSE Unsent \o FlattenSeq(Tail(tx_queue)))

CallersOf(bytes, kind) ==
  FlattenSeq([j \in DOMAIN bytes |->
                IF bytes[j].kind = kind /\ bytes[j].i = 1 THEN <<bytes[j].of>> ELSE <<>>])

Request(c) == FlattenSeq(Chunks(c, [task |-> c, frame |-> 2]))

(* The host always finds whole requests, one after the other: chunks of    *)
(* different callers never interleave and partial sends lose and repeat no *)
(* byte.  (enque, writer_task; main.py trusts the framing.)                *)
StreamIsRequests ==
  LET callers == CallersOf(Outgoing, "code")
  IN  Outgoing = FlattenSeq([k \in DOMAIN callers |-> Request(callers[k])])

(* The socket is polled for writing exactly while bytes are queued.  Else  *)
(* the writer would never be woken for them, or be woken for none and fail *)
(* its assert.  (is_polling_write; assert(tx_queue.front != NULL).)        *)
PollingWhileQueued == is_polling_write <=> tx_queue # <<>>

(* Whatever list node the wait would return now is the top of a stack that *)
(* is detached; in particular it is not a node that was freed or that a    *)
(* pushed frame hides.  Async takes this of its event source.              *)
(* (writer_stack, reader_stack, wake_me_up.)                               *)
WakesParkedTop ==
  LET Parked(p) == p # NoNode /\ p.task \in detached /\ p.frame = depth[p.task]
  IN  phase = "pick" /\ shortcut_task_stack = NoTask
        /\ (schedule # <<>> => ~ async_time_is_null(Head(schedule).wake)) =>
          /\ wake_me_up # NoNode => Parked(wake_me_up)
          /\ is_polling_write => Parked(writer_stack)
          /\ Parked(reader_stack)

(* A wakeup the reader has asked for stays asked for until it is the one   *)
(* delivered; no later reply overwrites it.  (wake_me_up.)                 *)
NoWakeupOverwritten ==
  [][wake_me_up # NoNode =>
       \/ wake_me_up' = wake_me_up
       \/ wake_me_up' = NoNode /\ phase' = "run" /\ task_stack' = wake_me_up.task]_bridgeVars

(* When host_transmit returns to its caller, the result is there, whole    *)
(* and the caller's own, however calls overlap and replies are split.      *)
(* (reader_task.)                                                          *)
AnswersAreOwn ==
  \A c \in Caller : line[c] = "returned" => ret[c] = Field("data", c, 0, Ret[c])

(* All that holds of the bridge between any two steps: the types, the poll *)
(* set, the wake-ups and the results.                                      *)
BridgeInv == BridgeTypeOK /\ PollingWhileQueued /\ WakesParkedTop /\ AnswersAreOwn

(* Every step of the phone is one that Async allows: the event source      *)
(* wakes only stacks it was given, once.                                   *)
ImplementsAsync == Spec

(* Replies on their way back, from the one the reader is in the middle of. *)
Incoming == rx.stack \o rx.ret \o rx.len \o rx.data \o toPhone \o hostOut

AnsweredCallers ==
  (IF wake_me_up # NoNode THEN <<wake_me_up.task>> ELSE <<>>)
  \o (IF \E c \in Caller : At(c, "asked") THEN <<task_stack>> ELSE <<>>)
  \o CallersOf(Incoming, "stack")

Waiting == CallersOf(Outgoing, "code")

Rpc == INSTANCE HostRpc WITH asked <- Waiting, answered <- AnsweredCallers

(* host_bridge.c implements HostRpc: calls are served in the order they    *)
(* are made, each once, and return in that order.                          *)
ImplementsHostRpc == Rpc!Spec

(* Every call returns, whatever else is queued and however the socket      *)
(* fills up.  (writer_task and reader_task's wake-ups.)                    *)
CallsReturn == \A c \in Caller : line[c] = "asked" ~> line[c] = "returned"

=============================================================================
