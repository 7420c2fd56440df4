------------------------------ MODULE PhoneUi ------------------------------
(***************************************************************************)
(* The user interface of pico-phone/core as the mock backend runs it: the  *)
(* database's initial load, the screens, the texts screen's loader, and    *)
(* the tasks that poll the button and the encoder.  The functions are the  *)
(* clients of Async; the host is reached through HostRpc.                  *)
(*                                                                         *)
(* Abstractions.                                                           *)
(*  - initial_load makes any number of file operations, as many as the     *)
(*    files have fields; `loaded' says that the last has returned.         *)
(*  - The frame buffer is what was drawn last: the home menu with an entry *)
(*    highlighted, "loading...", or the conversations.                     *)
(*  - draw's try_acquire, draw_actual and release of the texts screen are  *)
(*    one step: the function does not yield in between, and a lock that    *)
(*    was free has no waiters, so it is as it was.                         *)
(*  - main.py takes the key events in at the start of every request, before *)
(*    it uses them; here they take effect at once.                         *)
(*  - The display driver's task, one more caller of the host, is left out. *)
(***************************************************************************)
EXTENDS Async

CONSTANTS
  Load, Button, Encoders, Loaders,  \* task names: initial_load, button_task, two
                    \* for the encoder's chain of tasks, those for the loaders
  db_lock,
  LongSleep,        \* ASYNC_SLEEP(50), in ticks
  ShortSleep,       \* ASYNC_SLEEP(8), in ticks
  Turn,             \* what the keys of one moment may add to the encoder
  MaxInputs         \* bound: times the user presses keys

Polls == {Button} \cup Encoders
HostCaller == {Load} \cup Polls

ASSUME UiAssumption ==
  /\ Task = HostCaller \cup Loaders
  /\ Load # Button /\ {Load, Button} \cap (Encoders \cup Loaders) = {}
  /\ Encoders \cap Loaders = {}
  /\ Lock = {db_lock} /\ InitHeld = Lock /\ EventSource
  /\ LongSleep \in 0 .. MaxSleep /\ ShortSleep \in 0 .. MaxSleep
  /\ Turn \subseteq Int /\ MaxInputs \in Nat /\ MaxDepth >= 3

VARIABLES
  line,               \* the suspension point each task will go on from
  loaded,             \* initial_load has filled in the database
  screen_stack,       \* bottom first; "home" or "texts"
  selected,           \* screen_home.c
  loader_run,         \* screen_texts.c
  display_fb,
  value, first_time,  \* rotary_encoder.c
  asked, answered,    \* HostRpc
  result,             \* what the host answered each caller
  encoder, button_presses,   \* main.py
  inputs,             \* times that keys were pressed so far
  ignored             \* the first reading plus the turns the texts screen ignored

asyncVars == vars
rpcVars == <<asked, answered>>
screenVars == <<screen_stack, selected, loader_run, display_fb, ignored>>
encoderVars == <<value, first_time>>
userVars == <<encoder, button_presses, inputs>>
uiVars == <<asyncVars, line, loaded, screenVars, encoderVars, rpcVars, result, userVars>>

Rpc == INSTANCE HostRpc WITH Caller <- HostCaller

At(t, where) == Runs(t) /\ line[t] = where
GoTo(t, where) == line' = [line EXCEPT ![t] = where]

(* A step of task t that changes the runtime only. *)
Goes(t, from, step, to) ==
  /\ At(t, from) /\ step /\ GoTo(t, to)
  /\ UNCHANGED <<loaded, screenVars, encoderVars, rpcVars, result, userVars>>

(* The name the next spawned task gets; the names given bound the tasks    *)
(* alive at a time.                                                        *)
Unused(names) == CHOOSE t \in names : depth[t] = 0

Spawns(names, starts, by, then) ==
  \E t \in names :
    /\ t = Unused(names)
    /\ async_spawn(t, {})
    /\ line' = [line EXCEPT ![t] = starts, ![by] = then]

-----------------------------------------------------------------------------
(* Screens *)

BUTTON_A == 0
BUTTON_B == 1
NoPress == -1

num_entries == 6
Top == screen_stack[Len(screen_stack)]

Bug_truncated_modulo(a, b) == IF a < 0 THEN -((-a) % b) ELSE a % b
floored_modulo(a, b) == a % b

HomeFb(sel) == [shows |-> "menu", entry |-> sel]
Loading == [shows |-> "loading", entry |-> 0]
Convos == [shows |-> "convos", entry |-> 0]

(* screen_texts.c draw: without a loader and with the lock taken it spawns *)
(* one.  has_db_lock is TRUE only while the loader draws.                  *)
Bug_no_loader == FALSE
NeedsLoader == ~ loader_run /\ held[db_lock]

Bug_lock_ignored(has_db_lock) == Convos
TextsFb(has_db_lock) ==
  IF IF loader_run THEN has_db_lock ELSE ~ held[db_lock] THEN Convos ELSE Loading

OpensTexts(by, then) ==
  /\ display_fb' = TextsFb(FALSE)
  /\ screen_stack' = Append(screen_stack, "texts")
  /\ IF NeedsLoader
     THEN loader_run' = TRUE /\ Spawns(Loaders, "start", by, then)
     ELSE UNCHANGED <<asyncVars, loader_run>> /\ GoTo(by, then)
  /\ UNCHANGED <<selected, ignored>>

ClosesTexts(by, then) ==
  /\ loader_run' = FALSE
  /\ screen_stack' = SubSeq(screen_stack, 1, Len(screen_stack) - 1)
  /\ display_fb' = HomeFb(selected)
  /\ GoTo(by, then)
  /\ UNCHANGED <<asyncVars, selected, ignored>>

(* EventKindButton: button A opens, on the texts entry; B closes.          *)
ButtonEvent(num, by, then) ==
  LET opens  == Top = "home" /\ num = BUTTON_A /\ selected = 1
      closes == Top = "texts" /\ num = BUTTON_B
  IN  \/ opens /\ OpensTexts(by, then)
      \/ closes /\ ClosesTexts(by, then)
      \/ ~ opens /\ ~ closes /\ GoTo(by, then) /\ UNCHANGED <<asyncVars, screenVars>>

(* EventKindEncoder: the home menu moves its highlight. *)
EncoderEvent(delta) ==
  IF Top = "home"
  THEN LET sel == floored_modulo(selected + delta, num_entries)
       IN  /\ selected' = sel
           /\ display_fb' = HomeFb(sel)
           /\ UNCHANGED <<screen_stack, loader_run, ignored>>
  ELSE /\ ignored' = ignored + delta
       /\ UNCHANGED <<screen_stack, selected, loader_run, display_fb>>

-----------------------------------------------------------------------------
(* The texts screen's loader *)

LoaderStarts(t) ==
  IF loader_run THEN Goes(t, "start", ReturnLockAcquire(t, db_lock), "locked")
                ELSE Goes(t, "start", ReturnDone(t), "start")

Bug_drawn_anyway == Convos
Redrawn == IF loader_run /\ Top = "texts" THEN TextsFb(TRUE) ELSE display_fb

LoaderDraws(t) ==
  /\ At(t, "locked")
  /\ display_fb' = Redrawn
  /\ loader_run' = FALSE
  /\ async_lock_release(t, db_lock)
  /\ GoTo(t, "end")
  /\ UNCHANGED <<loaded, screen_stack, selected, ignored, encoderVars, rpcVars, result, userVars>>

LoaderEnds(t) == Goes(t, "end", ReturnDone(t), "start")

-----------------------------------------------------------------------------
(* host_transmit, in any caller *)

Transmits(c) ==
  /\ At(c, "transmit")
  /\ Rpc!Ask(c)
  /\ ReturnDetach(c)
  /\ GoTo(c, "asked")
  /\ UNCHANGED <<loaded, screenVars, encoderVars, result, userVars>>

TransmitReturns(c) ==
  /\ At(c, "asked")
  /\ Rpc!Return(c)
  /\ ReturnDone(c)
  /\ GoTo(c, "answered")
  /\ UNCHANGED <<loaded, screenVars, encoderVars, result, userVars>>

-----------------------------------------------------------------------------
(* initial_load: file operations, each a frame of its own, then the release *)

LoadCallsFs == Goes(Load, "start", ReturnAwait(Load), "fs")
FsCallsHost == Goes(Load, "fs", ReturnAwait(Load), "transmit")
FsReturns == Goes(Load, "answered", ReturnDone(Load), "start")

LoadReleases ==
  /\ At(Load, "start")
  /\ loaded' = TRUE
  /\ async_lock_release(Load, db_lock)
  /\ GoTo(Load, "end")
  /\ UNCHANGED <<screenVars, encoderVars, rpcVars, result, userVars>>

LoadEnds == Goes(Load, "end", ReturnDone(Load), "ended")

-----------------------------------------------------------------------------
(* button_task and button_read *)

ButtonReads == Goes(Button, "start", ReturnAwait(Button), "read")
ButtonSleeps == Goes(Button, "read", ReturnSleep(Button, LongSleep), "slept")
ButtonCallsHost == Goes(Button, "slept", ReturnAwait(Button), "transmit")
ButtonHasRead == Goes(Button, "answered", ReturnDone(Button), "event")

Bug_button_never_yields == "event"
AfterEvent == "start"

ButtonSends ==
  /\ At(Button, "event")
  /\ IF result[Button] = NoPress
     THEN GoTo(Button, AfterEvent) /\ UNCHANGED <<asyncVars, screenVars>>
     ELSE ButtonEvent(result[Button], Button, AfterEvent)
  /\ result' = [result EXCEPT ![Button] = NoPress]
  /\ UNCHANGED <<loaded, encoderVars, rpcVars, userVars>>

-----------------------------------------------------------------------------
(* encoder_cooldown spawns read_host_encoder, whose cb spawns               *)
(* encoder_cooldown: two functions taking turns, in tasks of their own.     *)

CooldownSleeps(t) == Goes(t, "start", ReturnSleep(t, ShortSleep), "cooled")

Bug_cooldown_loops == "start"
AfterCooldown == "end"

rotary_encoder_read(t) ==
  /\ At(t, "cooled")
  /\ Spawns(Encoders, "read", t, AfterCooldown)
  /\ UNCHANGED <<loaded, screenVars, encoderVars, rpcVars, result, userVars>>

EncoderSleeps(t) == Goes(t, "read", ReturnSleep(t, LongSleep), "slept")
EncoderCallsHost(t) == Goes(t, "slept", ReturnAwait(t), "transmit")

Bug_first_reading_kept(reading) == IF first_time THEN reading ELSE value
NextValue(reading) == reading

cb(t) ==
  LET reading == result[t]
  IN  /\ At(t, "answered")
      /\ first_time' = FALSE
      /\ IF first_time
         THEN ignored' = reading /\ UNCHANGED <<screen_stack, selected, loader_run, display_fb>>
         ELSE IF reading # value THEN EncoderEvent(reading - value) ELSE UNCHANGED screenVars
      /\ value' = NextValue(reading)
      /\ result' = [result EXCEPT ![t] = NoPress]
      /\ Spawns(Encoders, "start", t, "end")
      /\ UNCHANGED <<loaded, rpcVars, userVars>>

EncoderEnds(t) == Goes(t, "end", ReturnDone(t), "start")

-----------------------------------------------------------------------------
(* The loop, the start, the host and the user *)

Waits ==
  /\ \/ PickShortcut
     \/ /\ PickScheduled
        /\ async_time_is_null(Head(schedule).wake) \/ answered = <<>>
     \/ answered # <<>> /\ Head(answered) \in detached /\ Evented(Head(answered))
  /\ UNCHANGED <<line, loaded, screenVars, encoderVars, rpcVars, result, userVars>>

(* core: db_init, screen_machine_init, rotary_encoder_init, button_init. *)
Boot ==
  /\ phase = "boot"
  /\ \/ depth[Load] = 0 /\ async_spawn(Load, {db_lock})
     \/ /\ depth[Load] = 1 /\ \A e \in Encoders : depth[e] = 0
        /\ \E e \in Encoders : e = Unused(Encoders) /\ async_spawn(e, {})
     \/ (\E e \in Encoders : depth[e] = 1) /\ async_spawn(Button, {})
     \/ depth[Button] = 1 /\ EnterLoop
  /\ UNCHANGED <<line, loaded, screenVars, encoderVars, rpcVars, result, userVars>>

Clock ==
  /\ Tick
  /\ UNCHANGED <<line, loaded, screenVars, encoderVars, rpcVars, result, userVars>>

(* The host and the user act between two activations: a function reads     *)
(* nothing of theirs, so an act in the middle of one is as good as after it. *)
HostServes ==
  /\ phase = "pick"
  /\ Rpc!Serve
  /\ LET c == Head(asked)
     IN  /\ result' = [result EXCEPT ![c] =
                         IF c \in Encoders THEN encoder
                         ELSE IF c = Button /\ button_presses # <<>> THEN Head(button_presses)
                         ELSE NoPress]
         /\ button_presses' = IF c = Button /\ button_presses # <<>>
                              THEN Tail(button_presses) ELSE button_presses
  /\ UNCHANGED <<asyncVars, line, loaded, screenVars, encoderVars, encoder, inputs>>

User ==
  /\ phase = "pick"
  /\ inputs < MaxInputs
  /\ inputs' = inputs + 1
  /\ \/ \E d \in Turn : encoder' = encoder + d /\ UNCHANGED button_presses
     \/ \E num \in {BUTTON_A, BUTTON_B} : /\ button_presses' = Append(button_presses, num)
                                /\ UNCHANGED encoder
  /\ UNCHANGED <<asyncVars, line, loaded, screenVars, encoderVars, rpcVars, result>>

UiInit ==
  /\ Init /\ Rpc!Init
  /\ line = [t \in Task |-> "start"]
  /\ loaded = FALSE
  /\ screen_stack = <<"home">> /\ selected = 0 /\ display_fb = HomeFb(0)
  /\ loader_run = FALSE
  /\ value = 0 /\ first_time = TRUE
  /\ result = [c \in HostCaller |-> NoPress]
  /\ encoder = 0 /\ button_presses = <<>> /\ inputs = 0 /\ ignored = 0

Loads == LoadCallsFs \/ FsCallsHost \/ FsReturns \/ LoadReleases \/ LoadEnds
Presses == ButtonReads \/ ButtonSleeps \/ ButtonCallsHost \/ ButtonHasRead \/ ButtonSends
Turns(t) == \/ CooldownSleeps(t) \/ rotary_encoder_read(t) \/ EncoderSleeps(t)
            \/ EncoderCallsHost(t) \/ cb(t) \/ EncoderEnds(t)
LoaderRuns(t) == LoaderStarts(t) \/ LoaderDraws(t) \/ LoaderEnds(t)

Phone ==
  \/ Boot \/ Waits \/ Loads \/ Presses
  \/ \E t \in Encoders : Turns(t)
  \/ \E t \in Loaders : LoaderRuns(t)
  \/ \E c \in HostCaller : Transmits(c) \/ TransmitReturns(c)

UiNext == Phone \/ Clock \/ HostServes \/ User

(* The processor keeps running while it can, time passes, the host answers  *)
(* and the files the load reads have an end; the user does as he likes.     *)
UiSpec ==
  /\ UiInit /\ [][UiNext]_uiVars
  /\ WF_uiVars(Phone) /\ WF_uiVars(Clock) /\ WF_uiVars(HostServes)
  /\ SF_uiVars(LoadReleases)

-----------------------------------------------------------------------------
(* Properties *)

(* The types of the user interface's state. *)
UiTypeOK ==
  /\ TypeOK
  /\ screen_stack \in {<<"home">>, <<"home", "texts">>}
  /\ selected \in 0 .. num_entries - 1
  /\ {loaded, loader_run, first_time} \subseteq BOOLEAN
  /\ display_fb \in {Loading, Convos} \cup {HomeFb(i) : i \in 0 .. num_entries - 1}
  /\ {value, ignored, encoder} \subseteq Int /\ \A c \in HostCaller : result[c] \in Int

(* The frame buffer shows the screen that is on top, with its current      *)
(* selection: no loader or event draws over another screen.                *)
(* (draw_me_if_top, send_event_top.)                                       *)
ShowsTop ==
  IF Top = "home" THEN display_fb = HomeFb(selected) ELSE display_fb \in {Loading, Convos}

(* The conversations are drawn only from a database that is all there.     *)
(* (db_lock starts held; draw and loader draw under it.)                   *)
DrawsWholeDatabase == display_fb = Convos => loaded

(* A texts screen that shows "loading..." has a loader on its way that     *)
(* will draw it again, whether or not other loaders, of screens closed     *)
(* since, are waiting too.  (loader_run.)                                  *)
LoadingHasLoader ==
  display_fb = Loading =>
    /\ loader_run
    /\ \E t \in Loaders : depth[t] = 1 /\ line[t] \in {"start", "locked"}

(* A loader starts before the user can do anything to the screen that      *)
(* spawned it, so its early return is never taken: a new task goes to the  *)
(* head of the schedule.  (loader; schedule_a_value.)                      *)
LoaderStartsInTime ==
  \A t \in Loaders : depth[t] = 1 /\ line[t] = "start" => loader_run

(* The chain of encoder tasks never breaks off and never splits: apart     *)
(* from a task that is about to return there is exactly one.               *)
(* (encoder_cooldown, cb.)                                                 *)
OneEncoderChain ==
  phase # "boot" =>
    \E t \in Encoders : \A u \in Encoders :
      (u = t) <=> (depth[u] > 0 /\ line[u] # "end")

(* Every turn since the first reading has moved the highlight once, or was *)
(* delivered to the texts screen, which ignores it.  (cb, floored_modulo.) *)
TurnsCounted ==
  selected = IF first_time THEN 0 ELSE (value - ignored) % num_entries

(* All that holds of the screens between any two steps, whatever is shown: *)
(* the types (the selection stays on the screen when turned back from its  *)
(* first entry), the loaders, the lock that guards the database, and the   *)
(* count of the turns.                                                     *)
UiInv == UiTypeOK /\ LoadingHasLoader /\ LoaderStartsInTime /\ DrawsWholeDatabase /\ TurnsCounted

(* "loading..." does not stay: the conversations are drawn, or the user    *)
(* closes the screen.  (initial_load's release and the loaders' hand-over.) *)
LoadingEnds == display_fb = Loading ~> display_fb # Loading

(* Every press reaches the phone.  (button_task polls for ever.)           *)
PressesTaken == button_presses # <<>> ~> button_presses = <<>>

(* The phone's reading of the encoder keeps catching up with the encoder.  *)
(* (The chain of encoder tasks polls for ever, cb takes every reading.)    *)
TurnsTaken == []<>(encoder = value)

(* What the user does gets through, and what he waits for comes.           *)
InputsGetThrough == LoadingEnds /\ PressesTaken /\ TurnsTaken

=============================================================================
