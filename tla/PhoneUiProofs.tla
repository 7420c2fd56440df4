---------------------------- MODULE PhoneUiProofs ----------------------------
(***************************************************************************)
(* Proofs about the user interface, for any number of encoder and loader   *)
(* tasks, whatever the user does and however long.                         *)
(*                                                                         *)
(* The user interface is a client of the runtime (UiIsAsync): what         *)
(* AsyncProofs proves of async.c under any client holds of it.  The        *)
(* invariants of the screens, of the chain of encoder tasks, of the        *)
(* loaders and of the database's lock are proved on top of that, each by   *)
(* an inductive invariant of its own.                                      *)
(***************************************************************************)
EXTENDS PhoneUi, AsyncProofs

(* The tasks and the lock are the runtime's.                               *)
LEMMA Names ==
  /\ Load \in Task /\ Button \in Task /\ Encoders \subseteq Task /\ Loaders \subseteq Task
  /\ HostCaller \subseteq Task /\ db_lock \in Lock /\ Lock = {db_lock} /\ InitHeld = {db_lock}
  /\ LongSleep \in 0 .. MaxSleep /\ ShortSleep \in 0 .. MaxSleep /\ EventSource
  /\ Load # Button /\ Load \notin Encoders /\ Load \notin Loaders
  /\ Button \notin Encoders /\ Button \notin Loaders
  /\ \A t \in Encoders : t \notin Loaders
  /\ Task = {Load, Button} \cup Encoders \cup Loaders
  /\ HostCaller = {Load, Button} \cup Encoders
  BY UiAssumption DEF UiAssumption, HostCaller, Polls

(* Every step of the user interface is a step of the runtime, or none.     *)
LEMMA UiStepIsAsync == [UiNext]_uiVars => [Next]_vars
  <1> SUFFICES ASSUME UiNext  PROVE Next \/ UNCHANGED vars
    BY DEF uiVars, asyncVars
  <1> USE Names
  <1>1. CASE Boot
    <2>1. \/ async_spawn(Load, {db_lock}) \/ async_spawn(Button, {}) \/ EnterLoop
          \/ \E e \in Encoders : async_spawn(e, {})
      BY <1>1 DEF Boot
    <2>2. {db_lock} \in SUBSET InitHeld /\ {} \in SUBSET InitHeld
      OBVIOUS
    <2>3. QED BY <2>1, <2>2 DEF Next, Call
  <1>2. CASE Waits
    BY <1>2 DEF Waits, Next, Pick, PickEvented
  <1>3. CASE Loads
    BY <1>3 DEF Loads, LoadCallsFs, FsCallsHost, FsReturns, LoadReleases, LoadEnds, Goes,
                Next, Call, Return
  <1>4. CASE Presses
    <2>1. CASE ButtonReads \/ ButtonSleeps \/ ButtonCallsHost \/ ButtonHasRead
      BY <2>1 DEF ButtonReads, ButtonSleeps, ButtonCallsHost, ButtonHasRead, Goes, Next, Return
    <2>2. CASE ButtonSends
      <3>1. UNCHANGED asyncVars \/ \E t \in Loaders : async_spawn(t, {})
        BY <2>2 DEF ButtonSends, ButtonEvent, OpensTexts, ClosesTexts, Spawns
      <3>2. {} \in SUBSET InitHeld
        OBVIOUS
      <3>3. QED BY <3>1, <3>2 DEF asyncVars, Next, Call
    <2>3. QED BY <1>4, <2>1, <2>2 DEF Presses
  <1>5. ASSUME NEW t \in Encoders, Turns(t)  PROVE Next
    <2>1. \/ \E d \in 0 .. MaxSleep : ReturnSleep(t, d)
          \/ ReturnAwait(t) \/ ReturnDone(t)
          \/ \E u \in Encoders : async_spawn(u, {})
      BY <1>5 DEF Turns, CooldownSleeps, rotary_encoder_read, EncoderSleeps, EncoderCallsHost,
                  cb, EncoderEnds, Goes, Spawns
    <2>2. {} \in SUBSET InitHeld
      OBVIOUS
    <2>3. QED BY <2>1, <2>2 DEF Next, Call, Return
  <1>6. ASSUME NEW t \in Loaders, LoaderRuns(t)  PROVE Next
    BY <1>6 DEF LoaderRuns, LoaderStarts, LoaderDraws, LoaderEnds, Goes, Next, Call, Return
  <1>7. ASSUME NEW c \in HostCaller, Transmits(c) \/ TransmitReturns(c)  PROVE Next
    BY <1>7 DEF Transmits, TransmitReturns, Next, Return
  <1>8. CASE Clock \/ HostServes \/ User
    BY <1>8 DEF Clock, HostServes, User, asyncVars, Next
  <1>9. QED BY <1>1, <1>2, <1>3, <1>4, <1>5, <1>6, <1>7, <1>8 DEF UiNext, Phone

(* The user interface is a client of the runtime.                          *)
LEMMA UiIsAsync == UiSpec => Spec
  <1>1. UiInit => Init
    BY DEF UiInit
  <1>2. QED BY <1>1, UiStepIsAsync, PTL DEF UiSpec, Spec

-----------------------------------------------------------------------------
(* The screens *)

(* What the other steps leave alone: the screens change with an event, and *)
(* when a loader draws.                                                    *)
LEMMA QuietSteps ==
  ASSUME [UiNext]_uiVars
  PROVE  \/ UNCHANGED screenVars /\ UNCHANGED encoderVars
         \/ ButtonSends
         \/ \E t \in Encoders : cb(t)
         \/ \E t \in Loaders : LoaderDraws(t)
  <1>1. CASE Boot \/ Waits \/ Clock \/ HostServes \/ User
    BY <1>1 DEF Boot, Waits, Clock, HostServes, User
  <1>2. CASE Loads
    BY <1>2 DEF Loads, LoadCallsFs, FsCallsHost, FsReturns, LoadReleases, LoadEnds, Goes
  <1>3. CASE Presses
    BY <1>3 DEF Presses, ButtonReads, ButtonSleeps, ButtonCallsHost, ButtonHasRead, Goes
  <1>4. ASSUME NEW t \in Encoders, Turns(t)
        PROVE  cb(t) \/ (UNCHANGED screenVars /\ UNCHANGED encoderVars)
    BY <1>4 DEF Turns, CooldownSleeps, rotary_encoder_read, EncoderSleeps, EncoderCallsHost,
                EncoderEnds, Goes
  <1>5. ASSUME NEW t \in Loaders, LoaderRuns(t)
        PROVE  LoaderDraws(t) \/ (UNCHANGED screenVars /\ UNCHANGED encoderVars)
    BY <1>5 DEF LoaderRuns, LoaderStarts, LoaderEnds, Goes
  <1>6. ASSUME NEW c \in HostCaller, Transmits(c) \/ TransmitReturns(c)
        PROVE  UNCHANGED screenVars /\ UNCHANGED encoderVars
    BY <1>6 DEF Transmits, TransmitReturns
  <1>7. CASE UNCHANGED uiVars
    BY <1>7 DEF uiVars
  <1>8. QED BY <1>1, <1>2, <1>3, <1>4, <1>5, <1>6, <1>7 DEF UiNext, Phone

(* What the host and the user supply are numbers.                          *)
InputTypes ==
  /\ encoder \in Int /\ result \in [HostCaller -> Int]
  /\ button_presses \in Seq({BUTTON_A, BUTTON_B})

(* The inputs that wait to be taken keep their types.                      *)
LEMMA InputStep ==
  ASSUME InputTypes, [UiNext]_uiVars
  PROVE  InputTypes'
  <1> USE DEF InputTypes
  <1>0. NoPress \in Int /\ BUTTON_A \in Int /\ BUTTON_B \in Int
    BY DEF NoPress, BUTTON_A, BUTTON_B
  <1>1. CASE UNCHANGED <<result, encoder, button_presses>>
    BY <1>1 DEF BUTTON_A, BUTTON_B
  <1>2. CASE /\ UNCHANGED <<encoder, button_presses>>
             /\ \E c : result' = [result EXCEPT ![c] = NoPress]
    <2>1. result' \in [HostCaller -> Int]
      BY <1>0, <1>2
    <2>2. QED BY <1>2, <2>1 DEF BUTTON_A, BUTTON_B
  <1>3. CASE HostServes
    <2> DEFINE c == Head(asked)
               v == IF c \in Encoders THEN encoder
                    ELSE IF c = Button /\ button_presses # <<>> THEN Head(button_presses)
                    ELSE NoPress
    <2>1. /\ result' = [result EXCEPT ![c] = v] /\ UNCHANGED encoder
          /\ button_presses' = IF c = Button /\ button_presses # <<>>
                               THEN Tail(button_presses) ELSE button_presses
      BY <1>3 DEF HostServes
    <2>2. button_presses # <<>> => /\ Head(button_presses) \in {BUTTON_A, BUTTON_B}
                                   /\ Tail(button_presses) \in Seq({BUTTON_A, BUTTON_B})
      <3>1. ASSUME button_presses # <<>>
            PROVE  /\ Head(button_presses) \in {BUTTON_A, BUTTON_B}
                   /\ Tail(button_presses) \in Seq({BUTTON_A, BUTTON_B})
        <4> DEFINE S == {BUTTON_A, BUTTON_B}
        <4>1. button_presses \in Seq(S)
          OBVIOUS
        <4> HIDE DEF S
        <4>2. Head(button_presses) \in S /\ Tail(button_presses) \in Seq(S)
          BY <3>1, <4>1
        <4>3. QED BY <4>2 DEF S
      <3>2. QED BY <3>1
    <2>3. v \in Int
      BY <1>0, <2>2
    <2> HIDE DEF v, c
    <2>4. result' \in [HostCaller -> Int]
      BY <2>1, <2>3
    <2>5. QED BY <2>1, <2>2, <2>4 DEF BUTTON_A, BUTTON_B
  <1>4. CASE User
    <2>1. UNCHANGED result
      BY <1>4 DEF User
    <2>2. CASE \E d \in Turn : encoder' = encoder + d /\ UNCHANGED button_presses
      <3>1. encoder' \in Int
        BY <2>2, UiAssumption DEF UiAssumption
      <3>2. QED BY <2>1, <2>2, <3>1 DEF BUTTON_A, BUTTON_B
    <2>3. CASE \E num \in {BUTTON_A, BUTTON_B} : /\ button_presses' = Append(button_presses, num)
                                                 /\ UNCHANGED encoder
      <3> DEFINE S == {BUTTON_A, BUTTON_B}
      <3>1. PICK num \in S : button_presses' = Append(button_presses, num)
        BY <2>3
      <3>2. button_presses \in Seq(S)
        OBVIOUS
      <3> HIDE DEF S
      <3>3. button_presses' \in Seq(S)
        BY <3>1, <3>2
      <3>4. QED BY <2>1, <2>3, <3>3 DEF S, BUTTON_A, BUTTON_B
    <2>4. QED BY <1>4, <2>2, <2>3 DEF User
  <1>5. CASE Boot \/ Waits \/ Clock \/ UNCHANGED uiVars
    BY <1>1, <1>5 DEF Boot, Waits, Clock, uiVars, userVars
  <1>6. CASE Loads
    BY <1>1, <1>6 DEF Loads, LoadCallsFs, FsCallsHost, FsReturns, LoadReleases, LoadEnds, Goes, userVars
  <1>7. CASE Presses
    BY <1>1, <1>2, <1>7 DEF Presses, ButtonReads, ButtonSleeps, ButtonCallsHost, ButtonHasRead,
                            ButtonSends, Goes, userVars
  <1>8. ASSUME NEW t \in Encoders, Turns(t)  PROVE InputTypes'
    BY <1>1, <1>2, <1>8 DEF Turns, CooldownSleeps, rotary_encoder_read, EncoderSleeps,
                            EncoderCallsHost, cb, EncoderEnds, Goes, userVars
  <1>9. ASSUME NEW t \in Loaders, LoaderRuns(t)  PROVE InputTypes'
    BY <1>1, <1>9 DEF LoaderRuns, LoaderStarts, LoaderDraws, LoaderEnds, Goes, userVars
  <1>10. ASSUME NEW c \in HostCaller, Transmits(c) \/ TransmitReturns(c)  PROVE InputTypes'
    BY <1>1, <1>10 DEF Transmits, TransmitReturns, userVars
  <1>11. QED BY <1>3, <1>4, <1>5, <1>6, <1>7, <1>8, <1>9, <1>10 DEF UiNext, Phone

(* The two screens there are, one over the other.                          *)
Stacks == {<<"home">>, <<"home", "texts">>}

(* What the top is says what the stack is.                                 *)
LEMMA StackFacts ==
  ASSUME screen_stack \in Stacks
  PROVE  /\ Top \in {"home", "texts"}
         /\ Top = "home" => /\ screen_stack = <<"home">>
                            /\ Append(screen_stack, "texts") = <<"home", "texts">>
         /\ Top = "texts" => /\ screen_stack = <<"home", "texts">>
                             /\ SubSeq(screen_stack, 1, Len(screen_stack) - 1) = <<"home">>
  <1> DEFINE S == {"home", "texts"}
             one == <<"home">>
             two == <<"home", "texts">>
  <1>1. /\ one \in Seq(S) /\ Len(one) = 1 /\ one[1] = "home"
        /\ two \in Seq(S) /\ Len(two) = 2 /\ two[1] = "home" /\ two[2] = "texts"
        /\ "home" \in S /\ "texts" \in S /\ screen_stack \in {one, two}
    BY DEF Stacks
  <1>2. \A s \in S : s = "home" \/ s = "texts"
    OBVIOUS
  <1> HIDE DEF S, one, two
  <1>3. Append(one, "texts") = two
    <2> DEFINE a == Append(one, "texts")
    <2>0. /\ a \in Seq(S) /\ Len(a) = Len(one) + 1
          /\ \A i \in 1 .. Len(one) : a[i] = one[i]
          /\ a[Len(one) + 1] = "texts"
      <3>1. one \in Seq(S) /\ "texts" \in S
        BY <1>1
      <3>2. QED BY ONLY <3>1, AppendProperties DEF a
    <2> HIDE DEF a
    <2>1. a \in Seq(S) /\ Len(a) = 2 /\ a[1] = "home" /\ a[2] = "texts"
      BY <1>1, <2>0
    <2> HIDE DEF a
    <2>2. \A i \in 1 .. Len(a) : a[i] = two[i]
      BY <1>1, <2>1
    <2>3. QED BY <1>1, <2>1, <2>2, SeqEqual DEF a
  <1>4. SubSeq(two, 1, 1) = one
    <2> DEFINE a == SubSeq(two, 1, 1)
    <2>1. a \in Seq(S) /\ Len(a) = 1 /\ a[1] = "home"
      BY <1>1
    <2> HIDE DEF a
    <2>2. \A i \in 1 .. Len(a) : a[i] = one[i]
      BY <1>1, <2>1
    <2>3. QED BY <1>1, <2>1, <2>2, SeqEqual DEF a
  <1>5. CASE screen_stack = one
    <2>1. Top = "home"
      BY <1>1, <1>5 DEF Top
    <2>2. QED BY <1>1, <1>3, <1>5, <2>1 DEF one, two
  <1>6. CASE screen_stack = two
    <2>1. Len(screen_stack) = 2 /\ Len(screen_stack) - 1 = 1
      BY <1>1, <1>6
    <2>2. SubSeq(screen_stack, 1, Len(screen_stack) - 1) = one
      BY <1>4, <1>6, <2>1
    <2>3. Top = "texts"
      BY <1>1, <1>6, <2>1 DEF Top
    <2>4. QED BY <1>6, <2>2, <2>3 DEF one, two
  <1>7. QED BY <1>1, <1>5, <1>6

(* What is on a stack of screens shows at its top.                         *)
LEMMA TopOf ==
  /\ screen_stack = <<"home">> => Top = "home"
  /\ screen_stack' = <<"home">> => Top' = "home"
  /\ screen_stack' = <<"home", "texts">> => Top' = "texts"
  <1>1. \A s : s = <<"home">> => s[Len(s)] = "home"
    OBVIOUS
  <1>2. \A s : s = <<"home", "texts">> => s[Len(s)] = "texts"
    OBVIOUS
  <1>3. QED BY <1>1, <1>2 DEF Top

(* The screens, what is drawn of them, the loader they wait for and the    *)
(* turns they were sent.                                                   *)
Drawings == {Loading, Convos} \cup {HomeFb(i) : i \in 0 .. num_entries - 1}

ScreenTypes ==
  /\ screen_stack \in Stacks
  /\ selected \in 0 .. num_entries - 1
  /\ display_fb \in Drawings
  /\ loader_run \in BOOLEAN /\ first_time \in BOOLEAN
  /\ value \in Int /\ ignored \in Int

ScreenInv ==
  /\ InputTypes /\ ScreenTypes /\ ShowsTop /\ TurnsCounted
  /\ loader_run => Top = "texts"
  /\ display_fb = Loading => loader_run

(* No two screens draw the same.                                           *)
LEMMA DrawingFacts ==
  /\ Loading # Convos
  /\ \A i \in 0 .. num_entries - 1 : /\ HomeFb(i) # Loading /\ HomeFb(i) # Convos
                                     /\ HomeFb(i) \in Drawings
  /\ Loading \in Drawings /\ Convos \in Drawings
  <1>1. Loading.shows = "loading" /\ Convos.shows = "convos"
    BY DEF Loading, Convos
  <1>2. \A i \in 0 .. num_entries - 1 : HomeFb(i).shows = "menu"
    BY DEF HomeFb
  <1>3. QED BY <1>1, <1>2 DEF Drawings

(* A turn moves the highlight to an entry of the menu.                     *)
LEMMA ModuloFacts ==
  ASSUME NEW a \in Int, NEW b \in Int
  PROVE  /\ a % num_entries \in 0 .. num_entries - 1
         /\ ((a % num_entries) + b) % num_entries = (a + b) % num_entries
  BY DEF num_entries

(* Sending the screens an event, a press of a button ...                   *)
LEMMA ButtonEventScreens ==
  ASSUME ScreenInv, NEW num, NEW by, NEW then, ButtonEvent(num, by, then),
         UNCHANGED <<first_time, value>>
  PROVE  ScreenTypes' /\ ShowsTop' /\ TurnsCounted'
         /\ (loader_run => Top = "texts")' /\ (display_fb = Loading => loader_run)'
  <1> USE StackFacts, TopOf, DrawingFacts
  <1>1. CASE Top = "home" /\ OpensTexts(by, then)
    <2>1. display_fb' = (IF held[db_lock] THEN Loading ELSE Convos)
      BY <1>1 DEF OpensTexts, TextsFb, ScreenInv
    <2>2. /\ screen_stack' = <<"home", "texts">> /\ UNCHANGED <<selected, ignored>>
      BY <1>1 DEF OpensTexts, ScreenInv, ScreenTypes
    <2>3. loader_run = FALSE
      BY <1>1 DEF ScreenInv, ScreenTypes
    <2>4. loader_run' \in BOOLEAN /\ (loader_run' <=> held[db_lock])
      BY <1>1, <2>3 DEF OpensTexts, NeedsLoader
    <2>5. ScreenTypes'
      BY <2>1, <2>2, <2>4 DEF ScreenInv, ScreenTypes, Stacks
    <2>6. QED BY <2>1, <2>2, <2>4, <2>5 DEF ScreenInv, ScreenTypes, ShowsTop, TurnsCounted
  <1>2. CASE Top = "texts" /\ ClosesTexts(by, then)
    <2>1. /\ screen_stack' = <<"home">> /\ UNCHANGED <<selected, ignored>>
          /\ loader_run' = FALSE /\ display_fb' = HomeFb(selected)
      BY <1>2 DEF ClosesTexts, ScreenInv, ScreenTypes
    <2>2. ScreenTypes'
      BY <2>1 DEF ScreenInv, ScreenTypes, Stacks
    <2>3. QED BY <2>1, <2>2 DEF ScreenInv, ScreenTypes, ShowsTop, TurnsCounted
  <1>3. CASE UNCHANGED screenVars
    BY <1>3 DEF screenVars, ScreenInv, ScreenTypes, ShowsTop, TurnsCounted, Top
  <1>4. QED BY <1>1, <1>2, <1>3 DEF ButtonEvent

(* ... and a turn of the encoder.                                          *)
LEMMA EncoderEventScreens ==
  ASSUME ScreenInv, NEW t \in Encoders, cb(t)
  PROVE  ScreenTypes' /\ ShowsTop' /\ TurnsCounted'
         /\ (loader_run => Top = "texts")' /\ (display_fb = Loading => loader_run)'
  <1> DEFINE reading == result[t]
  <1>1. reading \in Int /\ value' = reading /\ first_time' = FALSE
    BY Names DEF cb, NextValue, ScreenInv, InputTypes
  <1> HIDE DEF reading
  <1>2. /\ value \in Int /\ ignored \in Int /\ selected \in 0 .. num_entries - 1
        /\ first_time \in BOOLEAN /\ screen_stack \in Stacks
    BY DEF ScreenInv, ScreenTypes
  <1>3. CASE first_time
    <2>1. ignored' = reading /\ UNCHANGED <<screen_stack, selected, loader_run, display_fb>>
      BY <1>3 DEF cb, reading
    <2>2. selected' = 0 /\ (value' - ignored') = 0
      BY <1>1, <1>3, <2>1 DEF ScreenInv, TurnsCounted
    <2>3. TurnsCounted'
      BY <1>1, <2>2 DEF TurnsCounted, num_entries
    <2>4. QED BY <1>1, <2>1, <2>3 DEF ScreenInv, ScreenTypes, ShowsTop, Top
  <1>4. CASE ~ first_time /\ reading # value /\ Top = "home"
    <2> DEFINE sel == floored_modulo(selected + (reading - value), num_entries)
    <2>1. /\ selected' = sel /\ display_fb' = HomeFb(sel)
          /\ UNCHANGED <<screen_stack, loader_run, ignored>>
      BY <1>4 DEF cb, reading, EncoderEvent
    <2>2. selected = (value - ignored) % num_entries
      BY <1>4 DEF ScreenInv, TurnsCounted
    <2>3. sel = ((value - ignored) + (reading - value)) % num_entries
      BY <1>1, <1>2, <2>2, ModuloFacts DEF floored_modulo
    <2>4. (value - ignored) + (reading - value) = reading - ignored
      BY <1>1, <1>2
    <2>5. sel = (reading - ignored) % num_entries /\ sel \in 0 .. num_entries - 1
      BY <1>1, <1>2, <2>3, <2>4, ModuloFacts
    <2> HIDE DEF sel
    <2>6. TurnsCounted'
      BY <1>1, <2>1, <2>5 DEF TurnsCounted
    <2>7. ShowsTop' /\ display_fb' \in Drawings /\ display_fb' # Loading
      BY <1>4, <2>1, <2>5, DrawingFacts DEF ShowsTop, Top
    <2>8. QED BY <1>1, <1>2, <2>1, <2>5, <2>6, <2>7 DEF ScreenInv, ScreenTypes, Top
  <1>5. CASE ~ first_time /\ reading # value /\ Top # "home"
    <2>1. /\ ignored' = ignored + (reading - value)
          /\ UNCHANGED <<screen_stack, selected, loader_run, display_fb>>
      BY <1>5 DEF cb, reading, EncoderEvent
    <2>2. ignored' \in Int /\ value' - ignored' = value - ignored
      BY <1>1, <1>2, <2>1
    <2>3. TurnsCounted'
      BY <1>1, <1>5, <2>1, <2>2 DEF TurnsCounted, ScreenInv
    <2>4. QED BY <1>1, <2>1, <2>2, <2>3 DEF ScreenInv, ScreenTypes, ShowsTop, Top
  <1>6. CASE ~ first_time /\ reading = value
    <2>1. UNCHANGED screenVars
      BY <1>6 DEF cb, reading
    <2>2. TurnsCounted'
      BY <1>1, <1>6, <2>1 DEF TurnsCounted, ScreenInv, screenVars
    <2>3. QED BY <1>1, <2>1, <2>2 DEF screenVars, ScreenInv, ScreenTypes, ShowsTop, Top
  <1>7. QED BY <1>2, <1>3, <1>4, <1>5, <1>6

(* A loader draws over no screen but its own.                              *)
LEMMA LoaderScreens ==
  ASSUME ScreenInv, NEW t \in Loaders, LoaderDraws(t)
  PROVE  ScreenTypes' /\ ShowsTop' /\ TurnsCounted'
         /\ (loader_run => Top = "texts")' /\ (display_fb = Loading => loader_run)'
  <1>1. /\ loader_run' = FALSE /\ display_fb' = Redrawn
        /\ UNCHANGED <<screen_stack, selected, ignored, value, first_time>>
    BY DEF LoaderDraws, encoderVars
  <1>2. Redrawn = IF loader_run THEN Convos ELSE display_fb
    BY DEF Redrawn, TextsFb, ScreenInv
  <1>3. display_fb' \in Drawings /\ display_fb' # Loading
    BY <1>1, <1>2, DrawingFacts DEF ScreenInv, ScreenTypes
  <1>4. ShowsTop'
    BY <1>1, <1>2 DEF ScreenInv, ShowsTop, Top
  <1>5. QED BY <1>1, <1>3, <1>4 DEF ScreenInv, ScreenTypes, TurnsCounted

(* Every step leaves the top screen shown.                                 *)
LEMMA ScreenStep == ScreenInv /\ [UiNext]_uiVars => ScreenInv'
  <1> SUFFICES ASSUME ScreenInv, [UiNext]_uiVars  PROVE ScreenInv'
    OBVIOUS
  <1>1. InputTypes'
    BY InputStep DEF ScreenInv
  <1>2. CASE UNCHANGED screenVars /\ UNCHANGED encoderVars
    BY <1>1, <1>2 DEF screenVars, encoderVars, ScreenInv, ScreenTypes, ShowsTop, TurnsCounted, Top
  <1>3. CASE ButtonSends
    <2>1. UNCHANGED <<first_time, value>>
      BY <1>3 DEF ButtonSends, encoderVars
    <2>2. CASE UNCHANGED screenVars
      BY <1>2, <2>1, <2>2 DEF encoderVars
    <2>3. CASE ButtonEvent(result[Button], Button, AfterEvent)
      BY <1>1, <2>1, <2>3, ButtonEventScreens DEF ScreenInv
    <2>4. QED BY <1>3, <2>2, <2>3 DEF ButtonSends
  <1>4. QED BY <1>1, <1>2, <1>3, QuietSteps, EncoderEventScreens, LoaderScreens DEF ScreenInv

(* So it always is.                                                        *)
LEMMA ScreenInvariant == UiSpec => []ScreenInv
  <1>1. UiInit => ScreenInv
    <2> SUFFICES ASSUME UiInit  PROVE ScreenInv
      OBVIOUS
    <2>1. /\ screen_stack = <<"home">> /\ selected = 0 /\ display_fb = HomeFb(0)
          /\ loader_run = FALSE /\ value = 0 /\ first_time = TRUE
          /\ result = [c \in HostCaller |-> NoPress]
          /\ encoder = 0 /\ button_presses = <<>> /\ ignored = 0
      BY DEF UiInit
    <2>2. InputTypes
      BY <2>1 DEF InputTypes, NoPress, BUTTON_A, BUTTON_B
    <2>3. 0 \in 0 .. num_entries - 1
      BY DEF num_entries
    <2>4. TurnsCounted /\ ShowsTop
      BY <2>1, TopOf DEF ShowsTop, TurnsCounted
    <2>5. display_fb \in Drawings /\ display_fb # Loading
      BY <2>1, <2>3, DrawingFacts
    <2>6. ScreenTypes
      <3>1. loader_run \in BOOLEAN /\ first_time \in BOOLEAN
        BY <2>1
      <3>2. value \in Int /\ ignored \in Int
        BY <2>1
      <3>3. QED BY <2>1, <2>3, <2>5, <3>1, <3>2 DEF ScreenTypes, Stacks
    <2>7. QED BY <2>1, <2>2, <2>4, <2>5, <2>6 DEF ScreenInv
  <1>2. QED BY <1>1, ScreenStep, PTL DEF UiSpec

(* No loader and no event draws over another screen than the one on top.   *)
THEOREM TopShown == UiSpec => []ShowsTop
  <1>1. ScreenInv => ShowsTop
    BY DEF ScreenInv
  <1>2. QED BY <1>1, ScreenInvariant, PTL

-----------------------------------------------------------------------------
(* The tasks *)

(* Where the functions of each task are suspended, and the frames that     *)
(* takes.                                                                  *)
LoadLines == {"start", "fs", "transmit", "asked", "answered", "end", "ended"}
ButtonLines == {"start", "read", "slept", "transmit", "asked", "answered", "event"}
EncoderLines == {"start", "cooled", "read", "slept", "transmit", "asked", "answered", "end"}
LoaderLines == {"start", "locked", "end"}
Lines == LoadLines \cup ButtonLines \cup EncoderLines \cup LoaderLines

EncoderFrames(where) == IF where \in {"transmit", "asked"} THEN 2 ELSE 1

FramesInv ==
  /\ line \in [Task -> Lines]
  /\ phase = "boot" => \A u \in Task : line[u] = "start"
  /\ line[Load] \in LoadLines /\ line[Button] \in ButtonLines
  /\ \A u \in Encoders : /\ line[u] \in EncoderLines
                         /\ depth[u] > 0 => depth[u] = EncoderFrames(line[u])
  /\ \A u \in Loaders : line[u] \in LoaderLines /\ depth[u] \in {0, 1}

(* A step of task t changes the line and the frames of no other task ...   *)
Only(t) == \A u \in Task : u # t => line'[u] = line[u] /\ depth'[u] = depth[u]

(* ... but for the task u it spawns, which has no frames before.           *)
OnlyAnd(t, u) ==
  /\ u # t /\ depth[u] = 0 /\ depth'[u] = 1 /\ depth'[t] = depth[t]
  /\ \A x \in Task : x \notin {t, u} => line'[x] = line[x] /\ depth'[x] = depth[x]

(* A step that goes on in one task moves that task only.                   *)
LEMMA GoesOnly ==
  ASSUME FramesInv, PlaceInv, NEW t \in Task, NEW to \in Lines, Runs(t), GoTo(t, to),
         ReturnDone(t) \/ ReturnAwait(t) \/ UNCHANGED depth
  PROVE  /\ Only(t) /\ line' \in [Task -> Lines] /\ line'[t] = to
         /\ ReturnDone(t) => depth'[t] = depth[t] - 1
         /\ ReturnAwait(t) => depth'[t] = depth[t] + 1
  <1>1. line \in [Task -> Lines] /\ depth \in [Task -> 0 .. MaxDepth] /\ depth[t] \in Int
    BY DEF FramesInv, PlaceInv, TypeOK
  <1>2. line' = [line EXCEPT ![t] = to]
    BY DEF GoTo
  <1>3. line' \in [Task -> Lines] /\ line'[t] = to /\ \A u \in Task : u # t => line'[u] = line[u]
    BY <1>1, <1>2
  <1>4. /\ ReturnDone(t) => depth' = [depth EXCEPT ![t] = depth[t] - 1]
        /\ ReturnAwait(t) => depth' = [depth EXCEPT ![t] = depth[t] + 1]
    BY DEF ReturnDone, ReturnAwait
  <1>5. QED BY <1>1, <1>3, <1>4 DEF Only

(* A spawned task takes a name without frames, not the running one's.      *)
LEMMA SpawnsOnly ==
  ASSUME FramesInv, PlaceInv, NEW t \in Task, NEW to \in Lines, Runs(t),
         NEW names \in SUBSET Task, NEW starts \in Lines, Spawns(names, starts, t, to)
  PROVE  \E u \in names : /\ OnlyAnd(t, u) /\ line' \in [Task -> Lines]
                          /\ line'[t] = to /\ line'[u] = starts /\ async_spawn(u, {})
  <1>1. line \in [Task -> Lines] /\ depth \in [Task -> 0 .. MaxDepth] /\ depth[t] > 0
    BY RunningTask DEF FramesInv, PlaceInv, TypeOK
  <1>2. PICK u \in names : /\ async_spawn(u, {})
                           /\ line' = [line EXCEPT ![u] = starts, ![t] = to]
    BY DEF Spawns
  <1>3. depth[u] = 0 /\ depth' = [depth EXCEPT ![u] = 1]
    BY <1>2 DEF async_spawn
  <1>4. u # t
    BY <1>1, <1>3
  <1>5. QED BY <1>1, <1>2, <1>3, <1>4 DEF OnlyAnd

(* The steps of the user interface by the task that takes them.            *)
Idles == Waits \/ Clock \/ HostServes \/ User \/ UNCHANGED uiVars
LoadGoes == Loads \/ Transmits(Load) \/ TransmitReturns(Load)
ButtonGoes == Presses \/ Transmits(Button) \/ TransmitReturns(Button)
EncoderGoes(t) == Turns(t) \/ Transmits(t) \/ TransmitReturns(t)

(* Every step is one task's, or nobody's.                                  *)
LEMMA StepsByTask ==
  ASSUME [UiNext]_uiVars
  PROVE  \/ Boot \/ Idles \/ LoadGoes \/ ButtonGoes
         \/ \E t \in Encoders : EncoderGoes(t)
         \/ \E t \in Loaders : LoaderRuns(t)
  BY Names DEF UiNext, Phone, Idles, LoadGoes, ButtonGoes, EncoderGoes

(* What the loop, the clock, the host and the user leave alone.            *)
LEMMA IdleKeeps ==
  ASSUME Idles
  PROVE  UNCHANGED <<line, depth, loaded, screenVars, encoderVars>>
  <1>1. CASE Waits
    BY <1>1 DEF Waits, PickShortcut, PickScheduled, Evented, CallTop
  <1>2. CASE Clock \/ HostServes \/ User \/ UNCHANGED uiVars
    BY <1>2 DEF Clock, Tick, HostServes, User, uiVars, asyncVars, vars, timers
  <1>3. QED BY <1>1, <1>2 DEF Idles

(* The load moves only the task that loads.                                *)
LEMMA LoadOnly ==
  ASSUME FramesInv, PlaceInv, LoadGoes
  PROVE  /\ Runs(Load) /\ Only(Load) /\ line' \in [Task -> Lines] /\ line'[Load] \in LoadLines
  <1> USE Names
  <1>1. Runs(Load)
    BY DEF LoadGoes, Loads, LoadCallsFs, FsCallsHost, FsReturns, LoadReleases, LoadEnds,
           Transmits, TransmitReturns, Goes, At
  <1>2. \E to \in LoadLines : GoTo(Load, to)
    BY DEF LoadGoes, Loads, LoadCallsFs, FsCallsHost, FsReturns, LoadReleases, LoadEnds,
           Transmits, TransmitReturns, Goes, LoadLines
  <1>3. ReturnDone(Load) \/ ReturnAwait(Load) \/ UNCHANGED depth
    BY DEF LoadGoes, Loads, LoadCallsFs, FsCallsHost, FsReturns, LoadReleases, LoadEnds,
           Transmits, TransmitReturns, Goes, ReturnDetach, async_lock_release
  <1>4. QED BY <1>1, <1>2, <1>3, GoesOnly DEF Lines

(* The button's task opens the texts, or steps on its own.                 *)
LEMMA ButtonOnly ==
  ASSUME FramesInv, PlaceInv, ButtonGoes
  PROVE  /\ Runs(Button) /\ line' \in [Task -> Lines] /\ line'[Button] \in ButtonLines
         /\ \/ Only(Button) /\ (loader_run' => loader_run)
            \/ /\ line[Button] = "event" /\ line'[Button] = "start" /\ loader_run' = TRUE
               /\ \E u \in Loaders : /\ OnlyAnd(Button, u) /\ line'[u] = "start"
                                     /\ async_spawn(u, {})
  <1> USE Names
  <1>1. Runs(Button)
    BY DEF ButtonGoes, Presses, ButtonReads, ButtonSleeps, ButtonCallsHost, ButtonHasRead,
           ButtonSends, Transmits, TransmitReturns, Goes, At
  <1>2. CASE ~ ButtonSends
    <2>1. \E to \in ButtonLines : GoTo(Button, to)
      BY <1>2 DEF ButtonGoes, Presses, ButtonReads, ButtonSleeps, ButtonCallsHost, ButtonHasRead,
                  Transmits, TransmitReturns, Goes, ButtonLines
    <2>2. ReturnDone(Button) \/ ReturnAwait(Button) \/ UNCHANGED depth
      BY <1>2 DEF ButtonGoes, Presses, ButtonReads, ButtonSleeps, ButtonCallsHost, ButtonHasRead,
                  Transmits, TransmitReturns, Goes, ReturnDetach, ReturnSleep
    <2>3. UNCHANGED loader_run
      BY <1>2 DEF ButtonGoes, Presses, ButtonReads, ButtonSleeps, ButtonCallsHost, ButtonHasRead,
                  Transmits, TransmitReturns, Goes, screenVars
    <2>4. QED BY <1>1, <2>1, <2>2, <2>3, GoesOnly DEF Lines
  <1>3. CASE ButtonSends
    <2>1. AfterEvent \in ButtonLines /\ AfterEvent \in Lines /\ "start" \in Lines
      BY DEF AfterEvent, ButtonLines, Lines
    <2>2. \/ /\ GoTo(Button, AfterEvent) /\ UNCHANGED asyncVars
             /\ loader_run' => loader_run
          \/ Spawns(Loaders, "start", Button, AfterEvent) /\ loader_run' = TRUE
      BY <1>3 DEF ButtonSends, ButtonEvent, OpensTexts, ClosesTexts, screenVars
    <2>3. CASE /\ GoTo(Button, AfterEvent) /\ UNCHANGED asyncVars
               /\ loader_run' => loader_run
      <3>1. UNCHANGED depth
        BY <2>3 DEF asyncVars, vars, timers
      <3>2. QED BY <1>1, <2>1, <2>3, <3>1, GoesOnly
    <2>4. CASE Spawns(Loaders, "start", Button, AfterEvent) /\ loader_run' = TRUE
      <3>1. line[Button] = "event" /\ AfterEvent = "start"
        BY <1>3 DEF ButtonSends, At, AfterEvent
      <3>2. QED BY <1>1, <2>1, <2>4, <3>1, SpawnsOnly
    <2>5. QED BY <2>2, <2>3, <2>4
  <1>4. QED BY <1>2, <1>3

(* A task of the encoder's chain goes on, hands over to a new one, or ends *)
(* after that.                                                             *)
LEMMA EncoderOnly ==
  ASSUME FramesInv, PlaceInv, NEW t \in Encoders, EncoderGoes(t)
  PROVE  /\ Runs(t) /\ line' \in [Task -> Lines]
         /\ \/ /\ Only(t) /\ line[t] # "end" /\ line'[t] \in EncoderLines \ {"end"}
               /\ depth'[t] = EncoderFrames(line'[t])
            \/ /\ Only(t) /\ line[t] = "end" /\ line'[t] = "start" /\ depth'[t] = 0
            \/ /\ line[t] \in {"cooled", "answered"} /\ line'[t] = "end"
               /\ \E u \in Encoders : /\ OnlyAnd(t, u) /\ line'[u] \in {"read", "start"}
  <1> USE Names
  <1> DEFINE Continues == /\ Only(t) /\ line[t] # "end" /\ line'[t] \in EncoderLines \ {"end"}
                          /\ depth'[t] = EncoderFrames(line'[t])
             HandsOver == /\ line[t] \in {"cooled", "answered"} /\ line'[t] = "end"
                          /\ \E u \in Encoders : /\ OnlyAnd(t, u)
                                                 /\ line'[u] \in {"read", "start"}
  <1>1. Runs(t)
    BY DEF EncoderGoes, Turns, CooldownSleeps, rotary_encoder_read, EncoderSleeps,
           EncoderCallsHost, cb, EncoderEnds, Transmits, TransmitReturns, Goes, At
  <1>2. depth[t] = EncoderFrames(line[t])
    BY <1>1, RunningTask DEF FramesInv
  <1>3. EncoderLines \subseteq Lines
    BY DEF Lines
  <1>4. ASSUME CooldownSleeps(t) \/ EncoderSleeps(t)
        PROVE  Continues /\ line' \in [Task -> Lines]
    <2>1. PICK to \in {"cooled", "slept"} :
            /\ line[t] \in {"start", "read"} /\ GoTo(t, to) /\ UNCHANGED depth
      BY <1>4 DEF CooldownSleeps, EncoderSleeps, Goes, At, ReturnSleep
    <2>2. /\ Only(t) /\ line' \in [Task -> Lines] /\ line'[t] = to
      BY <1>1, <1>3, <2>1, GoesOnly DEF EncoderLines
    <2>3. depth'[t] = 1
      BY <1>2, <2>1 DEF EncoderFrames
    <2>4. QED BY <2>1, <2>2, <2>3 DEF EncoderFrames, EncoderLines
  <1>5. ASSUME EncoderCallsHost(t)
        PROVE  Continues /\ line' \in [Task -> Lines]
    <2>1. line[t] = "slept" /\ GoTo(t, "transmit") /\ ReturnAwait(t)
      BY <1>5 DEF EncoderCallsHost, Goes, At
    <2>2. /\ Only(t) /\ line' \in [Task -> Lines] /\ line'[t] = "transmit"
          /\ depth'[t] = depth[t] + 1
      BY <1>1, <1>3, <2>1, GoesOnly DEF EncoderLines
    <2>3. depth'[t] = 2
      BY <1>2, <2>1, <2>2 DEF EncoderFrames
    <2>4. QED BY <2>1, <2>2, <2>3 DEF EncoderFrames, EncoderLines
  <1>6. ASSUME Transmits(t)
        PROVE  Continues /\ line' \in [Task -> Lines]
    <2>1. line[t] = "transmit" /\ GoTo(t, "asked") /\ UNCHANGED depth
      BY <1>6 DEF Transmits, At, ReturnDetach
    <2>2. /\ Only(t) /\ line' \in [Task -> Lines] /\ line'[t] = "asked"
      BY <1>1, <1>3, <2>1, GoesOnly DEF EncoderLines
    <2>3. depth'[t] = 2
      BY <1>2, <2>1 DEF EncoderFrames
    <2>4. QED BY <2>1, <2>2, <2>3 DEF EncoderFrames, EncoderLines
  <1>7. ASSUME TransmitReturns(t)
        PROVE  Continues /\ line' \in [Task -> Lines]
    <2>1. line[t] = "asked" /\ GoTo(t, "answered") /\ ReturnDone(t)
      BY <1>7 DEF TransmitReturns, At
    <2>2. /\ Only(t) /\ line' \in [Task -> Lines] /\ line'[t] = "answered"
          /\ depth'[t] = depth[t] - 1
      BY <1>1, <1>3, <2>1, GoesOnly DEF EncoderLines
    <2>3. depth'[t] = 1
      BY <1>2, <2>1, <2>2 DEF EncoderFrames
    <2>4. QED BY <2>1, <2>2, <2>3 DEF EncoderFrames, EncoderLines
  <1>8. ASSUME EncoderEnds(t)
        PROVE  /\ Only(t) /\ line[t] = "end" /\ line'[t] = "start" /\ depth'[t] = 0
               /\ line' \in [Task -> Lines]
    <2>1. line[t] = "end" /\ GoTo(t, "start") /\ ReturnDone(t)
      BY <1>8 DEF EncoderEnds, Goes, At
    <2>2. /\ Only(t) /\ line' \in [Task -> Lines] /\ line'[t] = "start"
          /\ depth'[t] = depth[t] - 1
      BY <1>1, <1>3, <2>1, GoesOnly DEF EncoderLines
    <2>3. depth'[t] = 0
      BY <1>2, <2>1, <2>2 DEF EncoderFrames
    <2>4. QED BY <2>1, <2>2, <2>3
  <1>9. ASSUME rotary_encoder_read(t) \/ cb(t)
         PROVE  HandsOver /\ line' \in [Task -> Lines]
    <2>1. \E starts \in {"read", "start"} : Spawns(Encoders, starts, t, "end")
      BY <1>9 DEF rotary_encoder_read, cb, AfterCooldown
    <2>2. line[t] \in {"cooled", "answered"}
      BY <1>9 DEF rotary_encoder_read, cb, At
    <2>3. "read" \in Lines /\ "start" \in Lines /\ "end" \in Lines
      BY <1>3 DEF EncoderLines
    <2>4. PICK starts \in {"read", "start"} : Spawns(Encoders, starts, t, "end")
      BY <2>1
    <2>5. /\ line' \in [Task -> Lines] /\ line'[t] = "end"
          /\ \E u \in Encoders : OnlyAnd(t, u) /\ line'[u] = starts
      <3>1. starts \in Lines /\ Encoders \in SUBSET Task /\ t \in Task
        BY <2>3
      <3>2. QED BY <1>1, <2>3, <2>4, <3>1, SpawnsOnly, SMTT(30)
    <2>6. QED BY <2>2, <2>5
  <1>10. QED BY <1>1, <1>4, <1>5, <1>6, <1>7, <1>8, <1>9 DEF EncoderGoes, Turns

(* A loader goes on to draw, if its screen still wants it, and ends.       *)
LEMMA LoaderOnly ==
  ASSUME FramesInv, PlaceInv, NEW t \in Loaders, LoaderRuns(t)
  PROVE  /\ Runs(t) /\ Only(t) /\ line' \in [Task -> Lines]
         /\ \/ line[t] = "start" /\ loader_run /\ line'[t] = "locked" /\ depth'[t] = 1
            \/ line[t] = "start" /\ ~ loader_run' /\ line'[t] = "start" /\ depth'[t] = 0
            \/ line[t] = "locked" /\ ~ loader_run' /\ line'[t] = "end" /\ depth'[t] = 1
            \/ line[t] = "end" /\ line'[t] = "start" /\ depth'[t] = 0
  <1> USE Names
  <1>1. Runs(t)
    BY DEF LoaderRuns, LoaderStarts, LoaderDraws, LoaderEnds, Goes, At
  <1>2. depth[t] = 1 /\ "start" \in Lines /\ "locked" \in Lines /\ "end" \in Lines
    BY <1>1, RunningTask DEF FramesInv, Lines, LoaderLines
  <1>3. CASE LoaderStarts(t) /\ loader_run
    <2>1. line[t] = "start" /\ GoTo(t, "locked") /\ UNCHANGED depth
      BY <1>3 DEF LoaderStarts, Goes, At, ReturnLockAcquire
    <2>2. QED BY <1>1, <1>2, <1>3, <2>1, GoesOnly
  <1>4. CASE LoaderStarts(t) /\ ~ loader_run
    <2>1. line[t] = "start" /\ GoTo(t, "start") /\ ReturnDone(t) /\ UNCHANGED loader_run
      BY <1>4 DEF LoaderStarts, Goes, At, screenVars
    <2>2. Only(t) /\ line' \in [Task -> Lines] /\ line'[t] = "start" /\ depth'[t] = depth[t] - 1
      BY <1>1, <1>2, <2>1, GoesOnly
    <2>3. depth'[t] = 0
      BY <1>2, <2>2
    <2>4. QED BY <1>1, <1>4, <2>1, <2>2, <2>3
  <1>5. CASE LoaderDraws(t)
    <2>1. line[t] = "locked" /\ GoTo(t, "end") /\ UNCHANGED depth /\ ~ loader_run'
      BY <1>5 DEF LoaderDraws, At, async_lock_release
    <2>2. QED BY <1>1, <1>2, <2>1, GoesOnly
  <1>6. CASE LoaderEnds(t)
    <2>1. line[t] = "end" /\ GoTo(t, "start") /\ ReturnDone(t)
      BY <1>6 DEF LoaderEnds, Goes, At
    <2>2. Only(t) /\ line' \in [Task -> Lines] /\ line'[t] = "start" /\ depth'[t] = depth[t] - 1
      BY <1>1, <1>2, <2>1, GoesOnly
    <2>3. depth'[t] = 0
      BY <1>2, <2>2
    <2>4. QED BY <1>1, <2>1, <2>2, <2>3
  <1>7. QED BY <1>3, <1>4, <1>5, <1>6 DEF LoaderRuns

(* The start is over once, and only when the button's task is spawned.     *)
LEMMA PhaseFacts ==
  ASSUME [UiNext]_uiVars, TypeOK
  PROVE  /\ phase # "boot" => phase' # "boot" /\ ~ Boot
         /\ phase = "boot" => Boot \/ (Idles /\ phase' = "boot")
  <1>1. ASSUME phase # "boot"  PROVE phase' # "boot" /\ ~ Boot
    <2>1. [Next]_vars
      BY UiStepIsAsync
    <2>2. CASE UNCHANGED phase
      BY <1>1, <2>2 DEF Boot
    <2>3. CASE Pick
      BY <1>1, <2>3 DEF Pick, PickShortcut, PickScheduled, PickEvented, Evented, LoopReturns,
                        CallTop, Boot
    <2>4. CASE \E t \in Task : Return(t)
      BY <1>1, <2>4 DEF Return, ReturnDone, ReturnSleep, ReturnAwait, ReturnDetach,
                        ReturnLockAcquire, Boot
    <2>5. QED BY <1>1, <2>1, <2>2, <2>3, <2>4
              DEF Next, EnterLoop, Tick, Call, async_spawn, async_lock_try_acquire,
                  async_lock_release, vars
  <1>2. ASSUME phase = "boot"  PROVE Boot \/ (Idles /\ phase' = "boot")
    <2>1. \A t \in Task : ~ Runs(t)
      BY <1>2 DEF Runs
    <2>2. ~ LoadGoes /\ ~ ButtonGoes
      BY <2>1, Names
         DEF LoadGoes, Loads, LoadCallsFs, FsCallsHost, FsReturns, LoadReleases, LoadEnds,
             ButtonGoes, Presses, ButtonReads, ButtonSleeps, ButtonCallsHost, ButtonHasRead,
             ButtonSends, Transmits, TransmitReturns, Goes, At
    <2>3. \A t \in Encoders : ~ EncoderGoes(t)
      BY <2>1, Names
         DEF EncoderGoes, Turns, CooldownSleeps, rotary_encoder_read, EncoderSleeps,
             EncoderCallsHost, cb, EncoderEnds, Transmits, TransmitReturns, Goes, At
    <2>4. \A t \in Loaders : ~ LoaderRuns(t)
      BY <2>1, Names DEF LoaderRuns, LoaderStarts, LoaderDraws, LoaderEnds, Goes, At
    <2>5. ASSUME Idles  PROVE phase' = "boot"
      BY <1>2, <2>5 DEF Idles, Waits, PickShortcut, PickScheduled, Evented, Clock, Tick,
                        HostServes, User, uiVars, asyncVars, vars
    <2>6. QED BY <2>2, <2>3, <2>4, <2>5, StepsByTask
  <1>3. QED BY <1>1, <1>2

(* Every step leaves each task with the frames its line says.              *)
LEMMA FramesStep == FramesInv /\ PlaceInv /\ [UiNext]_uiVars => FramesInv'
  <1> SUFFICES ASSUME FramesInv, PlaceInv, [UiNext]_uiVars  PROVE FramesInv'
    OBVIOUS
  <1> USE Names
  <1>0. TypeOK /\ depth \in [Task -> 0 .. MaxDepth]
    BY DEF PlaceInv, TypeOK
  <1>1. CASE Boot
    <2>1. phase = "boot" /\ UNCHANGED line
      BY <1>1 DEF Boot
    <2>2. \A u \in Task : line[u] = "start"
      BY <2>1 DEF FramesInv
    <2>3. UNCHANGED depth \/ \E t \in Task \ Loaders : depth' = [depth EXCEPT ![t] = 1] /\ depth[t] = 0
      BY <1>1 DEF Boot, async_spawn, EnterLoop, timers
    <2>4. \A u \in Encoders : depth'[u] > 0 => depth'[u] = EncoderFrames(line'[u])
      BY <1>0, <2>1, <2>2, <2>3 DEF FramesInv, EncoderFrames
    <2>5. \A u \in Loaders : depth'[u] \in {0, 1}
      BY <1>0, <2>3 DEF FramesInv
    <2>6. QED BY <2>1, <2>2, <2>4, <2>5 DEF FramesInv
  <1>2. CASE Idles
    <2>1. UNCHANGED <<line, depth>> /\ (phase # "boot" => phase' # "boot")
      BY <1>0, <1>2, IdleKeeps, PhaseFacts
    <2>2. QED BY <2>1 DEF FramesInv
  <1>3. ASSUME phase # "boot"  PROVE phase' # "boot"
    BY <1>0, <1>3, PhaseFacts
  <1>4. ASSUME NEW t \in Task, Runs(t)  PROVE phase' # "boot"
    BY <1>3, <1>4 DEF Runs
  <1>5. CASE LoadGoes
    BY <1>4, <1>5, LoadOnly DEF FramesInv, Only
  <1>6. CASE ButtonGoes
    <2>1. phase' # "boot" /\ line' \in [Task -> Lines] /\ line'[Button] \in ButtonLines
      BY <1>4, <1>6, ButtonOnly
    <2>2. CASE Only(Button)
      BY <2>1, <2>2 DEF FramesInv, Only
    <2>3. ASSUME NEW u \in Loaders, OnlyAnd(Button, u), line'[u] = "start"  PROVE FramesInv'
      <3>1. line'[u] \in LoaderLines /\ depth'[u] \in {0, 1}
        BY <2>3 DEF OnlyAnd, LoaderLines
      <3>2. \A x \in Task \ {Button, u} : line'[x] = line[x] /\ depth'[x] = depth[x]
        BY <2>3 DEF OnlyAnd
      <3>3. QED BY <2>1, <3>1, <3>2 DEF FramesInv
    <2>4. QED BY <1>6, <2>2, <2>3, ButtonOnly
  <1>7. ASSUME NEW t \in Encoders, EncoderGoes(t)  PROVE FramesInv'
    <2>1. phase' # "boot" /\ line' \in [Task -> Lines] /\ depth[t] > 0
      BY <1>4, <1>7, EncoderOnly, RunningTask, SMTT(30)
    <2>2. ASSUME Only(t), line'[t] \in EncoderLines,
                 depth'[t] > 0 => depth'[t] = EncoderFrames(line'[t])
          PROVE  FramesInv'
      BY <2>1, <2>2 DEF FramesInv, Only
    <2>3. ASSUME NEW u \in Encoders, OnlyAnd(t, u), line'[t] = "end",
                 line'[u] \in {"read", "start"}, depth[t] = 1
          PROVE  FramesInv'
      <3>1. /\ depth'[u] = 1 /\ depth'[t] = 1
            /\ line'[u] \in EncoderLines /\ line'[t] \in EncoderLines
            /\ EncoderFrames(line'[u]) = 1 /\ EncoderFrames(line'[t]) = 1
        BY <2>3 DEF OnlyAnd, EncoderFrames, EncoderLines
      <3>2. \A x \in Task \ {t, u} : line'[x] = line[x] /\ depth'[x] = depth[x]
        BY <2>3 DEF OnlyAnd
      <3>3. QED BY <2>1, <3>1, <3>2 DEF FramesInv
    <2>4. line[t] \in {"cooled", "answered"} => depth[t] = 1
      BY <2>1 DEF FramesInv, EncoderFrames
    <2>5. QED BY <1>7, <2>2, <2>3, <2>4, EncoderOnly DEF EncoderLines
  <1>8. ASSUME NEW t \in Loaders, LoaderRuns(t)  PROVE FramesInv'
    <2>1. phase' # "boot" /\ line' \in [Task -> Lines]
      BY <1>4, <1>8, LoaderOnly
    <2>2. Only(t) /\ line'[t] \in LoaderLines /\ depth'[t] \in {0, 1}
      BY <1>8, LoaderOnly DEF LoaderLines
    <2>3. QED BY <2>1, <2>2 DEF FramesInv, Only
  <1>9. QED BY <1>1, <1>2, <1>5, <1>6, <1>7, <1>8, StepsByTask

(* So each always has them.                                                *)
LEMMA FramesInvariant == UiSpec => []FramesInv
  <1>1. UiInit => FramesInv
    <2>1. ASSUME UiInit  PROVE line = [t \in Task |-> "start"] /\ depth = [t \in Task |-> 0]
      BY <2>1 DEF UiInit, Init
    <2>2. QED BY <2>1, Names DEF FramesInv, Lines, LoadLines, ButtonLines, EncoderLines, LoaderLines
  <1>2. QED BY <1>1, FramesStep, UiIsAsync, PlaceInvariant, PTL DEF UiSpec

(* Before the loop the chain starts with one task, spawned before the      *)
(* button's.                                                               *)
ChainInv ==
  /\ OneEncoderChain
  /\ phase = "boot" =>
       /\ \A t, u \in Encoders : depth[t] > 0 /\ depth[u] > 0 => t = u
       /\ depth[Button] > 0 => \E t \in Encoders : depth[t] > 0

(* Every step leaves one encoder task to go on.                            *)
LEMMA ChainStep == ChainInv /\ FramesInv /\ PlaceInv /\ [UiNext]_uiVars => ChainInv'
  <1> SUFFICES ASSUME ChainInv, FramesInv, PlaceInv, [UiNext]_uiVars  PROVE ChainInv'
    OBVIOUS
  <1> USE Names
  <1>0. TypeOK /\ depth \in [Task -> 0 .. MaxDepth] /\ MaxDepth \in Nat
    BY AsyncAssumption DEF AsyncAssumption, PlaceInv, TypeOK
  <1>1. CASE phase = "boot"
    <2>1. \A u \in Task : line[u] = "start"
      BY <1>1 DEF FramesInv
    <2>2. CASE Idles /\ phase' = "boot"
      BY <1>1, <2>2, IdleKeeps DEF ChainInv, OneEncoderChain
    <2>3. CASE Boot /\ phase' = "boot"
      <3>1. \/ depth' = [depth EXCEPT ![Load] = 1]
            \/ /\ \A e \in Encoders : depth[e] = 0
               /\ \E e \in Encoders : depth' = [depth EXCEPT ![e] = 1]
            \/ (\E e \in Encoders : depth[e] = 1) /\ depth' = [depth EXCEPT ![Button] = 1]
        BY <1>1, <2>3 DEF Boot, async_spawn, EnterLoop
      <3>2. \A t, u \in Encoders : depth'[t] > 0 /\ depth'[u] > 0 => t = u
        BY <1>0, <1>1, <3>1 DEF ChainInv
      <3>3. depth'[Button] > 0 => \E t \in Encoders : depth'[t] > 0
        BY <1>0, <1>1, <3>1 DEF ChainInv
      <3>4. QED BY <2>3, <3>2, <3>3 DEF ChainInv, OneEncoderChain
    <2>4. CASE Boot /\ phase' # "boot"
      <3>1. UNCHANGED <<depth, line>> /\ depth[Button] = 1
        BY <1>1, <2>4 DEF Boot, async_spawn, EnterLoop, timers
      <3>2. PICK t \in Encoders : depth[t] > 0
        BY <1>0, <1>1, <3>1 DEF ChainInv
      <3>3. \A u \in Encoders : (u = t) <=> (depth'[u] > 0 /\ line'[u] # "end")
        BY <1>1, <2>1, <3>1, <3>2 DEF ChainInv
      <3>4. QED BY <2>4, <3>2, <3>3 DEF ChainInv, OneEncoderChain
    <2>5. QED BY <1>0, <1>1, <2>2, <2>3, <2>4, PhaseFacts
  <1>2. CASE phase # "boot"
    <2>1. phase' # "boot" /\ ~ Boot
      BY <1>0, <1>2, PhaseFacts
    <2>2. PICK t \in Encoders : \A u \in Encoders : (u = t) <=> (depth[u] > 0 /\ line[u] # "end")
      BY <1>2 DEF ChainInv, OneEncoderChain
    <2>3. ASSUME NEW v \in Encoders,
                 \A u \in Encoders : (u = v) <=> (depth'[u] > 0 /\ line'[u] # "end")
          PROVE  ChainInv'
      BY <2>1, <2>3 DEF ChainInv, OneEncoderChain
    <2>4. ASSUME \A u \in Encoders : line'[u] = line[u] /\ depth'[u] = depth[u]  PROVE ChainInv'
      BY <2>2, <2>3, <2>4
    <2>5. CASE Idles
      BY <2>4, <2>5, IdleKeeps
    <2>6. CASE LoadGoes
      BY <2>4, <2>6, LoadOnly DEF Only
    <2>7. CASE ButtonGoes
      BY <2>4, <2>7, ButtonOnly DEF Only, OnlyAnd
    <2>8. ASSUME NEW x \in Loaders, LoaderRuns(x)  PROVE ChainInv'
      BY <2>4, <2>8, LoaderOnly DEF Only
    <2>9. ASSUME NEW x \in Encoders, EncoderGoes(x)  PROVE ChainInv'
      <3>1. depth[x] > 0
        BY <2>9, EncoderOnly, RunningTask
      <3>2. CASE /\ Only(x) /\ line[x] # "end" /\ line'[x] \in EncoderLines \ {"end"}
                 /\ depth'[x] = EncoderFrames(line'[x])
        <4>1. x = t /\ depth'[x] > 0 /\ line'[x] # "end"
          BY <2>2, <3>1, <3>2 DEF EncoderFrames
        <4>2. QED BY <2>2, <2>3, <3>2, <4>1 DEF Only
      <3>3. CASE Only(x) /\ line[x] = "end" /\ line'[x] = "start" /\ depth'[x] = 0
        <4>1. x # t /\ ~ (depth'[x] > 0)
          BY <2>2, <3>3
        <4>2. QED BY <2>2, <2>3, <3>3, <4>1 DEF Only
      <3>4. ASSUME NEW v \in Encoders, OnlyAnd(x, v), line'[v] \in {"read", "start"},
                   line[x] \in {"cooled", "answered"}, line'[x] = "end"
            PROVE  ChainInv'
        <4>1. x = t /\ v # x /\ depth'[v] > 0 /\ line'[v] # "end"
          BY <2>2, <3>1, <3>4 DEF OnlyAnd
        <4>2. QED BY <2>2, <2>3, <3>4, <4>1 DEF OnlyAnd
      <3>5. QED BY <2>9, <3>2, <3>3, <3>4, EncoderOnly
    <2>10. QED BY <2>1, <2>5, <2>6, <2>7, <2>8, <2>9, StepsByTask
  <1>3. QED BY <1>1, <1>2

(* The chain of encoder tasks never breaks off and never splits, however   *)
(* many names for tasks there are.                                         *)
THEOREM OneChain == UiSpec => []OneEncoderChain
  <1>1. UiInit => ChainInv
    <2>1. UiInit => phase = "boot" /\ depth = [t \in Task |-> 0]
      BY DEF UiInit, Init
    <2>2. QED BY <2>1, Names DEF ChainInv, OneEncoderChain
  <1>2. ChainInv => OneEncoderChain
    BY DEF ChainInv
  <1>3. QED BY <1>1, <1>2, ChainStep, FramesInvariant, UiIsAsync, PlaceInvariant, PTL DEF UiSpec

-----------------------------------------------------------------------------
(* The loaders *)

(* A null time goes to the head of the schedule, and stays there when      *)
(* another time is put in.                                                 *)
LEMMA HeadOfSchedule ==
  ASSUME NEW s \in Seq(Entry), NEW w \in WakeTime, NEW t \in Task
  PROVE  LET r == schedule_a_value(s, w, t)
         IN  /\ r # <<>>
             /\ w = async_null_time => Head(r) = [wake |-> w, task |-> t]
             /\ w # async_null_time /\ s # <<>> /\ Head(s).wake = async_null_time
                  => Head(r) = Head(s)
  <1> DEFINE p == InsertPos(s, w)
             e == [wake |-> w, task |-> t]
             r == schedule_a_value(s, w, t)
             n == Len(s)
  <1>0. e \in Entry
    BY DEF Entry
  <1>1. e \in Entry /\ p \in 1 .. n + 1 /\ n \in Nat
    BY <1>0, InsertPosFacts
  <1>2. r = InsertAt(s, p, e)
    BY DEF schedule_a_value
  <1>3. /\ r \in Seq(Entry) /\ Len(r) = n + 1 /\ r[p] = e
        /\ \A j \in 1 .. p - 1 : r[j] = s[j]
    <2> HIDE DEF p, e, r
    <2>1. p \in 1 .. Len(s) + 1
      BY <1>1
    <2>2. /\ InsertAt(s, p, e) \in Seq(Entry)
          /\ Len(InsertAt(s, p, e)) = Len(s) + 1
          /\ InsertAt(s, p, e)[p] = e
          /\ \A j \in 1 .. p - 1 : InsertAt(s, p, e)[j] = s[j]
      BY <1>1, <2>1, InsertAtFacts
    <2>3. QED BY <1>2, <2>2 DEF n
  <1>4. w = async_null_time => p = 1
    BY DEF InsertPos, async_time_is_null
  <1>5. ASSUME w # async_null_time, s # <<>>, Head(s).wake = async_null_time
        PROVE  p # 1 /\ Head(s) = s[1]
    <2> DEFINE P == {i \in 1 .. Len(s) + 1 : i = Len(s) + 1 \/ ~ WalksPast(s, i, w)}
    <2>1. P \in SUBSET Nat /\ Len(s) + 1 \in P
      BY <1>1
    <2>2. p = Min(P)
      BY <1>5 DEF InsertPos, async_time_is_null
    <2>3. Head(s) = s[1] /\ Len(s) + 1 # 1
      BY <1>5, TailFacts
    <2>4. 1 \notin P
      BY <1>5, <2>3 DEF WalksPast, async_time_is_null
    <2> HIDE DEF P
    <2>5. QED BY <2>1, <2>2, <2>3, <2>4, MinIsLeast
  <1> HIDE DEF p, e, r
  <1>6. r # <<>> /\ Head(r) = r[1]
    <2>1. Len(r) # 0
      BY <1>1, <1>3
    <2>2. r # <<>>
      BY <2>1
    <2>3. QED BY <1>3, <2>2, TailFacts
  <1>7. p # 1 => r[1] = s[1]
    BY <1>1, <1>3
  <1>8. QED BY <1>3, <1>4, <1>5, <1>6, <1>7 DEF r, e

(* Loader t will be called as soon as the button's task, which spawned it, *)
(* has gone to sleep.                                                      *)
Earliest(t) == [wake |-> async_null_time, task |-> t]

FirstUp(t) ==
  /\ schedule # <<>> /\ Head(schedule) = Earliest(t)
  /\ phase \in {"pick", "run"}
  /\ phase = "run" => task_stack = Button /\ line[Button] \in {"start", "read"}
  /\ phase = "pick" /\ shortcut_task_stack # NoTask =>
       shortcut_task_stack = Button /\ line[Button] = "read"

Fresh(t) == depth[t] = 1 /\ line[t] = "start"

(* A loader that has not started yet runs, or is the first to: nothing     *)
(* else happens to its screen before.                                      *)
FreshInv == \A t \in Loaders : Fresh(t) => loader_run /\ (Runs(t) \/ FirstUp(t))

(* A fresh loader was fresh before, or the button's task has just spawned  *)
(* it.                                                                     *)
LEMMA FreshFrom ==
  ASSUME FramesInv, PlaceInv, [UiNext]_uiVars, NEW t \in Loaders, Fresh(t)'
  PROVE  \/ Fresh(t)
         \/ /\ async_spawn(t, {}) /\ Runs(Button) /\ line'[Button] = "start"
            /\ loader_run' = TRUE
  <1> USE Names
  <1>1. ASSUME line'[t] = line[t], depth'[t] = depth[t]  PROVE Fresh(t)
    BY <1>1 DEF Fresh
  <1>2. CASE Boot
    <2>1. UNCHANGED line /\ depth'[t] = depth[t]
      BY <1>2 DEF Boot, async_spawn, EnterLoop, timers, PlaceInv, TypeOK
    <2>2. QED BY <1>1, <2>1
  <1>3. CASE Idles
    BY <1>1, <1>3, IdleKeeps
  <1>4. CASE LoadGoes
    BY <1>1, <1>4, LoadOnly DEF Only
  <1>5. ASSUME NEW x \in Encoders, EncoderGoes(x)  PROVE Fresh(t)
    BY <1>1, <1>5, EncoderOnly DEF Only, OnlyAnd
  <1>6. ASSUME NEW x \in Loaders, LoaderRuns(x)  PROVE Fresh(t)
    <2>1. x # t
      BY <1>6, LoaderOnly DEF Fresh
    <2>2. QED BY <1>1, <1>6, <2>1, LoaderOnly DEF Only
  <1>7. CASE ButtonGoes
    <2>1. CASE Only(Button)
      BY <1>1, <2>1 DEF Only
    <2>2. ASSUME NEW u \in Loaders, OnlyAnd(Button, u), async_spawn(u, {}), u # t
          PROVE  Fresh(t)
      BY <1>1, <2>2 DEF OnlyAnd
    <2>3. QED BY <1>7, <2>1, <2>2, ButtonOnly
  <1>8. QED BY <1>2, <1>3, <1>4, <1>5, <1>6, <1>7, StepsByTask

(* The clock leaves the head of the schedule alone when that has no wake   *)
(* time.                                                                   *)
LEMMA TickHead ==
  ASSUME TypeOK, Tick, schedule # <<>>, Head(schedule).wake = async_null_time
  PROVE  schedule' # <<>> /\ Head(schedule') = Head(schedule)
  <1> DEFINE s == schedule
             r == schedule'
  <1>1. s \in Seq(Entry) /\ r \in Seq(Entry)
    BY TickEntries DEF TypeOK
  <1>2. Head(s) = s[1] /\ Len(s) \in Nat \ {0} /\ DOMAIN s = 1 .. Len(s)
    BY <1>1, TailFacts
  <1>3. r = [i \in DOMAIN s |-> IF async_time_is_null(s[i].wake)
                                THEN s[i] ELSE [s[i] EXCEPT !.wake = @ - 1]]
    BY DEF Tick
  <1> HIDE DEF r, s
  <1>4. r[1] = s[1] /\ DOMAIN r = 1 .. Len(s)
    <2>1. 1 \in DOMAIN s /\ async_time_is_null(s[1].wake)
      BY <1>2 DEF async_time_is_null, s
    <2>2. QED BY <1>2, <1>3, <2>1
  <1>5. r # <<>>
    <2>1. 1 \in DOMAIN r
      BY <1>2, <1>4
    <2>2. QED BY <2>1
  <1>6. Head(r) = r[1]
    BY <1>1, <1>5, TailFacts
  <1>7. QED BY <1>2, <1>4, <1>5, <1>6 DEF r, s

(* A loader that has just been spawned is the next to run or runs.         *)
LEMMA FreshStep ==
  ASSUME FreshInv, FramesInv, PlaceInv, [UiNext]_uiVars, NEW t \in Loaders, Fresh(t)'
  PROVE  loader_run' /\ (Runs(t)' \/ FirstUp(t)')
  <1> USE Names
  <1>0. TypeOK /\ schedule \in Seq(Entry) /\ t # Load /\ t # Button /\ t \in Task
    BY DEF PlaceInv, TypeOK
  <1>1. CASE /\ async_spawn(t, {}) /\ Runs(Button) /\ line'[Button] = "start"
             /\ loader_run' = TRUE
    <2>1. /\ schedule' = schedule_a_value(schedule, async_null_time, t)
          /\ phase' = "run" /\ task_stack' = Button
      BY <1>1 DEF async_spawn, Runs
    <2>2. schedule' # <<>> /\ Head(schedule') = Earliest(t)
      BY <1>0, <2>1, WakeTimes, HeadOfSchedule DEF Earliest
    <2>3. QED BY <1>1, <2>1, <2>2 DEF FirstUp, Earliest
  <1>2. CASE Fresh(t) /\ Runs(t)
    <2>1. loader_run /\ phase = "run" /\ task_stack = t /\ line[t] = "start"
      BY <1>2 DEF FreshInv, Runs, Fresh
    <2>2. ~ Boot /\ ~ Waits /\ ~ HostServes /\ ~ User
      BY <2>1 DEF Boot, Waits, PickShortcut, PickScheduled, Evented, HostServes, User
    <2>3. CASE Clock \/ UNCHANGED uiVars
      BY <2>1, <2>3 DEF Clock, Tick, uiVars, asyncVars, vars, timers, screenVars, Runs
    <2>4. ~ LoadGoes /\ ~ ButtonGoes /\ \A x \in Encoders : ~ EncoderGoes(x)
      BY <1>0, <2>1, LoadOnly, ButtonOnly, EncoderOnly DEF Runs
    <2>5. ASSUME NEW x \in Loaders, LoaderRuns(x)  PROVE FALSE
      <3>1. x = t
        BY <2>1, <2>5, LoaderOnly DEF Runs
      <3>2. QED BY <2>1, <2>5, <3>1, LoaderOnly DEF Fresh
    <2>6. QED BY <2>2, <2>3, <2>4, <2>5, StepsByTask DEF Idles
  <1>3. CASE Fresh(t) /\ ~ Runs(t)
    <2>1. loader_run /\ FirstUp(t)
      BY <1>3 DEF FreshInv
    <2>2. /\ schedule # <<>> /\ Head(schedule).wake = async_null_time
          /\ Head(schedule).task = t /\ Head(schedule) = Earliest(t)
      BY <2>1 DEF FirstUp, Earliest
    <2>3. ~ Boot
      BY <2>1 DEF FirstUp, Boot
    <2>4. CASE Waits
      <3>1. UNCHANGED <<line, loader_run>> /\ phase' = "run"
        BY <2>4 DEF Waits, screenVars, PickShortcut, PickScheduled, Evented, CallTop
      <3>2. CASE PickShortcut
        <4>1. task_stack' = Button /\ line[Button] = "read" /\ UNCHANGED schedule
          BY <2>1, <3>2 DEF FirstUp, PickShortcut, CallTop
        <4>2. QED BY <2>1, <3>1, <4>1 DEF FirstUp, Earliest
      <3>3. CASE PickScheduled
        BY <2>1, <2>2, <3>1, <3>3 DEF PickScheduled, CallTop, Runs
      <3>4. ASSUME NEW x, Evented(x)  PROVE FALSE
        BY <2>2, <3>4 DEF Evented, async_time_is_null
      <3>5. QED BY <2>4, <3>2, <3>3, <3>4 DEF Waits
    <2>5. CASE Clock
      <3>1. schedule' # <<>> /\ Head(schedule') = Earliest(t)
        BY <1>0, <2>2, <2>5, TickHead DEF Clock
      <3>2. UNCHANGED <<phase, task_stack, shortcut_task_stack, line, loader_run>>
        BY <2>5 DEF Clock, Tick, screenVars
      <3>3. QED BY <2>1, <3>1, <3>2 DEF FirstUp, Earliest
    <2>6. CASE HostServes \/ User \/ UNCHANGED uiVars
      <3>1. UNCHANGED <<phase, schedule, task_stack, shortcut_task_stack, line, loader_run>>
        BY <2>6 DEF HostServes, User, uiVars, asyncVars, vars, timers, screenVars
      <3>2. QED BY <2>1, <3>1 DEF FirstUp, Earliest
    <2>7. /\ \A x \in Task : Runs(x) => x = Button /\ line[Button] \in {"start", "read"}
      BY <2>1 DEF FirstUp, Runs
    <2>8. /\ ~ LoadGoes /\ \A x \in Encoders : ~ EncoderGoes(x)
          /\ \A x \in Loaders : ~ LoaderRuns(x)
      BY <2>7, LoadOnly, EncoderOnly, LoaderOnly
    <2>9. CASE ButtonGoes
      <3>1. Runs(Button) /\ line[Button] \in {"start", "read"}
        BY <2>7, <2>9, ButtonOnly
      <3>2. ButtonReads \/ ButtonSleeps
        BY <2>9, <3>1 DEF ButtonGoes, Presses, ButtonCallsHost, ButtonHasRead, ButtonSends,
                          Transmits, TransmitReturns, Goes, At
      <3>3. line \in [Task -> Lines] /\ shortcut_task_stack = NoTask
        BY <3>1, RunningTask DEF FramesInv
      <3>4. CASE ButtonReads
        <4>1. /\ UNCHANGED <<schedule, loader_run>> /\ phase' = "pick"
              /\ shortcut_task_stack' = Button /\ line'[Button] = "read"
          BY <3>3, <3>4 DEF ButtonReads, Goes, GoTo, ReturnAwait, screenVars
        <4>2. QED BY <2>1, <4>1 DEF FirstUp, Earliest
      <3>5. CASE ButtonSleeps
        <4>1. /\ UNCHANGED loader_run /\ phase' = "pick" /\ shortcut_task_stack' = NoTask
              /\ schedule' = schedule_a_value(schedule, LongSleep, Button)
          BY <3>3, <3>5 DEF ButtonSleeps, Goes, ReturnSleep, screenVars, async_get_time_after
        <4>2. LongSleep \in WakeTime /\ LongSleep # async_null_time
          BY WakeTimes
        <4>3. schedule' # <<>> /\ Head(schedule') = Earliest(t)
          BY <1>0, <2>2, <4>1, <4>2, HeadOfSchedule
        <4>4. QED BY <2>1, <4>1, <4>3 DEF FirstUp, Earliest
      <3>6. QED BY <3>2, <3>4, <3>5
    <2>10. QED BY <2>3, <2>4, <2>5, <2>6, <2>8, <2>9, StepsByTask DEF Idles
  <1>4. QED BY <1>1, <1>2, <1>3, FreshFrom

(* A loader that its screen waits for has not drawn yet.                   *)
Coming(t) == depth[t] = 1 /\ line[t] \in {"start", "locked"}
ComingInv == loader_run => \E t \in Loaders : Coming(t)

(* A loader that is said to run is on its way.                             *)
LEMMA ComingStep ==
  ASSUME ComingInv, FramesInv, PlaceInv, [UiNext]_uiVars
  PROVE  ComingInv'
  <1> USE Names
  <1>1. ASSUME loader_run' => loader_run,
               \A t \in Loaders : line'[t] = line[t] /\ depth'[t] = depth[t]
        PROVE  ComingInv'
    BY <1>1 DEF ComingInv, Coming
  <1>2. CASE Boot
    <2>1. UNCHANGED <<line, loader_run>> /\ \A t \in Loaders : depth'[t] = depth[t]
      BY <1>2 DEF Boot, async_spawn, EnterLoop, timers, PlaceInv, TypeOK, screenVars
    <2>2. QED BY <1>1, <2>1
  <1>3. CASE Idles
    BY <1>1, <1>3, IdleKeeps DEF screenVars
  <1>4. CASE LoadGoes
    <2>1. UNCHANGED loader_run
      BY <1>4 DEF LoadGoes, Loads, LoadCallsFs, FsCallsHost, FsReturns, LoadReleases, LoadEnds,
                  Transmits, TransmitReturns, Goes, screenVars
    <2>2. QED BY <1>1, <1>4, <2>1, LoadOnly DEF Only
  <1>5. ASSUME NEW x \in Encoders, EncoderGoes(x)  PROVE ComingInv'
    <2>1. UNCHANGED loader_run
      BY <1>5 DEF EncoderGoes, Turns, CooldownSleeps, rotary_encoder_read, EncoderSleeps,
                  EncoderCallsHost, cb, EncoderEvent, EncoderEnds, Transmits, TransmitReturns,
                  Goes, screenVars
    <2>2. QED BY <1>1, <1>5, <2>1, EncoderOnly DEF Only, OnlyAnd
  <1>6. ASSUME NEW x \in Loaders, LoaderRuns(x)  PROVE ComingInv'
    <2>1. loader_run' => loader_run
      BY <1>6 DEF LoaderRuns, LoaderStarts, LoaderDraws, LoaderEnds, Goes, screenVars
    <2>2. ASSUME NEW t \in Loaders, Coming(t), loader_run'  PROVE Coming(t)'
      <3>1. CASE t = x
        BY <1>6, <2>2, <3>1, LoaderOnly DEF Coming
      <3>2. CASE t # x
        BY <1>6, <2>2, <3>2, LoaderOnly DEF Coming, Only
      <3>3. QED BY <3>1, <3>2
    <2>3. QED BY <2>1, <2>2 DEF ComingInv
  <1>7. CASE ButtonGoes
    <2>1. CASE Only(Button) /\ (loader_run' => loader_run)
      BY <1>1, <2>1 DEF Only
    <2>2. ASSUME NEW u \in Loaders, OnlyAnd(Button, u), line'[u] = "start"  PROVE Coming(u)'
      BY <2>2 DEF OnlyAnd, Coming
    <2>3. QED BY <1>7, <2>1, <2>2, ButtonOnly DEF ComingInv
  <1>8. QED BY <1>2, <1>3, <1>4, <1>5, <1>6, <1>7, StepsByTask

-----------------------------------------------------------------------------
(* The database *)

(* Until the database is all there, its lock is initial_load's.            *)
LoadsUnderLock == ~ loaded => db_lock \in unadopted \/ db_lock \in owns[Load]

DatabaseInv == loaded \in BOOLEAN /\ LoadsUnderLock /\ DrawsWholeDatabase

(* initial_load gives the lock up when it has loaded the database, and     *)
(* nobody takes it away from it.                                           *)
LEMMA UnderLockStep ==
  ASSUME DatabaseInv, PlaceInv, [UiNext]_uiVars
  PROVE  /\ (loaded \in BOOLEAN)' /\ LoadsUnderLock'
         /\ UNCHANGED loaded \/ (LoadReleases /\ loaded' = TRUE)
  <1> USE Names
  <1>1. owns \in [Task -> SUBSET Lock]
    BY DEF PlaceInv, TypeOK
  <1>2. ASSUME UNCHANGED loaded,
               db_lock \in unadopted => db_lock \in unadopted' \/ db_lock \in owns'[Load],
               db_lock \in owns[Load] => db_lock \in owns'[Load]
        PROVE  (loaded \in BOOLEAN)' /\ LoadsUnderLock'
    BY <1>2 DEF DatabaseInv, LoadsUnderLock
  <1>3. CASE Boot
    <2>1. ASSUME NEW t \in Task, NEW adopts, async_spawn(t, adopts),
                 t = Load => db_lock \in adopts, t # Load => adopts = {}
          PROVE  /\ db_lock \in unadopted => db_lock \in unadopted' \/ db_lock \in owns'[Load]
                 /\ db_lock \in owns[Load] => db_lock \in owns'[Load]
      BY <1>1, <2>1 DEF async_spawn
    <2>2. UNCHANGED <<loaded, unadopted, owns>> \/ async_spawn(Load, {db_lock})
          \/ async_spawn(Button, {}) \/ \E e \in Encoders : async_spawn(e, {})
      BY <1>3 DEF Boot, EnterLoop, locks
    <2>3. UNCHANGED loaded
      BY <1>3 DEF Boot
    <2>4. QED BY <1>2, <2>1, <2>2, <2>3
  <1>4. CASE Idles
    <2>1. UNCHANGED <<owns, unadopted>> \/ \E t : CallTop(t)
      BY <1>4 DEF Idles, Waits, PickShortcut, PickScheduled, Evented, Clock, Tick, HostServes,
                  User, uiVars, asyncVars, vars, locks
    <2>2. UNCHANGED loaded
      BY <1>4, IdleKeeps
    <2>3. ASSUME NEW t, CallTop(t)  PROVE UNCHANGED unadopted /\ owns[Load] \subseteq owns'[Load]
      BY <1>1, <2>3 DEF CallTop
    <2>4. QED BY <1>2, <2>1, <2>2, <2>3
  <1>5. CASE LoadReleases
    BY <1>5 DEF LoadReleases, LoadsUnderLock
  <1>6. CASE LoadGoes /\ ~ LoadReleases
    <2>1. UNCHANGED <<loaded, owns, unadopted>>
      BY <1>6 DEF LoadGoes, Loads, LoadCallsFs, FsCallsHost, FsReturns, LoadEnds, Transmits,
                  TransmitReturns, Goes, ReturnAwait, ReturnDone, ReturnDetach, locks
    <2>2. QED BY <1>2, <2>1
  <1>7. ASSUME NEW u \in Task, u # Load, async_spawn(u, {})
        PROVE  UNCHANGED unadopted /\ owns'[Load] = owns[Load]
    BY <1>1, <1>7 DEF async_spawn
  <1>8. CASE ButtonGoes
    <2>1. UNCHANGED loaded
      BY <1>8 DEF ButtonGoes, Presses, ButtonReads, ButtonSleeps, ButtonCallsHost, ButtonHasRead,
                  ButtonSends, Transmits, TransmitReturns, Goes
    <2>2. UNCHANGED <<owns, unadopted>> \/ \E u \in Loaders : async_spawn(u, {})
      BY <1>8 DEF ButtonGoes, Presses, ButtonReads, ButtonSleeps, ButtonCallsHost, ButtonHasRead,
                  ButtonSends, ButtonEvent, OpensTexts, ClosesTexts, Spawns, Transmits,
                  TransmitReturns, Goes, ReturnAwait, ReturnSleep, ReturnDone, ReturnDetach,
                  asyncVars, vars, locks
    <2>3. QED BY <1>2, <1>7, <2>1, <2>2
  <1>9. ASSUME NEW t \in Encoders, EncoderGoes(t)
        PROVE  UNCHANGED loaded /\ (loaded \in BOOLEAN)' /\ LoadsUnderLock'
    <2>1. UNCHANGED loaded
      BY <1>9 DEF EncoderGoes, Turns, CooldownSleeps, rotary_encoder_read, EncoderSleeps,
                  EncoderCallsHost, cb, EncoderEnds, Transmits, TransmitReturns, Goes
    <2>2. UNCHANGED <<owns, unadopted>> \/ \E u \in Encoders : async_spawn(u, {})
      BY <1>9 DEF EncoderGoes, Turns, CooldownSleeps, rotary_encoder_read, EncoderSleeps,
                  EncoderCallsHost, cb, EncoderEnds, Spawns, Transmits, TransmitReturns, Goes,
                  ReturnAwait, ReturnSleep, ReturnDone, ReturnDetach, locks
    <2>3. QED BY <1>2, <1>7, <2>1, <2>2
  <1>10. ASSUME NEW t \in Loaders, LoaderRuns(t)
         PROVE  UNCHANGED loaded /\ (loaded \in BOOLEAN)' /\ LoadsUnderLock'
    <2>1. UNCHANGED <<loaded, unadopted>>
      BY <1>10 DEF LoaderRuns, LoaderStarts, LoaderDraws, LoaderEnds, Goes, ReturnLockAcquire,
                   ReturnDone, async_lock_release, locks
    <2>2. UNCHANGED owns \/ owns' = [owns EXCEPT ![t] = @ \ {db_lock}]
      BY <1>10 DEF LoaderRuns, LoaderStarts, LoaderDraws, LoaderEnds, Goes, ReturnLockAcquire,
                   ReturnDone, async_lock_release, locks
    <2>3. owns'[Load] = owns[Load]
      BY <1>1, <2>2
    <2>4. QED BY <1>2, <2>1, <2>3
  <1>11. Boot \/ Idles \/ ButtonGoes => UNCHANGED loaded
    BY <1>8, IdleKeeps
       DEF Boot, ButtonGoes, Presses, ButtonReads, ButtonSleeps, ButtonCallsHost, ButtonHasRead,
           ButtonSends, Transmits, TransmitReturns, Goes
  <1>12. LoadGoes => UNCHANGED loaded \/ (LoadReleases /\ loaded' = TRUE)
    BY DEF LoadGoes, Loads, LoadCallsFs, FsCallsHost, FsReturns, LoadReleases, LoadEnds,
           Transmits, TransmitReturns, Goes
  <1>13. QED BY <1>3, <1>4, <1>5, <1>6, <1>8, <1>9, <1>10, <1>11, <1>12, StepsByTask

(* The conversations are drawn under the lock, or while nobody holds it.   *)
LEMMA DatabaseStep ==
  ASSUME DatabaseInv, ScreenInv, PlaceInv, LockInv, [UiNext]_uiVars
  PROVE  DatabaseInv'
  <1> USE Names
  <1>1. /\ (loaded \in BOOLEAN)' /\ LoadsUnderLock' /\ (loaded => loaded')
    <2>1. /\ (loaded \in BOOLEAN)' /\ LoadsUnderLock'
          /\ UNCHANGED loaded \/ loaded' = TRUE
      BY UnderLockStep
    <2>2. loaded => loaded'
      BY <2>1
    <2>3. QED BY <2>1, <2>2
  <1>2. display_fb = Convos => loaded
    BY DEF DatabaseInv, DrawsWholeDatabase
  <1>3. ASSUME ~ held[db_lock]  PROVE loaded
    <2>1. db_lock \notin unadopted /\ db_lock \notin owns[Load]
      BY <1>3 DEF LockInv, HasLock
    <2>2. QED BY <2>1 DEF DatabaseInv, LoadsUnderLock
  <1>4. CASE UNCHANGED display_fb
    BY <1>1, <1>2, <1>4 DEF DatabaseInv, DrawsWholeDatabase
  <1>5. ASSUME \E i \in 0 .. num_entries - 1 : display_fb' = HomeFb(i)  PROVE DatabaseInv'
    BY <1>1, <1>5, DrawingFacts DEF DatabaseInv, DrawsWholeDatabase
  <1>6. CASE ButtonSends
    <2>1. CASE Top = "home" /\ OpensTexts(Button, AfterEvent)
      <3>1. display_fb' = (IF held[db_lock] THEN Loading ELSE Convos)
        BY <2>1 DEF OpensTexts, TextsFb, ScreenInv
      <3>2. QED BY <1>1, <1>3, <3>1, DrawingFacts DEF DatabaseInv, DrawsWholeDatabase
    <2>2. CASE ClosesTexts(Button, AfterEvent)
      BY <1>5, <2>2 DEF ClosesTexts, ScreenInv, ScreenTypes
    <2>3. CASE UNCHANGED screenVars
      BY <1>4, <2>3 DEF screenVars
    <2>4. QED BY <1>6, <2>1, <2>2, <2>3 DEF ButtonSends, ButtonEvent
  <1>7. ASSUME NEW t \in Encoders, cb(t)  PROVE DatabaseInv'
    <2>1. selected \in Int /\ result[t] - value \in Int
      BY DEF ScreenInv, ScreenTypes, InputTypes
    <2>2. floored_modulo(selected + (result[t] - value), num_entries) \in 0 .. num_entries - 1
      BY <2>1 DEF floored_modulo, num_entries
    <2>3. UNCHANGED display_fb \/ \E i \in 0 .. num_entries - 1 : display_fb' = HomeFb(i)
      BY <1>7, <2>2 DEF cb, EncoderEvent, screenVars
    <2>4. QED BY <1>4, <1>5, <2>3
  <1>8. ASSUME NEW t \in Loaders, LoaderDraws(t)  PROVE DatabaseInv'
    <2>1. db_lock \in owns[t] /\ t # Load
      BY <1>8 DEF LoaderDraws, async_lock_release
    <2>2. db_lock \notin unadopted /\ db_lock \notin owns[Load]
      BY <2>1 DEF LockInv, HasLock
    <2>3. loaded
      BY <2>2 DEF DatabaseInv, LoadsUnderLock
    <2>4. QED BY <1>1, <2>3 DEF DatabaseInv, DrawsWholeDatabase
  <1>9. QED BY <1>4, <1>6, <1>7, <1>8, QuietSteps DEF screenVars

-----------------------------------------------------------------------------
(* All of it together *)

LoadersInv == FreshInv /\ ComingInv /\ DatabaseInv

(* Every step keeps these three.                                           *)
LEMMA LoadersStep ==
  LoadersInv /\ ScreenInv /\ FramesInv /\ PlaceInv /\ LockInv /\ [UiNext]_uiVars => LoadersInv'
  <1> SUFFICES ASSUME LoadersInv, ScreenInv, FramesInv, PlaceInv, LockInv, [UiNext]_uiVars
               PROVE  LoadersInv'
    OBVIOUS
  <1>1. FreshInv'
    BY FreshStep DEF LoadersInv, FreshInv
  <1>2. ComingInv' /\ DatabaseInv'
    BY ComingStep, DatabaseStep DEF LoadersInv
  <1>3. QED BY <1>1, <1>2 DEF LoadersInv

(* So they always hold.                                                    *)
LEMMA LoadersInvariant == UiSpec => []LoadersInv
  <1>1. UiInit => LoadersInv
    <2> SUFFICES ASSUME UiInit  PROVE LoadersInv
      OBVIOUS
    <2>1. /\ depth = [t \in Task |-> 0] /\ loader_run = FALSE /\ loaded = FALSE
          /\ unadopted = {db_lock} /\ display_fb = HomeFb(0)
      BY Names DEF UiInit, Init
    <2>2. FreshInv /\ ComingInv
      BY <2>1, Names DEF FreshInv, ComingInv, Fresh
    <2>3. 0 \in 0 .. num_entries - 1
      BY DEF num_entries
    <2>4. DrawsWholeDatabase
      BY <2>1, <2>3, DrawingFacts DEF DrawsWholeDatabase
    <2>5. QED BY <2>1, <2>2, <2>4 DEF LoadersInv, DatabaseInv, LoadsUnderLock
  <1>2. QED BY <1>1, LoadersStep, ScreenInvariant, FramesInvariant, UiIsAsync, PlaceInvariant,
               LockInvariant, PTL DEF UiSpec

(* The types; a texts screen that shows "loading..." has its loader on its *)
(* way, and that starts before the screen is closed; the conversations are *)
(* drawn from a whole database only; and every turn was counted: for any   *)
(* number of loaders, inputs and turns.                                    *)
THEOREM UiCorrect == UiSpec => []UiInv
  <1>1. ScreenInv /\ LoadersInv /\ TypeOK => UiInv
    <2> SUFFICES ASSUME ScreenInv, LoadersInv, TypeOK  PROVE UiInv
      OBVIOUS
    <2>1. UiTypeOK
      <3>1. {loaded, loader_run, first_time} \subseteq BOOLEAN
        BY DEF ScreenInv, ScreenTypes, LoadersInv, DatabaseInv
      <3>2. {value, ignored, encoder} \subseteq Int
        BY DEF ScreenInv, ScreenTypes, InputTypes
      <3>3. \A c \in HostCaller : result[c] \in Int
        BY DEF ScreenInv, InputTypes
      <3>4. /\ screen_stack \in {<<"home">>, <<"home", "texts">>}
            /\ selected \in 0 .. num_entries - 1
            /\ display_fb \in {Loading, Convos} \cup {HomeFb(i) : i \in 0 .. num_entries - 1}
        BY DEF ScreenInv, ScreenTypes, Stacks, Drawings
      <3>5. QED BY <3>1, <3>2, <3>3, <3>4 DEF UiTypeOK
    <2>2. LoadingHasLoader
      BY DEF ScreenInv, LoadersInv, ComingInv, Coming, LoadingHasLoader
    <2>3. LoaderStartsInTime
      BY DEF LoadersInv, FreshInv, Fresh, LoaderStartsInTime
    <2>4. DrawsWholeDatabase /\ TurnsCounted
      BY DEF ScreenInv, LoadersInv, DatabaseInv
    <2>5. QED BY <2>1, <2>2, <2>3, <2>4 DEF UiInv
  <1>2. QED BY <1>1, ScreenInvariant, LoadersInvariant, UiIsAsync, TypeCorrect, PTL
=============================================================================
