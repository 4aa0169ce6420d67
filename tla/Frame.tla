------------------------------- MODULE Frame -------------------------------
(***************************************************************************)
(* A frame of the runner: the game waits in VSync (runtime.c) or the       *)
(* background pump ticks for it, psx_present_frame (main_runner.cpp) shows *)
(* the frame, and the debug server (debug_server.c) pauses, steps and      *)
(* holds buttons.  All of it is one thread; what interleaves is the        *)
(* client's commands, which any poll may read, and the pump, which any     *)
(* dispatched call may start.                                              *)
(*                                                                         *)
(* todo holds what the calls in progress still have to do, innermost       *)
(* first.  Buttons are sets of pressed buttons; the code keeps them        *)
(* active-low.                                                             *)
(***************************************************************************)
EXTENDS Integers, Sequences

CONSTANTS
  Buttons,   \* the buttons of the pad
  Modes,     \* the arguments the game calls VSync with
  Cap,       \* FRAME_HISTORY_CAP (36000)
  MaxStep,   \* bound: the longest step a client asks for
  MaxRun,    \* bound: the last frame a client runs to
  MaxVSyncs, \* bound: calls of VSync
  MaxExtra,  \* bound: background pumps and frames shown outside VSync
  None       \* no override (-1)

ASSUME CapAssumption == Cap \in Nat \ {0}
ASSUME ModesAssumption == Modes \subseteq Int
ASSUME BoundsAssumption == /\ MaxStep \in Nat /\ MaxRun \in Nat
                           /\ MaxVSyncs \in Nat /\ MaxExtra \in Nat
ASSUME NoneAssumption == None \notin Modes /\ \A pad \in SUBSET Buttons : pad # None

Pads == SUBSET Buttons

VARIABLES
  todo,                                   \* the steps left, innermost first
  client, paused, stepCount, runTo,       \* s_client, s_paused, s_step_count, s_run_to
  override,                               \* s_input_override
  frame, ring,                            \* g_ps1_frame, s_frame_history (frame_number)
  counter, v0,                            \* the game's VBlank counter, cpu->v0
  padState, lastPad, seen,                \* g_pad1_state, s_last_pad, the pad words in RAM
  target, vsyncs, extra,                  \* VSync's target; bounds
  stopAt, runAt,                          \* history: where the client's orders end
  late, left,                             \* history: frames shown while paused; orders of a client that left
  from, looked, pads                      \* history: frame at the call; pad at the last look, pads injected since

orders == <<stopAt, runAt>>
debugVars == <<client, paused, stepCount, runTo, override, orders, late, left>>
shownVars == <<frame, ring>>
clockVars == <<counter, v0>>
padVars == <<padState, lastPad, seen>>
callVars == <<target, from, vsyncs>>
lookVars == <<looked, pads>>
vars == <<todo, debugVars, shownVars, clockVars, padVars, callVars, extra, lookVars>>

\* psx_present_frame.  Mutant: without its last call.
PresentingUnpaused == <<"present", "poll">>
Presenting == <<"present", "poll", "wait">>
\* One tick of VSync.  Mutant: the clock is restarted before it is compared, so
\* that no tick is ever due.
TickingNever == <<>>
Ticking == <<"vblank">> \o Presenting \o <<"inject">>

At(step) == todo # <<>> /\ Head(todo) = step
Go(steps) == todo' = steps \o Tail(todo)
Done == todo' = Tail(todo)
Least(a, b) == IF a < b THEN a ELSE b
NoCall == [frame |-> 0, mode |-> None]

Init == /\ todo = <<>>
        /\ client = FALSE /\ paused = FALSE /\ stepCount = 0 /\ runTo = 0
        /\ override = None
        /\ frame = 0 /\ ring = [i \in 0..(Cap - 1) |-> 0]
        /\ counter = 0 /\ v0 = 0
        /\ padState = {} /\ lastPad = {}
        /\ seen = [pad |-> {}, pressed |-> {}, released |-> {}]
        /\ target = 0 /\ from = NoCall /\ vsyncs = 0 /\ extra = 0
        /\ stopAt = 0 /\ runAt = 0 /\ late = 0 /\ left = FALSE
        /\ looked = {} /\ pads = <<>>
----------------------------------------------------------------------------
\* debug_server_poll: accepts, or reads what the client sent.
Accept ==
  /\ At("poll") /\ ~client
  /\ client' \in BOOLEAN
  /\ left' = (left /\ ~client')
  /\ Done
  /\ UNCHANGED <<paused, stepCount, runTo, override, orders, late,
                 shownVars, clockVars, padVars, callVars, extra, lookVars>>

Receive ==
  /\ At("poll") /\ client
  /\ Go(<<"lines">>)
  /\ UNCHANGED <<debugVars, shownVars, clockVars, padVars, callVars, extra, lookVars>>

EndOfLines ==
  /\ At("lines")
  /\ Done
  /\ UNCHANGED <<debugVars, shownVars, clockVars, padVars, callVars, extra, lookVars>>

\* An order that was reached ends when the game is let go.
Pending(at) == IF at > frame THEN at ELSE 0

\* Mutant: the pause of a client that left stays.
DroppedPaused == /\ override' = None /\ UNCHANGED paused
Dropped == paused' = FALSE /\ override' = None

Disconnect ==
  /\ At("poll") /\ client
  /\ client' = FALSE
  /\ Dropped
  /\ left' = (stepCount > 0 \/ runTo > 0)
  /\ stopAt' = Pending(stopAt) /\ runAt' = Pending(runAt) /\ late' = 0
  /\ Done
  /\ UNCHANGED <<stepCount, runTo, shownVars, clockVars, padVars, callVars, extra, lookVars>>

\* process_command: a line that arrived; more may follow.
Command == /\ At("lines")
           /\ UNCHANGED <<todo, client, left, shownVars, clockVars, padVars, callVars, extra, lookVars>>

Pause == /\ Command
         /\ paused' = TRUE
         /\ UNCHANGED <<stepCount, runTo, override, orders, late>>

Continue == /\ Command
            /\ paused' = FALSE /\ stepCount' = 0 /\ runTo' = 0
            /\ stopAt' = 0 /\ runAt' = 0 /\ late' = 0
            /\ UNCHANGED override

Step(n) == /\ Command
           /\ stepCount' = IF n < 1 THEN 1 ELSE n
           /\ paused' = FALSE
           /\ stopAt' = frame + stepCount' /\ runAt' = Pending(runAt) /\ late' = 0
           /\ UNCHANGED <<runTo, override>>

RunToFrame(f) == /\ Command
                 /\ f > frame
                 /\ runTo' = f /\ paused' = FALSE
                 /\ runAt' = f /\ stopAt' = Pending(stopAt) /\ late' = 0
                 /\ UNCHANGED <<stepCount, override>>

SetInput(pad) == /\ Command
                 /\ override' = pad
                 /\ UNCHANGED <<paused, stepCount, runTo, orders, late>>

ClearInput == /\ Command
              /\ override' = None
              /\ UNCHANGED <<paused, stepCount, runTo, orders, late>>

Commands == \/ Pause \/ Continue \/ ClearInput
            \/ \E n \in 0..MaxStep : Step(n)
            \/ \E f \in 1..MaxRun : RunToFrame(f)
            \/ \E pad \in Pads : SetInput(pad)
----------------------------------------------------------------------------
\* debug_server_record_frame: the history, the step and the frame to run to.
Slot(f) == f % Cap
Steps == IF stepCount > 0 THEN stepCount - 1 ELSE 0
\* Mutant: the run goes on through the frame it was asked to end at.
ReachedPast(f) == runTo > 0 /\ f > runTo
Reached(f) == runTo > 0 /\ f >= runTo

RecordFrame(f) ==
  /\ ring' = [ring EXCEPT ![Slot(f)] = f]
  /\ stepCount' = Steps
  /\ paused' = (paused \/ (stepCount > 0 /\ Steps = 0) \/ Reached(f))
  /\ runTo' = IF Reached(f) THEN 0 ELSE runTo

\* The throttle and the picture are left out.  Keyboard and override reach
\* the pad of the game through psx_set_pad1.
Present ==
  /\ At("present")
  /\ frame' = frame + 1
  /\ \E keys \in Pads : padState' = IF override = None THEN keys ELSE override
  /\ RecordFrame(frame')
  /\ late' = IF paused THEN Least(late + 1, 2) ELSE 0
  /\ Done
  /\ UNCHANGED <<client, override, orders, left, clockVars, lastPad, seen, callVars, extra, lookVars>>

\* debug_server_wait_if_paused: it polls until the game may go on.
Wait ==
  /\ At("wait")
  /\ IF paused THEN Go(<<"poll", "wait">>) ELSE Done
  /\ UNCHANGED <<debugVars, shownVars, clockVars, padVars, callVars, extra, lookVars>>

\* inject_pad_state.  Mutant: the last pad is replaced before it is compared.
PressedLate(pad) == pad \ pad
Pressed(pad) == pad \ lastPad

Inject ==
  /\ At("inject")
  /\ LET pad == IF override = None THEN padState ELSE override
     IN /\ seen' = [pad |-> pad, released |-> lastPad \ pad,
                    pressed |-> IF override \in {None, {}} THEN Pressed(pad) ELSE override]
        /\ lastPad' = pad
        /\ pads' = Append(pads, pad)
  /\ Done
  /\ UNCHANGED <<debugVars, shownVars, clockVars, padState, callVars, extra, looked>>
----------------------------------------------------------------------------
\* The override of VSync(mode).  The handlers of the interrupt chains run at
\* "chains" (module IntChains).  Mutant: VSync(0) waits for nothing.
AwaitedNone(mode) == counter + mode
Awaited(mode) == counter + (IF mode = 0 THEN 1 ELSE mode)

VSync(mode) ==
  /\ todo = <<>> /\ vsyncs < MaxVSyncs
  /\ vsyncs' = vsyncs + 1
  /\ from' = [frame |-> frame, mode |-> mode]
  /\ target' = 0
  /\ todo' = <<"poll", "chains">> \o
             (IF mode < 0 THEN <<"inject", "maybe">> ELSE <<"target", "until">>) \o <<"look">>
  /\ UNCHANGED <<debugVars, shownVars, clockVars, padVars, extra, lookVars>>

Handlers ==
  /\ At("chains")
  /\ Done
  /\ UNCHANGED <<debugVars, shownVars, clockVars, padVars, callVars, extra, lookVars>>

Aim ==
  /\ At("target")
  /\ target' = Awaited(from.mode)
  /\ Done
  /\ UNCHANGED <<debugVars, shownVars, clockVars, padVars, from, vsyncs, extra, lookVars>>

\* A sixtieth of a second has gone by, or it has not.
MaybeTick ==
  /\ At("maybe")
  /\ Done \/ Go(Ticking)
  /\ UNCHANGED <<debugVars, shownVars, clockVars, padVars, callVars, extra, lookVars>>

Until ==
  /\ At("until")
  /\ IF counter >= target THEN Done ELSE Go(Ticking \o <<"until">>)
  /\ UNCHANGED <<debugVars, shownVars, clockVars, padVars, callVars, extra, lookVars>>

\* VSync loads v0 and calls the game's handler 0x80051434 ...
CallVBlank ==
  /\ At("vblank")
  /\ v0' = counter
  /\ Go(<<"count">>)
  /\ UNCHANGED <<debugVars, shownVars, counter, padVars, callVars, extra, lookVars>>

\* ... which, external, adds one to v0 and stores it as the counter.
Count ==
  /\ At("count")
  /\ counter' = v0 + 1
  /\ Done
  /\ UNCHANGED <<debugVars, shownVars, v0, padVars, callVars, extra, lookVars>>

\* VSync returns and the game reads the pad words.
Look ==
  /\ At("look")
  /\ looked' = seen.pad /\ pads' = <<>>
  /\ from' = NoCall /\ target' = 0
  /\ Done
  /\ UNCHANGED <<debugVars, shownVars, clockVars, padVars, vsyncs, extra>>
----------------------------------------------------------------------------
\* The pump of psx_override_dispatch, in any call of the game: between calls of
\* VSync, in a handler, or at the entry of 0x80051434.  It saves the registers.
Dispatching == todo = <<>> \/ At("chains") \/ At("count")

Pump ==
  /\ Dispatching /\ extra < MaxExtra
  /\ extra' = extra + 1
  /\ todo' = <<"poll", "pump">> \o todo
  /\ UNCHANGED <<debugVars, shownVars, clockVars, padVars, callVars, lookVars>>

PumpTicking == Presenting

PumpTick ==
  /\ At("pump")
  /\ \/ Done /\ UNCHANGED counter
     \/ counter' = counter + 1 /\ Go(PumpTicking)
  /\ UNCHANGED <<debugVars, shownVars, v0, padVars, callVars, extra, lookVars>>

\* 0x8007D738, the FMV loop and the main fiber show a frame outside VSync.
Show ==
  /\ todo = <<>> /\ extra < MaxExtra
  /\ extra' = extra + 1
  /\ todo' = Presenting
  /\ UNCHANGED <<debugVars, shownVars, clockVars, padVars, callVars, lookVars>>

ThreadStep == \/ Accept \/ Receive \/ EndOfLines \/ Disconnect \/ Present \/ Wait \/ Inject
              \/ Handlers \/ Aim \/ MaybeTick \/ Until \/ CallVBlank \/ Count \/ Look \/ PumpTick
Next == ThreadStep \/ Commands \/ Pump \/ Show \/ \E mode \in Modes : VSync(mode)
Spec == Init /\ [][Next]_vars
\* The thread runs, and time passes.
FairSpec == Spec /\ WF_vars(ThreadStep)
----------------------------------------------------------------------------
\* handle_get_frame: is frame f answered from the history?
Oldest == IF frame + 1 > Cap THEN frame + 1 - Cap ELSE 0
Answered(f) == /\ frame > 0
               /\ f >= Oldest /\ f <= frame
               /\ ring[Slot(f)] = f
InVSync == from # NoCall

StepNames == {"poll", "lines", "wait", "present", "inject", "chains", "target", "maybe",
              "until", "vblank", "count", "look", "pump"}
\* The variables keep their types.
TypeOK == /\ todo \in Seq(StepNames)
          /\ client \in BOOLEAN /\ paused \in BOOLEAN
          /\ stepCount \in Nat /\ runTo \in Nat
          /\ override \in {None} \cup Pads
          /\ frame \in Nat /\ ring \in [0..(Cap - 1) -> Nat]
          /\ counter \in Nat /\ v0 \in Nat
          /\ padState \in Pads /\ lastPad \in Pads
          /\ seen \in [pad : Pads, pressed : Pads, released : Pads]
          /\ target \in Nat /\ vsyncs \in Nat /\ extra \in Nat
          /\ stopAt \in Nat /\ runAt \in Nat /\ late \in 0..2 /\ left \in BOOLEAN
          /\ from \in [frame : Nat, mode : {None} \cup Modes]
          /\ looked \in Pads /\ pads \in Seq(Pads)

\* debug_server.c:478-499: a step of n frames and a run to a frame stop the game
\* exactly there, whatever other commands, pumps and calls come in between, and
\* it stays there until it is let go.
StopsWhereAsked ==
  /\ stopAt # 0 => frame <= stopAt /\ (frame = stopAt => paused)
  /\ runAt # 0 => frame <= runAt /\ (frame = runAt => paused)

\* debug_server.c:461: wherever the pause is read, at most one more frame is shown.
PauseWithinAFrame == late <= 1

\* debug_server.c:890-910: a game without a client is paused only by a step or a
\* run that its last client had not seen the end of.
PausedAloneByOrder == paused /\ ~client => left

\* debug_server.c:513: every frame shown among the last Cap is answered, and no
\* other but the frame 0 that was never recorded.
HistoryWhole ==
  /\ \A f \in 1..frame : f > frame - Cap => Answered(f)
  /\ \A f \in 0..(frame + 1) : Answered(f) => f <= frame /\ f > frame - Cap

\* The server's own state: types, why it is paused, what it remembers.
ServerOK == TypeOK /\ PausedAloneByOrder /\ HistoryWhole

\* runtime.c:3920-4045: when VSync(n) returns, n frames and at least one were shown
\* since it was called, pumps that count in between included; and no VBlank is
\* counted without a frame.
FramesShown ==
  /\ At("look") /\ from.mode >= 0 =>
       frame >= from.frame + (IF from.mode = 0 THEN 1 ELSE from.mode)
  /\ todo = <<>> => counter <= frame

\* The pressed edge without a client, relative to the pads injected since the
\* game's last look: no press is reported that was none, and none is lost but
\* to an earlier frame of the same VSync.
EarlierPads == {pads[i] : i \in 1..(Len(pads) - 1)}
EdgesRight ==
  /\ seen.pressed \subseteq seen.pad
  /\ \A b \in seen.pressed : b \in looked => \E pad \in EarlierPads : b \notin pad
  /\ \A b \in seen.pad \ (looked \cup seen.pressed) : \E pad \in EarlierPads : b \in pad

\* runtime.c:3304-3327: when VSync returns the game sees the buttons the client
\* holds, as pressed.  Without them it sees the pad of the last frame, and the
\* edge of a button is right up to what the frames of one VSync hide from it:
\* what is reported as pressed is down and was up at the last look or in a frame
\* since; what went down since the last look is reported, unless an earlier frame
\* of the same VSync already showed it down (then the edge is lost).
InputSeen ==
  At("look") =>
    /\ pads # <<>> /\ seen.pad = pads[Len(pads)]
    /\ override # None => seen.pad = override
    /\ override \notin {None, {}} => seen.pressed = override
    /\ override = None => EdgesRight

\* VSync returns, unless the client keeps the game paused.
VSyncReturns == (<>[]~paused) => (InVSync ~> ~InVSync)
============================================================================
