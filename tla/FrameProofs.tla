---------------------------- MODULE FrameProofs ----------------------------
(***************************************************************************)
(* For any buttons, modes, histories and bounds: a step and a run stop the *)
(* game exactly where the client asked, and a pause shows at most one more *)
(* frame.  The argument (IInv): whatever calls are nested, a frame that is *)
(* shown is followed by a poll and the wait, so that nothing is shown      *)
(* between the frame an order ends at and the command that lets the game   *)
(* go.  And VSync(n) returns after n frames, with the buttons the client   *)
(* holds, and the server answers the frames it should (ServerInv): the     *)
(* steps left to do are a path from one step to the next one, on which the *)
(* clock never gains more than the frames shown and nothing is injected    *)
(* twice without a frame in between.                                       *)
(***************************************************************************)
EXTENDS Frame, TLAPS

\* What is left to do shows no frame without waiting behind it.
Shape(t) == \A i \in 1..Len(t) :
              t[i] = "present" => i + 2 <= Len(t) /\ t[i + 1] = "poll" /\ t[i + 2] = "wait"
\* The thread is in debug_server_wait_if_paused.
Waiting(t) == \/ Len(t) >= 1 /\ t[1] = "wait"
              \/ Len(t) >= 2 /\ t[1] \in {"poll", "lines"} /\ t[2] = "wait"

\* The numbers of the debug server, and what they have to do with the orders.
Numbers == /\ frame \in Nat /\ stepCount \in Nat /\ runTo \in Nat
           /\ stopAt \in Nat /\ runAt \in Nat /\ late \in 0..2
Orders == /\ stopAt = 0 => stepCount = 0
          /\ stopAt # 0 => stopAt = frame + stepCount
          /\ runAt # 0 => runAt >= frame /\ (runAt > frame => runTo = runAt)
          /\ runTo > 0 => runAt = runTo /\ runTo > frame
\* An order that ended, or a frame shown while paused, has the thread wait.
Ended == late > 0 \/ (stopAt # 0 /\ stopAt = frame) \/ (runAt # 0 /\ runAt = frame)
Held == Ended => paused /\ Waiting(todo)

IInv == todo \in Seq(StepNames) /\ Shape(todo) /\ Numbers /\ Orders /\ Held /\ late <= 1
----------------------------------------------------------------------------
\* Two lists of steps that wait behind each frame, one after the other.
LEMMA ConcatShape ==
  ASSUME NEW s \in Seq(StepNames), NEW t \in Seq(StepNames), Shape(s), Shape(t)
  PROVE  s \o t \in Seq(StepNames) /\ Shape(s \o t)
  <1>1. s \o t \in Seq(StepNames) /\ Len(s \o t) = Len(s) + Len(t)
    OBVIOUS
  <1>2. ASSUME NEW i \in 1..Len(s \o t), (s \o t)[i] = "present"
        PROVE  /\ i + 2 <= Len(s \o t)
               /\ (s \o t)[i + 1] = "poll" /\ (s \o t)[i + 2] = "wait"
    <2>1. CASE i <= Len(s)
      <3>1. i \in 1..Len(s) /\ s[i] = "present"
        BY <1>1, <1>2, <2>1
      <3>2. i + 2 <= Len(s) /\ s[i + 1] = "poll" /\ s[i + 2] = "wait"
        BY <3>1 DEF Shape
      <3> QED
        BY <1>1, <3>1, <3>2
    <2>2. CASE i > Len(s)
      <3> DEFINE j == i - Len(s)
      <3>1. j \in 1..Len(t) /\ t[j] = "present"
        BY <1>1, <1>2, <2>2
      <3>2. j + 2 <= Len(t) /\ t[j + 1] = "poll" /\ t[j + 2] = "wait"
        BY <3>1 DEF Shape
      <3> QED
        BY <1>1, <2>2, <3>1, <3>2
    <2> QED
      BY <1>1, <2>1, <2>2
  <1> QED
    BY <1>1, <1>2 DEF Shape

\* A list without its first step.
LEMMA TailShape ==
  ASSUME NEW t \in Seq(StepNames), t # <<>>, Shape(t)
  PROVE  Tail(t) \in Seq(StepNames) /\ Shape(Tail(t))
  <1>1. Tail(t) \in Seq(StepNames) /\ Len(Tail(t)) = Len(t) - 1
    OBVIOUS
  <1>2. ASSUME NEW i \in 1..Len(Tail(t)), Tail(t)[i] = "present"
        PROVE  i + 2 <= Len(Tail(t)) /\ Tail(t)[i + 1] = "poll" /\ Tail(t)[i + 2] = "wait"
    <2>1. i + 1 \in 1..Len(t) /\ t[i + 1] = "present"
      BY <1>1, <1>2
    <2>2. i + 3 <= Len(t) /\ t[i + 2] = "poll" /\ t[i + 3] = "wait"
      BY <2>1 DEF Shape
    <2> QED
      BY <1>1, <2>1, <2>2
  <1> QED
    BY <1>1, <1>2 DEF Shape

\* What the steps expand to.
LEMMA StepShapes ==
  /\ Presenting \in Seq(StepNames) /\ Shape(Presenting)
  /\ Ticking \in Seq(StepNames) /\ Shape(Ticking)
  /\ \A s \in StepNames \ {"present"} :
       /\ <<s>> \in Seq(StepNames) /\ Shape(<<s>>)
       /\ \A r \in StepNames \ {"present"} : <<s, r>> \in Seq(StepNames) /\ Shape(<<s, r>>)
  <1>1. Presenting \in Seq(StepNames) /\ Shape(Presenting)
    BY DEF Presenting, Shape, StepNames
  <1>2. ASSUME NEW s \in StepNames \ {"present"}
        PROVE  <<s>> \in Seq(StepNames) /\ Shape(<<s>>)
    BY DEF Shape
  <1>3. ASSUME NEW s \in StepNames \ {"present"}, NEW r \in StepNames \ {"present"}
        PROVE  <<s, r>> \in Seq(StepNames) /\ Shape(<<s, r>>)
    BY DEF Shape
  <1>4. Ticking \in Seq(StepNames) /\ Shape(Ticking)
    <2>1. "vblank" \in StepNames \ {"present"} /\ "inject" \in StepNames \ {"present"}
      BY DEF StepNames
    <2>2. <<"vblank">> \o Presenting \in Seq(StepNames) /\ Shape(<<"vblank">> \o Presenting)
      BY <1>1, <1>2, <2>1, ConcatShape
    <2> QED
      BY <1>2, <2>1, <2>2, ConcatShape DEF Ticking
  <1> QED
    BY <1>1, <1>2, <1>3, <1>4

\* Steps in place of the first one, or in front of the list.
LEMMA GoShape ==
  ASSUME NEW t \in Seq(StepNames), t # <<>>, Shape(t),
         NEW s \in Seq(StepNames), Shape(s)
  PROVE  s \o Tail(t) \in Seq(StepNames) /\ Shape(s \o Tail(t))
  <1>1. Tail(t) \in Seq(StepNames) /\ Shape(Tail(t))
    BY TailShape
  <1> QED
    BY <1>1, ConcatShape
----------------------------------------------------------------------------
\* A step outside the wait that leaves the debug server and the frame alone.
LEMMA OutsideKeeps ==
  ASSUME IInv, ~Waiting(todo), todo' \in Seq(StepNames), Shape(todo'),
         UNCHANGED <<frame, stepCount, runTo, stopAt, runAt, late, paused>>
  PROVE  IInv'
  <1>1. ~Ended
    BY DEF IInv, Held
  <1>2. ~Ended'
    BY <1>1 DEF Ended
  <1>3. Numbers' /\ Orders' /\ late' <= 1
    BY DEF IInv, Numbers, Orders
  <1> QED
    BY <1>2, <1>3 DEF IInv, Held

\* A step inside or outside the wait that keeps it.
LEMMA WaitKeeps ==
  ASSUME IInv, Waiting(todo) => Waiting(todo'), todo' \in Seq(StepNames), Shape(todo'),
         UNCHANGED <<frame, stepCount, runTo, stopAt, runAt, late, paused>>
  PROVE  IInv'
  <1>1. Held'
    BY DEF IInv, Held, Ended
  <1>2. Numbers' /\ Orders' /\ late' <= 1
    BY DEF IInv, Numbers, Orders
  <1> QED
    BY <1>1, <1>2 DEF IInv

\* The game starts with nothing asked.
LEMMA InitHolds == Init => IInv
  <1> SUFFICES ASSUME Init PROVE IInv
    OBVIOUS
  <1>1. todo \in Seq(StepNames) /\ Shape(todo)
    BY DEF Init, Shape
  <1>2. Numbers /\ Orders /\ ~Ended /\ late <= 1
    BY DEF Init, Numbers, Orders, Ended
  <1> QED
    BY <1>1, <1>2 DEF IInv, Held

\* A command of the client.
LEMMA CommandHolds == IInv /\ Commands => IInv'
  <1> SUFFICES ASSUME IInv, Commands PROVE IInv'
    OBVIOUS
  <1>1. todo' = todo /\ frame' = frame
    BY DEF Commands, Pause, Continue, ClearInput, Step, RunToFrame, SetInput, Command, shownVars
  <1>2. todo' \in Seq(StepNames) /\ Shape(todo')
    BY <1>1 DEF IInv
  <1>3. CASE Pause
    <2>1. UNCHANGED <<stepCount, runTo, stopAt, runAt, late>> /\ paused' = TRUE
      BY <1>3 DEF Pause, orders
    <2>2. Held'
      BY <1>1, <2>1 DEF IInv, Held, Ended
    <2>3. Numbers' /\ Orders' /\ late' <= 1
      BY <1>1, <2>1 DEF IInv, Numbers, Orders
    <2> QED
      BY <1>2, <2>2, <2>3 DEF IInv
  <1>4. CASE Continue
    <2>1. /\ stepCount' = 0 /\ runTo' = 0 /\ stopAt' = 0 /\ runAt' = 0
          /\ late' = 0 /\ paused' = FALSE
      BY <1>4 DEF Continue
    <2>2. Numbers' /\ Orders' /\ ~Ended' /\ late' <= 1
      BY <1>1, <2>1 DEF IInv, Numbers, Orders, Ended
    <2> QED
      BY <1>2, <2>2 DEF IInv, Held
  <1>5. ASSUME NEW n \in 0..MaxStep, Step(n) PROVE IInv'
    <2>1. /\ stepCount' = (IF n < 1 THEN 1 ELSE n) /\ runTo' = runTo
          /\ stopAt' = frame + stepCount' /\ runAt' = Pending(runAt)
          /\ late' = 0 /\ paused' = FALSE
      BY <1>5 DEF Step
    <2>2. stepCount' \in Nat /\ stepCount' >= 1
      BY <2>1, BoundsAssumption
    <2>3. Numbers' /\ ~Ended' /\ late' <= 1
      BY <1>1, <2>1, <2>2 DEF IInv, Numbers, Ended, Pending
    <2>4. Orders'
      BY <1>1, <2>1, <2>2 DEF IInv, Numbers, Orders, Pending
    <2> QED
      BY <1>2, <2>3, <2>4 DEF IInv, Held
  <1>6. ASSUME NEW f \in 1..MaxRun, RunToFrame(f) PROVE IInv'
    <2>1. /\ f > frame /\ runTo' = f /\ runAt' = f /\ stopAt' = Pending(stopAt)
          /\ stepCount' = stepCount /\ late' = 0 /\ paused' = FALSE
      BY <1>6 DEF RunToFrame
    <2>2. f \in Nat
      BY BoundsAssumption
    <2>3. Numbers' /\ ~Ended' /\ late' <= 1
      BY <1>1, <2>1, <2>2 DEF IInv, Numbers, Ended, Pending
    <2>4. Orders'
      BY <1>1, <2>1, <2>2 DEF IInv, Numbers, Orders, Pending
    <2> QED
      BY <1>2, <2>3, <2>4 DEF IInv, Held
  <1>7. ASSUME NEW pad \in Pads, SetInput(pad) PROVE IInv'
    <2>1. UNCHANGED <<frame, stepCount, runTo, stopAt, runAt, late, paused>>
      BY <1>1, <1>7 DEF SetInput, orders
    <2> QED
      BY <1>1, <1>2, <2>1, WaitKeeps
  <1>8. CASE ClearInput
    <2>1. UNCHANGED <<frame, stepCount, runTo, stopAt, runAt, late, paused>>
      BY <1>1, <1>8 DEF ClearInput, orders
    <2> QED
      BY <1>1, <1>2, <2>1, WaitKeeps
  <1> QED
    BY <1>3, <1>4, <1>5, <1>6, <1>7, <1>8 DEF Commands

\* A frame is shown and recorded: no order has ended yet, and one that ends now
\* leaves the thread in front of its wait.
LEMMA PresentHolds == IInv /\ Present => IInv'
  <1> SUFFICES ASSUME IInv, Present PROVE IInv'
    OBVIOUS
  <1>1. todo \in Seq(StepNames) /\ Shape(todo) /\ todo # <<>> /\ todo[1] = "present"
    BY DEF IInv, Present, At
  <1>2. todo' = Tail(todo) /\ todo' \in Seq(StepNames) /\ Shape(todo')
    BY <1>1, TailShape DEF Present, Done
  <1>3. Waiting(todo')
    <2>1. Len(todo) >= 3 /\ todo[2] = "poll" /\ todo[3] = "wait"
      BY <1>1 DEF Shape
    <2> QED
      BY <1>1, <1>2, <2>1 DEF Waiting
  <1>4. ~Ended
    BY <1>1 DEF IInv, Held, Waiting
  <1>5. /\ frame' = frame + 1 /\ stopAt' = stopAt /\ runAt' = runAt
        /\ late' = IF paused THEN Least(late + 1, 2) ELSE 0
        /\ RecordFrame(frame')
    BY DEF Present, orders
  <1>6. /\ stepCount' = Steps
        /\ paused' = (paused \/ (stepCount > 0 /\ Steps = 0) \/ Reached(frame + 1))
        /\ runTo' = IF Reached(frame + 1) THEN 0 ELSE runTo
    BY <1>5 DEF RecordFrame
  <1>7. Numbers' /\ late' <= 1 /\ (late' > 0 => paused)
    <2>1. late = 0
      BY <1>4 DEF IInv, Numbers, Ended
    <2>2. late' \in 0..1 /\ (late' > 0 => paused)
      BY <1>5, <2>1 DEF Least
    <2>3. /\ frame' \in Nat /\ stepCount' \in Nat /\ runTo' \in Nat
          /\ stopAt' \in Nat /\ runAt' \in Nat
      BY <1>5, <1>6 DEF IInv, Numbers, Steps
    <2> QED
      BY <2>2, <2>3 DEF Numbers
  <1>8. Orders'
    <2>1. /\ stopAt' = 0 => stepCount' = 0
          /\ stopAt' # 0 => stopAt' = frame' + stepCount'
      BY <1>4, <1>5, <1>6 DEF IInv, Numbers, Orders, Ended, Steps
    <2>2. /\ runAt' # 0 => runAt' >= frame' /\ (runAt' > frame' => runTo' = runAt')
          /\ runTo' > 0 => runAt' = runTo' /\ runTo' > frame'
      BY <1>4, <1>5, <1>6 DEF IInv, Numbers, Orders, Ended, Reached
    <2> QED
      BY <2>1, <2>2 DEF Orders
  <1>9. Ended' => paused'
    <2>1. CASE late' > 0
      BY <1>6, <1>7, <2>1
    <2>2. CASE stopAt' # 0 /\ stopAt' = frame'
      <3>1. stepCount > 0 /\ Steps = 0
        BY <1>4, <1>5, <2>2 DEF IInv, Numbers, Orders, Ended, Steps
      <3> QED
        BY <1>6, <3>1
    <2>3. CASE runAt' # 0 /\ runAt' = frame'
      <3>1. Reached(frame + 1)
        BY <1>4, <1>5, <2>3 DEF IInv, Numbers, Orders, Ended, Reached
      <3> QED
        BY <1>6, <3>1
    <2> QED
      BY <2>1, <2>2, <2>3 DEF Ended
  <1> QED
    BY <1>2, <1>3, <1>7, <1>8, <1>9 DEF IInv, Held

\* The polls and the wait itself.
LEMMA PollHolds == IInv /\ (Accept \/ Receive \/ EndOfLines \/ Disconnect \/ Wait) => IInv'
  <1> SUFFICES ASSUME IInv, Accept \/ Receive \/ EndOfLines \/ Disconnect \/ Wait PROVE IInv'
    OBVIOUS
  <1>1. todo \in Seq(StepNames) /\ Shape(todo) /\ todo # <<>>
    BY DEF IInv, Accept, Receive, EndOfLines, Disconnect, Wait, At
  <1>2. Tail(todo) \in Seq(StepNames) /\ Shape(Tail(todo))
    BY <1>1, TailShape
  <1>3. CASE Accept
    <2>1. todo[1] = "poll" /\ todo' = Tail(todo)
      BY <1>3 DEF Accept, At, Done
    <2>2. Waiting(todo) => Waiting(todo')
      BY <1>1, <2>1 DEF Waiting
    <2>3. UNCHANGED <<frame, stepCount, runTo, stopAt, runAt, late, paused>>
      BY <1>3 DEF Accept, shownVars, orders
    <2> QED
      BY <1>2, <2>1, <2>2, <2>3, WaitKeeps
  <1>4. CASE Receive
    <2>1. todo[1] = "poll" /\ todo' = <<"lines">> \o Tail(todo)
      BY <1>4 DEF Receive, At, Go
    <2>2. Waiting(todo) => Waiting(todo')
      BY <1>1, <2>1 DEF Waiting
    <2>3. UNCHANGED <<frame, stepCount, runTo, stopAt, runAt, late, paused>>
      BY <1>4 DEF Receive, debugVars, shownVars, orders
    <2>4. todo' \in Seq(StepNames) /\ Shape(todo')
      <3>1. "lines" \in StepNames \ {"present"}
        BY DEF StepNames
      <3> QED
        BY <1>1, <2>1, <3>1, StepShapes, GoShape
    <2> QED
      BY <2>2, <2>3, <2>4, WaitKeeps
  <1>5. CASE EndOfLines
    <2>1. todo[1] = "lines" /\ todo' = Tail(todo)
      BY <1>5 DEF EndOfLines, At, Done
    <2>2. Waiting(todo) => Waiting(todo')
      BY <1>1, <2>1 DEF Waiting
    <2>3. UNCHANGED <<frame, stepCount, runTo, stopAt, runAt, late, paused>>
      BY <1>5 DEF EndOfLines, debugVars, shownVars, orders
    <2> QED
      BY <1>2, <2>1, <2>2, <2>3, WaitKeeps
  <1>6. CASE Disconnect
    <2>1. /\ todo' = Tail(todo) /\ frame' = frame /\ stepCount' = stepCount /\ runTo' = runTo
          /\ stopAt' = Pending(stopAt) /\ runAt' = Pending(runAt)
          /\ late' = 0 /\ paused' = FALSE
      BY <1>6 DEF Disconnect, Done, Dropped, shownVars
    <2>2. Numbers' /\ ~Ended' /\ late' <= 1
      BY <2>1 DEF IInv, Numbers, Ended, Pending
    <2>3. Orders'
      BY <2>1 DEF IInv, Numbers, Orders, Pending
    <2> QED
      BY <1>2, <2>1, <2>2, <2>3 DEF IInv, Held
  <1>7. CASE Wait
    <2>1. UNCHANGED <<frame, stepCount, runTo, stopAt, runAt, late, paused>>
      BY <1>7 DEF Wait, debugVars, shownVars, orders
    <2>2. CASE paused
      <3>1. todo' = <<"poll", "wait">> \o Tail(todo)
        BY <1>7, <2>2 DEF Wait, Go
      <3>2. Waiting(todo')
        BY <1>2, <3>1 DEF Waiting
      <3>3. todo' \in Seq(StepNames) /\ Shape(todo')
        <4>1. "poll" \in StepNames \ {"present"} /\ "wait" \in StepNames \ {"present"}
          BY DEF StepNames
        <4> QED
          BY <1>1, <3>1, <4>1, StepShapes, GoShape
      <3> QED
        BY <2>1, <3>2, <3>3, WaitKeeps
    <2>3. CASE ~paused
      <3>1. todo' = Tail(todo)
        BY <1>7, <2>3 DEF Wait, Done
      <3>2. ~Ended'
        BY <2>1, <2>3 DEF IInv, Held, Ended
      <3>3. Numbers' /\ Orders' /\ late' <= 1
        BY <2>1 DEF IInv, Numbers, Orders
      <3> QED
        BY <1>2, <3>1, <3>2, <3>3 DEF IInv, Held
    <2> QED
      BY <2>2, <2>3
  <1> QED
    BY <1>3, <1>4, <1>5, <1>6, <1>7

\* The steps of the game's thread that are neither polls, waits nor frames.
LEMMA ThreadHolds ==
  IInv /\ (Inject \/ Handlers \/ Aim \/ MaybeTick \/ Until \/ CallVBlank \/ Count \/ Look \/ PumpTick)
    => IInv'
  <1> SUFFICES ASSUME IInv, Inject \/ Handlers \/ Aim \/ MaybeTick \/ Until \/ CallVBlank
                            \/ Count \/ Look \/ PumpTick
               PROVE  IInv'
    OBVIOUS
  <1>1. /\ todo \in Seq(StepNames) /\ Shape(todo) /\ todo # <<>>
        /\ todo[1] \in {"inject", "chains", "target", "maybe", "until", "vblank", "count", "look", "pump"}
    BY DEF IInv, Inject, Handlers, Aim, MaybeTick, Until, CallVBlank, Count, Look, PumpTick, At
  <1>2. ~Waiting(todo)
    BY <1>1 DEF Waiting
  <1>3. UNCHANGED <<frame, stepCount, runTo, stopAt, runAt, late, paused>>
    BY DEF Inject, Handlers, Aim, MaybeTick, Until, CallVBlank, Count, Look, PumpTick,
           debugVars, shownVars, orders
  <1>4. \/ todo' = Tail(todo) \/ todo' = Ticking \o Tail(todo)
        \/ todo' = (Ticking \o <<"until">>) \o Tail(todo)
        \/ todo' = <<"count">> \o Tail(todo) \/ todo' = Presenting \o Tail(todo)
    BY DEF Inject, Handlers, Aim, MaybeTick, Until, CallVBlank, Count, Look, PumpTick,
           Done, Go, PumpTicking
  <1>5. todo' \in Seq(StepNames) /\ Shape(todo')
    <2>1. "until" \in StepNames \ {"present"} /\ "count" \in StepNames \ {"present"}
      BY DEF StepNames
    <2>2. Ticking \o <<"until">> \in Seq(StepNames) /\ Shape(Ticking \o <<"until">>)
      BY <2>1, StepShapes, ConcatShape
    <2>3. CASE todo' = Tail(todo)
      BY <1>1, <2>3, TailShape
    <2>4. CASE todo' = Ticking \o Tail(todo)
      BY <1>1, <2>4, StepShapes, GoShape
    <2>5. CASE todo' = (Ticking \o <<"until">>) \o Tail(todo)
      BY <1>1, <2>2, <2>5, GoShape
    <2>6. CASE todo' = <<"count">> \o Tail(todo)
      BY <1>1, <2>1, <2>6, StepShapes, GoShape
    <2>7. CASE todo' = Presenting \o Tail(todo)
      BY <1>1, <2>7, StepShapes, GoShape
    <2> QED
      BY <1>4, <2>3, <2>4, <2>5, <2>6, <2>7
  <1> QED
    BY <1>2, <1>3, <1>5, OutsideKeeps

\* The calls the game makes, and the pump.
LEMMA CallHolds == IInv /\ (Pump \/ Show \/ \E mode \in Modes : VSync(mode)) => IInv'
  <1> SUFFICES ASSUME IInv, Pump \/ Show \/ \E mode \in Modes : VSync(mode) PROVE IInv'
    OBVIOUS
  <1>1. todo \in Seq(StepNames) /\ Shape(todo)
    BY DEF IInv
  <1>2. todo = <<>> \/ (todo # <<>> /\ todo[1] \in {"chains", "count"})
    BY DEF Pump, Show, VSync, Dispatching, At
  <1>3. ~Waiting(todo)
    BY <1>1, <1>2 DEF Waiting
  <1>4. UNCHANGED <<frame, stepCount, runTo, stopAt, runAt, late, paused>>
    BY DEF Pump, Show, VSync, debugVars, shownVars, orders
  <1>5. todo' \in Seq(StepNames) /\ Shape(todo')
    <2>1. /\ "poll" \in StepNames \ {"present"} /\ "pump" \in StepNames \ {"present"}
          /\ "chains" \in StepNames \ {"present"} /\ "look" \in StepNames \ {"present"}
          /\ "inject" \in StepNames \ {"present"} /\ "maybe" \in StepNames \ {"present"}
          /\ "target" \in StepNames \ {"present"} /\ "until" \in StepNames \ {"present"}
      BY DEF StepNames
    <2>2. CASE Pump
      <3>1. todo' = <<"poll", "pump">> \o todo
        BY <2>2 DEF Pump
      <3> QED
        BY <1>1, <2>1, <3>1, StepShapes, ConcatShape
    <2>3. CASE Show
      BY <2>3, StepShapes DEF Show
    <2>4. ASSUME NEW mode \in Modes, VSync(mode)
          PROVE  todo' \in Seq(StepNames) /\ Shape(todo')
      <3> DEFINE body == IF mode < 0 THEN <<"inject", "maybe">> ELSE <<"target", "until">>
      <3>1. body \in Seq(StepNames) /\ Shape(body)
        BY <2>1, StepShapes
      <3>2. <<"poll", "chains">> \in Seq(StepNames) /\ Shape(<<"poll", "chains">>)
        BY <2>1, StepShapes
      <3>3. <<"look">> \in Seq(StepNames) /\ Shape(<<"look">>)
        BY <2>1, StepShapes
      <3>4. todo' = <<"poll", "chains">> \o body \o <<"look">>
        BY <2>4 DEF VSync
      <3> HIDE DEF body
      <3>5. <<"poll", "chains">> \o body \in Seq(StepNames) /\ Shape(<<"poll", "chains">> \o body)
        BY <3>1, <3>2, ConcatShape
      <3> QED
        BY <3>3, <3>4, <3>5, ConcatShape
    <2> QED
      BY <2>2, <2>3, <2>4
  <1> QED
    BY <1>3, <1>4, <1>5, OutsideKeeps

\* The invariant in every state.
LEMMA Inductive == Spec => []IInv
  <1>1. Init => IInv
    BY InitHolds
  <1>2. IInv /\ [Next]_vars => IInv'
    <2> SUFFICES ASSUME IInv, [Next]_vars PROVE IInv'
      OBVIOUS
    <2>1. CASE ThreadStep
      BY <2>1, PresentHolds, PollHolds, ThreadHolds DEF ThreadStep
    <2>2. CASE Commands
      BY <2>2, CommandHolds
    <2>3. CASE Pump \/ Show \/ \E mode \in Modes : VSync(mode)
      BY <2>3, CallHolds
    <2>4. CASE UNCHANGED vars
      <3>1. todo' = todo /\ UNCHANGED <<frame, stepCount, runTo, stopAt, runAt, late, paused>>
        BY <2>4 DEF vars, debugVars, shownVars, orders
      <3> QED
        BY <3>1, WaitKeeps DEF IInv
    <2> QED
      BY <2>1, <2>2, <2>3, <2>4 DEF Next
  <1> QED
    BY <1>1, <1>2, PTL DEF Spec

\* A step or a run stops the game exactly where it was asked to.
THEOREM StopsExactly == Spec => []StopsWhereAsked
  <1>1. IInv => StopsWhereAsked
    BY DEF IInv, Numbers, Orders, Held, Ended, StopsWhereAsked
  <1> QED
    BY <1>1, Inductive, PTL

\* A pause lets at most one more frame be shown.
THEOREM PausesInTime == Spec => []PauseWithinAFrame
  <1>1. IInv => PauseWithinAFrame
    BY DEF IInv, PauseWithinAFrame
  <1> QED
    BY <1>1, Inductive, PTL
----------------------------------------------------------------------------
(* What a call of VSync has left to do, whatever is nested in it: which step *)
(* may come behind which one.                                              *)

\* The call in progress waits for a frame.
Timed == from.mode \in Modes /\ from.mode >= 0
After(step) == CASE step \in {"poll", "lines"} -> {"pump", "wait", "chains"}
                 [] step = "pump" -> {"chains", "count"}
                 [] step = "present" -> {"poll"}
                 [] step = "wait" -> {"chains", "count", "inject"}
                 [] step \in {"vblank", "count"} -> {"present"}
                 [] step = "chains" -> IF Timed THEN {"target"} ELSE {"inject"}
                 [] step = "target" -> {"until"}
                 [] step = "inject" -> IF Timed THEN {"until"} ELSE {"maybe", "look"}
                 [] step \in {"maybe", "until"} -> {"look"}
                 [] step = "look" -> {}
Lasts == {"look", "wait", "pump"}
OnlyTimed(step) == /\ step \in {"target", "until"} => Timed
                   /\ step = "maybe" => ~Timed
                   /\ step = "look" => from.mode \in Modes
Path(t) == /\ t # <<>> => t[Len(t)] \in Lasts
           /\ \A i \in 1..Len(t) : OnlyTimed(t[i])
           /\ \A i \in 1..(Len(t) - 1) : t[i + 1] \in After(t[i])

\* Commands are read from a client that is there; without one, only orders that
\* it left can pause the game.
Alone == /\ At("lines") => client
         /\ ~client /\ (paused \/ stepCount > 0 \/ runTo > 0) => left

\* The history holds each of the last Cap frames in its slot.
RingWhole == \A f \in 1..frame : f > frame - Cap => ring[Slot(f)] = f

\* A VBlank is counted when its frame is about to be shown.
Shown == frame + (IF At("present") THEN 1 ELSE 0)
Clock == v0 <= counter /\ v0 <= frame /\ counter <= Shown

\* Once VSync has its target, the clock gained no more than frames were shown.
Ticks == IF from.mode = 0 THEN 1 ELSE from.mode
Aiming == \E i \in 1..Len(todo) : todo[i] = "target"
Progress == /\ from.frame <= frame
            /\ Timed /\ ~Aiming => /\ counter + Ticks <= target + (Shown - from.frame)
                                   /\ v0 + Ticks <= target + (frame - from.frame)
            /\ Timed /\ At("look") => frame >= from.frame + Ticks

\* The pad as inject_pad_state would store it now.
Input == IF override = None THEN padState ELSE override
\* What the next injection compares with is the pad of the last one, or what the
\* game looked at if there was none since.
Compared == /\ seen.pad = lastPad
            /\ pads = <<>> => lastPad = looked
            /\ pads # <<>> => lastPad = pads[Len(pads)]
\* Between the last injection of a call and its return nothing changes.
Settled == At("look") \/ At("maybe") \/ (At("until") /\ counter >= target)
Injected == /\ pads # <<>> /\ seen.pad = pads[Len(pads)] /\ seen.pad = Input
            /\ override \notin {None, {}} => seen.pressed = override
            /\ override = None => EdgesRight
LookReady == Settled => Injected

ServerInv == TypeOK /\ Path(todo) /\ Alone /\ RingWhole /\ Clock /\ Progress /\ Compared /\ LookReady
----------------------------------------------------------------------------
\* Steps put in front of a list, and a list without its first step.
LEMMA ConcatPath ==
  ASSUME NEW s \in Seq(StepNames), Len(s) >= 1, NEW t \in Seq(StepNames), Path(t),
         \A i \in 1..Len(s) : OnlyTimed(s[i]),
         \A i \in 1..(Len(s) - 1) : s[i + 1] \in After(s[i]),
         IF t = <<>> THEN s[Len(s)] \in Lasts ELSE t[1] \in After(s[Len(s)])
  PROVE  Path(s \o t)
  <1>1. s \o t \in Seq(StepNames) /\ Len(s \o t) = Len(s) + Len(t) /\ Len(s) \in Nat /\ Len(s) > 0 /\ Len(t) \in Nat
    OBVIOUS
  <1>2. \A i \in 1..Len(s) : (s \o t)[i] = s[i]
    OBVIOUS
  <1>3. \A i \in 1..Len(t) : (s \o t)[Len(s) + i] = t[i]
    OBVIOUS
  <1>4. (s \o t)[Len(s \o t)] \in Lasts
    <2>1. CASE t = <<>>
      BY <1>1, <1>2, <2>1
    <2>2. CASE t # <<>>
      <3>1. Len(t) \in 1..Len(t)
        BY <1>1, <2>2
      <3> QED
        BY <1>1, <1>3, <2>2, <3>1 DEF Path
    <2> QED
      BY <2>1, <2>2
  <1>5. ASSUME NEW i \in 1..Len(s \o t)
        PROVE  OnlyTimed((s \o t)[i])
    <2>1. CASE i <= Len(s)
      BY <1>1, <1>2, <2>1
    <2>2. CASE i > Len(s)
      <3>1. i - Len(s) \in 1..Len(t) /\ i = Len(s) + (i - Len(s))
        BY <1>1, <2>2
      <3> QED
        BY <1>3, <3>1 DEF Path
    <2> QED
      BY <1>1, <2>1, <2>2
  <1>6. ASSUME NEW i \in 1..(Len(s \o t) - 1)
        PROVE  (s \o t)[i + 1] \in After((s \o t)[i])
    <2>1. CASE i < Len(s)
      <3>1. i \in 1..(Len(s) - 1) /\ i \in 1..Len(s) /\ i + 1 \in 1..Len(s)
        BY <1>1, <2>1
      <3> QED
        BY <1>2, <3>1
    <2>2. CASE i = Len(s)
      <3>1. t # <<>> /\ 1 \in 1..Len(t) /\ i \in 1..Len(s)
        BY <1>1, <2>2
      <3> QED
        BY <1>2, <1>3, <2>2, <3>1
    <2>3. CASE i > Len(s)
      <3> DEFINE j == i - Len(s)
      <3>1. j \in 1..(Len(t) - 1) /\ j \in 1..Len(t) /\ j + 1 \in 1..Len(t) /\ i = Len(s) + j /\ i + 1 = Len(s) + (j + 1)
        BY <1>1, <2>3
      <3> HIDE DEF j
      <3> QED
        BY <1>3, <3>1 DEF Path
    <2> QED
      BY <1>1, <2>1, <2>2, <2>3
  <1> QED
    BY <1>4, <1>5, <1>6 DEF Path

LEMMA TailPath ==
  ASSUME NEW t \in Seq(StepNames), t # <<>>, Path(t)
  PROVE  /\ Tail(t) \in Seq(StepNames) /\ Path(Tail(t))
         /\ Tail(t) = <<>> => t[1] \in Lasts
         /\ Tail(t) # <<>> => Tail(t)[1] \in After(t[1]) /\ Tail(t)[1] = t[2] /\ Len(t) >= 2
  <1>1. Tail(t) \in Seq(StepNames) /\ Len(Tail(t)) = Len(t) - 1 /\ Len(t) \in Nat /\ Len(t) > 0
    OBVIOUS
  <1>2. \A i \in 1..Len(Tail(t)) : Tail(t)[i] = t[i + 1]
    OBVIOUS
  <1>3. Tail(t) # <<>> => Tail(t)[Len(Tail(t))] \in Lasts
    <2>1. SUFFICES ASSUME Tail(t) # <<>> PROVE Tail(t)[Len(Tail(t))] \in Lasts
      OBVIOUS
    <2>2. Len(Tail(t)) \in 1..Len(Tail(t))
      BY <1>1, <2>1
    <2> QED
      BY <1>1, <1>2, <2>2 DEF Path
  <1>4. \A i \in 1..Len(Tail(t)) : i + 1 \in 1..Len(t)
    BY <1>1
  <1>5. \A i \in 1..(Len(Tail(t)) - 1) : i + 1 \in 1..(Len(t) - 1) /\ i \in 1..Len(Tail(t)) /\ i + 1 \in 1..Len(Tail(t))
    BY <1>1
  <1>6. \A i \in 1..Len(Tail(t)) : OnlyTimed(Tail(t)[i])
    BY <1>2, <1>4 DEF Path
  <1>7. \A i \in 1..(Len(Tail(t)) - 1) : Tail(t)[i + 1] \in After(Tail(t)[i])
    BY <1>2, <1>5 DEF Path
  <1>8. Path(Tail(t))
    BY <1>3, <1>6, <1>7 DEF Path
  <1>9. Tail(t) = <<>> => t[1] \in Lasts
    <2>1. SUFFICES ASSUME Tail(t) = <<>> PROVE t[1] \in Lasts
      OBVIOUS
    <2> DEFINE r == Tail(t)
    <2>2. r = <<>>
      BY <2>1
    <2>6. Len(r) = Len(t) - 1
      BY <1>1
    <2> HIDE DEF r
    <2>3. Len(r) = 0
      BY <2>2
    <2>7. Len(t) \in Nat
      BY <1>1
    <2>4. Len(t) = 1
      BY <2>3, <2>6, <2>7
    <2>5. t[Len(t)] \in Lasts
      BY DEF Path
    <2> QED
      BY <2>4, <2>5
  <1>10. Tail(t) # <<>> => Tail(t)[1] \in After(t[1]) /\ Tail(t)[1] = t[2] /\ Len(t) >= 2
    <2>1. SUFFICES ASSUME Tail(t) # <<>> PROVE Tail(t)[1] \in After(t[1]) /\ Tail(t)[1] = t[2] /\ Len(t) >= 2
      OBVIOUS
    <2>2. Len(t) >= 2 /\ 1 \in 1..(Len(t) - 1) /\ 1 \in 1..Len(Tail(t))
      BY <1>1, <2>1
    <2> QED
      BY <1>2, <2>2 DEF Path
  <1> QED
    BY <1>1, <1>8, <1>9, <1>10

\* What a step puts in place of itself fits where it stood.
LEMMA GoPath ==
  ASSUME NEW t \in Seq(StepNames), t # <<>>, Path(t),
         NEW s \in Seq(StepNames), Len(s) >= 1,
         \A i \in 1..Len(s) : OnlyTimed(s[i]),
         \A i \in 1..(Len(s) - 1) : s[i + 1] \in After(s[i]),
         After(t[1]) \subseteq After(s[Len(s)]),
         t[1] \in Lasts => s[Len(s)] \in Lasts
  PROVE  Path(s \o Tail(t))
  <1>1. /\ Tail(t) \in Seq(StepNames) /\ Path(Tail(t))
        /\ Tail(t) = <<>> => t[1] \in Lasts
        /\ Tail(t) # <<>> => Tail(t)[1] \in After(t[1])
    BY TailPath
  <1> QED
    BY <1>1, ConcatPath

\* The paths are those of the call in progress.
LEMMA SamePath == ASSUME from' = from, Path(todo') PROVE Path(todo)'
  BY DEF Path, OnlyTimed, After, Timed

\* One list after another, step by step.
LEMMA ConcatAt ==
  ASSUME NEW s \in Seq(StepNames), NEW t \in Seq(StepNames)
  PROVE  /\ s \o t \in Seq(StepNames) /\ Len(s \o t) = Len(s) + Len(t)
         /\ \A i \in 1..Len(s) : (s \o t)[i] = s[i]
         /\ \A i \in 1..Len(t) : (s \o t)[Len(s) + i] = t[i]
  OBVIOUS

\* The lists the steps leave.
LEMMA Expansions ==
  /\ Presenting \in Seq(StepNames) /\ Len(Presenting) = 3
  /\ Presenting[1] = "present" /\ Presenting[2] = "poll" /\ Presenting[3] = "wait"
  /\ Ticking \in Seq(StepNames) /\ Len(Ticking) = 5
  /\ Ticking[1] = "vblank" /\ Ticking[2] = "present" /\ Ticking[3] = "poll"
  /\ Ticking[4] = "wait" /\ Ticking[5] = "inject"
  /\ Ticking \o <<"until">> \in Seq(StepNames) /\ Len(Ticking \o <<"until">>) = 6
  /\ \A i \in 1..5 : (Ticking \o <<"until">>)[i] = Ticking[i]
  /\ (Ticking \o <<"until">>)[6] = "until"
  <1> DEFINE v == <<"vblank">>
             j == <<"inject">>
             u == <<"until">>
             vp == v \o Presenting
  <1>1. /\ v \in Seq(StepNames) /\ Len(v) = 1 /\ v[1] = "vblank"
        /\ j \in Seq(StepNames) /\ Len(j) = 1 /\ j[1] = "inject"
        /\ u \in Seq(StepNames) /\ Len(u) = 1 /\ u[1] = "until"
    BY DEF StepNames
  <1>2. /\ Presenting \in Seq(StepNames) /\ Len(Presenting) = 3
        /\ Presenting[1] = "present" /\ Presenting[2] = "poll" /\ Presenting[3] = "wait"
    BY DEF Presenting, StepNames
  <1>3. Ticking = vp \o j
    BY DEF Ticking
  <1> HIDE DEF v, j, u
  <1>4. /\ vp \in Seq(StepNames) /\ Len(vp) = 4 /\ vp[1] = "vblank"
        /\ vp[2] = "present" /\ vp[3] = "poll" /\ vp[4] = "wait"
    <2>1. /\ vp \in Seq(StepNames) /\ Len(vp) = Len(v) + Len(Presenting)
          /\ \A i \in 1..Len(v) : vp[i] = v[i]
          /\ \A i \in 1..Len(Presenting) : vp[Len(v) + i] = Presenting[i]
      BY <1>1, <1>2, ConcatAt, Zenon
    <2> HIDE DEF vp
    <2> QED
      BY <1>1, <1>2, <2>1
  <1> HIDE DEF vp
  <1>5. /\ Ticking \in Seq(StepNames) /\ Len(Ticking) = 5
        /\ \A i \in 1..4 : Ticking[i] = vp[i]
        /\ Ticking[5] = "inject"
    <2>1. /\ Ticking \in Seq(StepNames) /\ Len(Ticking) = Len(vp) + Len(j)
          /\ \A i \in 1..Len(vp) : Ticking[i] = vp[i]
          /\ \A i \in 1..Len(j) : Ticking[Len(vp) + i] = j[i]
      BY <1>1, <1>3, <1>4, ConcatAt, Zenon
    <2> QED
      BY <1>1, <1>4, <2>1
  <1>6. Ticking \o u \in Seq(StepNames) /\ Len(Ticking \o u) = 6 /\ (\A i \in 1..5 : (Ticking \o u)[i] = Ticking[i])
        /\ (Ticking \o u)[5 + 1] = u[1]
    <2> DEFINE tu == Ticking \o u
    <2>1. /\ tu \in Seq(StepNames) /\ Len(tu) = Len(Ticking) + Len(u)
          /\ \A i \in 1..Len(Ticking) : tu[i] = Ticking[i]
          /\ \A i \in 1..Len(u) : tu[Len(Ticking) + i] = u[i]
      BY <1>1, <1>5, ConcatAt, Zenon
    <2> HIDE DEF tu
    <2>2. tu \in Seq(StepNames) /\ Len(tu) = 6 /\ (\A i \in 1..5 : tu[i] = Ticking[i]) /\ tu[5 + 1] = u[1]
      BY <1>1, <1>5, <2>1
    <2> QED
      BY <2>2 DEF tu
  <1>7. /\ Ticking[1] = "vblank" /\ Ticking[2] = "present" /\ Ticking[3] = "poll"
        /\ Ticking[4] = "wait"
    BY <1>4, <1>5
  <1>8. (Ticking \o u)[6] = "until"
    BY <1>1, <1>6
  <1> QED
    BY <1>2, <1>5, <1>6, <1>7, <1>8 DEF u

\* What is left to do when VSync is called.
LEMMA VSyncList ==
  ASSUME NEW a \in StepNames, NEW b \in StepNames
  PROVE  LET t == <<"poll", "chains">> \o <<a, b>> \o <<"look">>
         IN /\ t \in Seq(StepNames) /\ Len(t) = 5
            /\ t[1] = "poll" /\ t[2] = "chains" /\ t[3] = a /\ t[4] = b /\ t[5] = "look"
  <1> DEFINE p == <<"poll", "chains">>
             q == <<a, b>>
             r == <<"look">>
  <1>1. /\ p \in Seq(StepNames) /\ Len(p) = 2 /\ p[1] = "poll" /\ p[2] = "chains"
        /\ q \in Seq(StepNames) /\ Len(q) = 2 /\ q[1] = a /\ q[2] = b
        /\ r \in Seq(StepNames) /\ Len(r) = 1 /\ r[1] = "look"
    BY DEF StepNames
  <1> HIDE DEF p, q, r
  <1> DEFINE pq == p \o q
  <1>2. pq \in Seq(StepNames) /\ Len(pq) = 4 /\ pq[1] = p[1] /\ pq[2] = p[2] /\ pq[2 + 1] = q[1] /\ pq[2 + 2] = q[2]
    <2>1. /\ pq \in Seq(StepNames) /\ Len(pq) = Len(p) + Len(q)
          /\ \A i \in 1..Len(p) : pq[i] = p[i]
          /\ \A i \in 1..Len(q) : pq[Len(p) + i] = q[i]
      BY <1>1, ConcatAt, Zenon
    <2> HIDE DEF pq
    <2> QED
      BY <1>1, <2>1
  <1> HIDE DEF pq
  <1> DEFINE t == pq \o r
  <1>3. /\ t \in Seq(StepNames) /\ Len(t) = 5
        /\ t[1] = pq[1] /\ t[2] = pq[2] /\ t[3] = pq[3] /\ t[4] = pq[4] /\ t[4 + 1] = r[1]
    <2>1. /\ t \in Seq(StepNames) /\ Len(t) = Len(pq) + Len(r)
          /\ \A i \in 1..Len(pq) : t[i] = pq[i]
          /\ \A i \in 1..Len(r) : t[Len(pq) + i] = r[i]
      BY <1>1, <1>2, ConcatAt, Zenon
    <2> HIDE DEF t
    <2> QED
      BY <1>1, <1>2, <2>1
  <1> HIDE DEF t
  <1>4. /\ t \in Seq(StepNames) /\ Len(t) = 5
        /\ t[1] = "poll" /\ t[2] = "chains" /\ t[3] = a /\ t[4] = b /\ t[5] = "look"
    BY <1>1, <1>2, <1>3
  <1> QED
    BY <1>4 DEF t, pq, p, q, r

LEMMA PathHolds == IInv /\ Path(todo) /\ Next => Path(todo)'
  <1> SUFFICES ASSUME IInv, Path(todo), Next PROVE Path(todo)'
    OBVIOUS
  <1>1. todo \in Seq(StepNames)
    BY DEF IInv
  <1>2. ASSUME todo # <<>>, todo' = Tail(todo), from' = from PROVE Path(todo)'
    <2>1. Path(Tail(todo))
      BY <1>1, <1>2, TailPath
    <2> QED
      BY <1>2, <2>1, SamePath
  <1>3. ASSUME todo # <<>>, from' = from,
               NEW s \in Seq(StepNames), Len(s) >= 1, todo' = s \o Tail(todo),
               \A i \in 1..Len(s) : OnlyTimed(s[i]),
               \A i \in 1..(Len(s) - 1) : s[i + 1] \in After(s[i]),
               After(todo[1]) \subseteq After(s[Len(s)]),
               todo[1] \in Lasts => s[Len(s)] \in Lasts
        PROVE  Path(todo)'
    <2>1. Path(s \o Tail(todo))
      BY <1>1, <1>3, GoPath
    <2> QED
      BY <1>3, <2>1, SamePath
  <1>15. ASSUME todo # <<>>, from' = from,
                NEW x \in StepNames, todo' = <<x>> \o Tail(todo),
                OnlyTimed(x), After(todo[1]) \subseteq After(x), todo[1] \in Lasts => x \in Lasts
         PROVE  Path(todo)'
    <2> DEFINE s == <<x>>
    <2>1. s \in Seq(StepNames) /\ Len(s) >= 1 /\ Len(s) = 1 /\ s[1] = x /\ todo' = s \o Tail(todo)
      BY <1>15
    <2> HIDE DEF s
    <2>2. (\A i \in 1..Len(s) : OnlyTimed(s[i])) /\ (\A i \in 1..(Len(s) - 1) : s[i + 1] \in After(s[i]))
      BY <1>15, <2>1
    <2>3. After(todo[1]) \subseteq After(s[Len(s)]) /\ (todo[1] \in Lasts => s[Len(s)] \in Lasts)
      BY <1>15, <2>1
    <2> QED
      BY <1>3, <1>15, <2>1, <2>2, <2>3
  <1>4. CASE Commands
    <2>1. todo' = todo /\ from' = from
      BY <1>4 DEF Commands, Pause, Continue, ClearInput, Step, RunToFrame, SetInput, Command, callVars
    <2> QED
      BY <2>1, SamePath
  <1>5. CASE Accept \/ EndOfLines \/ Disconnect \/ Present \/ Inject \/ Handlers \/ Aim \/ CallVBlank \/ Count
    <2>1. CASE CallVBlank
      <3>1. todo # <<>> /\ todo[1] = "vblank" /\ todo' = <<"count">> \o Tail(todo) /\ from' = from
        BY <2>1 DEF CallVBlank, At, Go, callVars
      <3>2. "count" \in StepNames /\ OnlyTimed("count") /\ After("vblank") \subseteq After("count")
        BY DEF StepNames, OnlyTimed, After
      <3> QED
        BY <1>15, <3>1, <3>2 DEF Lasts
    <2>2. CASE Accept \/ EndOfLines \/ Disconnect \/ Present \/ Inject \/ Handlers \/ Aim \/ Count
      <3>1. todo # <<>> /\ todo' = Tail(todo) /\ from' = from
        BY <2>2 DEF Accept, EndOfLines, Disconnect, Present, Inject, Handlers, Aim, Count, At, Done, callVars
      <3> QED
        BY <1>2, <3>1
    <2> QED
      BY <1>5, <2>1, <2>2
  <1>6. CASE Receive
    <2>1. todo # <<>> /\ todo[1] = "poll" /\ todo' = <<"lines">> \o Tail(todo) /\ from' = from
      BY <1>6 DEF Receive, At, Go, callVars
    <2>2. "lines" \in StepNames /\ OnlyTimed("lines") /\ After("poll") \subseteq After("lines")
      BY DEF StepNames, OnlyTimed, After
    <2> QED
      BY <1>15, <2>1, <2>2 DEF Lasts
  <1>7. CASE Wait
    <2>1. todo # <<>> /\ todo[1] = "wait" /\ from' = from
      BY <1>7 DEF Wait, At, callVars
    <2>2. CASE paused
      <3>1. todo' = <<"poll", "wait">> \o Tail(todo)
        BY <1>7, <2>2 DEF Wait, Go
      <3>2. <<"poll", "wait">> \in Seq(StepNames) /\ OnlyTimed("poll") /\ OnlyTimed("wait") /\ "wait" \in After("poll")
        BY DEF StepNames, OnlyTimed, After
      <3> DEFINE s == <<"poll", "wait">>
      <3>3. s \in Seq(StepNames) /\ Len(s) >= 1 /\ Len(s) = 2 /\ s[1] = "poll" /\ s[2] = "wait" /\ todo' = s \o Tail(todo)
        BY <3>1, <3>2
      <3> HIDE DEF s
      <3>4. (\A i \in 1..Len(s) : OnlyTimed(s[i])) /\ (\A i \in 1..(Len(s) - 1) : s[i + 1] \in After(s[i]))
        BY <3>2, <3>3
      <3>5. After(todo[1]) \subseteq After(s[Len(s)]) /\ (todo[1] \in Lasts => s[Len(s)] \in Lasts)
        BY <2>1, <3>3
      <3> QED
        BY <1>3, <2>1, <3>3, <3>4, <3>5
    <2>3. CASE ~paused
      BY <1>2, <1>7, <2>1, <2>3 DEF Wait, Done
    <2> QED
      BY <2>2, <2>3
  <1>8. CASE MaybeTick
    <2>1. todo # <<>> /\ todo[1] = "maybe" /\ from' = from /\ (todo' = Tail(todo) \/ todo' = Ticking \o Tail(todo))
      BY <1>8 DEF MaybeTick, At, Done, Go, callVars
    <2>2. CASE todo' = Ticking \o Tail(todo)
      <3> DEFINE s == Ticking
      <3>0. /\ s \in Seq(StepNames) /\ Len(s) = 5 /\ todo' = s \o Tail(todo)
            /\ s[1] = "vblank" /\ s[2] = "present" /\ s[3] = "poll" /\ s[4] = "wait" /\ s[5] = "inject"
        BY <2>2, Expansions
      <3> HIDE DEF s
      <3>1. s \in Seq(StepNames) /\ Len(s) >= 1 /\ todo' = s \o Tail(todo) /\ s[Len(s)] = "inject"
        BY <3>0
      <3>2. \A i \in 1..Len(s) : OnlyTimed(s[i])
        BY <3>0 DEF OnlyTimed
      <3>3. \A i \in 1..(Len(s) - 1) : s[i + 1] \in After(s[i])
        BY <3>0 DEF After
      <3>4. ~Timed
        <4>1. OnlyTimed(todo[1])
          BY <1>1, <2>1 DEF Path
        <4> QED
          BY <2>1, <4>1 DEF OnlyTimed
      <3>5. After("maybe") \subseteq After("inject")
        BY <3>4 DEF After
      <3>6. After(todo[1]) \subseteq After(s[Len(s)]) /\ (todo[1] \in Lasts => s[Len(s)] \in Lasts)
        BY <2>1, <3>1, <3>5 DEF Lasts
      <3> QED
        BY <1>3, <2>1, <3>1, <3>2, <3>3, <3>6
    <2> QED
      BY <1>2, <2>1, <2>2
  <1>9. CASE Until
    <2>1. todo # <<>> /\ todo[1] = "until" /\ from' = from /\ (todo' = Tail(todo) \/ todo' = (Ticking \o <<"until">>) \o Tail(todo))
      BY <1>9 DEF Until, At, Done, Go, callVars
    <2>2. CASE todo' = (Ticking \o <<"until">>) \o Tail(todo)
      <3> DEFINE s == Ticking \o <<"until">>
      <3>0. /\ s \in Seq(StepNames) /\ Len(s) = 6 /\ todo' = s \o Tail(todo)
            /\ s[1] = "vblank" /\ s[2] = "present" /\ s[3] = "poll" /\ s[4] = "wait" /\ s[5] = "inject" /\ s[6] = "until"
        BY <2>2, Expansions
      <3> HIDE DEF s
      <3>1. s \in Seq(StepNames) /\ Len(s) >= 1 /\ todo' = s \o Tail(todo) /\ s[Len(s)] = "until"
        BY <3>0
      <3>2. Timed
        <4>1. OnlyTimed(todo[1])
          BY <1>1, <2>1 DEF Path
        <4> QED
          BY <2>1, <4>1 DEF OnlyTimed
      <3>3. \A i \in 1..Len(s) : OnlyTimed(s[i])
        BY <3>0, <3>2 DEF OnlyTimed
      <3>4. \A i \in 1..(Len(s) - 1) : s[i + 1] \in After(s[i])
        BY <3>0, <3>2 DEF After
      <3>5. After(todo[1]) \subseteq After(s[Len(s)]) /\ (todo[1] \in Lasts => s[Len(s)] \in Lasts)
        BY <2>1, <3>1 DEF Lasts
      <3> QED
        BY <1>3, <2>1, <3>1, <3>3, <3>4, <3>5
    <2> QED
      BY <1>2, <2>1, <2>2
  <1>10. CASE PumpTick
    <2>1. todo # <<>> /\ todo[1] = "pump" /\ from' = from /\ (todo' = Tail(todo) \/ todo' = Presenting \o Tail(todo))
      BY <1>10 DEF PumpTick, PumpTicking, At, Done, Go, callVars
    <2>2. CASE todo' = Presenting \o Tail(todo)
      <3> DEFINE s == Presenting
      <3>0. /\ s \in Seq(StepNames) /\ Len(s) = 3 /\ todo' = s \o Tail(todo)
            /\ s[1] = "present" /\ s[2] = "poll" /\ s[3] = "wait"
        BY <2>2, Expansions
      <3> HIDE DEF s
      <3>1. s \in Seq(StepNames) /\ Len(s) >= 1 /\ todo' = s \o Tail(todo) /\ s[Len(s)] = "wait"
        BY <3>0
      <3>2. \A i \in 1..Len(s) : OnlyTimed(s[i])
        BY <3>0 DEF OnlyTimed
      <3>3. \A i \in 1..(Len(s) - 1) : s[i + 1] \in After(s[i])
        BY <3>0 DEF After
      <3>4. After("pump") \subseteq After("wait")
        BY DEF After
      <3>5. After(todo[1]) \subseteq After(s[Len(s)]) /\ (todo[1] \in Lasts => s[Len(s)] \in Lasts)
        BY <2>1, <3>1, <3>4 DEF Lasts
      <3> QED
        BY <1>3, <2>1, <3>1, <3>2, <3>3, <3>5
    <2> QED
      BY <1>2, <2>1, <2>2
  <1>11. CASE Look
    <2>1. todo # <<>> /\ todo[1] = "look" /\ todo' = Tail(todo)
      BY <1>11 DEF Look, At, Done
    <2>2. todo' = <<>>
      <3>1. After("look") = {}
        BY DEF After
      <3> QED
        BY <1>1, <2>1, <3>1, TailPath
    <2> QED
      BY <2>2 DEF Path
  <1>12. CASE Pump
    <2>1. from' = from /\ todo' = <<"poll", "pump">> \o todo /\ (todo = <<>> \/ todo[1] \in {"chains", "count"})
      BY <1>12 DEF Pump, Dispatching, At, callVars
    <2>2. <<"poll", "pump">> \in Seq(StepNames) /\ OnlyTimed("poll") /\ OnlyTimed("pump")
      BY DEF StepNames, OnlyTimed
    <2>3. "pump" \in After("poll") /\ {"chains", "count"} \subseteq After("pump") /\ "pump" \in Lasts
      BY DEF After, Lasts
    <2> DEFINE s == <<"poll", "pump">>
    <2>4. s \in Seq(StepNames) /\ Len(s) >= 1 /\ Len(s) = 2 /\ s[1] = "poll" /\ s[2] = "pump"
      BY <2>2
    <2>5. todo' = s \o todo
      BY <2>1
    <2> HIDE DEF s
    <2>6. (\A i \in 1..Len(s) : OnlyTimed(s[i])) /\ (\A i \in 1..(Len(s) - 1) : s[i + 1] \in After(s[i]))
      BY <2>2, <2>3, <2>4
    <2>7. IF todo = <<>> THEN s[Len(s)] \in Lasts ELSE todo[1] \in After(s[Len(s)])
      BY <2>1, <2>3, <2>4
    <2>8. Path(s \o todo)
      BY <1>1, <2>4, <2>6, <2>7, ConcatPath
    <2> QED
      BY <2>1, <2>5, <2>8, SamePath
  <1>13. CASE Show
    <2>1. from' = from /\ todo' = Presenting
      BY <1>13 DEF Show, callVars
    <2>2. Len(todo') = 3 /\ todo'[1] = "present" /\ todo'[2] = "poll" /\ todo'[3] = "wait"
      BY <2>1, Expansions
    <2>3. Path(todo')
      BY <2>2 DEF Path, OnlyTimed, After, Lasts
    <2> QED
      BY <2>1, <2>3, SamePath
  <1>14. ASSUME NEW mode \in Modes, VSync(mode) PROVE Path(todo)'
    <2>1. from' = [frame |-> frame, mode |-> mode]
      BY <1>14 DEF VSync
    <2>4. from'.mode \in Modes
      BY <2>1
    <2>2. CASE mode < 0
      <3>0. todo' = <<"poll", "chains">> \o <<"inject", "maybe">> \o <<"look">>
        BY <1>14, <2>2, ModesAssumption DEF VSync
      <3>1. /\ Len(todo') = 5 /\ todo'[1] = "poll" /\ todo'[2] = "chains"
            /\ todo'[3] = "inject" /\ todo'[4] = "maybe" /\ todo'[5] = "look"
        <4>1. "inject" \in StepNames /\ "maybe" \in StepNames
          BY DEF StepNames
        <4> QED
          BY <3>0, <4>1, VSyncList
      <3>2. ~Timed'
        BY <2>1, <2>2, ModesAssumption DEF Timed
      <3>3. todo'[Len(todo')] \in Lasts
        BY <3>1 DEF Lasts
      <3>4. (\A i \in 1..Len(todo) : OnlyTimed(todo[i]))'
        BY <2>4, <3>1, <3>2 DEF OnlyTimed
      <3>5. (\A i \in 1..(Len(todo) - 1) : todo[i + 1] \in After(todo[i]))'
        BY <3>1, <3>2 DEF After
      <3> QED
        BY <3>3, <3>4, <3>5 DEF Path
    <2>3. CASE mode >= 0
      <3>0. todo' = <<"poll", "chains">> \o <<"target", "until">> \o <<"look">>
        BY <1>14, <2>3, ModesAssumption DEF VSync
      <3>1. /\ Len(todo') = 5 /\ todo'[1] = "poll" /\ todo'[2] = "chains"
            /\ todo'[3] = "target" /\ todo'[4] = "until" /\ todo'[5] = "look"
        <4>1. "target" \in StepNames /\ "until" \in StepNames
          BY DEF StepNames
        <4> QED
          BY <3>0, <4>1, VSyncList
      <3>2. Timed'
        BY <2>1, <2>3 DEF Timed
      <3>3. todo'[Len(todo')] \in Lasts
        BY <3>1 DEF Lasts
      <3>4. (\A i \in 1..Len(todo) : OnlyTimed(todo[i]))'
        BY <2>4, <3>1, <3>2 DEF OnlyTimed
      <3>5. (\A i \in 1..(Len(todo) - 1) : todo[i + 1] \in After(todo[i]))'
        BY <3>1, <3>2 DEF After
      <3> QED
        BY <3>3, <3>4, <3>5 DEF Path
    <2> QED
      BY <2>2, <2>3, ModesAssumption
  <1> QED
    BY <1>4, <1>5, <1>6, <1>7, <1>8, <1>9, <1>10, <1>11, <1>12, <1>13, <1>14 DEF Next, ThreadStep
----------------------------------------------------------------------------
(* Where a step leaves the call. *)

\* A step that replaces itself.
LEMMA MovesTo ==
  ASSUME todo \in Seq(StepNames), todo # <<>>,
         NEW s \in Seq(StepNames), Len(s) >= 1, todo' = s \o Tail(todo)
  PROVE  /\ todo' # <<>> /\ todo'[1] = s[1]
         /\ todo[1] # "target" /\ Aiming => Aiming'
  <1> DEFINE r == Tail(todo)
             t == s \o r
  <1>1. r \in Seq(StepNames) /\ Len(r) = Len(todo) - 1 /\ Len(todo) \in Nat /\ Len(todo) > 0
    OBVIOUS
  <1>2. \A i \in 1..Len(r) : r[i] = todo[i + 1]
    OBVIOUS
  <1> HIDE DEF r
  <1>3. /\ t \in Seq(StepNames) /\ Len(t) = Len(s) + Len(r)
        /\ \A i \in 1..Len(s) : t[i] = s[i]
        /\ \A i \in 1..Len(r) : t[Len(s) + i] = r[i]
    BY <1>1, ConcatAt, Zenon
  <1>4. todo' = t
    BY DEF r
  <1> HIDE DEF t
  <1>5. Len(s) \in Nat /\ Len(r) \in Nat
    BY <1>1
  <1>6. todo' # <<>> /\ todo'[1] = s[1]
    <2>1. Len(t) >= 1
      BY <1>3, <1>5
    <2>2. t # <<>>
      BY <2>1
    <2>3. 1 \in 1..Len(s)
      BY <1>5
    <2> QED
      BY <1>3, <1>4, <2>2, <2>3
  <1>7. ASSUME todo[1] # "target", Aiming PROVE Aiming'
    <2>1. PICK i \in 1..Len(todo) : todo[i] = "target"
      BY <1>7 DEF Aiming
    <2>2. i # 1
      BY <1>7, <2>1
    <2>3. i - 1 \in 1..Len(r) /\ (i - 1) + 1 = i
      BY <1>1, <2>2
    <2>4. t[Len(s) + (i - 1)] = "target"
      BY <1>2, <1>3, <2>1, <2>3
    <2>5. Len(s) + (i - 1) \in 1..Len(t)
      BY <1>3, <1>5, <2>3
    <2> QED
      BY <1>4, <2>4, <2>5 DEF Aiming
  <1> QED
    BY <1>6, <1>7

\* A step that is done.
LEMMA MovesOn ==
  ASSUME todo \in Seq(StepNames), todo # <<>>, Path(todo), todo' = Tail(todo)
  PROVE  /\ todo' # <<>> => todo'[1] \in After(todo[1])
         /\ todo[1] # "target" /\ Aiming => Aiming'
  <1> DEFINE r == Tail(todo)
  <1>1. r \in Seq(StepNames) /\ Len(r) = Len(todo) - 1 /\ Len(todo) \in Nat /\ Len(todo) > 0
    OBVIOUS
  <1>2. \A i \in 1..Len(r) : r[i] = todo[i + 1]
    OBVIOUS
  <1>3. r # <<>> => r[1] \in After(todo[1])
    BY TailPath
  <1>4. todo' = r
    OBVIOUS
  <1> HIDE DEF r
  <1>5. ASSUME todo[1] # "target", Aiming PROVE Aiming'
    <2>1. PICK i \in 1..Len(todo) : todo[i] = "target"
      BY <1>5 DEF Aiming
    <2>2. i # 1
      BY <1>5, <2>1
    <2>3. i - 1 \in 1..Len(r) /\ (i - 1) + 1 = i
      BY <1>1, <2>2
    <2>4. r[i - 1] = "target"
      BY <1>2, <2>1, <2>3
    <2> QED
      BY <1>4, <2>3, <2>4 DEF Aiming
  <1> QED
    BY <1>3, <1>4, <1>5

\* The steps of the thread but the return of VSync.
LEMMA Outline ==
  ASSUME todo \in Seq(StepNames), Path(todo), ThreadStep, ~Look
  PROVE  /\ todo # <<>> /\ from' = from /\ todo[1] # "look"
         /\ todo[1] # "target" /\ Aiming => Aiming'
         /\ \A x \in {"look", "maybe", "until"} :
              At(x)' => todo' = Tail(todo) /\ x \in After(todo[1])
  <1>1. todo # <<>> /\ from' = from /\ todo[1] # "look"
    BY DEF ThreadStep, Accept, Receive, EndOfLines, Disconnect, Present, Wait, Inject, Handlers, Aim,
           MaybeTick, Until, CallVBlank, Count, PumpTick, At, callVars
  <1>2. \/ todo' = Tail(todo)
        \/ todo' = <<"lines">> \o Tail(todo) \/ todo' = <<"count">> \o Tail(todo)
        \/ todo' = <<"poll", "wait">> \o Tail(todo) \/ todo' = Presenting \o Tail(todo)
        \/ todo' = Ticking \o Tail(todo) \/ todo' = (Ticking \o <<"until">>) \o Tail(todo)
    BY DEF ThreadStep, Accept, Receive, EndOfLines, Disconnect, Present, Wait, Inject, Handlers, Aim,
           MaybeTick, Until, CallVBlank, Count, PumpTick, PumpTicking, Done, Go
  <1>3. CASE todo' = Tail(todo)
    BY <1>1, <1>3, MovesOn DEF At
  <1>4. ASSUME NEW s \in Seq(StepNames), Len(s) >= 1, todo' = s \o Tail(todo),
               s[1] \notin {"look", "maybe", "until"}
        PROVE  /\ todo[1] # "target" /\ Aiming => Aiming'
               /\ \A x \in {"look", "maybe", "until"} :
                    At(x)' => todo' = Tail(todo) /\ x \in After(todo[1])
    <2>1. /\ todo' # <<>> /\ todo'[1] = s[1]
          /\ todo[1] # "target" /\ Aiming => Aiming'
      BY <1>1, <1>4, MovesTo
    <2> QED
      BY <1>1, <1>4, <2>1 DEF At
  <1>5. ASSUME NEW x \in {"lines", "count"}, todo' = <<x>> \o Tail(todo)
        PROVE  /\ todo[1] # "target" /\ Aiming => Aiming'
               /\ \A y \in {"look", "maybe", "until"} :
                    At(y)' => todo' = Tail(todo) /\ y \in After(todo[1])
    <2> DEFINE s == <<x>>
    <2>1. s \in Seq(StepNames) /\ Len(s) = 1 /\ s[1] = x /\ todo' = s \o Tail(todo)
      BY <1>5 DEF StepNames
    <2> HIDE DEF s
    <2>2. Len(s) >= 1 /\ s[1] \notin {"look", "maybe", "until"}
      BY <2>1
    <2> QED
      BY <1>4, <2>1, <2>2
  <1>6. CASE todo' = <<"poll", "wait">> \o Tail(todo)
    <2> DEFINE s == <<"poll", "wait">>
    <2>1. s \in Seq(StepNames) /\ Len(s) = 2 /\ s[1] = "poll" /\ s[2] = "wait" /\ todo' = s \o Tail(todo)
      BY <1>6 DEF StepNames
    <2> HIDE DEF s
    <2>2. Len(s) >= 1 /\ s[1] \notin {"look", "maybe", "until"}
      BY <2>1
    <2> QED
      BY <1>1, <1>4, <2>1, <2>2
  <1>7. CASE todo' = Presenting \o Tail(todo)
    <2>1. Len(Presenting) >= 1 /\ Presenting[1] \notin {"look", "maybe", "until"}
      BY Expansions
    <2> QED
      BY <1>1, <1>4, <1>7, <2>1, Expansions
  <1>9. CASE todo' = Ticking \o Tail(todo)
    <2>1. Len(Ticking) >= 1 /\ Ticking[1] \notin {"look", "maybe", "until"}
      BY Expansions
    <2> QED
      BY <1>1, <1>4, <1>9, <2>1, Expansions
  <1>10. CASE todo' = (Ticking \o <<"until">>) \o Tail(todo)
    <2> DEFINE u == Ticking \o <<"until">>
    <2>1. u \in Seq(StepNames) /\ Len(u) = 6 /\ (\A i \in 1..5 : u[i] = Ticking[i]) /\ Ticking[1] = "vblank"
      BY Expansions
    <2>2. todo' = u \o Tail(todo)
      BY <1>10
    <2> HIDE DEF u
    <2>3. Len(u) >= 1 /\ u[1] \notin {"look", "maybe", "until"}
      BY <2>1
    <2> QED
      BY <1>1, <1>4, <2>1, <2>2, <2>3
  <1> QED
    BY <1>1, <1>2, <1>3, <1>5, <1>6, <1>7, <1>9, <1>10
----------------------------------------------------------------------------
\* The calls that begin.
LEMMA NewHead ==
  ASSUME todo \in Seq(StepNames), Pump \/ Show \/ \E mode \in Modes : VSync(mode)
  PROVE  /\ todo' # <<>> /\ todo'[1] \in {"poll", "present"}
         /\ todo = <<>> \/ todo[1] \in {"chains", "count"}
         /\ Pump => (Aiming => Aiming')
  <1>1. todo = <<>> \/ (todo # <<>> /\ todo[1] \in {"chains", "count"})
    BY DEF Pump, Show, VSync, Dispatching, At
  <1>2. CASE Show
    <2>1. todo' = Presenting /\ todo = <<>>
      BY <1>2 DEF Show
    <2>2. Len(Presenting) = 3 /\ Presenting[1] = "present"
      BY Expansions
    <2> DEFINE s == Presenting
    <2>5. Len(s) >= 1
      BY <2>2
    <2> HIDE DEF s
    <2>6. s # <<>>
      BY <2>5
    <2>3. Presenting # <<>>
      BY <2>6 DEF s
    <2>4. ~Aiming
      BY <2>1 DEF Aiming
    <2> QED
      BY <1>1, <2>1, <2>2, <2>3, <2>4
  <1>3. ASSUME NEW mode \in Modes, VSync(mode)
        PROVE  todo' # <<>> /\ todo'[1] = "poll" /\ ~Aiming
    <2>1. todo = <<>>
      BY <1>3 DEF VSync
    <2>2. ~Aiming
      BY <2>1 DEF Aiming
    <2>3. PICK a \in StepNames, b \in StepNames : todo' = <<"poll", "chains">> \o <<a, b>> \o <<"look">>
      <3>1. "inject" \in StepNames /\ "maybe" \in StepNames /\ "target" \in StepNames /\ "until" \in StepNames
        BY DEF StepNames
      <3>2. CASE mode < 0
        BY <1>3, <3>1, <3>2 DEF VSync
      <3>3. CASE ~(mode < 0)
        BY <1>3, <3>1, <3>3 DEF VSync
      <3> QED
        BY <3>2, <3>3
    <2>4. Len(todo') = 5 /\ todo'[1] = "poll"
      BY <2>3, VSyncList
    <2> DEFINE s == todo'
    <2>6. Len(s) >= 1
      BY <2>4
    <2> HIDE DEF s
    <2>7. s # <<>>
      BY <2>6
    <2>5. todo' # <<>>
      BY <2>7 DEF s
    <2> QED
      BY <2>2, <2>4, <2>5
  <1>4. CASE Pump
    <2> DEFINE s == <<"poll", "pump">>
    <2>1. todo' = s \o todo
      BY <1>4 DEF Pump
    <2>2. s \in Seq(StepNames) /\ Len(s) = 2 /\ s[1] = "poll" /\ s[2] = "pump"
      BY DEF StepNames
    <2> HIDE DEF s
    <2> DEFINE t == s \o todo
    <2>3. /\ t \in Seq(StepNames) /\ Len(t) = Len(s) + Len(todo)
          /\ \A i \in 1..Len(s) : t[i] = s[i]
          /\ \A i \in 1..Len(todo) : t[Len(s) + i] = todo[i]
      BY <2>2, ConcatAt, Zenon
    <2>4. todo' = t
      BY <2>1
    <2> HIDE DEF t
    <2>5. /\ Len(t) = 2 + Len(todo) /\ Len(todo) \in Nat
          /\ t[1] = "poll" /\ t[2] = "pump"
          /\ \A i \in 1..Len(todo) : t[2 + i] = todo[i]
      BY <2>2, <2>3
    <2>6. t # <<>>
      BY <2>5
    <2>7. ASSUME Aiming PROVE Aiming'
      <3>1. PICK i \in 1..Len(todo) : todo[i] = "target"
        BY <2>7 DEF Aiming
      <3>2. t[2 + i] = "target" /\ 2 + i \in 1..Len(t)
        BY <2>5, <3>1
      <3> QED
        BY <2>4, <3>2 DEF Aiming
    <2> QED
      BY <1>1, <2>4, <2>5, <2>6, <2>7
  <1> QED
    BY <1>1, <1>2, <1>3, <1>4

\* Slots of frames less than Cap apart differ.
LEMMA SlotsDiffer ==
  ASSUME NEW f \in Nat, NEW g \in Nat, f < g, g - f < Cap
  PROVE  Slot(f) # Slot(g) /\ Slot(f) \in 0..(Cap - 1) /\ Slot(g) \in 0..(Cap - 1)
  <1> DEFINE p == f \div Cap
             q == g \div Cap
  <1>1. Cap \in Nat /\ Cap > 0
    BY CapAssumption
  <1>2. /\ p \in Int /\ q \in Int
        /\ f = p * Cap + (f % Cap) /\ g = q * Cap + (g % Cap)
        /\ f % Cap \in 0..(Cap - 1) /\ g % Cap \in 0..(Cap - 1)
    BY <1>1
  <1> HIDE DEF p, q
  <1>3. ASSUME f % Cap = g % Cap PROVE FALSE
    <2>1. (q - p) * Cap = g - f
      BY <1>1, <1>2, <1>3
    <2> DEFINE d == q - p
    <2>2. d \in Int /\ d * Cap = g - f
      BY <1>2, <2>1
    <2> HIDE DEF d
    <2>3. CASE d <= 0
      <3>1. d * Cap <= 0
        BY <1>1, <2>2, <2>3
      <3> QED
        BY <2>2, <3>1
    <2>4. CASE d >= 1
      <3>1. d * Cap >= Cap
        BY <1>1, <2>2, <2>4
      <3> QED
        BY <1>1, <2>2, <3>1
    <2> QED
      BY <2>2, <2>3, <2>4
  <1> QED
    BY <1>2, <1>3 DEF Slot

\* Every frame is recorded, over one that is forgotten by then.
LEMMA RingHolds ==
  ASSUME IInv, TypeOK, RingWhole, Next
  PROVE  RingWhole' /\ ring' \in [0..(Cap - 1) -> Nat]
  <1>1. frame \in Nat /\ ring \in [0..(Cap - 1) -> Nat]
    BY DEF TypeOK
  <1>2. CASE Present
    <2>1. frame' = frame + 1 /\ ring' = [ring EXCEPT ![Slot(frame')] = frame']
      BY <1>2 DEF Present, RecordFrame
    <2>2. frame' \in Nat /\ Slot(frame') \in 0..(Cap - 1)
      BY <1>1, <2>1, CapAssumption DEF Slot
    <2>3. ring' \in [0..(Cap - 1) -> Nat]
      BY <1>1, <2>1, <2>2
    <2>4. ASSUME NEW f \in 1..frame', f > frame' - Cap
          PROVE  ring'[Slot(f)] = f
      <3>1. CASE f = frame'
        BY <1>1, <2>1, <2>2, <3>1
      <3>2. CASE f # frame'
        <4>1. f \in 1..frame /\ f > frame - Cap /\ f \in Nat /\ f < frame' /\ frame' - f < Cap
          BY <1>1, <2>1, <2>4, <3>2, CapAssumption
        <4>2. Slot(f) # Slot(frame') /\ Slot(f) \in 0..(Cap - 1)
          BY <2>2, <4>1, SlotsDiffer
        <4> QED
          BY <1>1, <2>1, <4>1, <4>2 DEF RingWhole
      <3> QED
        BY <3>1, <3>2
    <2> QED
      BY <2>3, <2>4 DEF RingWhole, Slot
  <1>3. CASE ~Present
    <2>1. frame' = frame /\ ring' = ring
      BY <1>3 DEF Next, ThreadStep, Accept, Receive, EndOfLines, Disconnect, Wait, Inject, Handlers, Aim,
             MaybeTick, Until, CallVBlank, Count, PumpTick, Look, Commands, Pause, Continue, ClearInput, Step,
             RunToFrame, SetInput, Command, Pump, Show, VSync, debugVars, shownVars
    <2> QED
      BY <1>1, <2>1 DEF RingWhole, Slot
  <1> QED
    BY <1>2, <1>3

\* Only orders of a client that left pause a game that has none.
LEMMA AloneHolds == IInv /\ TypeOK /\ Path(todo) /\ Alone /\ Next => Alone'
  <1> SUFFICES ASSUME IInv, TypeOK, Path(todo), Alone, Next PROVE Alone'
    OBVIOUS
  <1>1. todo \in Seq(StepNames)
    BY DEF IInv
  <1>2. ASSUME todo # <<>>, todo' = Tail(todo) PROVE ~At("lines")'
    <2>1. todo' # <<>> => todo'[1] \in After(todo[1])
      BY <1>1, <1>2, MovesOn
    <2>3. todo[1] \in StepNames
      BY <1>1, <1>2
    <2>2. "lines" \notin After(todo[1])
      BY <2>3 DEF After, StepNames
    <2> QED
      BY <2>1, <2>2 DEF At
  <1>3. CASE Commands
    <2>1. todo' = todo /\ client' = client /\ At("lines")
      BY <1>3 DEF Commands, Pause, Continue, ClearInput, Step, RunToFrame, SetInput, Command
    <2> QED
      BY <2>1 DEF Alone, At
  <1>4. CASE Disconnect
    <2>1. /\ todo # <<>> /\ todo' = Tail(todo) /\ paused' = FALSE
          /\ stepCount' = stepCount /\ runTo' = runTo /\ left' = (stepCount > 0 \/ runTo > 0)
      BY <1>4 DEF Disconnect, At, Done, Dropped
    <2> QED
      BY <1>2, <2>1 DEF Alone
  <1>5. CASE Accept
    <2>1. /\ todo # <<>> /\ todo' = Tail(todo) /\ ~client /\ left' = (left /\ ~client')
          /\ UNCHANGED <<paused, stepCount, runTo>>
      BY <1>5 DEF Accept, At, Done
    <2> QED
      BY <1>2, <2>1 DEF Alone
  <1>6. CASE Receive
    <2>1. client /\ UNCHANGED <<client, paused, stepCount, runTo, left>>
      BY <1>6 DEF Receive, debugVars
    <2> QED
      BY <2>1 DEF Alone
  <1>7. CASE Present
    <2>1. /\ todo # <<>> /\ todo' = Tail(todo) /\ client' = client /\ left' = left
          /\ stepCount' = Steps
          /\ paused' = (paused \/ (stepCount > 0 /\ Steps = 0) \/ Reached(frame'))
          /\ runTo' = IF Reached(frame') THEN 0 ELSE runTo
      BY <1>7 DEF Present, RecordFrame, At, Done
    <2>2. stepCount \in Nat /\ runTo \in Nat
      BY DEF TypeOK
    <2>4. paused' => paused \/ stepCount > 0 \/ runTo > 0
      BY <2>1, Zenon DEF Reached
    <2>5. (stepCount' > 0 => stepCount > 0) /\ (runTo' > 0 => runTo > 0)
      BY <2>1, <2>2 DEF Steps
    <2>3. ~client /\ (paused' \/ stepCount' > 0 \/ runTo' > 0) => left
      BY <2>4, <2>5 DEF Alone
    <2> QED
      BY <1>2, <2>1, <2>3 DEF Alone
  <1>8. CASE EndOfLines \/ Wait \/ Inject \/ Handlers \/ Aim \/ MaybeTick \/ Until \/ CallVBlank
             \/ Count \/ Look \/ PumpTick
    <2>1. UNCHANGED <<client, paused, stepCount, runTo, left>> /\ todo # <<>>
      BY <1>8 DEF EndOfLines, Wait, Inject, Handlers, Aim, MaybeTick, Until, CallVBlank, Count, Look, PumpTick, debugVars, At
    <2>2. ~At("lines")'
      <3>1. \/ todo' = Tail(todo)
            \/ todo' = <<"count">> \o Tail(todo)
            \/ todo' = <<"poll", "wait">> \o Tail(todo) \/ todo' = Presenting \o Tail(todo)
            \/ todo' = Ticking \o Tail(todo) \/ todo' = (Ticking \o <<"until">>) \o Tail(todo)
        BY <1>8 DEF EndOfLines, Wait, Inject, Handlers, Aim, MaybeTick, Until, CallVBlank, Count, Look, PumpTick,
                    PumpTicking, Done, Go
      <3>2. CASE todo' = <<"count">> \o Tail(todo)
        <4> DEFINE s == <<"count">>
        <4>1. s \in Seq(StepNames) /\ Len(s) >= 1 /\ s[1] = "count" /\ todo' = s \o Tail(todo)
          BY <3>2 DEF StepNames
        <4> HIDE DEF s
        <4> QED
          BY <1>1, <2>1, <4>1, MovesTo DEF At
      <3>3. CASE todo' = <<"poll", "wait">> \o Tail(todo)
        <4> DEFINE s == <<"poll", "wait">>
        <4>1. s \in Seq(StepNames) /\ Len(s) >= 1 /\ s[1] = "poll" /\ todo' = s \o Tail(todo)
          BY <3>3 DEF StepNames
        <4> HIDE DEF s
        <4> QED
          BY <1>1, <2>1, <4>1, MovesTo DEF At
      <3>4. CASE todo' = Presenting \o Tail(todo)
        <4>1. Len(Presenting) >= 1 /\ Presenting[1] = "present" /\ Presenting \in Seq(StepNames)
          BY Expansions
        <4> QED
          BY <1>1, <2>1, <3>4, <4>1, MovesTo DEF At
      <3>5. CASE todo' = Ticking \o Tail(todo)
        <4>1. Len(Ticking) >= 1 /\ Ticking[1] = "vblank" /\ Ticking \in Seq(StepNames)
          BY Expansions
        <4> QED
          BY <1>1, <2>1, <3>5, <4>1, MovesTo DEF At
      <3>6. CASE todo' = (Ticking \o <<"until">>) \o Tail(todo)
        <4> DEFINE s == Ticking \o <<"until">>
        <4>1. s \in Seq(StepNames) /\ Len(s) = 6 /\ s[1] = Ticking[1] /\ Ticking[1] = "vblank" /\ todo' = s \o Tail(todo)
          BY <3>6, Expansions
        <4> HIDE DEF s
        <4>2. Len(s) >= 1 /\ s[1] = "vblank"
          BY <4>1
        <4>3. todo'[1] = "vblank"
          BY <1>1, <2>1, <4>1, <4>2, MovesTo
        <4> QED
          BY <4>3 DEF At
      <3> QED
        BY <1>2, <2>1, <3>1, <3>2, <3>3, <3>4, <3>5, <3>6
    <2> QED
      BY <2>1, <2>2 DEF Alone
  <1>9. CASE Pump \/ Show \/ \E mode \in Modes : VSync(mode)
    <2>1. UNCHANGED <<client, paused, stepCount, runTo, left>>
      BY <1>9 DEF Pump, Show, VSync, debugVars
    <2>2. ~At("lines")'
      BY <1>1, <1>9, NewHead DEF At
    <2> QED
      BY <2>1, <2>2 DEF Alone
  <1> QED
    BY <1>3, <1>4, <1>5, <1>6, <1>7, <1>8, <1>9 DEF Next, ThreadStep
----------------------------------------------------------------------------
\* The types of the debug server's variables that IInv does not name.
DebugTypes == client \in BOOLEAN /\ paused \in BOOLEAN /\ left \in BOOLEAN /\ override \in {None} \cup Pads
ClockTypes == counter \in Nat /\ v0 \in Nat
PadTypes == /\ padState \in Pads /\ lastPad \in Pads
            /\ seen \in [pad : Pads, pressed : Pads, released : Pads]
CallTypes == target \in Nat /\ vsyncs \in Nat /\ from \in [frame : Nat, mode : {None} \cup Modes]
LookTypes == looked \in Pads /\ pads \in Seq(Pads)

LEMMA DebugTypesHold == DebugTypes /\ Next => DebugTypes'
  <1> SUFFICES ASSUME DebugTypes, Next PROVE DebugTypes'
    OBVIOUS
  <1>1. CASE Commands
    BY <1>1 DEF DebugTypes, Commands, Pause, Continue, ClearInput, Step, RunToFrame, SetInput, Command
  <1>2. CASE Accept
    <2>1. client' \in BOOLEAN /\ left' \in BOOLEAN /\ paused' = paused /\ override' = override
      BY <1>2, Zenon DEF Accept
    <2> QED
      BY <2>1 DEF DebugTypes
  <1>3. CASE Disconnect
    <2>1. client' = FALSE /\ paused' = FALSE /\ override' = None /\ left' \in BOOLEAN
      BY <1>3, Zenon DEF Disconnect, Dropped
    <2> QED
      BY <2>1 DEF DebugTypes
  <1>4. CASE Present
    <2>1. client' = client /\ override' = override /\ left' = left /\ paused' \in BOOLEAN
      BY <1>4, Zenon DEF Present, RecordFrame
    <2> QED
      BY <2>1 DEF DebugTypes
  <1>5. CASE \/ Receive \/ EndOfLines \/ Wait \/ Inject \/ Handlers \/ Aim \/ MaybeTick \/ Until \/ CallVBlank
             \/ Count \/ Look \/ PumpTick \/ Pump \/ Show \/ \E mode \in Modes : VSync(mode)
    <2>1. UNCHANGED <<client, paused, left, override>>
      BY <1>5 DEF Receive, EndOfLines, Wait, Inject, Handlers, Aim, MaybeTick, Until, CallVBlank,
                  Count, Look, PumpTick, Pump, Show, VSync, debugVars
    <2> QED
      BY <2>1 DEF DebugTypes
  <1> QED
    BY <1>1, <1>2, <1>3, <1>4, <1>5 DEF Next, ThreadStep

\* The types of the other variables.
LEMMA OtherTypesHold ==
  ASSUME IInv, TypeOK, Path(todo), Next
  PROVE  ClockTypes' /\ PadTypes' /\ CallTypes' /\ LookTypes' /\ extra' \in Nat
  <1>1. ClockTypes /\ PadTypes /\ CallTypes /\ LookTypes /\ extra \in Nat /\ frame \in Nat /\ override \in {None} \cup Pads
    BY DEF TypeOK, ClockTypes, PadTypes, CallTypes, LookTypes
  <1>2. CASE Commands \/ Disconnect
    <2>1. UNCHANGED <<clockVars, padVars, callVars, extra, lookVars>>
      BY <1>2 DEF Commands, Pause, Continue, ClearInput, Step, RunToFrame, SetInput, Command, Disconnect
    <2> QED
      BY <1>1, <2>1 DEF clockVars, padVars, callVars, lookVars, ClockTypes, PadTypes, CallTypes, LookTypes
  <1>3. CASE Accept \/ Receive \/ EndOfLines \/ Wait \/ Handlers \/ MaybeTick \/ Until
    <2>1. UNCHANGED <<clockVars, padVars, callVars, extra, lookVars>>
      BY <1>3 DEF Accept, Receive, EndOfLines, Wait, Handlers, MaybeTick, Until
    <2> QED
      BY <1>1, <2>1 DEF clockVars, padVars, callVars, lookVars, ClockTypes, PadTypes, CallTypes, LookTypes
  <1>4. CASE Pump \/ Show
    <2>1. UNCHANGED <<clockVars, padVars, callVars, lookVars>> /\ extra' = extra + 1
      BY <1>4 DEF Pump, Show
    <2> QED
      BY <1>1, <2>1 DEF clockVars, padVars, callVars, lookVars, ClockTypes, PadTypes, CallTypes, LookTypes
  <1>5. CASE Present
    <2>1. UNCHANGED <<clockVars, lastPad, seen, callVars, extra, lookVars>>
      BY <1>5 DEF Present
    <2>2. PICK keys \in Pads : padState' = IF override = None THEN keys ELSE override
      BY <1>5 DEF Present
    <2>3. padState' \in Pads
      BY <1>1, <2>2
    <2> QED
      BY <1>1, <2>1, <2>3 DEF clockVars, callVars, lookVars, ClockTypes, PadTypes, CallTypes, LookTypes
  <1>6. CASE Inject
    <2> DEFINE pad == IF override = None THEN padState ELSE override
    <2>1. /\ seen' = [pad |-> pad, released |-> lastPad \ pad,
                      pressed |-> IF override \in {None, {}} THEN Pressed(pad) ELSE override]
          /\ lastPad' = pad /\ pads' = Append(pads, pad)
          /\ UNCHANGED <<clockVars, padState, callVars, extra, looked>>
      BY <1>6 DEF Inject
    <2>2. pad \in Pads
      BY <1>1 DEF PadTypes
    <2>3. lastPad \ pad \in Pads /\ Pressed(pad) \in Pads
      BY <1>1, <2>2 DEF PadTypes, Pads, Pressed
    <2>4. (IF override \in {None, {}} THEN Pressed(pad) ELSE override) \in Pads
      BY <1>1, <2>3
    <2> HIDE DEF pad
    <2>5. PadTypes'
      BY <1>1, <2>1, <2>2, <2>3, <2>4 DEF PadTypes
    <2>6. LookTypes'
      BY <1>1, <2>1, <2>2 DEF LookTypes
    <2> QED
      BY <1>1, <2>1, <2>5, <2>6 DEF clockVars, callVars, ClockTypes, CallTypes
  <1>7. CASE Aim
    <2>1. /\ target' = Awaited(from.mode) /\ todo # <<>> /\ todo[1] = "target"
          /\ UNCHANGED <<clockVars, padVars, from, vsyncs, extra, lookVars>>
      BY <1>7 DEF Aim, At
    <2>2. todo \in Seq(StepNames) /\ Len(todo) > 0
      BY <2>1 DEF IInv
    <2>3. Timed
      BY <2>1, <2>2 DEF Path, OnlyTimed
    <2> DEFINE m == from.mode
    <2>4. target' = counter + (IF m = 0 THEN 1 ELSE m)
      BY <2>1 DEF Awaited
    <2>5. m \in Int /\ m >= 0
      BY <2>3, ModesAssumption DEF Timed
    <2> HIDE DEF m
    <2>6. counter \in Nat
      BY <1>1 DEF ClockTypes
    <2>7. target' \in Nat
      BY <2>4, <2>5, <2>6
    <2> QED
      BY <1>1, <2>1, <2>7 DEF clockVars, padVars, lookVars, ClockTypes, PadTypes, CallTypes, LookTypes
  <1>8. CASE CallVBlank \/ Count \/ PumpTick
    <2>1. ClockTypes' /\ UNCHANGED <<padVars, callVars, extra, lookVars>>
      BY <1>1, <1>8 DEF CallVBlank, Count, PumpTick, ClockTypes
    <2> QED
      BY <1>1, <2>1 DEF padVars, callVars, lookVars, PadTypes, CallTypes, LookTypes
  <1>9. CASE Look
    <2>1. /\ looked' = seen.pad /\ pads' = <<>> /\ from' = NoCall /\ target' = 0
          /\ UNCHANGED <<clockVars, padVars, vsyncs, extra>>
      BY <1>9 DEF Look
    <2>2. seen.pad \in Pads
      BY <1>1 DEF PadTypes
    <2> QED
      BY <1>1, <2>1, <2>2 DEF clockVars, padVars, ClockTypes, PadTypes, CallTypes, LookTypes, NoCall
  <1>10. ASSUME NEW mode \in Modes, VSync(mode)
         PROVE  ClockTypes' /\ PadTypes' /\ CallTypes' /\ LookTypes' /\ extra' \in Nat
    <2>1. /\ vsyncs' = vsyncs + 1 /\ from' = [frame |-> frame, mode |-> mode] /\ target' = 0
          /\ UNCHANGED <<clockVars, padVars, extra, lookVars>>
      BY <1>10 DEF VSync
    <2> QED
      BY <1>1, <2>1 DEF clockVars, padVars, lookVars, ClockTypes, PadTypes, CallTypes, LookTypes
  <1> QED
    BY <1>2, <1>3, <1>4, <1>5, <1>6, <1>7, <1>8, <1>9, <1>10 DEF Next, ThreadStep

LEMMA TypesHold ==
  ASSUME IInv, IInv', TypeOK, Path(todo), RingWhole, Next
  PROVE  TypeOK'
  <1>1. DebugTypes'
    BY DebugTypesHold DEF TypeOK, DebugTypes
  <1>2. ClockTypes' /\ PadTypes' /\ CallTypes' /\ LookTypes' /\ extra' \in Nat
    BY OtherTypesHold
  <1>3. ring' \in [0..(Cap - 1) -> Nat]
    BY RingHolds
  <1>4. todo' \in Seq(StepNames) /\ Numbers'
    BY DEF IInv
  <1> QED
    BY <1>1, <1>2, <1>3, <1>4 DEF TypeOK, DebugTypes, ClockTypes, PadTypes, CallTypes, LookTypes, Numbers
----------------------------------------------------------------------------
\* The clock is ahead of the frames by the one about to be shown.
LEMMA ClockHolds ==
  ASSUME IInv, TypeOK, Path(todo), Clock, Next
  PROVE  Clock'
  <1>1. counter \in Nat /\ v0 \in Nat /\ frame \in Nat /\ todo \in Seq(StepNames)
    BY DEF TypeOK
  <1>2. ASSUME UNCHANGED <<frame, counter, v0>>, ~At("present") PROVE Clock'
    BY <1>1, <1>2 DEF Clock, Shown
  <1>3. CASE Commands
    <2>1. At("lines") /\ todo' = todo /\ UNCHANGED <<frame, counter, v0>>
      BY <1>3 DEF Commands, Pause, Continue, ClearInput, Step, RunToFrame, SetInput, Command, shownVars, clockVars
    <2> QED
      BY <1>2, <2>1 DEF At
  <1>4. CASE \/ Accept \/ Receive \/ EndOfLines \/ Disconnect \/ Wait \/ Inject \/ Handlers \/ Aim \/ MaybeTick
             \/ Until \/ Look
    <2>1. ~At("present")
      BY <1>4 DEF Accept, Receive, EndOfLines, Disconnect, Wait, Inject, Handlers, Aim, MaybeTick, Until, Look, At
    <2>2. UNCHANGED <<frame, counter, v0>>
      BY <1>4 DEF Accept, Receive, EndOfLines, Disconnect, Wait, Inject, Handlers, Aim, MaybeTick, Until, Look,
                  shownVars, clockVars
    <2> QED
      BY <1>2, <2>1, <2>2
  <1>5. CASE Pump \/ Show \/ \E mode \in Modes : VSync(mode)
    <2>1. ~At("present")
      BY <1>1, <1>5, NewHead DEF At
    <2>2. UNCHANGED <<frame, counter, v0>>
      BY <1>5 DEF Pump, Show, VSync, shownVars, clockVars
    <2> QED
      BY <1>2, <2>1, <2>2
  <1>6. CASE Present
    <2>1. frame' = frame + 1 /\ UNCHANGED <<counter, v0>>
      BY <1>6 DEF Present, clockVars
    <2> QED
      BY <1>1, <2>1 DEF Clock, Shown
  <1>7. CASE CallVBlank
    <2>1. v0' = counter /\ UNCHANGED <<frame, counter>> /\ ~At("present")
      BY <1>7 DEF CallVBlank, shownVars, At
    <2> QED
      BY <1>1, <2>1 DEF Clock, Shown
  <1>8. CASE Count
    <2>1. counter' = v0 + 1 /\ UNCHANGED <<frame, v0>> /\ todo # <<>> /\ todo[1] = "count" /\ todo' = Tail(todo)
      BY <1>8 DEF Count, shownVars, At, Done
    <2>2. At("present")'
      <3>1. Tail(todo) # <<>> /\ Tail(todo)[1] \in After("count")
        BY <1>1, <2>1, TailPath DEF Lasts
      <3>2. todo'[1] = "present" /\ todo' # <<>>
        BY <2>1, <3>1 DEF After
      <3> QED
        BY <3>2 DEF At
    <2> QED
      BY <1>1, <2>1, <2>2 DEF Clock, Shown
  <1>9. CASE PumpTick
    <2>1. /\ UNCHANGED <<frame, v0>> /\ todo # <<>> /\ ~At("present")
          /\ counter' = counter \/ (counter' = counter + 1 /\ todo' = Presenting \o Tail(todo))
      BY <1>9 DEF PumpTick, PumpTicking, shownVars, At, Go
    <2>2. CASE counter' = counter
      BY <1>2, <2>1, <2>2
    <2>3. CASE counter' = counter + 1 /\ todo' = Presenting \o Tail(todo)
      <3>1. todo' # <<>> /\ todo'[1] = "present"
        <4>1. Len(Presenting) >= 1 /\ Presenting[1] = "present" /\ Presenting \in Seq(StepNames)
          BY Expansions
        <4> QED
          BY <1>1, <2>1, <2>3, <4>1, MovesTo
      <3>2. At("present")'
        BY <3>1 DEF At
      <3> QED
        BY <1>1, <2>1, <2>3, <3>2 DEF Clock, Shown
    <2> QED
      BY <2>1, <2>2, <2>3
  <1> QED
    BY <1>3, <1>4, <1>5, <1>6, <1>7, <1>8, <1>9 DEF Next, ThreadStep

\* A call that waits for a frame waits for at least one.
LEMMA TicksType == ASSUME Timed PROVE Ticks \in Nat /\ Ticks >= 1
  <1> DEFINE m == from.mode
  <1>1. m \in Int /\ m >= 0 /\ Ticks = (IF m = 0 THEN 1 ELSE m)
    BY ModesAssumption DEF Timed, Ticks
  <1> HIDE DEF m
  <1> QED
    BY <1>1

LEMMA ShownType == frame \in Nat => Shown \in Nat
  BY DEF Shown

\* A frame more to show is no count ahead.
LEMMA NotAhead ==
  ASSUME NEW c \in Nat, NEW a \in Nat, NEW b \in Nat, b >= a
  PROVE  c - b <= c - a
  OBVIOUS

\* Since VSync took its target, each count of the clock had its frame.
LEMMA ProgressHolds ==
  ASSUME IInv, TypeOK, Path(todo), Clock, Progress, Next
  PROVE  Progress'
  <1>1. /\ counter \in Nat /\ v0 \in Nat /\ frame \in Nat /\ target \in Nat /\ from.frame \in Nat
        /\ todo \in Seq(StepNames)
    BY DEF TypeOK
  <1>2. ASSUME from' = from, target' = target, UNCHANGED <<frame, counter, v0>>, ~At("present"),
               Aiming => Aiming', ~(Timed /\ At("look")')
        PROVE  Progress'
    <2>1. Timed' = Timed /\ Ticks' = Ticks
      BY <1>2 DEF Timed, Ticks
    <2>2. Timed => Ticks \in Nat
      BY TicksType
    <2>3. Shown = frame /\ Shown' >= frame /\ Shown' \in Nat
      BY <1>1, <1>2 DEF Shown
    <2>4. ASSUME Timed, ~Aiming'
          PROVE  counter + Ticks <= target + (Shown' - from.frame) /\ v0 + Ticks <= target + (frame - from.frame)
      BY <1>1, <1>2, <2>2, <2>3, <2>4 DEF Progress
    <2>5. from.frame <= frame
      BY DEF Progress
    <2> QED
      BY <1>2, <2>1, <2>4, <2>5 DEF Progress
  <1>3. CASE Commands
    <2>1. At("lines") /\ todo' = todo /\ UNCHANGED <<frame, counter, v0, from, target>>
      BY <1>3 DEF Commands, Pause, Continue, ClearInput, Step, RunToFrame, SetInput, Command, shownVars, clockVars, callVars
    <2> QED
      BY <1>2, <2>1 DEF At, Aiming
  <1>4. ASSUME ThreadStep, ~Look, UNCHANGED <<frame, counter, v0, target>>, ~At("present"), ~At("target"), ~At("until")
        PROVE  Progress'
    <2>1. /\ todo # <<>> /\ from' = from /\ todo[1] # "look"
          /\ todo[1] # "target" /\ Aiming => Aiming'
          /\ At("look")' => todo' = Tail(todo) /\ "look" \in After(todo[1])
      BY <1>1, <1>4, Outline
    <2>2. todo[1] \in StepNames /\ todo[1] \notin {"present", "target", "until"}
      BY <1>1, <1>4, <2>1 DEF At
    <2>3. OnlyTimed(todo[1])
      <3>1. Len(todo) > 0
        BY <1>1, <2>1
      <3> QED
        BY <1>1, <3>1 DEF Path
    <2>4. Timed => "look" \notin After(todo[1])
      BY <2>1, <2>2, <2>3 DEF After, OnlyTimed, StepNames
    <2> QED
      BY <1>2, <1>4, <2>1, <2>2, <2>4
  <1>5. CASE Accept \/ Receive \/ EndOfLines \/ Disconnect \/ Wait \/ Inject \/ Handlers \/ MaybeTick
    <2>1. ~At("present") /\ ~At("target") /\ ~At("until") /\ ~Look
      BY <1>5 DEF Accept, Receive, EndOfLines, Disconnect, Wait, Inject, Handlers, MaybeTick, Look, At
    <2>2. UNCHANGED <<frame, counter, v0, target>>
      BY <1>5 DEF Accept, Receive, EndOfLines, Disconnect, Wait, Inject, Handlers, MaybeTick, shownVars, clockVars, callVars
    <2> QED
      BY <1>4, <1>5, <2>1, <2>2 DEF ThreadStep
  <1>6. CASE Pump
    <2>1. ~At("present") /\ ~At("look")' /\ (Aiming => Aiming')
      BY <1>1, <1>6, NewHead DEF At
    <2>2. UNCHANGED <<frame, counter, v0, target, from>>
      BY <1>6 DEF Pump, shownVars, clockVars, callVars
    <2> QED
      BY <1>2, <2>1, <2>2
  <1>7. CASE Show
    <2>1. ~At("present") /\ ~At("look")' /\ todo = <<>>
      BY <1>1, <1>7, NewHead DEF At, Show
    <2>2. UNCHANGED <<frame, counter, v0, target, from>>
      BY <1>7 DEF Show, shownVars, clockVars, callVars
    <2>3. ~Aiming
      BY <2>1 DEF Aiming
    <2> QED
      BY <1>2, <2>1, <2>2, <2>3
  <1>8. ASSUME NEW mode \in Modes, VSync(mode) PROVE Progress'
    <2>1. from' = [frame |-> frame, mode |-> mode] /\ frame' = frame
      BY <1>8 DEF VSync, shownVars
    <2>2. ~At("look")'
      BY <1>1, <1>8, NewHead DEF At
    <2>3. ASSUME Timed' PROVE Aiming'
      <3>1. mode >= 0
        BY <2>1, <2>3 DEF Timed
      <3>2. todo' = <<"poll", "chains">> \o <<"target", "until">> \o <<"look">>
        BY <1>8, <3>1, ModesAssumption DEF VSync
      <3>3. Len(todo') = 5 /\ todo'[3] = "target"
        <4>1. "target" \in StepNames /\ "until" \in StepNames
          BY DEF StepNames
        <4> QED
          BY <3>2, <4>1, VSyncList
      <3>4. 3 \in 1..Len(todo')
        BY <3>3
      <3> QED
        BY <3>3, <3>4 DEF Aiming
    <2>4. from'.frame <= frame'
      BY <1>1, <2>1
    <2> QED
      BY <2>2, <2>3, <2>4 DEF Progress
  <1>9. CASE Look
    <2>1. from' = NoCall /\ frame' = frame
      BY <1>9 DEF Look, shownVars
    <2>2. ~Timed' /\ from'.frame = 0
      BY <2>1, NoneAssumption DEF Timed, NoCall
    <2> QED
      BY <1>1, <2>1, <2>2 DEF Progress
  <1>10. CASE Aim
    <2>1. /\ target' = counter + Ticks /\ todo # <<>> /\ todo[1] = "target" /\ todo' = Tail(todo)
          /\ from' = from /\ UNCHANGED <<frame, counter, v0>>
      BY <1>10 DEF Aim, Awaited, Ticks, At, Done, shownVars, clockVars
    <2>2. Timed
      <3>1. Len(todo) > 0
        BY <1>1, <2>1
      <3> QED
        BY <1>1, <2>1, <3>1 DEF Path, OnlyTimed
    <2>3. Ticks \in Nat /\ Ticks' = Ticks
      BY <2>1, <2>2, TicksType DEF Ticks
    <2>4. ~At("look")'
      <3>1. todo' # <<>> => todo'[1] \in After("target")
        BY <1>1, <2>1, MovesOn
      <3> QED
        BY <3>1 DEF After, At
    <2>5. Shown' >= frame /\ Shown' \in Nat
      BY <1>1, <2>1 DEF Shown
    <2>6. from.frame <= frame /\ v0 <= counter
      BY DEF Progress, Clock
    <2>7. counter + Ticks <= target' + (Shown' - from.frame) /\ v0 + Ticks <= target' + (frame - from.frame)
      BY <1>1, <2>1, <2>3, <2>5, <2>6
    <2> QED
      BY <2>1, <2>3, <2>4, <2>6, <2>7 DEF Progress
  <1>11. CASE Until
    <2>1. /\ todo # <<>> /\ todo[1] = "until" /\ from' = from /\ UNCHANGED <<frame, counter, v0, target>>
      BY <1>11 DEF Until, At, shownVars, clockVars, callVars
    <2>10. ~(counter >= target) => todo' = (Ticking \o <<"until">>) \o Tail(todo)
      BY <1>11, Zenon DEF Until, Go
    <2>2. Timed /\ todo[1] # "target" /\ ~At("present")
      <3>1. Len(todo) > 0
        BY <1>1, <2>1
      <3> QED
        BY <1>1, <2>1, <3>1 DEF Path, OnlyTimed, At
    <2>3. Ticks \in Nat /\ Ticks' = Ticks /\ Timed'
      BY <2>1, <2>2, TicksType DEF Ticks, Timed
    <2>4. ~Aiming
      <3>1. Tail(todo) # <<>> /\ Tail(todo)[1] \in After("until") /\ Tail(todo)[1] = todo[2] /\ Len(todo) >= 2
        BY <1>1, <2>1, TailPath DEF Lasts
      <3>2. todo[2] = "look"
        BY <3>1 DEF After
      <3>3. Len(todo) = 2
        <4>1. SUFFICES ASSUME Len(todo) # 2 PROVE FALSE
          OBVIOUS
        <4>4. Len(todo) >= 2 /\ Len(todo) \in Nat
          BY <1>1, <3>1
        <4> DEFINE n == Len(todo)
        <4>5. n # 2 /\ n >= 2 /\ n \in Nat
          BY <4>1, <4>4
        <4> HIDE DEF n
        <4>6. 2 \in 1..(n - 1)
          BY <4>5
        <4>2. 2 \in 1..(Len(todo) - 1)
          BY <4>6 DEF n
        <4>3. todo[2 + 1] \in After(todo[2])
          BY <4>2 DEF Path
        <4> QED
          BY <3>2, <4>3 DEF After
      <3> QED
        BY <2>1, <3>2, <3>3 DEF Aiming
    <2>5. counter + Ticks <= target + (Shown - from.frame) /\ v0 + Ticks <= target + (frame - from.frame) /\ from.frame <= frame
      BY <2>2, <2>4 DEF Progress
    <2>6. Shown = frame /\ Shown' >= frame /\ Shown' \in Nat
      BY <1>1, <2>1, <2>2 DEF Shown
    <2>7. At("look")' => counter >= target
      <3>1. SUFFICES ASSUME ~(counter >= target) PROVE ~At("look")'
        OBVIOUS
      <3> DEFINE s == Ticking \o <<"until">>
      <3>5. todo' = s \o Tail(todo)
        BY <2>10, <3>1
      <3>6. s \in Seq(StepNames) /\ Len(s) = 6 /\ s[1] = Ticking[1] /\ Ticking[1] = "vblank"
        BY Expansions
      <3> HIDE DEF s
      <3>2. s \in Seq(StepNames) /\ Len(s) = 6 /\ s[1] = Ticking[1] /\ Ticking[1] = "vblank" /\ todo' = s \o Tail(todo)
        BY <3>5, <3>6
      <3>3. Len(s) >= 1 /\ s[1] = "vblank"
        BY <3>2
      <3>4. todo'[1] = "vblank"
        BY <1>1, <2>1, <3>2, <3>3, MovesTo
      <3> QED
        BY <3>4 DEF At
    <2>8. At("look")' => frame >= from.frame + Ticks
      BY <1>1, <2>3, <2>5, <2>6, <2>7
    <2>9. counter + Ticks <= target + (Shown' - from.frame)
      BY <1>1, <2>3, <2>5, <2>6
    <2> QED
      BY <2>1, <2>3, <2>5, <2>8, <2>9 DEF Progress
  <1>12. ASSUME ThreadStep, ~Look, target' = target, counter' \in Nat, v0' \in Nat, frame' \in Nat, frame' >= frame,
                todo[1] \in {"present", "vblank", "count", "pump"},
                v0' = v0 \/ (v0' = counter /\ Shown = frame),
                (counter' - Shown' <= counter - Shown) \/ (counter' - Shown' <= v0 - frame)
         PROVE  Progress'
    <2>1. /\ todo # <<>> /\ from' = from /\ todo[1] # "target" /\ (Aiming => Aiming')
          /\ At("look")' => "look" \in After(todo[1])
      BY <1>1, <1>12, Outline
    <2>2. "look" \notin After(todo[1])
      BY <1>12 DEF After
    <2>3. Timed' = Timed /\ Ticks' = Ticks /\ (Timed => Ticks \in Nat)
      BY <2>1, TicksType DEF Timed, Ticks
    <2>7. frame \in Nat /\ frame' \in Nat
      BY <1>1, <1>12
    <2>8. Shown \in Nat
      BY <2>7 DEF Shown
    <2>4. Shown' \in Nat
      <3>1. (frame \in Nat => Shown \in Nat)'
        BY ShownType, PTL
      <3> QED
        BY <2>7, <3>1
    <2>5. ASSUME Timed, ~Aiming'
          PROVE  counter' + Ticks <= target + (Shown' - from.frame) /\ v0' + Ticks <= target + (frame' - from.frame)
      <3>1. counter + Ticks <= target + (Shown - from.frame) /\ v0 + Ticks <= target + (frame - from.frame)
        BY <2>1, <2>5 DEF Progress
      <3> DEFINE n == Ticks
                 f == from.frame
                 sh == Shown
                 c1 == counter'
                 v1 == v0'
                 f1 == frame'
                 sh1 == Shown'
      <3>2. /\ n \in Nat /\ f \in Nat /\ sh \in Nat /\ sh1 \in Nat /\ counter \in Nat /\ v0 \in Nat
            /\ frame \in Nat /\ target \in Nat /\ c1 \in Nat /\ v1 \in Nat /\ f1 \in Nat /\ f1 >= frame
        BY <1>1, <1>12, <2>3, <2>4, <2>5, <2>8
      <3>3. counter + n <= target + (sh - f) /\ v0 + n <= target + (frame - f)
        BY <3>1
      <3>4. v1 = v0 \/ (v1 = counter /\ sh = frame)
        BY <1>12
      <3>5. c1 - sh1 <= counter - sh \/ c1 - sh1 <= v0 - frame
        BY <1>12
      <3> HIDE DEF n, f, sh, c1, v1, f1, sh1
      <3>6. v1 + n <= target + (f1 - f)
        BY <3>2, <3>3, <3>4
      <3>7. c1 + n <= target + (sh1 - f)
        BY <3>2, <3>3, <3>5
      <3> QED
        BY <3>6, <3>7 DEF n, f, c1, v1, f1, sh1
    <2>6. from.frame <= frame'
      BY <1>1, <1>12 DEF Progress
    <2> QED
      BY <1>12, <2>1, <2>2, <2>3, <2>5, <2>6 DEF Progress
  <1>13. CASE Present
    <2>1. frame' = frame + 1 /\ UNCHANGED <<counter, v0, target>> /\ todo # <<>> /\ todo[1] = "present" /\ ~Look
      BY <1>13 DEF Present, clockVars, callVars, At, Look
    <2>2. Shown = frame + 1 /\ Shown' >= frame + 1 /\ Shown' \in Nat
      BY <1>1, <2>1 DEF Shown, At
    <2>4. frame' \in Nat /\ frame' >= frame
      BY <1>1, <2>1
    <2> DEFINE sh == Shown
               shn == Shown'
    <2>5. sh = frame + 1 /\ shn >= frame + 1 /\ shn \in Nat /\ counter \in Nat /\ frame \in Nat
      BY <1>1, <2>2
    <2> HIDE DEF sh, shn
    <2>6. counter - shn <= counter - sh
      BY <2>5
    <2>3. counter' - Shown' <= counter - Shown /\ frame' \in Nat /\ frame' >= frame
      BY <2>1, <2>4, <2>6 DEF sh, shn
    <2> QED
      BY <1>1, <1>12, <1>13, <2>1, <2>3 DEF ThreadStep
  <1>14. CASE CallVBlank
    <2>1. v0' = counter /\ UNCHANGED <<frame, counter, target>> /\ todo # <<>> /\ todo[1] = "vblank" /\ ~Look
      BY <1>14 DEF CallVBlank, shownVars, callVars, At, Look
    <2>2. Shown = frame /\ Shown' >= frame /\ Shown' \in Nat
      BY <1>1, <2>1 DEF Shown, At
    <2>4. counter - Shown' <= counter - Shown
      BY <1>1, <2>2, NotAhead
    <2>3. counter' - Shown' <= counter - Shown /\ frame' >= frame
      BY <1>1, <2>1, <2>4
    <2> QED
      BY <1>1, <1>12, <1>14, <2>1, <2>2, <2>3 DEF ThreadStep
  <1>15. CASE Count
    <2>1. counter' = v0 + 1 /\ UNCHANGED <<frame, v0, target>> /\ todo # <<>> /\ todo[1] = "count" /\ todo' = Tail(todo) /\ ~Look
      BY <1>15 DEF Count, shownVars, callVars, At, Done, Look
    <2>2. Shown' = frame + 1
      <3>1. Tail(todo) # <<>> /\ Tail(todo)[1] \in After("count")
        BY <1>1, <2>1, TailPath DEF Lasts
      <3>2. todo'[1] = "present" /\ todo' # <<>>
        BY <2>1, <3>1 DEF After
      <3> QED
        BY <2>1, <3>2 DEF At, Shown
    <2>3. counter' - Shown' <= v0 - frame /\ frame' >= frame /\ counter' \in Nat
      BY <1>1, <2>1, <2>2
    <2> QED
      BY <1>1, <1>12, <1>15, <2>1, <2>3 DEF ThreadStep
  <1>16. CASE PumpTick
    <2>1. /\ UNCHANGED <<frame, v0, target>> /\ todo # <<>> /\ todo[1] = "pump" /\ ~Look
          /\ counter' = counter \/ (counter' = counter + 1 /\ todo' = Presenting \o Tail(todo))
      BY <1>16 DEF PumpTick, PumpTicking, shownVars, callVars, At, Go, Look
    <2>2. Shown = frame /\ Shown' >= frame /\ Shown' \in Nat
      BY <1>1, <2>1 DEF Shown, At
    <2>3. CASE counter' = counter
      <3>2. counter - Shown' <= counter - Shown
        BY <1>1, <2>2, NotAhead
      <3>1. counter' - Shown' <= counter - Shown /\ frame' >= frame
        BY <1>1, <2>1, <2>3, <3>2
      <3> QED
        BY <1>1, <1>12, <1>16, <2>1, <2>3, <3>1 DEF ThreadStep
    <2>4. CASE counter' = counter + 1 /\ todo' = Presenting \o Tail(todo)
      <3>1. todo' # <<>> /\ todo'[1] = "present"
        <4>1. Len(Presenting) >= 1 /\ Presenting[1] = "present" /\ Presenting \in Seq(StepNames)
          BY Expansions
        <4> QED
          BY <1>1, <2>1, <2>4, <4>1, MovesTo
      <3>2. Shown' = frame + 1
        BY <2>1, <3>1 DEF At, Shown
      <3>3. counter' - Shown' <= counter - Shown /\ frame' >= frame /\ counter' \in Nat
        BY <1>1, <2>1, <2>2, <2>4, <3>2
      <3> QED
        BY <1>1, <1>12, <1>16, <2>1, <3>3 DEF ThreadStep
    <2> QED
      BY <2>1, <2>3, <2>4
  <1> QED
    BY <1>3, <1>5, <1>6, <1>7, <1>8, <1>9, <1>10, <1>11, <1>13, <1>14, <1>15, <1>16 DEF Next, ThreadStep
----------------------------------------------------------------------------
\* An injection adds its pad to those of the call, in the last place.
LEMMA InjectPads ==
  ASSUME Inject, pads \in Seq(Pads)
  PROVE  /\ At("inject") /\ todo' = Tail(todo)
         /\ UNCHANGED <<override, padState, looked>>
         /\ pads' # <<>> /\ pads'[Len(pads')] = Input /\ lastPad' = Input /\ Input' = Input
         /\ EarlierPads' = {pads[i] : i \in 1..Len(pads)}
         /\ seen'.pad = Input
         /\ seen'.pressed = IF override \in {None, {}} THEN Input \ lastPad ELSE override
  <1>1. PICK p : p = Input
    OBVIOUS
  <1>2. /\ At("inject") /\ todo' = Tail(todo)
        /\ UNCHANGED <<override, padState, looked>>
        /\ lastPad' = p /\ pads' = Append(pads, p)
        /\ seen' = [pad |-> p, released |-> lastPad \ p,
                    pressed |-> IF override \in {None, {}} THEN p \ lastPad ELSE override]
    BY <1>1 DEF Inject, Input, Pressed, Done, debugVars
  <1>3. Len(pads') = Len(pads) + 1 /\ pads'[Len(pads')] = p /\ pads' # <<>> /\ Len(pads) \in Nat
    BY <1>2
  <1>4. \A i \in 1..Len(pads) : pads'[i] = pads[i]
    BY <1>2
  <1>5. EarlierPads' = {pads[i] : i \in 1..Len(pads)}
    BY <1>3, <1>4 DEF EarlierPads
  <1>6. Input' = Input
    BY <1>2 DEF Input
  <1> QED
    BY <1>1, <1>2, <1>3, <1>5, <1>6

\* What the next injection compares with is the pad of the last one, or what the
\* game looked at.
LEMMA ComparedHolds ==
  ASSUME TypeOK, Compared, Next
  PROVE  Compared'
  <1>1. pads \in Seq(Pads)
    BY DEF TypeOK
  <1>2. CASE Inject
    BY <1>1, <1>2, InjectPads DEF Compared
  <1>3. CASE Look
    <2>1. looked' = seen.pad /\ pads' = <<>> /\ UNCHANGED <<lastPad, seen>>
      BY <1>3 DEF Look, padVars
    <2> QED
      BY <2>1 DEF Compared
  <1>4. CASE Commands \/ Disconnect \/ Present
    <2>1. UNCHANGED <<pads, seen, lastPad, looked>>
      BY <1>4 DEF Commands, Pause, Continue, ClearInput, Step, RunToFrame, SetInput, Command, Disconnect, Present,
                  padVars, lookVars
    <2> QED
      BY <2>1 DEF Compared
  <1>5. CASE \/ Accept \/ Receive \/ EndOfLines \/ Wait \/ Handlers \/ Aim \/ MaybeTick \/ Until \/ CallVBlank
             \/ Count \/ PumpTick \/ Pump \/ Show \/ \E mode \in Modes : VSync(mode)
    <2>1. UNCHANGED <<pads, seen, lastPad, looked>>
      BY <1>5 DEF Accept, Receive, EndOfLines, Wait, Handlers, Aim, MaybeTick, Until, CallVBlank, Count, PumpTick,
                  Pump, Show, VSync, padVars, lookVars
    <2> QED
      BY <2>1 DEF Compared
  <1> QED
    BY <1>2, <1>3, <1>4, <1>5 DEF Next, ThreadStep

\* When nothing is left but the return, the pad words are those of the input.
LEMMA LookReadyHolds ==
  ASSUME IInv, TypeOK, Path(todo), Compared, LookReady, Next
  PROVE  LookReady'
  <1>1. todo \in Seq(StepNames) /\ pads \in Seq(Pads) /\ counter \in Nat
    BY DEF TypeOK
  <1>2. CASE Inject
    <2>1. PICK p : p = Input
      OBVIOUS
    <2>2. /\ UNCHANGED <<override, looked>>
          /\ pads' # <<>> /\ pads'[Len(pads')] = p /\ Input' = p
          /\ EarlierPads' = {pads[i] : i \in 1..Len(pads)}
          /\ seen'.pad = p
          /\ seen'.pressed = IF override \in {None, {}} THEN p \ lastPad ELSE override
      BY <1>1, <1>2, <2>1, InjectPads
    <2>3. CASE pads = <<>>
      <3>1. lastPad = looked
        BY <2>3 DEF Compared
      <3>2. override = None => EdgesRight'
        BY <2>2, <3>1 DEF EdgesRight
      <3> QED
        BY <2>2, <3>2 DEF LookReady, Injected
    <2>4. CASE pads # <<>>
      <3>1. lastPad = pads[Len(pads)]
        BY <2>4 DEF Compared
      <3>2. Len(pads) \in 1..Len(pads)
        BY <1>1, <2>4
      <3>3. lastPad \in EarlierPads'
        BY <2>2, <3>1, <3>2
      <3>4. override = None => EdgesRight'
        BY <2>2, <3>3 DEF EdgesRight
      <3> QED
        BY <2>2, <3>4 DEF LookReady, Injected
    <2> QED
      BY <2>3, <2>4
  <1>3. ASSUME UNCHANGED <<override, padState, seen, looked, pads>>, Settled PROVE LookReady'
    BY <1>3 DEF LookReady, Injected, EdgesRight, EarlierPads, Input
  <1>4. ASSUME ~Settled' PROVE LookReady'
    BY <1>4 DEF LookReady
  <1>5. CASE Commands
    <2>1. At("lines") /\ todo' = todo
      BY <1>5 DEF Commands, Pause, Continue, ClearInput, Step, RunToFrame, SetInput, Command
    <2>2. ~Settled'
      BY <2>1 DEF Settled, At
    <2> QED
      BY <1>4, <2>2
  <1>6. CASE Pump \/ Show \/ \E mode \in Modes : VSync(mode)
    <2>1. todo' # <<>> /\ todo'[1] \in {"poll", "present"}
      BY <1>1, <1>6, NewHead
    <2>2. ~Settled'
      BY <2>1 DEF Settled, At
    <2> QED
      BY <1>4, <2>2
  <1>7. CASE Look
    <2>1. todo # <<>> /\ todo[1] = "look" /\ todo' = Tail(todo)
      BY <1>7 DEF Look, At, Done
    <2>2. todo' = <<>>
      BY <1>1, <2>1, TailPath DEF After
    <2>3. ~Settled'
      BY <2>2 DEF Settled, At
    <2> QED
      BY <1>4, <2>3
  <1>8. CASE Accept \/ Receive \/ EndOfLines \/ Disconnect \/ Wait \/ Present \/ Handlers \/ CallVBlank \/ Count \/ PumpTick
    <2>1. ThreadStep /\ ~Look /\ todo[1] \in {"poll", "lines", "wait", "present", "chains", "vblank", "count", "pump"}
      BY <1>8 DEF ThreadStep, Accept, Receive, EndOfLines, Disconnect, Wait, Present, Handlers, CallVBlank,
                  Count, PumpTick, Look, At
    <2>2. \A x \in {"look", "maybe", "until"} : At(x)' => x \in After(todo[1])
      BY <1>1, <2>1, Outline
    <2>3. "look" \notin After(todo[1]) /\ "maybe" \notin After(todo[1]) /\ "until" \notin After(todo[1])
      BY <2>1 DEF After
    <2>4. ~At("look")' /\ ~At("maybe")' /\ ~At("until")'
      BY <2>2, <2>3
    <2>5. ~Settled'
      BY <2>4 DEF Settled
    <2> QED
      BY <1>4, <2>5
  <1>9. CASE Aim
    <2>1. /\ todo # <<>> /\ todo[1] = "target" /\ todo' = Tail(todo) /\ counter' = counter
          /\ target' = counter + Ticks
      BY <1>9 DEF Aim, Awaited, Ticks, At, Done, clockVars
    <2>2. Timed
      <3>1. Len(todo) > 0
        BY <1>1, <2>1
      <3> QED
        BY <1>1, <2>1, <3>1 DEF Path, OnlyTimed
    <2>3. todo' # <<>> => todo'[1] = "until"
      BY <1>1, <2>1, MovesOn DEF After
    <2>4. ~(counter' >= target')
      BY <1>1, <2>1, <2>2, TicksType
    <2>5. ~Settled'
      BY <2>3, <2>4 DEF Settled, At
    <2> QED
      BY <1>4, <2>5
  <1>10. CASE MaybeTick
    <2>1. Settled /\ UNCHANGED <<override, padState, seen, looked, pads>>
      BY <1>10 DEF MaybeTick, Settled, debugVars, padVars, lookVars
    <2> QED
      BY <1>3, <2>1
  <1>11. CASE Until
    <2>1. At("until") /\ UNCHANGED <<override, padState, seen, looked, pads, counter, target>>
      BY <1>11 DEF Until, debugVars, padVars, lookVars, clockVars, callVars
    <2>2. CASE counter >= target
      <3>1. Settled
        BY <2>1, <2>2 DEF Settled
      <3> QED
        BY <1>3, <2>1, <3>1
    <2>3. CASE ~(counter >= target)
      <3> DEFINE s == Ticking \o <<"until">>
      <3>1. todo' = s \o Tail(todo)
        BY <1>11, <2>3, Zenon DEF Until, Go
      <3>2. s \in Seq(StepNames) /\ Len(s) = 6 /\ s[1] = Ticking[1] /\ Ticking[1] = "vblank"
        BY Expansions
      <3> HIDE DEF s
      <3>3. Len(s) >= 1 /\ s[1] = "vblank"
        BY <3>2
      <3>4. todo # <<>>
        BY <2>1 DEF At
      <3>5. todo'[1] = "vblank"
        BY <1>1, <3>1, <3>2, <3>3, <3>4, MovesTo
      <3>6. ~Settled'
        BY <3>5 DEF Settled, At
      <3> QED
        BY <1>4, <3>6
    <2> QED
      BY <2>2, <2>3
  <1> QED
    BY <1>2, <1>5, <1>6, <1>7, <1>8, <1>9, <1>10, <1>11 DEF Next, ThreadStep
----------------------------------------------------------------------------
LEMMA ServerInit == Init => ServerInv
  <1> SUFFICES ASSUME Init PROVE ServerInv
    OBVIOUS
  <1>1. TypeOK
    <2>1. ring = [i \in 0..(Cap - 1) |-> 0]
      BY DEF Init
    <2>2. ring \in [0..(Cap - 1) -> Nat]
      BY <2>1
    <2>3. seen \in [pad : Pads, pressed : Pads, released : Pads]
      BY DEF Init, Pads
    <2>4. from \in [frame : Nat, mode : {None} \cup Modes]
      BY DEF Init, NoCall
    <2>5. todo \in Seq(StepNames)
      BY DEF Init
    <2>6. /\ client \in BOOLEAN /\ paused \in BOOLEAN /\ left \in BOOLEAN /\ override \in {None} \cup Pads
          /\ padState \in Pads /\ lastPad \in Pads /\ looked \in Pads
      BY DEF Init, Pads
    <2>7. /\ stepCount \in Nat /\ runTo \in Nat /\ frame \in Nat /\ counter \in Nat /\ v0 \in Nat
          /\ target \in Nat /\ vsyncs \in Nat /\ extra \in Nat
          /\ stopAt \in Nat /\ runAt \in Nat /\ late \in 0..2 /\ pads \in Seq(Pads)
      BY DEF Init
    <2> QED
      BY <2>2, <2>3, <2>4, <2>5, <2>6, <2>7 DEF TypeOK
  <1>2. Len(todo) = 0 /\ todo = <<>> /\ ~At("look") /\ ~At("lines") /\ ~At("maybe") /\ ~At("until") /\ ~At("present")
    BY DEF Init, At
  <1>3. Path(todo)
    BY <1>2 DEF Path
  <1>4. Alone
    BY <1>2 DEF Alone, Init
  <1>5. RingWhole
    BY DEF RingWhole, Init
  <1>6. Clock
    BY <1>2 DEF Clock, Shown, Init
  <1>7. Progress
    <2>1. ~Timed /\ from.frame = 0 /\ frame = 0
      BY NoneAssumption DEF Init, NoCall, Timed
    <2> QED
      BY <2>1 DEF Progress
  <1>8. Compared
    BY DEF Compared, Init
  <1>9. LookReady
    BY <1>2 DEF LookReady, Settled
  <1> QED
    BY <1>1, <1>3, <1>4, <1>5, <1>6, <1>7, <1>8, <1>9 DEF ServerInv

LEMMA ServerStep == IInv /\ IInv' /\ ServerInv /\ [Next]_vars => ServerInv'
  <1> SUFFICES ASSUME IInv, IInv', ServerInv, [Next]_vars PROVE ServerInv'
    OBVIOUS
  <1>1. CASE Next
    <2>1. Path(todo)' /\ Alone'
      BY <1>1, PathHolds, AloneHolds DEF ServerInv
    <2>2. TypeOK' /\ RingWhole'
      BY <1>1, TypesHold, RingHolds DEF ServerInv
    <2>3. Clock' /\ Progress'
      BY <1>1, ClockHolds, ProgressHolds DEF ServerInv
    <2>4. Compared' /\ LookReady'
      BY <1>1, ComparedHolds, LookReadyHolds DEF ServerInv
    <2> QED
      BY <2>1, <2>2, <2>3, <2>4 DEF ServerInv
  <1>2. CASE UNCHANGED vars
    <2>1. /\ UNCHANGED <<todo, client, paused, stepCount, runTo, override, stopAt, runAt, late, left>>
          /\ UNCHANGED <<frame, ring, counter, v0, padState, lastPad, seen>>
          /\ UNCHANGED <<target, from, vsyncs, extra, looked, pads>>
      BY <1>2 DEF vars, debugVars, orders, shownVars, clockVars, padVars, callVars, lookVars
    <2>2. TypeOK'
      BY <2>1 DEF ServerInv, TypeOK
    <2>3. Path(todo)'
      BY <2>1, SamePath DEF ServerInv
    <2>4. Alone' /\ RingWhole'
      BY <2>1 DEF ServerInv, Alone, RingWhole, At, Slot
    <2>5. Clock' /\ Progress'
      BY <2>1 DEF ServerInv, Clock, Progress, Shown, Timed, Ticks, Aiming, At
    <2>6. Compared' /\ LookReady'
      BY <2>1 DEF ServerInv, Compared, LookReady, Settled, Injected, EdgesRight, EarlierPads, Input, At
    <2> QED
      BY <2>2, <2>3, <2>4, <2>5, <2>6 DEF ServerInv
  <1> QED
    BY <1>1, <1>2

LEMMA ServerInductive == Spec => []ServerInv
  BY ServerInit, ServerStep, Inductive, PTL DEF Spec

\* The debug server's own state: its types, that a game without a client is
\* paused only by an order its last client left, and that the history answers
\* every one of the last Cap frames and no other (debug_server.c:513, 890).
THEOREM ServerAlwaysOK == Spec => []ServerOK
  <1>1. ServerInv => ServerOK
    <2> SUFFICES ASSUME ServerInv PROVE ServerOK
      OBVIOUS
    <2>1. TypeOK /\ PausedAloneByOrder
      BY DEF ServerInv, Alone, PausedAloneByOrder
    <2>2. frame \in Nat /\ Cap \in Nat /\ Cap >= 1
      BY CapAssumption DEF ServerInv, TypeOK
    <2>3. ASSUME NEW f \in 1..frame, f > frame - Cap PROVE Answered(f)
      <3>1. ring[Slot(f)] = f
        BY <2>3 DEF ServerInv, RingWhole
      <3> QED
        BY <2>2, <2>3, <3>1 DEF Answered, Oldest
    <2>4. ASSUME NEW f \in 0..(frame + 1), Answered(f) PROVE f <= frame /\ f > frame - Cap
      BY <2>2, <2>4 DEF Answered, Oldest
    <2> QED
      BY <2>1, <2>3, <2>4 DEF ServerOK, HistoryWhole
  <1> QED
    BY <1>1, ServerInductive, PTL

\* VSync(n) returns when n frames, and at least one, were shown since it was
\* called, whatever the pump counted in between; and between calls no VBlank was
\* counted without its frame (runtime.c:3920-4045).
THEOREM FramesAlwaysShown == Spec => []FramesShown
  <1>1. ServerInv => FramesShown
    <2> SUFFICES ASSUME ServerInv PROVE FramesShown
      OBVIOUS
    <2>1. ASSUME At("look"), from.mode >= 0
          PROVE  frame >= from.frame + (IF from.mode = 0 THEN 1 ELSE from.mode)
      <3>1. from.mode \in Modes
        <4>1. Len(todo) > 0 /\ todo[1] = "look"
          BY <2>1 DEF ServerInv, TypeOK, At
        <4>2. 1 \in 1..Len(todo)
          BY <4>1 DEF ServerInv, TypeOK
        <4> QED
          BY <4>1, <4>2 DEF ServerInv, Path, OnlyTimed
      <3> QED
        BY <2>1, <3>1 DEF ServerInv, Progress, Timed, Ticks
    <2>2. ASSUME todo = <<>> PROVE counter <= frame
      <3>1. ~At("present") /\ frame \in Nat
        BY <2>2 DEF At, ServerInv, TypeOK
      <3> QED
        BY <3>1 DEF ServerInv, Clock, Shown
    <2> QED
      BY <2>1, <2>2 DEF FramesShown
  <1> QED
    BY <1>1, ServerInductive, PTL

\* When VSync returns, the pad words hold the client's override as pressed, and
\* without one the pad of the last frame, with no press that was none, and every
\* press but those an earlier frame of the same VSync already showed
\* (runtime.c:3304-3327).
THEOREM InputAlwaysSeen == Spec => []InputSeen
  <1>1. ServerInv => InputSeen
    BY DEF ServerInv, LookReady, Settled, Injected, Input, InputSeen
  <1> QED
    BY <1>1, ServerInductive, PTL
============================================================================
