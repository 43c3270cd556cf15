-------------------------- MODULE EngineLoopProofs --------------------------
(***************************************************************************)
(* Proofs about EngineLoop, for every debounce, interval, capacity of the  *)
(* event channel and number of changes.                                    *)
(*                                                                         *)
(* That no wakeup is lost rests on the debounce timer and its channel      *)
(* being set and cleared together, on the channels of events staying open  *)
(* while they hold something, and on what a pass that is about to list     *)
(* does for a change: it lists it or leaves it to the ticker.              *)
(***************************************************************************)
EXTENDS EngineLoop, TLAPS

Starting == {"startup", "firstPass", "firstApply"}

\* debounceTimer is set exactly while Run listens to it.
TimerArmed == timer # NoTimer <=> armed

\* Run subscribes at the end of the startup pass, once.  Only a stream that
\* is not closed yet holds messages, only a closed one has left an error, and
\* a channel that Run has given up is empty.
StreamPlaced ==
  /\ stream = "none" <=> pc \in Starting
  /\ stream \in {"none", "closed"} => sdkq = 0
  /\ stream = "none" => evq = 0
  /\ stream # "closed" => errq = 0
  /\ stream \in {"live", "broken"} => evOpen
  /\ evq > 0 => evOpen

\* A change that waits to be listed was reported to a live stream or came
\* before there was one, and something is under way that will list it.
Waking ==
  inventory = "changed" =>
    /\ stream \in {"none", "live"}
    /\ \/ pc \in Starting \cup {"pass", "done"}
       \/ trigger \/ armed \/ sdkq > 0 \/ evq > 0

LoopInv == TypeOK /\ TimerArmed /\ StreamPlaced /\ Waking

-----------------------------------------------------------------------------
\* The inductive invariant, one lemma for each group of steps.

\* Run starts with nothing under way.
LEMMA LoopInvInit == Init => LoopInv
<1> SUFFICES ASSUME Init PROVE LoopInv
  OBVIOUS
<1>1. timer \in NoTimer .. debounce
  BY DebounceAssumption DEF Init, NoTimer
<1>2. tick \in 1 .. Interval
  BY IntervalAssumption DEF Init
<1>3. evq \in 0 .. EventCap /\ changes \in 0 .. MaxChanges /\ errq \in 0 .. 1
  BY EventCapAssumption, ChangesAssumption DEF Init
<1>4. TypeOK
  BY <1>1, <1>2, <1>3 DEF Init, TypeOK
<1>5. TimerArmed /\ StreamPlaced /\ Waking
  BY DEF Init, TimerArmed, StreamPlaced, Waking, Starting
<1> QED
  BY <1>4, <1>5 DEF LoopInv

\* What Docker and the daemon do at any time.
LEMMA EnvironmentKeeps ==
  ASSUME LoopInv, Change \/ Noise \/ StreamFails \/ Cancel
  PROVE  LoopInv'
<1> USE DEF LoopInv, TypeOK, TimerArmed, StreamPlaced, Waking, loopVars, tickVars,
        streamVars
<1>1. CASE Change
  BY <1>1, ChangesAssumption DEF Change, Notify, Starting
<1>2. CASE Noise
  BY <1>2, ChangesAssumption DEF Noise, Notify
<1>3. CASE StreamFails
  BY <1>3 DEF StreamFails
<1>4. CASE Cancel
  BY <1>4 DEF Cancel
<1> QED
  BY <1>1, <1>2, <1>3, <1>4

\* The goroutine that forwards events.
LEMMA EventsKeep ==
  ASSUME LoopInv, Events
  PROVE  LoopInv'
<1> USE DEF LoopInv, TypeOK, TimerArmed, StreamPlaced, Waking, loopVars, tickVars
<1>1. CASE Forward
  BY <1>1, EventCapAssumption DEF Forward
<1>2. CASE CloseStream
  BY <1>2, EventCapAssumption DEF CloseStream, Starting
<1> QED
  BY <1>1, <1>2 DEF Events

\* The steps of a pass: one that fails to list leaves the change to the
\* ticker, one that lists has nothing left to wait for.
LEMMA PassKeeps ==
  ASSUME LoopInv, Pass
  PROVE  LoopInv'
<1> USE DEF LoopInv, TypeOK, TimerArmed, StreamPlaced, Waking, Starting, loopVars,
        tickVars, streamVars
<1>1. CASE BeginFirst
  BY <1>1 DEF BeginFirst
<1>2. CASE ListOK
  BY <1>2 DEF ListOK
<1>3. CASE ListFails
  BY <1>3 DEF ListFails
<1>4. CASE EndPass
  BY <1>4 DEF EndPass
<1>5. CASE EndFirst
  BY <1>5, IntervalAssumption DEF EndFirst
<1> QED
  BY <1>1, <1>2, <1>3, <1>4, <1>5 DEF Pass

\* scheduleDebounced leaves a request or a timer that Run listens to.
LEMMA ScheduleWakes ==
  ASSUME LoopInv, scheduleDebounced
  PROVE  /\ trigger' \in BOOLEAN /\ armed' \in BOOLEAN
         /\ timer' \in NoTimer .. debounce
         /\ timer' # NoTimer <=> armed'
         /\ trigger' \/ armed'
<1>1. debounce \in Nat
  BY DebounceAssumption DEF LoopInv, TypeOK
<1>2. CASE debounce = 0
  BY <1>2 DEF scheduleDebounced, LoopInv, TypeOK, TimerArmed
<1>3. CASE debounce # 0
  <2>1. timer' = debounce /\ trigger' = trigger
    BY <1>3 DEF scheduleDebounced
  <2>2. timer' \in NoTimer .. debounce /\ timer' # NoTimer
    BY <1>1, <2>1 DEF NoTimer
  <2>3. armed'
    BY <1>3 DEF scheduleDebounced, LoopInv, TimerArmed
  <2>4. armed' \in BOOLEAN
    BY <1>3 DEF scheduleDebounced, LoopInv, TypeOK
  <2> QED
    BY <2>1, <2>2, <2>3, <2>4 DEF LoopInv, TypeOK
<1> QED
  BY <1>2, <1>3

\* stopDebounce clears the timer and its channel.
LEMMA StopClears ==
  ASSUME LoopInv, stopDebounce
  PROVE  /\ timer' \in NoTimer .. debounce /\ timer' = NoTimer
         /\ ~armed' /\ armed' \in BOOLEAN
<1>1. debounce \in Nat
  BY DebounceAssumption DEF LoopInv, TypeOK
<1>2. NoTimer \in NoTimer .. debounce
  BY <1>1 DEF NoTimer
<1> QED
  BY <1>2 DEF stopDebounce

\* The select loop.
LEMMA LoopKeeps ==
  ASSUME LoopInv, Loop
  PROVE  LoopInv'
<1> USE DEF LoopInv, TypeOK, TimerArmed, StreamPlaced, Waking, Starting, loopVars,
        tickVars, streamVars
<1>1. CASE CtxDone
  BY <1>1, StopClears DEF CtxDone
<1>2. CASE OnTrigger
  BY <1>2, StopClears DEF OnTrigger
<1>3. CASE OnDebounce
  BY <1>3, StopClears DEF OnDebounce
<1>4. CASE OnTick
  BY <1>4, ScheduleWakes DEF OnTick
<1>5. CASE OnEvent
  BY <1>5, ScheduleWakes, EventCapAssumption DEF OnEvent
<1>6. CASE OnEventsClosed
  <2>1. evOpen' \in BOOLEAN /\ evq = 0 /\ stream = "closed" /\ inventory # "changed"
    BY <1>6 DEF OnEventsClosed
  <2> QED
    BY <1>6, <2>1 DEF OnEventsClosed
<1>7. CASE OnError
  BY <1>7 DEF OnError
<1> QED
  BY <1>1, <1>2, <1>3, <1>4, <1>5, <1>6, <1>7 DEF Loop

\* Time: a timer that has run out stays, with its channel, until Run reads it.
LEMMA AdvanceKeeps ==
  ASSUME LoopInv, Advance
  PROVE  LoopInv'
<1>1. /\ timer' \in NoTimer .. debounce
      /\ timer' # NoTimer <=> timer # NoTimer
  BY DebounceAssumption DEF Advance, LoopInv, TypeOK, NoTimer
<1>2. tick' \in 1 .. Interval /\ tickReady' \in BOOLEAN
  <2>1. CASE stream = "none"
    BY <2>1 DEF Advance, LoopInv, TypeOK, tickVars
  <2>2. CASE stream # "none"
    <3>1. tick' = IF tick = 1 THEN Interval ELSE tick - 1
      BY <2>2 DEF Advance
    <3>2. tickReady' = (tickReady \/ tick = 1)
      BY <2>2 DEF Advance
    <3>3. tick' \in 1 .. Interval
      BY <3>1, IntervalAssumption DEF LoopInv, TypeOK
    <3> QED
      BY <3>2, <3>3
  <2> QED
    BY <2>1, <2>2
<1> QED
  BY <1>1, <1>2 DEF Advance, LoopInv, TypeOK, TimerArmed, StreamPlaced, Waking,
     streamVars

\* Every step keeps the invariant.
LEMMA LoopInvNext == LoopInv /\ [Next]_vars => LoopInv'
<1> SUFFICES ASSUME LoopInv, [Next]_vars PROVE LoopInv'
  OBVIOUS
<1>1. CASE UNCHANGED vars
  BY <1>1 DEF vars, LoopInv, TypeOK, TimerArmed, StreamPlaced, Waking
<1> QED
  BY <1>1, EnvironmentKeeps, EventsKeep, PassKeeps, LoopKeeps, AdvanceKeeps
     DEF Next

\* The inductive invariant holds in every reachable state.
LEMMA LoopInvariant == Spec => []LoopInv
BY LoopInvInit, LoopInvNext, PTL DEF Spec

-----------------------------------------------------------------------------
\* Results.

\* The variables of Run and of the event goroutine keep their types: neither
\* channel ever holds more than its capacity.
THEOREM LoopTypeCorrect == Spec => []TypeOK
<1>1. LoopInv => TypeOK
  BY DEF LoopInv
<1> QED
  BY <1>1, LoopInvariant, PTL

\* A change that is made while the event stream is up, or before there is
\* one, is never left without something that makes Run list again.
THEOREM WakeupNotLost == Spec => []NoLostWakeup
<1>1. LoopInv => NoLostWakeup
  BY DEF LoopInv, NoLostWakeup, TypeOK, TimerArmed, StreamPlaced, Waking, Starting
<1> QED
  BY <1>1, LoopInvariant, PTL
=============================================================================
