----------------------------- MODULE EngineLoop -----------------------------
(***************************************************************************)
(* When the engine reconciles: Engine.Run (internal/reconcile/engine.go)   *)
(* and the goroutine behind Client.Events (internal/dockerapi/client.go).  *)
(*                                                                         *)
(* What a pass does is Reconciler's business; here a pass matters for when *)
(* it reads the inventory.  Time advances in units; a ready channel of the *)
(* select loop is served within a unit, while a pass may take any time.    *)
(***************************************************************************)
EXTENDS Integers

CONSTANTS
  Debounces,     \* values of reconcile.debounce, in time units; 0 is off
  Interval,      \* reconcile.interval, in time units
  EventCap,      \* capacity of the channel of events (32 in the code)
  MaxChanges     \* bound on what happens to containers

ASSUME DebounceAssumption == Debounces \subseteq Nat
ASSUME IntervalAssumption == Interval \in Nat \ {0}
ASSUME EventCapAssumption == EventCap \in Nat \ {0}
ASSUME ChangesAssumption  == MaxChanges \in Nat

VARIABLES
  pc,         \* "startup", "select", "done", or where a pass is
  trigger,    \* the trigger channel holds a request
  timer,      \* debounceTimer: NoTimer or the time it has left
  armed,      \* debounceC is not nil
  tick,       \* time to the ticker's next tick
  tickReady,  \* ticker.C holds a tick
  stream,     \* the event goroutine: "none", "live", "broken", "closed"
  sdkq,       \* messages that goroutine holds or the Docker SDK holds for it
  evq,        \* events in evCh
  evOpen,     \* evCh is not nil
  errq,       \* errors in errCh
  errOpen,    \* errCh is not nil
  cancelled,  \* ctx is done
  inventory,  \* "listed", "changed" since the last list, or "missed"
  changes,    \* what has happened to containers so far
  debounce    \* reconcile.debounce of this run

loopVars   == <<trigger, timer, armed>>
tickVars   == <<tick, tickReady>>
streamVars == <<stream, sdkq, evq, evOpen, errq, errOpen>>
vars == <<pc, trigger, timer, armed, tick, tickReady, stream, sdkq, evq,
          evOpen, errq, errOpen, cancelled, inventory, changes, debounce>>

NoTimer == -1

-----------------------------------------------------------------------------
Init ==
  /\ pc = "startup"
  /\ trigger = FALSE /\ timer = NoTimer /\ armed = FALSE
  /\ tick = Interval /\ tickReady = FALSE
  /\ stream = "none" /\ sdkq = 0 /\ evq = 0 /\ evOpen = FALSE
  /\ errq = 0 /\ errOpen = FALSE
  /\ cancelled = FALSE
  /\ inventory = "changed" /\ changes = 0
  /\ debounce \in Debounces

InPass == pc \in {"firstPass", "firstApply", "pass", "apply"}

-----------------------------------------------------------------------------
\* The environment.

\* Docker reports to the subscriber; without one nobody hears.
Notify ==
  sdkq' = IF stream = "live" THEN sdkq + 1 ELSE sdkq

\* A container starts or stops.
Change ==
  /\ changes < MaxChanges
  /\ changes' = changes + 1
  /\ inventory' = IF stream \in {"none", "live"} THEN "changed" ELSE "missed"
  /\ Notify
  /\ UNCHANGED <<pc, stream, evq, evOpen, errq, errOpen, cancelled, debounce>>
  /\ UNCHANGED loopVars /\ UNCHANGED tickVars

\* An event that changes no container: a rename, a change of health.
Noise ==
  /\ stream = "live" /\ changes < MaxChanges
  /\ changes' = changes + 1
  /\ Notify
  /\ UNCHANGED <<pc, stream, evq, evOpen, errq, errOpen, cancelled>>
  /\ UNCHANGED <<inventory, debounce>>
  /\ UNCHANGED loopVars /\ UNCHANGED tickVars

\* The SDK's stream fails: what it still held is lost, save for the message
\* that the goroutine may have taken and not yet forwarded.
StreamFails ==
  /\ stream = "live"
  /\ stream' = "broken"
  /\ sdkq' \in {n \in 0 .. 1 : n <= sdkq}
  /\ inventory' = IF inventory = "changed" THEN "missed" ELSE inventory
  /\ UNCHANGED <<pc, evq, evOpen, errq, errOpen, cancelled, changes, debounce>>
  /\ UNCHANGED loopVars /\ UNCHANGED tickVars

Cancel ==
  /\ ~cancelled
  /\ cancelled' = TRUE
  /\ UNCHANGED <<pc, inventory, changes, debounce>>
  /\ UNCHANGED loopVars /\ UNCHANGED tickVars /\ UNCHANGED streamVars

-----------------------------------------------------------------------------
\* The goroutine of Client.Events.

Forward ==
  /\ stream \in {"live", "broken"} /\ sdkq > 0 /\ evq < EventCap
  /\ sdkq' = sdkq - 1 /\ evq' = evq + 1
  /\ UNCHANGED <<pc, stream, evOpen, errq, errOpen, cancelled>>
  /\ UNCHANGED <<inventory, changes, debounce>>
  /\ UNCHANGED loopVars /\ UNCHANGED tickVars

\* It hands the error over, once it has forwarded what it holds, and closes
\* both channels; when ctx is done it closes them at once.
CloseStream ==
  /\ stream \in {"live", "broken"}
  /\ cancelled \/ (stream = "broken" /\ sdkq = 0)
  /\ stream' = "closed"
  /\ sdkq' = 0
  /\ errq' = IF stream = "broken" /\ ~cancelled THEN errq + 1 ELSE errq
  /\ inventory' = IF inventory = "changed" THEN "missed" ELSE inventory
  /\ UNCHANGED <<pc, evq, evOpen, errOpen, cancelled, changes, debounce>>
  /\ UNCHANGED loopVars /\ UNCHANGED tickVars

-----------------------------------------------------------------------------
\* Passes.

BeginFirst ==
  /\ pc = "startup"
  /\ pc' = "firstPass"
  /\ UNCHANGED <<cancelled, inventory, changes, debounce>>
  /\ UNCHANGED loopVars /\ UNCHANGED tickVars /\ UNCHANGED streamVars

ListOK ==
  /\ pc \in {"firstPass", "pass"}
  /\ pc' = IF pc = "pass" THEN "apply" ELSE "firstApply"
  /\ inventory' = "listed"
  /\ UNCHANGED <<cancelled, changes, debounce>>
  /\ UNCHANGED loopVars /\ UNCHANGED tickVars /\ UNCHANGED streamVars

\* Load or ListRunning fails: the pass ends, and nothing asks for another.
ListFails ==
  /\ pc \in {"firstPass", "pass"}
  /\ pc' = IF pc = "pass" THEN "apply" ELSE "firstApply"
  /\ inventory' = IF inventory = "changed" THEN "missed" ELSE inventory
  /\ UNCHANGED <<cancelled, changes, debounce>>
  /\ UNCHANGED loopVars /\ UNCHANGED tickVars /\ UNCHANGED streamVars

EndPass ==
  /\ pc = "apply"
  /\ pc' = "select"
  /\ UNCHANGED <<cancelled, inventory, changes, debounce>>
  /\ UNCHANGED loopVars /\ UNCHANGED tickVars /\ UNCHANGED streamVars

\* After the startup pass: request(), subscribe, start the ticker.
EndFirst ==
  /\ pc = "firstApply"
  /\ pc' = "select"
  /\ trigger' = TRUE
  /\ stream' = "live" /\ evOpen' = TRUE /\ errOpen' = TRUE
  /\ tick' = Interval
  /\ UNCHANGED <<timer, armed, tickReady, sdkq, evq, errq>>
  /\ UNCHANGED <<cancelled, inventory, changes, debounce>>

-----------------------------------------------------------------------------
\* The select loop.

\* request() without debounce; else start the timer or start it again.
scheduleDebounced ==
  IF debounce = 0
  THEN trigger' = TRUE /\ UNCHANGED <<timer, armed>>
  ELSE /\ timer' = debounce
       /\ armed' = IF timer = NoTimer THEN TRUE ELSE armed
       /\ UNCHANGED trigger

stopDebounce == timer' = NoTimer /\ armed' = FALSE

CtxDone ==
  /\ pc = "select" /\ cancelled
  /\ stopDebounce
  /\ pc' = "done"
  /\ UNCHANGED <<trigger, cancelled, inventory, changes, debounce>>
  /\ UNCHANGED tickVars /\ UNCHANGED streamVars

OnTrigger ==
  /\ pc = "select" /\ trigger
  /\ trigger' = FALSE
  /\ stopDebounce
  /\ pc' = "pass"
  /\ UNCHANGED <<cancelled, inventory, changes, debounce>>
  /\ UNCHANGED tickVars /\ UNCHANGED streamVars

\* Fault: debounceC is cleared and debounceTimer is not.
OnDebounceTimerKept ==
  /\ pc = "select" /\ armed /\ timer = 0
  /\ armed' = FALSE
  /\ pc' = "pass"
  /\ UNCHANGED <<timer, trigger, cancelled, inventory, changes, debounce>>
  /\ UNCHANGED tickVars /\ UNCHANGED streamVars

OnDebounce ==
  /\ pc = "select" /\ armed /\ timer = 0
  /\ stopDebounce
  /\ pc' = "pass"
  /\ UNCHANGED <<trigger, cancelled, inventory, changes, debounce>>
  /\ UNCHANGED tickVars /\ UNCHANGED streamVars

\* Fault: a tick does not ask for a pass.
OnTickIgnored ==
  /\ pc = "select" /\ tickReady
  /\ tickReady' = FALSE
  /\ UNCHANGED <<pc, tick, cancelled, inventory, changes, debounce>>
  /\ UNCHANGED loopVars /\ UNCHANGED streamVars

OnTick ==
  /\ pc = "select" /\ tickReady
  /\ tickReady' = FALSE
  /\ scheduleDebounced
  /\ UNCHANGED <<pc, tick, cancelled, inventory, changes, debounce>>
  /\ UNCHANGED streamVars

OnEvent ==
  /\ pc = "select" /\ evOpen /\ evq > 0
  /\ evq' = evq - 1
  /\ scheduleDebounced
  /\ UNCHANGED <<pc, stream, sdkq, evOpen, errq, errOpen>>
  /\ UNCHANGED <<cancelled, inventory, changes, debounce>>
  /\ UNCHANGED tickVars

\* A closed and empty channel is set to nil; nobody subscribes again.
OnEventsClosed ==
  /\ pc = "select" /\ evOpen /\ evq = 0 /\ stream = "closed"
  /\ evOpen' = FALSE
  /\ UNCHANGED <<pc, stream, sdkq, evq, errq, errOpen>>
  /\ UNCHANGED <<cancelled, inventory, changes, debounce>>
  /\ UNCHANGED loopVars /\ UNCHANGED tickVars

OnError ==
  /\ pc = "select" /\ errOpen
  /\ errq > 0 \/ stream = "closed"
  /\ errq' = IF errq > 0 THEN errq - 1 ELSE errq
  /\ errOpen' = (errq > 0)
  /\ UNCHANGED <<pc, stream, sdkq, evq, evOpen>>
  /\ UNCHANGED <<cancelled, inventory, changes, debounce>>
  /\ UNCHANGED loopVars /\ UNCHANGED tickVars

Loop ==
  \/ CtxDone \/ OnTrigger \/ OnDebounce \/ OnTick
  \/ OnEvent \/ OnEventsClosed \/ OnError

Pass == BeginFirst \/ ListOK \/ ListFails \/ EndPass \/ EndFirst

Events == Forward \/ CloseStream

\* Some case of the select can be taken.
LoopReady ==
  \/ cancelled \/ trigger \/ tickReady
  \/ armed /\ timer = 0
  \/ evOpen /\ (evq > 0 \/ stream = "closed")
  \/ errOpen /\ (errq > 0 \/ stream = "closed")

EventsReady ==
  /\ stream \in {"live", "broken"}
  /\ \/ cancelled
     \/ sdkq > 0 /\ evq < EventCap
     \/ stream = "broken" /\ sdkq = 0

\* A unit of time passes: not while the loop or the goroutine has work.
Advance ==
  /\ InPass \/ (pc = "select" /\ ~LoopReady)
  /\ ~EventsReady
  /\ timer' = IF timer > 0 THEN timer - 1 ELSE timer
  /\ IF stream = "none" THEN UNCHANGED tickVars
     ELSE /\ tick' = IF tick = 1 THEN Interval ELSE tick - 1
          /\ tickReady' = (tickReady \/ tick = 1)
  /\ UNCHANGED <<pc, trigger, armed, cancelled, inventory, changes, debounce>>
  /\ UNCHANGED streamVars

Next ==
  \/ Change \/ Noise \/ StreamFails \/ Cancel
  \/ Loop \/ Pass \/ Events \/ Advance

\* Goroutines run and time passes (WF); errors of Docker and of the file
\* system are transient, and select picks at random among ready cases, so
\* the cases that start a pass or end Run are not passed over for ever (SF).
Fairness ==
  /\ WF_vars(Loop) /\ WF_vars(Pass) /\ WF_vars(Events) /\ WF_vars(Advance)
  /\ SF_vars(ListOK) /\ SF_vars(OnDebounce) /\ SF_vars(OnTrigger)
  /\ SF_vars(CtxDone)

Spec == Init /\ [][Next]_vars /\ Fairness

-----------------------------------------------------------------------------
\* Properties.

\* Every variable has its type.
TypeOK ==
  /\ pc \in {"startup", "firstPass", "firstApply", "select", "pass", "apply",
             "done"}
  /\ trigger \in BOOLEAN /\ armed \in BOOLEAN
  /\ timer \in NoTimer .. debounce
  /\ tick \in 1 .. Interval /\ tickReady \in BOOLEAN
  /\ stream \in {"none", "live", "broken", "closed"}
  /\ sdkq \in Nat /\ evq \in 0 .. EventCap /\ errq \in 0 .. 1
  /\ evOpen \in BOOLEAN /\ errOpen \in BOOLEAN /\ cancelled \in BOOLEAN
  /\ inventory \in {"listed", "changed", "missed"}
  /\ changes \in 0 .. MaxChanges /\ debounce \in Debounces

\* While the event stream is up, a change made after the last list always
\* has something under way that will make Run list again without the ticker:
\* a request, a running timer that Run listens to, or an event on its way.
\* This covers the gap between the startup list and the subscription.
NoLostWakeup ==
  pc = "select" /\ inventory = "changed" =>
    \/ trigger
    \/ timer # NoTimer /\ armed
    \/ sdkq > 0
    \/ evOpen /\ evq > 0

\* "Full reconcile every N seconds to heal missed events": whatever events
\* are lost and whatever passes fail, Run lists every change in the end, unless
\* ctx is cancelled; and then Run ends, in whatever state its timers are.
HealsOrStops ==
  /\ inventory # "listed" ~> inventory = "listed" \/ cancelled
  /\ cancelled ~> pc = "done"
=============================================================================
