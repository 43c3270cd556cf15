------------------------- MODULE ProxyManagerProofs -------------------------
(***************************************************************************)
(* Proofs about ProxyManager, for any number of listeners, connections and *)
(* endpoints and any limit.                                                *)
(*                                                                         *)
(* A cancelled context reaches every connection because of the listener    *)
(* objects: one with a live context is in the map, and after Shutdown has  *)
(* begun there is none.  The limit holds because m.conns is exact, so that *)
(* a connection let in under it finds fewer than MaxConns others.          *)
(***************************************************************************)
EXTENDS ProxyManager, FiniteSetTheorems, TLAPS

\* An object whose context lives is in the map, and its accept loop's
\* connections belong to objects.
LiveListed ==
  /\ \A o \in Objects : obj[o].live => o \in listeners
  /\ \A c \in Conns : conn[c].st # "none" => conn[c].obj \in Objects

\* Shutdown cancels every context, also those that Reconcile makes later.
ShutdownReaches ==
  /\ spc # "idle" => shutting
  /\ shutting => \A o \in Objects : ~obj[o].live
  /\ spc = "ok" => \A c \in Conns : conn[c].st # "proxy"

\* Connections that were let in.
Admitted == {c \in Conns : conn[c].st \in {"counted", "dial", "proxy", "ended"}}

CountsExact ==
  /\ conns = Cardinality(Counted)
  /\ Cardinality(Admitted) <= MaxConns

ProxyInv == TypeOK /\ LiveListed /\ ShutdownReaches /\ CountsExact

-----------------------------------------------------------------------------
\* Records.

\* Stopping a listener keeps its type; it closes the socket and cancels.
LEMMA StoppedType ==
  ASSUME NEW b \in ObjectType
  PROVE  Stopped(b) \in ObjectType /\ ~Stopped(b).live /\ Stopped(b).loop = b.loop
<1>1. PICK r : r = [b EXCEPT !.live = FALSE]
  OBVIOUS
<1>2. r \in ObjectType /\ ~r.live /\ r.loop = b.loop
  BY <1>1 DEF ObjectType
<1>3. PICK t : t = [r EXCEPT !.open = FALSE]
  OBVIOUS
<1>4. t \in ObjectType /\ ~t.live /\ t.loop = b.loop
  BY <1>2, <1>3 DEF ObjectType
<1> QED
  BY <1>1, <1>3, <1>4 DEF Stopped

\* Unused objects and connections have their types.
LEMMA UnusedTypes == Unused \in ObjectType /\ NoConn \in ConnType /\ ~Unused.live
BY DEF Unused, NoConn, ObjectType, ConnType

-----------------------------------------------------------------------------
\* Steps of Reconcile and Shutdown, and of accept loops that end: they do not
\* touch connections.

CtlInv == TypeOK /\ LiveListed /\ ShutdownReaches

\* Reconcile keeps live objects in the map.
LEMMA ReconcileKeeps == CtlInv /\ Reconcile => CtlInv'
<1> SUFFICES ASSUME CtlInv, Reconcile PROVE CtlInv'
  OBVIOUS
<1> USE DEF CtlInv, TypeOK, LiveListed, ShutdownReaches, ctlVars
<1>1. ASSUME NEW D \in DesiredMaps, ReconcileCall(D) PROVE CtlInv'
  BY <1>1 DEF ReconcileCall, DesiredMaps
<1>2. CASE ReconcileLock \/ StopWaited \/ ReconcileReturn
  BY <1>2 DEF ReconcileLock, StopWaited, ReconcileReturn
<1>3. ASSUME NEW o \in Objects, StopStale(o) PROVE CtlInv'
  <2>1. Stopped(obj[o]) \in ObjectType /\ ~Stopped(obj[o]).live
    BY StoppedType
  <2> QED
    BY <1>3, <2>1 DEF StopStale
<1>4. ASSUME NEW o \in Objects, NEW d \in desired, UpdateBackend(o, d)
      PROVE  CtlInv'
  <2>1. PICK b : b = [obj[o] EXCEPT !.backend = d.backend]
    OBVIOUS
  <2>2. b \in ObjectType /\ (b.live <=> obj[o].live)
    BY <2>1 DEF ObjectType, Target
  <2>3. obj' = [obj EXCEPT ![o] = b]
    BY <1>4, <2>1 DEF UpdateBackend
  <2> QED
    BY <1>4, <2>2, <2>3 DEF UpdateBackend
<1>5. ASSUME NEW o \in Objects, NEW d \in desired, StartListener(o, d)
      PROVE  CtlInv'
  <2>1. PICK b : b = [sock |-> d.sock, open |-> TRUE, live |-> ~shutting,
                      loop |-> "accept", backend |-> d.backend]
    OBVIOUS
  <2>2. b \in ObjectType /\ (b.live <=> ~shutting)
    BY <2>1 DEF ObjectType, Target
  <2>3. obj' = [obj EXCEPT ![o] = b]
    BY <1>5, <2>1 DEF StartListener
  <2> QED
    BY <1>5, <2>2, <2>3 DEF StartListener
<1> QED
  BY <1>1, <1>2, <1>3, <1>4, <1>5 DEF Reconcile

\* Shutdown cancels all contexts before it waits.
LEMMA ShutdownKeeps == CtlInv /\ Shutdown => CtlInv'
<1> SUFFICES ASSUME CtlInv, Shutdown PROVE CtlInv'
  OBVIOUS
<1> USE DEF CtlInv, TypeOK, LiveListed, ShutdownReaches
<1>1. CASE ShutdownSwap
  <2>1. \A b \in ObjectType : [b EXCEPT !.live = FALSE] \in ObjectType
                              /\ ~[b EXCEPT !.live = FALSE].live
    BY DEF ObjectType
  <2> QED
    BY <1>1, <2>1 DEF ShutdownSwap
<1>2. CASE ShutdownCloseAll
  <2>1. \A o \in Objects : Stopped(obj[o]) \in ObjectType /\ ~Stopped(obj[o]).live
    BY StoppedType
  <2> QED
    BY <1>2, <2>1 DEF ShutdownCloseAll
<1>3. CASE ShutdownDrained
  BY <1>3 DEF ShutdownDrained, Active
<1>4. CASE ShutdownTimeout
  BY <1>4 DEF ShutdownTimeout
<1> QED
  BY <1>1, <1>2, <1>3, <1>4 DEF Shutdown

\* The end of an accept loop.
LEMMA LoopEndKeeps ==
  ASSUME CtlInv, NEW o \in Objects, AcceptClosed(o) \/ AcceptError(o)
  PROVE  CtlInv'
<1>1. PICK b : b = [obj[o] EXCEPT !.loop = "exited"]
  OBVIOUS
<1>2. b \in ObjectType /\ (b.live <=> obj[o].live)
  BY <1>1 DEF CtlInv, TypeOK, ObjectType
<1>3. obj' = [obj EXCEPT ![o] = b]
  BY <1>1 DEF AcceptClosed, AcceptError, CtlInv, TypeOK
<1> QED
  BY <1>2, <1>3 DEF AcceptClosed, AcceptError, CtlInv, TypeOK, LiveListed,
     ShutdownReaches, ctlVars

-----------------------------------------------------------------------------
\* Steps of one connection.

CountedStates == {"counted", "excess", "dial", "proxy", "ended"}
AdmittedStates == {"counted", "dial", "proxy", "ended"}

\* Connection c is in state r after the step; listeners are left alone.
ConnStep(c, r) ==
  /\ conn' = [conn EXCEPT ![c] = r]
  /\ r \in ConnType /\ r.obj \in Objects
  /\ UNCHANGED ctlVars /\ UNCHANGED obj

\* A connection's step keeps what is known of contexts, if no connection
\* starts to be proxied after Shutdown has returned.
LEMMA ConnStepKeeps ==
  ASSUME CtlInv, NEW c \in Conns, NEW r, ConnStep(c, r), conns' \in Nat,
         r.st = "proxy" => spc # "ok"
  PROVE  CtlInv'
<1>1. conn' \in [Conns -> ConnType]
  BY DEF ConnStep, CtlInv, TypeOK
<1>2. TypeOK'
  BY <1>1 DEF ConnStep, CtlInv, TypeOK, ctlVars
<1>3. \A k \in Conns : conn'[k] = IF k = c THEN r ELSE conn[k]
  BY DEF ConnStep, CtlInv, TypeOK
<1>4. LiveListed'
  BY <1>3 DEF ConnStep, CtlInv, LiveListed, ctlVars
<1>5. ShutdownReaches'
  BY <1>3 DEF ConnStep, CtlInv, ShutdownReaches, ctlVars
<1> QED
  BY <1>2, <1>4, <1>5 DEF CtlInv

\* The sets that are counted are finite, and the admitted are counted.
LEMMA CountedFinite ==
  /\ IsFiniteSet(Counted) /\ IsFiniteSet(Admitted) /\ IsFiniteSet(Handled)
  /\ Admitted \subseteq Counted /\ Handled \subseteq Admitted
  /\ Cardinality(Counted) \in Nat /\ Cardinality(Admitted) \in Nat
  /\ Cardinality(Handled) \in Nat
  /\ Cardinality(Admitted) <= Cardinality(Counted)
  /\ Cardinality(Handled) <= Cardinality(Admitted)
<1>1. /\ Counted \subseteq Conns /\ Admitted \subseteq Conns /\ Handled \subseteq Conns
      /\ Admitted \subseteq Counted /\ Handled \subseteq Admitted
  BY DEF Counted, Admitted, Handled
<1>2. IsFiniteSet(Counted) /\ IsFiniteSet(Admitted) /\ IsFiniteSet(Handled)
  BY <1>1, ConnsAssumption, FS_Subset
<1> QED
  BY <1>1, <1>2, FS_Subset, FS_CardinalityType

\* A connection's step moves at most that connection in or out of the sets
\* that are counted.
LEMMA ConnStepSets ==
  ASSUME TypeOK, NEW c \in Conns, NEW r, ConnStep(c, r)
  PROVE  /\ Counted' = IF r.st \in CountedStates THEN Counted \cup {c}
                       ELSE Counted \ {c}
         /\ Admitted' = IF r.st \in AdmittedStates THEN Admitted \cup {c}
                        ELSE Admitted \ {c}
<1>1. \A k \in Conns : conn'[k] = IF k = c THEN r ELSE conn[k]
  BY DEF ConnStep, TypeOK
<1> QED
  BY <1>1 DEF Counted, Admitted, CountedStates, AdmittedStates

\* A step that takes a connection off the count, at the limit or at its end.
LEMMA LeaveKeeps ==
  ASSUME ProxyInv, NEW c \in Conns, conn[c].st \in CountedStates,
         NEW s \in {"closed", "uncounted"},
         conns' = conns - 1, conn' = [conn EXCEPT ![c].st = s],
         UNCHANGED ctlVars, UNCHANGED obj
  PROVE  ProxyInv'
<1>1. PICK r : r = [conn[c] EXCEPT !.st = s]
  OBVIOUS
<1>2. conn[c] \in ConnType /\ conn[c].obj \in Objects
  BY DEF ProxyInv, TypeOK, LiveListed, CountedStates
<1>3. r \in ConnType /\ r.st = s /\ r.obj \in Objects
  BY <1>1, <1>2 DEF ConnType
<1>4. ConnStep(c, r)
  BY <1>1, <1>3 DEF ConnStep, ProxyInv, TypeOK
<1>5. c \in Counted
  BY DEF Counted, CountedStates
<1>6. Counted' = Counted \ {c} /\ Admitted' = Admitted \ {c}
  BY <1>3, <1>4, ConnStepSets DEF CountedStates, AdmittedStates, ProxyInv
<1>7. Cardinality(Counted') = Cardinality(Counted) - 1
  BY <1>5, <1>6, CountedFinite, FS_RemoveElement
<1>8. Cardinality(Admitted') <= Cardinality(Admitted) /\ Cardinality(Admitted') \in Nat
  BY <1>6, CountedFinite, FS_Subset, FS_CardinalityType
<1>9. Cardinality(Counted') \in Nat
  BY <1>6, CountedFinite, FS_Subset, FS_CardinalityType
<1>10. conns' = Cardinality(Counted')
  BY <1>7 DEF ProxyInv, CountsExact
<1>11. CtlInv'
  BY <1>3, <1>4, <1>9, <1>10, ConnStepKeeps DEF ProxyInv, CtlInv
<1>12. CountsExact'
  BY <1>8, <1>10, CountedFinite, MaxConnsAssumption DEF ProxyInv, CountsExact
<1> QED
  BY <1>11, <1>12 DEF ProxyInv, CtlInv

\* A handler that returns leaves both counts to its deferred calls, and the
\* last of these touches neither.
LEMMA EndKeeps ==
  ASSUME ProxyInv, NEW c \in Conns,
         \/ conn[c].st \in {"dial", "proxy"} /\ Ended(c)
         \/ Done(c)
  PROVE  ProxyInv'
<1> DEFINE s == IF conn[c].st = "uncounted" THEN "closed" ELSE "ended"
<1>1. PICK r : r = [conn[c] EXCEPT !.st = s]
  OBVIOUS
<1>2. conn[c] \in ConnType /\ conn[c].obj \in Objects
  BY DEF ProxyInv, TypeOK, LiveListed, Done
<1>3. r \in ConnType /\ r.st = s /\ r.obj \in Objects
  BY <1>1, <1>2 DEF ConnType
<1>4. ConnStep(c, r) /\ conns' = conns
  BY <1>1, <1>3 DEF Ended, Done, ConnStep, ProxyInv, TypeOK
<1>5. c \in Counted <=> r.st \in CountedStates
  BY <1>3 DEF Done, Counted, CountedStates
<1>6. c \in Admitted <=> r.st \in AdmittedStates
  BY <1>3 DEF Done, Admitted, AdmittedStates
<1>7. Counted' = Counted /\ Admitted' = Admitted
  BY <1>4, <1>5, <1>6, ConnStepSets DEF ProxyInv
<1>8. CtlInv'
  BY <1>3, <1>4, ConnStepKeeps DEF ProxyInv, CtlInv, TypeOK
<1> QED
  BY <1>4, <1>7, <1>8 DEF ProxyInv, CtlInv, CountsExact

\* A new connection is on neither count.
LEMMA AcceptKeeps ==
  ASSUME ProxyInv, NEW o \in Objects, NEW c \in Conns, Accept(o, c)
  PROVE  ProxyInv'
<1>1. PICK r : r = [st |-> "new", obj |-> o, backend |-> NoBackend]
  OBVIOUS
<1>2. r \in ConnType /\ r.st = "new" /\ r.obj \in Objects
  BY <1>1 DEF ConnType
<1>3. ConnStep(c, r)
  BY <1>1, <1>2 DEF Accept, ConnStep
<1>4. c \notin Counted /\ c \notin Admitted
  BY DEF Accept, Counted, Admitted
<1>5. Counted' = Counted /\ Admitted' = Admitted
  BY <1>2, <1>3, <1>4, ConnStepSets DEF CountedStates, AdmittedStates, ProxyInv
<1>6. CtlInv'
  BY <1>2, <1>3, ConnStepKeeps DEF ProxyInv, CtlInv, TypeOK, Accept
<1> QED
  BY <1>5, <1>6 DEF ProxyInv, CtlInv, CountsExact, Accept

\* A connection is let in only when the count, its own included, is within
\* the limit.
LEMMA CountKeeps ==
  ASSUME ProxyInv, NEW c \in Conns, Count(c)
  PROVE  ProxyInv'
<1> DEFINE s == IF conns + 1 > MaxConns THEN "excess" ELSE "counted"
<1>1. PICK r : r = [conn[c] EXCEPT !.st = s]
  OBVIOUS
<1>2. conn[c] \in ConnType /\ conn[c].obj \in Objects /\ conn[c].st = "new"
  BY DEF ProxyInv, TypeOK, LiveListed, Count
<1>3. r \in ConnType /\ r.st = s /\ r.obj \in Objects
  BY <1>1, <1>2 DEF ConnType
<1>4. ConnStep(c, r)
  BY <1>1, <1>3 DEF Count, ConnStep, ProxyInv, TypeOK
<1>5. c \notin Counted /\ c \notin Admitted
  BY <1>2 DEF Counted, Admitted
<1>6. Counted' = Counted \cup {c}
  BY <1>3, <1>4, ConnStepSets DEF CountedStates, ProxyInv
<1>7. Cardinality(Counted') = Cardinality(Counted) + 1
  BY <1>5, <1>6, CountedFinite, FS_AddElement
<1>8. conns' = Cardinality(Counted') /\ conns' \in Nat
  BY <1>7, CountedFinite DEF Count, ProxyInv, CountsExact
<1>9. CtlInv'
  BY <1>3, <1>4, <1>8, ConnStepKeeps DEF ProxyInv, CtlInv
<1>10. Cardinality(Admitted') <= MaxConns
  <2>1. CASE conns + 1 > MaxConns
    <3>1. Admitted' = Admitted
      BY <1>3, <1>4, <1>5, <2>1, ConnStepSets DEF AdmittedStates, ProxyInv
    <3> QED
      BY <3>1 DEF ProxyInv, CountsExact
  <2>2. CASE ~(conns + 1 > MaxConns)
    <3>1. Admitted' = Admitted \cup {c}
      BY <1>3, <1>4, <2>2, ConnStepSets DEF AdmittedStates, ProxyInv
    <3>2. Cardinality(Admitted') = Cardinality(Admitted) + 1
      BY <3>1, <1>5, CountedFinite, FS_AddElement
    <3> QED
      BY <3>2, <2>2, CountedFinite, MaxConnsAssumption DEF ProxyInv, CountsExact, TypeOK
  <2> QED
    BY <2>1, <2>2
<1> QED
  BY <1>8, <1>9, <1>10 DEF ProxyInv, CtlInv, CountsExact

\* The handler takes over a connection that was let in.
LEMMA HandleKeeps ==
  ASSUME ProxyInv, NEW c \in Conns, Handle(c)
  PROVE  ProxyInv'
<1> DEFINE b == obj[conn[c].obj].backend
<1>1. PICK q : q = [conn[c] EXCEPT !.st = "dial"]
  OBVIOUS
<1>2. PICK r : r = [q EXCEPT !.backend = b]
  OBVIOUS
<1>3. conn[c] \in ConnType /\ conn[c].obj \in Objects /\ conn[c].st = "counted"
  BY DEF ProxyInv, TypeOK, LiveListed, Handle
<1>4. b \in Backends \cup {NoBackend}
  BY <1>3 DEF ProxyInv, TypeOK, ObjectType
<1>5. q \in ConnType /\ q.st = "dial" /\ q.obj \in Objects
  BY <1>1, <1>3 DEF ConnType
<1>6. r \in ConnType /\ r.st = "dial" /\ r.obj \in Objects
  BY <1>2, <1>4, <1>5 DEF ConnType
<1>7. conn' = [conn EXCEPT ![c] = r]
  BY <1>1, <1>2 DEF Handle, ProxyInv, TypeOK
<1>8. ConnStep(c, r)
  BY <1>6, <1>7 DEF Handle, ConnStep
<1>9. c \in Counted /\ c \in Admitted
  BY <1>3 DEF Counted, Admitted
<1>10. Counted' = Counted /\ Admitted' = Admitted
  BY <1>6, <1>8, <1>9, ConnStepSets DEF CountedStates, AdmittedStates, ProxyInv
<1>11. CtlInv'
  BY <1>6, <1>8, ConnStepKeeps DEF ProxyInv, CtlInv, TypeOK, Handle
<1> QED
  BY <1>10, <1>11 DEF ProxyInv, CtlInv, CountsExact, Handle

\* A dial succeeds only under a live context, so before Shutdown.
LEMMA DialKeeps ==
  ASSUME ProxyInv, NEW c \in Conns, Dial(c)
  PROVE  ProxyInv'
<1>1. PICK r : r = [conn[c] EXCEPT !.st = "proxy"]
  OBVIOUS
<1>2. conn[c] \in ConnType /\ conn[c].obj \in Objects /\ conn[c].st = "dial"
  BY DEF ProxyInv, TypeOK, LiveListed, Dial
<1>3. r \in ConnType /\ r.st = "proxy" /\ r.obj \in Objects
  BY <1>1, <1>2 DEF ConnType
<1>4. ConnStep(c, r)
  BY <1>1, <1>3 DEF Dial, ConnStep, ProxyInv, TypeOK
<1>5. c \in Counted /\ c \in Admitted
  BY <1>2 DEF Counted, Admitted
<1>6. Counted' = Counted /\ Admitted' = Admitted
  BY <1>3, <1>4, <1>5, ConnStepSets DEF CountedStates, AdmittedStates, ProxyInv
<1>7. spc = "idle"
  BY <1>2 DEF ProxyInv, ShutdownReaches, Dial, Live
<1>8. CtlInv'
  BY <1>3, <1>4, <1>7, ConnStepKeeps DEF ProxyInv, CtlInv, TypeOK, Dial
<1> QED
  BY <1>6, <1>8 DEF ProxyInv, CtlInv, CountsExact, Dial

-----------------------------------------------------------------------------
\* The invariant.

\* The empty manager satisfies it.
LEMMA ProxyInvInit == Init => ProxyInv
<1> SUFFICES ASSUME Init PROVE ProxyInv
  OBVIOUS
<1>1. TypeOK
  BY UnusedTypes DEF Init, TypeOK
<1>2. LiveListed /\ ShutdownReaches
  BY UnusedTypes DEF Init, LiveListed, ShutdownReaches, NoConn
<1>3. Counted = {} /\ Admitted = {}
  BY DEF Init, Counted, Admitted, NoConn
<1>4. CountsExact
  BY <1>3, FS_EmptySet, MaxConnsAssumption DEF Init, CountsExact
<1> QED
  BY <1>1, <1>2, <1>4 DEF ProxyInv

\* Every step keeps it.
LEMMA ProxyInvNext == ProxyInv /\ [Next]_vars => ProxyInv'
<1> SUFFICES ASSUME ProxyInv, [Next]_vars PROVE ProxyInv'
  OBVIOUS
<1>1. ASSUME UNCHANGED <<conn, conns>> PROVE CountsExact'
  BY <1>1 DEF ProxyInv, CountsExact, Counted, Admitted
<1>2. CASE Reconcile
  <2>1. UNCHANGED <<conn, conns>>
    BY <1>2 DEF Reconcile, ReconcileCall, ReconcileLock, StopWaited,
       ReconcileReturn, StopStale, UpdateBackend, StartListener
  <2> QED
    BY <1>1, <1>2, <2>1, ReconcileKeeps DEF ProxyInv, CtlInv
<1>3. CASE Shutdown
  <2>1. UNCHANGED <<conn, conns>>
    BY <1>3 DEF Shutdown, ShutdownSwap, ShutdownCloseAll, ShutdownDrained,
       ShutdownTimeout
  <2> QED
    BY <1>1, <1>3, <2>1, ShutdownKeeps DEF ProxyInv, CtlInv
<1>4. ASSUME NEW o \in Objects, AcceptClosed(o) \/ AcceptError(o) PROVE ProxyInv'
  <2>1. UNCHANGED <<conn, conns>>
    BY <1>4 DEF AcceptClosed, AcceptError
  <2> QED
    BY <1>1, <1>4, <2>1, LoopEndKeeps DEF ProxyInv, CtlInv
<1>5. ASSUME NEW o \in Objects, NEW c \in Conns, Accept(o, c) PROVE ProxyInv'
  BY <1>5, AcceptKeeps
<1>6. ASSUME NEW c \in Conns, Handler(c) PROVE ProxyInv'
  <2>1. CASE Count(c)
    BY <2>1, CountKeeps
  <2>2. CASE Handle(c)
    BY <2>2, HandleKeeps
  <2>3. CASE Refuse(c)
    BY <2>3, LeaveKeeps DEF Refuse, CountedStates
  <2>4. CASE Uncount(c)
    BY <2>4, LeaveKeeps DEF Uncount, CountedStates
  <2>5. CASE DialFails(c) \/ Cut(c) \/ Done(c)
    BY <2>5, EndKeeps DEF DialFails, Cut
  <2> QED
    BY <1>6, <2>1, <2>2, <2>3, <2>4, <2>5 DEF Handler
<1>7. ASSUME NEW c \in Conns, Dial(c) PROVE ProxyInv'
  BY <1>7, DialKeeps
<1>8. ASSUME NEW c \in Conns, Finish(c) PROVE ProxyInv'
  BY <1>8, EndKeeps DEF Finish
<1>9. CASE UNCHANGED vars
  BY <1>9 DEF vars, ProxyInv, TypeOK, LiveListed, ShutdownReaches, CountsExact,
     Counted, Admitted
<1> QED
  BY <1>2, <1>3, <1>4, <1>5, <1>6, <1>7, <1>8, <1>9 DEF Next

\* The inductive invariant holds in every reachable state.
LEMMA ProxyInvariant == Spec => []ProxyInv
BY ProxyInvInit, ProxyInvNext, PTL DEF Spec

-----------------------------------------------------------------------------
\* Results.

\* Every variable of the manager keeps its type; m.conns never goes below
\* zero.
THEOREM ProxyTypeCorrect == Spec => []TypeOK
<1>1. ProxyInv => TypeOK
  BY DEF ProxyInv
<1> QED
  BY <1>1, ProxyInvariant, PTL

\* proxy.max_conns bounds the connections that are handled, and m.conns is
\* exact, however accept loops, handlers, Reconcile and Shutdown interleave.
THEOREM ProxyConnsBounded == Spec => []ConnsBounded
<1>1. ProxyInv => ConnsBounded
  BY CountedFinite, MaxConnsAssumption DEF ProxyInv, CountsExact, ConnsBounded
<1> QED
  BY <1>1, ProxyInvariant, PTL

\* Cancelling a listener, or all of them, reaches every connection: one that
\* outlives its entry in the map has a cancelled context, and none is proxied
\* after Shutdown returned without an error.
THEOREM ProxyCancelReachesConns == Spec => []CancelReachesConns
<1>1. ProxyInv => CancelReachesConns
  BY DEF ProxyInv, LiveListed, ShutdownReaches, CancelReachesConns, Active, Live
<1> QED
  BY <1>1, ProxyInvariant, PTL
=============================================================================
