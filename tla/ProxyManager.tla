---------------------------- MODULE ProxyManager ----------------------------
(***************************************************************************)
(* The TCP proxy manager: internal/proxy/manager.go, and what handleProxy  *)
(* (internal/proxy/tcp.go) does when a connection ends or is cancelled.    *)
(*                                                                         *)
(* Goroutines that interleave: the engine's call of Reconcile, the call of *)
(* Shutdown on daemon exit, one accept loop per listener object, one       *)
(* handler per connection.  A listener object is a managedListener: it     *)
(* outlives its entry in the listeners map.                                *)
(***************************************************************************)
EXTENDS Integers, FiniteSets

CONSTANTS
  Sockets,        \* listener keys: VIP, port and protocol
  Backends,       \* host ports of containers
  Objects,        \* identities of listener objects; bounds their number
  Conns,          \* client connections; bounds their number
  MaxConns        \* proxy.max_conns

ASSUME ObjectsAssumption  == Objects \subseteq Nat /\ IsFiniteSet(Objects)
ASSUME ConnsAssumption    == IsFiniteSet(Conns)
ASSUME MaxConnsAssumption == MaxConns \in Nat \ {0}

VARIABLES
  mu,        \* who holds m.mu across steps: "free" or "reconcile"
  rpc,       \* where Reconcile is: "idle", "want", "locked", "stopping"
  desired,   \* its desired map: a set of [sock, backend]
  spc,       \* where Shutdown is: "idle", "swapped", "wait", "ok", "timeout"
  shutting,  \* m.shutting
  listeners, \* m.listeners: a set of objects
  obj,       \* object -> [sock, open, live, loop, backend]
  conn,      \* connection -> [st, obj, backend]
  conns      \* m.conns, the count checked against MaxConns

vars == <<mu, rpc, desired, spc, shutting, listeners, obj, conn, conns>>
ctlVars == <<mu, rpc, desired, spc, shutting, listeners>>

NoObject == 0
NoBackend == 0

ASSUME BackendsAssumption == Backends \subseteq Nat \ {NoBackend}
ASSUME NoObjectAssumption == NoObject \notin Objects

Unused == [sock |-> "none", open |-> FALSE, live |-> FALSE,
           loop |-> "none", backend |-> NoBackend]
NoConn == [st |-> "none", obj |-> NoObject, backend |-> NoBackend]

Target == [sock : Sockets, backend : Backends]

\* Desired maps: at most one endpoint per listener key.
DesiredMaps ==
  {D \in SUBSET Target : \A d, e \in D : d.sock = e.sock => d = e}

Init ==
  /\ mu = "free" /\ rpc = "idle" /\ desired = {}
  /\ spc = "idle" /\ shutting = FALSE
  /\ listeners = {}
  /\ obj = [o \in Objects |-> Unused]
  /\ conn = [c \in Conns |-> NoConn]
  /\ conns = 0

-----------------------------------------------------------------------------
\* Reconcile.

\* The check of m.shutting comes before the lock is asked for.
ReconcileCall(D) ==
  /\ rpc = "idle" /\ ~shutting
  /\ rpc' = "want" /\ desired' = D
  /\ UNCHANGED <<mu, spc, shutting, listeners, obj, conn, conns>>

ReconcileLock ==
  /\ rpc = "want" /\ mu = "free"
  /\ mu' = "reconcile" /\ rpc' = "locked"
  /\ UNCHANGED <<desired, spc, shutting, listeners, obj, conn, conns>>

Stale == {o \in listeners : \A d \in desired : d.sock # obj[o].sock}

Stopped(b) == [b EXCEPT !.live = FALSE, !.open = FALSE]

\* Fault: the listener is closed and its context is not cancelled.
StopWithoutCancel(o) ==
  /\ rpc = "locked" /\ o \in Stale
  /\ obj' = [obj EXCEPT ![o].open = FALSE]
  /\ listeners' = listeners \ {o}
  /\ rpc' = "stopping"
  /\ UNCHANGED <<mu, desired, spc, shutting, conn, conns>>

\* stopListenerLocked: cancel, close, then wait for the accept loop.
StopStale(o) ==
  /\ rpc = "locked" /\ o \in Stale
  /\ obj' = [obj EXCEPT ![o] = Stopped(@)]
  /\ listeners' = listeners \ {o}
  /\ rpc' = "stopping"
  /\ UNCHANGED <<mu, desired, spc, shutting, conn, conns>>

\* The wait ends: the loop has exited, or the timeout has passed.
StopWaited ==
  /\ rpc = "stopping"
  /\ rpc' = "locked"
  /\ UNCHANGED <<mu, desired, spc, shutting, listeners, obj, conn, conns>>

Fresh(o) == obj[o] = Unused

NextObject(o) == Fresh(o) /\ \A p \in Objects : Fresh(p) => o <= p

ListenedTo == {obj[o].sock : o \in listeners}

\* A listener that is in the map gets the new backend.
UpdateBackend(o, d) ==
  /\ rpc = "locked" /\ Stale = {}
  /\ o \in listeners /\ obj[o].sock = d.sock /\ obj[o].backend # d.backend
  /\ obj' = [obj EXCEPT ![o].backend = d.backend]
  /\ UNCHANGED ctlVars /\ UNCHANGED <<conn, conns>>

\* startListenerLocked: bind, and start the accept loop.  The context is a
\* child of rootCtx, which Shutdown may have cancelled already.  A socket
\* that an older object still holds open cannot be bound.
StartListener(o, d) ==
  /\ rpc = "locked" /\ Stale = {}
  /\ d.sock \notin ListenedTo
  /\ NextObject(o)
  /\ \A p \in Objects : obj[p].open => obj[p].sock # d.sock
  /\ obj' = [obj EXCEPT ![o] = [sock |-> d.sock, open |-> TRUE,
                                live |-> ~shutting, loop |-> "accept",
                                backend |-> d.backend]]
  /\ listeners' = listeners \cup {o}
  /\ UNCHANGED <<mu, rpc, desired, spc, shutting, conn, conns>>

\* Every listener that Reconcile keeps has the wanted backend.
Repointed ==
  \A o \in listeners : \E d \in desired :
    d.sock = obj[o].sock /\ d.backend = obj[o].backend

\* Fault: Reconcile returns early on an error and keeps the lock.
ReturnLocked ==
  /\ rpc = "locked" /\ Stale = {} /\ Repointed
  /\ rpc' = "idle" /\ desired' = {}
  /\ mu' = IF {d \in desired : d.sock \notin ListenedTo} = {}
           THEN "free" ELSE mu
  /\ UNCHANGED <<spc, shutting, listeners, obj, conn, conns>>

\* Reconcile returns; the listeners that are missing could not be bound.
ReconcileReturn ==
  /\ rpc = "locked" /\ Stale = {} /\ Repointed
  /\ rpc' = "idle" /\ desired' = {} /\ mu' = "free"
  /\ UNCHANGED <<spc, shutting, listeners, obj, conn, conns>>

-----------------------------------------------------------------------------
\* Shutdown.

\* shutting.Swap(true) and cancelAll: every listener's context is cancelled.
\* Serve does not wait for the engine, so Reconcile may be anywhere.
ShutdownSwap ==
  /\ spc = "idle"
  /\ spc' = "swapped" /\ shutting' = TRUE
  /\ obj' = [o \in Objects |-> [obj[o] EXCEPT !.live = FALSE]]
  /\ UNCHANGED <<mu, rpc, desired, listeners, conn, conns>>

\* Under the lock: every listener in the map is closed and forgotten.
ShutdownCloseAll ==
  /\ spc = "swapped" /\ mu = "free"
  /\ spc' = "wait"
  /\ obj' = [o \in Objects |->
               IF o \in listeners THEN Stopped(obj[o]) ELSE obj[o]]
  /\ listeners' = {}
  /\ UNCHANGED <<mu, rpc, desired, shutting, conn, conns>>

\* The connections that m.active counts.
Active == {c \in Conns : conn[c].st \in {"dial", "proxy", "ended", "uncounted"}}

ShutdownDrained ==
  /\ spc = "wait" /\ Active = {}
  /\ spc' = "ok"
  /\ UNCHANGED <<mu, rpc, desired, shutting, listeners, obj, conn, conns>>

ShutdownTimeout ==
  /\ spc = "wait" /\ Active # {}
  /\ spc' = "timeout"
  /\ UNCHANGED <<mu, rpc, desired, shutting, listeners, obj, conn, conns>>

-----------------------------------------------------------------------------
\* acceptLoop of object o.

\* The loop is between Accept and the next Accept.
Busy(o) ==
  \E c \in Conns :
    conn[c].obj = o /\ conn[c].st \in {"new", "counted", "excess"}

Accept(o, c) ==
  /\ obj[o].loop = "accept" /\ obj[o].open /\ ~Busy(o)
  /\ conn[c].st = "none"
  /\ conn' = [conn EXCEPT ![c] = [st |-> "new", obj |-> o,
                                  backend |-> NoBackend]]
  /\ UNCHANGED ctlVars /\ UNCHANGED <<obj, conns>>

\* Accept fails because the listener was closed: the loop ends.
AcceptClosed(o) ==
  /\ obj[o].loop = "accept" /\ ~obj[o].open /\ ~Busy(o)
  /\ obj' = [obj EXCEPT ![o].loop = "exited"]
  /\ UNCHANGED ctlVars /\ UNCHANGED <<conn, conns>>

\* Accept fails on an open listener with an error that is no timeout (EMFILE
\* and such): the loop ends as well, and the object stays in the map.
AcceptError(o) ==
  /\ obj[o].loop = "accept" /\ obj[o].open /\ ~Busy(o)
  /\ obj' = [obj EXCEPT ![o].loop = "exited"]
  /\ UNCHANGED ctlVars /\ UNCHANGED <<conn, conns>>

\* Fault: the limit is off by one.
CountOffByOne(c) ==
  /\ conn[c].st = "new"
  /\ conns' = conns + 1
  /\ conn' = [conn EXCEPT ![c].st = IF conns > MaxConns THEN "excess"
                                    ELSE "counted"]
  /\ UNCHANGED ctlVars /\ UNCHANGED obj

\* m.conns.Add(1): over the limit the connection is only counted for the
\* moment it takes to close it.
Count(c) ==
  /\ conn[c].st = "new"
  /\ conns' = conns + 1
  /\ conn' = [conn EXCEPT ![c].st = IF conns + 1 > MaxConns THEN "excess"
                                    ELSE "counted"]
  /\ UNCHANGED ctlVars /\ UNCHANGED obj

Refuse(c) ==
  /\ conn[c].st = "excess"
  /\ conns' = conns - 1
  /\ conn' = [conn EXCEPT ![c].st = "closed"]
  /\ UNCHANGED ctlVars /\ UNCHANGED obj

\* The backend is read, m.active counts the connection, a handler starts.
Handle(c) ==
  /\ conn[c].st = "counted"
  /\ conn' = [conn EXCEPT ![c].st = "dial",
                          ![c].backend = obj[conn[c].obj].backend]
  /\ UNCHANGED ctlVars /\ UNCHANGED <<obj, conns>>

-----------------------------------------------------------------------------
\* handleConn of connection c.

Live(c) == obj[conn[c].obj].live

Dial(c) ==
  /\ conn[c].st = "dial" /\ Live(c)
  /\ conn' = [conn EXCEPT ![c].st = "proxy"]
  /\ UNCHANGED ctlVars /\ UNCHANGED <<obj, conns>>

\* handleConn returns, and the client's side is closed.
Ended(c) ==
  /\ conn' = [conn EXCEPT ![c].st = "ended"]
  /\ UNCHANGED ctlVars /\ UNCHANGED <<obj, conns>>

DialFails(c) == conn[c].st = "dial" /\ Ended(c)

\* Both directions have ended by themselves.
Finish(c) == conn[c].st = "proxy" /\ Ended(c)

\* Fault: handlers watch the daemon's context, not their listener's.
CutOnShutdown(c) == conn[c].st = "proxy" /\ shutting /\ Ended(c)

\* The context is cancelled: both sides are closed and the handler returns.
Cut(c) == conn[c].st = "proxy" /\ ~Live(c) /\ Ended(c)

\* The other deferred calls, in their order: m.conns.Add(-1), m.active.Done().
Uncount(c) ==
  /\ conn[c].st = "ended"
  /\ conns' = conns - 1
  /\ conn' = [conn EXCEPT ![c].st = "uncounted"]
  /\ UNCHANGED ctlVars /\ UNCHANGED obj

Done(c) ==
  /\ conn[c].st = "uncounted"
  /\ conn' = [conn EXCEPT ![c].st = "closed"]
  /\ UNCHANGED ctlVars /\ UNCHANGED <<obj, conns>>

Handler(c) ==
  \/ Count(c) \/ Refuse(c) \/ Handle(c)
  \/ DialFails(c) \/ Cut(c) \/ Uncount(c) \/ Done(c)

Reconcile ==
  \/ \E D \in DesiredMaps : ReconcileCall(D)
  \/ ReconcileLock \/ StopWaited \/ ReconcileReturn
  \/ \E o \in Objects : StopStale(o)
  \/ \E o \in Objects, d \in desired : UpdateBackend(o, d) \/ StartListener(o, d)

\* What Reconcile does once it has the lock.
ReconcileLocked ==
  \/ StopWaited \/ ReconcileReturn
  \/ \E o \in Objects : StopStale(o)
  \/ \E o \in Objects, d \in desired : UpdateBackend(o, d)

Shutdown ==
  ShutdownSwap \/ ShutdownCloseAll \/ ShutdownDrained \/ ShutdownTimeout

Next ==
  \/ Reconcile \/ Shutdown
  \/ \E o \in Objects : AcceptClosed(o) \/ AcceptError(o)
  \/ \E o \in Objects, c \in Conns : Accept(o, c)
  \/ \E c \in Conns : Handler(c) \/ Dial(c) \/ Finish(c)

\* Goroutines run.  Calls of Reconcile and Shutdown are up to the daemon, and
\* how long a connection lasts is up to its ends, as long as its context
\* lives.  The lock is a Go mutex, which starves nobody.
Fairness ==
  /\ WF_vars(ReconcileLocked) /\ SF_vars(ReconcileLock)
  /\ SF_vars(ShutdownCloseAll)
  /\ WF_vars(ShutdownDrained \/ ShutdownTimeout)
  /\ \A o \in Objects : WF_vars(AcceptClosed(o))
  /\ \A c \in Conns : WF_vars(Handler(c))

Spec == Init /\ [][Next]_vars /\ Fairness

-----------------------------------------------------------------------------
\* Properties.

ObjectType ==
  [sock : Sockets \cup {"none"}, open : BOOLEAN, live : BOOLEAN,
   loop : {"none", "accept", "exited"}, backend : Backends \cup {NoBackend}]

ConnType ==
  [st : {"none", "new", "counted", "excess", "dial", "proxy", "ended",
         "uncounted", "closed"},
   obj : Objects \cup {NoObject}, backend : Backends \cup {NoBackend}]

\* Every variable has its type; m.conns never goes below zero.
TypeOK ==
  /\ mu \in {"free", "reconcile"}
  /\ rpc \in {"idle", "want", "locked", "stopping"}
  /\ desired \subseteq Target
  /\ spc \in {"idle", "swapped", "wait", "ok", "timeout"}
  /\ shutting \in BOOLEAN
  /\ listeners \subseteq Objects
  /\ obj \in [Objects -> ObjectType]
  /\ conn \in [Conns -> ConnType]
  /\ conns \in Nat

\* The connections that m.conns counts.
Counted ==
  {c \in Conns : conn[c].st \in {"counted", "excess", "dial", "proxy", "ended"}}

\* The connections that a handler has and has not closed.
Handled == {c \in Conns : conn[c].st \in {"dial", "proxy"}}

\* "Max concurrent connections": never more than MaxConns are handled at a
\* time, however the accept loops of several listeners interleave, and the
\* count is exact, so that no sequence of refused, failed and finished
\* connections wears the limit down.
ConnsBounded ==
  /\ Cardinality(Handled) <= MaxConns
  /\ conns = Cardinality(Counted)

\* Removing an endpoint and "Shutdown ... cancels in-flight connections" reach
\* every connection, those that were being accepted included: one outlives
\* its listener's entry in the map only with a cancelled context, and nothing
\* is proxied once Shutdown has returned without an error.
CancelReachesConns ==
  /\ \A c \in Active : conn[c].obj \in listeners \/ ~Live(c)
  /\ spc = "ok" => \A c \in Conns : conn[c].st # "proxy"

\* Shutdown returns, whatever Reconcile is doing when it is called.
ShutdownReturns == (spc = "swapped") ~> (spc \in {"ok", "timeout"})

\* The connections of a removed listener come to an end.
RemovedConnsEnd ==
  \A c \in Conns :
    (c \in Active /\ conn[c].obj \notin listeners) ~> (c \notin Active)
=============================================================================
