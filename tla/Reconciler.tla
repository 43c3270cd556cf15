----------------------------- MODULE Reconciler -----------------------------
(***************************************************************************)
(* The reconcile pass of the stacklane daemon: Engine.reconcileOnce,       *)
(* BuildDesired and apply, run against a changing set of containers, a     *)
(* state file, a wall clock, and crashes and restarts of the daemon.       *)
(*                                                                         *)
(* One pass is                                                             *)
(*   Begin -> Load -> List -> Allocate* -> Save -> SetRecords ->           *)
(*   ProxyReconcile -> Publish                                             *)
(* and Load, List and Save may fail.  When a pass begins (startup, event,  *)
(* tick, debounce) is the business of EngineLoop; here one may always      *)
(* begin.                                                                  *)
(***************************************************************************)
EXTENDS Leases, Names, FiniteSets

CONSTANTS
  Containers,       \* every container that can run, see Names
  Pools,            \* the vip.pool values the daemon may be started with
  InitDisks,        \* the lease tables state.json may hold at first
  MaxTime,          \* bound on the clock
  MaxCrashes,       \* bound on daemon stops
  MaxFlips,         \* bound on container starts and stops
  KeyLess(_, _)     \* string order of stack keys

VARIABLES
  clock,      \* wall clock (Deps.Now and the allocator's clock)
  running,    \* the containers Docker runs
  flips,      \* container starts and stops so far
  disk,       \* leases in state.json; a missing file is {}
  crashes,    \* daemon stops so far
  pool,       \* usable VIPs of the running daemon
  pc,         \* where reconcileOnce is; "down" when there is no daemon
  now,        \* the pass's timestamp
  snap,       \* the pass's lease snapshot
  winners,    \* containers the pass publishes
  todo,       \* stack keys BuildDesired has yet to allocate
  stacks,     \* desired.Stacks: set of [key, vip]
  dns,        \* the DNS server's A records: set of [name, vip]
  listeners,  \* the proxy's listeners: set of [vip, port, bind]
  status      \* the snapshot /status and /resolve read

envVars  == <<clock, running, flips>>
passVars == <<now, snap, winners, todo, stacks>>
outVars  == <<dns, listeners, status>>
vars == <<clock, running, flips, disk, crashes, pool, pc, now, snap,
          winners, todo, stacks, dns, listeners, status>>

Keys == {KeyOf(c) : c \in Containers} \cup
        (UNION {{l.key : l \in d} : d \in InitDisks})
Vips == (UNION Pools) \cup (UNION {{l.vip : l \in d} : d \in InitDisks})

ASSUME ContainersAssumption == IsContainerSet(Containers)
ASSUME PoolsAssumption      == Pools # {} /\ \A p \in Pools : p \subseteq Nat
ASSUME InitDisksAssumption  ==
  \A d \in InitDisks : /\ d \subseteq Lease(Keys, Nat)
                       /\ validateSnapshot(d)
ASSUME BoundsAssumption ==
  /\ MaxTime \in Nat
  /\ MaxCrashes \in Nat
  /\ MaxFlips \in Nat

EndpointNames == {EndpointFQDN(c) : c \in Containers}

ASSUME NameLessAssumption ==
  \A m, n \in EndpointNames : m = n \/ NameLess(m, n) \/ NameLess(n, m)

\* The DNS names that stack k can have: its apex and its endpoints.
NamesOf(k) ==
  {StackFQDN(k)} \cup
  {EndpointFQDN(c) : c \in {d \in Containers : KeyOf(d) = k}}

DnsNames == UNION {NamesOf(k) : k \in Keys}

Stages == {"down", "idle", "load", "list", "alloc", "dns", "proxy", "publish"}

StackEntry == [key : Keys, vip : Vips]

-----------------------------------------------------------------------------
\* Desired state and what is built from it.

\* The containers whose labels parse and whose port is bound to loopback.
Candidates(inventory) == {c \in inventory : c.valid}

\* Of the candidates that claim one map key the smallest ID wins.
Winners(inventory) ==
  {c \in Candidates(inventory) :
     \A d \in Candidates(inventory) :
       EndpointMapKey(d) = EndpointMapKey(c) => c.id <= d.id}

\* Fault: an endpoint takes the VIP of any stack of the pass.
EndpointsAnyStack(ws, st) ==
  {[name |-> EndpointFQDN(p[1]), port |-> p[1].port, bind |-> p[1].bind,
    vip |-> p[2].vip] : p \in ws \X st}

\* desired.Endpoints: the winners whose stack was given a VIP.
Endpoints(ws, st) ==
  {[name |-> EndpointFQDN(p[1]), port |-> p[1].port, bind |-> p[1].bind,
    vip |-> p[2].vip] : p \in {q \in ws \X st : KeyOf(q[1]) = q[2].key}}

StackRecords(st) == {[name |-> StackFQDN(s.key), vip |-> s.vip] : s \in st}

EndpointRecords(eps) == {[name |-> e.name, vip |-> e.vip] : e \in eps}

Shadowed(recs, by) == {r \in recs : \E s \in by : s.name = r.name}

\* Stack names are published first and an endpoint never replaces one.
buildDNSRecords(ws, st) ==
  LET apex == StackRecords(st)
      eps  == EndpointRecords(Endpoints(ws, st))
  IN  apex \cup (eps \ Shadowed(eps, apex))

\* The resolve map is filled with stacks first, and endpoints overwrite.
ResolveMap(ws, st) ==
  LET apex == StackRecords(st)
      eps  == EndpointRecords(Endpoints(ws, st))
  IN  (apex \ Shadowed(apex, eps)) \cup eps

StatusStacks(st, leases) ==
  {[key |-> s.key, vip |-> s.vip, lease |-> "active"] : s \in st} \cup
  {[key |-> l.key, vip |-> l.vip, lease |-> "grace"] :
     l \in {m \in leases : \A s \in st : s.key # m.key}}

buildStatusSnapshot(ws, st, leases) ==
  [stacks |-> StatusStacks(st, leases), endpoints |-> Endpoints(ws, st),
   resolve |-> ResolveMap(ws, st)]

Starting == [stacks |-> {}, endpoints |-> {}, resolve |-> {}]

\* The listener each VIP and port is to have: endpoints are sorted by name
\* and a later one overwrites an earlier one with the same listener key.
DesiredListeners(eps) ==
  {[vip |-> e.vip, port |-> e.port, bind |-> e.bind] :
     e \in {f \in eps : \A g \in eps :
              g.vip = f.vip /\ g.port = f.port => ~NameLess(f.name, g.name)}}

SameSocket(l, m) == l.vip = m.vip /\ l.port = m.port

\* Listeners that Proxy.Reconcile has to open; each may fail to bind.
Unopened(want, open) == {l \in want : \A m \in open : ~SameSocket(l, m)}

-----------------------------------------------------------------------------
Init ==
  /\ clock = Second
  /\ running = {} /\ flips = 0
  /\ disk \in InitDisks
  /\ crashes = 0
  /\ pool \in Pools
  /\ pc = "idle"
  /\ now = 0 /\ snap = {} /\ winners = {} /\ todo = {} /\ stacks = {}
  /\ dns = {} /\ listeners = {} /\ status = Starting

\* Environment: the clock, Docker, and the fate of the daemon's process.

Tick ==
  /\ clock < MaxTime
  /\ clock' = clock + 1
  /\ UNCHANGED <<running, flips, disk, crashes, pool, pc>>
  /\ UNCHANGED passVars /\ UNCHANGED outVars

StartContainer(c) ==
  /\ flips < MaxFlips
  /\ \A d \in running : d.id # c.id
  /\ running' = running \cup {c}
  /\ flips' = flips + 1
  /\ UNCHANGED <<clock, disk, crashes, pool, pc>>
  /\ UNCHANGED passVars /\ UNCHANGED outVars

StopContainer(c) ==
  /\ flips < MaxFlips
  /\ c \in running
  /\ running' = running \ {c}
  /\ flips' = flips + 1
  /\ UNCHANGED <<clock, disk, crashes, pool, pc>>
  /\ UNCHANGED passVars /\ UNCHANGED outVars

ClearPass ==
  now' = 0 /\ snap' = {} /\ winners' = {} /\ todo' = {} /\ stacks' = {}

\* The process ends, at any point of a pass: only state.json survives.
Crash ==
  /\ pc # "down" /\ crashes < MaxCrashes
  /\ crashes' = crashes + 1
  /\ pc' = "down"
  /\ dns' = {} /\ listeners' = {} /\ status' = Starting
  /\ ClearPass
  /\ UNCHANGED envVars /\ UNCHANGED <<disk, pool>>

\* The daemon comes back, perhaps with another vip.pool in its config.
Restart ==
  /\ pc = "down"
  /\ pool' \in Pools
  /\ pc' = "idle"
  /\ UNCHANGED envVars /\ UNCHANGED passVars /\ UNCHANGED outVars
  /\ UNCHANGED <<disk, crashes>>

-----------------------------------------------------------------------------
\* The pass.

Begin ==
  /\ pc = "idle"
  /\ now' = clock
  /\ pc' = "load"
  /\ UNCHANGED envVars /\ UNCHANGED outVars
  /\ UNCHANGED <<disk, crashes, pool, snap, winners, todo, stacks>>

Load ==
  /\ pc = "load"
  /\ snap' = disk
  /\ pc' = "list"
  /\ UNCHANGED envVars /\ UNCHANGED outVars
  /\ UNCHANGED <<disk, crashes, pool, now, winners, todo, stacks>>

\* Load or ListRunning returns an error: the pass is abandoned.
AbandonPass ==
  /\ pc \in {"load", "list"}
  /\ pc' = "idle"
  /\ ClearPass
  /\ UNCHANGED envVars /\ UNCHANGED outVars
  /\ UNCHANGED <<disk, crashes, pool>>

\* ListRunning answers; expired leases go before any VIP is allocated.
List ==
  /\ pc = "list"
  /\ winners' = Winners(running)
  /\ todo' = {KeyOf(c) : c \in Winners(running)}
  /\ snap' = ReleaseExpired(snap, now)
  /\ pc' = "alloc"
  /\ UNCHANGED envVars /\ UNCHANGED outVars
  /\ UNCHANGED <<disk, crashes, pool, now, stacks>>

\* BuildDesired takes the winners in the order of their stack keys, so one
\* step stands for all winners of a stack: the calls after the first find
\* the lease the first one left, or fail as it did.
NextKey(k) == k \in todo /\ \A j \in todo : j = k \/ KeyLess(k, j)

AllocateReuse(k, l) ==
  /\ pc = "alloc" /\ NextKey(k)
  /\ l \in Reusable(snap, k, pool)
  /\ stacks' = stacks \cup {[key |-> k, vip |-> l.vip]}
  /\ todo' = todo \ {k}
  /\ UNCHANGED envVars /\ UNCHANGED outVars
  /\ UNCHANGED <<disk, crashes, pool, pc, now, snap, winners>>

AllocateFresh(k, v) ==
  /\ pc = "alloc" /\ NextKey(k)
  /\ Reusable(snap, k, pool) = {}
  /\ FirstFree(Dropped(snap, k), pool, v)
  /\ snap' = Dropped(snap, k) \cup {NewLease(k, v, clock)}
  /\ stacks' = stacks \cup {[key |-> k, vip |-> v]}
  /\ todo' = todo \ {k}
  /\ UNCHANGED envVars /\ UNCHANGED outVars
  /\ UNCHANGED <<disk, crashes, pool, pc, now, winners>>

\* ErrPoolExhausted: the stack is skipped, its unusable lease is gone.
AllocateExhausted(k) ==
  /\ pc = "alloc" /\ NextKey(k)
  /\ Reusable(snap, k, pool) = {}
  /\ Free(Dropped(snap, k), pool) = {}
  /\ snap' = Dropped(snap, k)
  /\ todo' = todo \ {k}
  /\ UNCHANGED envVars /\ UNCHANGED outVars
  /\ UNCHANGED <<disk, crashes, pool, pc, now, winners, stacks>>

ActiveKeys == {s.key : s \in stacks}

\* The leases as BuildDesired leaves them.
BuiltSnap == touchActiveLeases(snap, ActiveKeys, now)

Save ==
  /\ pc = "alloc" /\ todo = {}
  /\ validateSnapshot(BuiltSnap)
  /\ snap' = BuiltSnap
  /\ disk' = toFileSnapshot(BuiltSnap)
  /\ pc' = "dns"
  /\ UNCHANGED envVars /\ UNCHANGED outVars
  /\ UNCHANGED <<crashes, pool, now, winners, todo, stacks>>

\* Fault: a failed Save is logged and the pass goes on.
SaveErrorIgnored ==
  /\ pc = "alloc" /\ todo = {}
  /\ snap' = BuiltSnap
  /\ pc' = "dns"
  /\ UNCHANGED envVars /\ UNCHANGED outVars
  /\ UNCHANGED <<disk, crashes, pool, now, winners, todo, stacks>>

\* Save fails: nothing is advertised, but the status is rebuilt all the same.
SaveFails ==
  /\ pc = "alloc" /\ todo = {}
  /\ status' = buildStatusSnapshot(winners, stacks, BuiltSnap)
  /\ pc' = "idle"
  /\ ClearPass
  /\ UNCHANGED envVars
  /\ UNCHANGED <<disk, crashes, pool, dns, listeners>>

\* Fault: an empty desired state does not reach the DNS server.
SetRecordsUnlessEmpty ==
  /\ pc = "dns"
  /\ dns' = IF stacks = {} THEN dns ELSE buildDNSRecords(winners, stacks)
  /\ pc' = "proxy"
  /\ UNCHANGED envVars /\ UNCHANGED passVars
  /\ UNCHANGED <<disk, crashes, pool, listeners, status>>

SetRecords ==
  /\ pc = "dns"
  /\ dns' = buildDNSRecords(winners, stacks)
  /\ pc' = "proxy"
  /\ UNCHANGED envVars /\ UNCHANGED passVars
  /\ UNCHANGED <<disk, crashes, pool, listeners, status>>

WantedListeners == DesiredListeners(Endpoints(winners, stacks))

\* Fault: an open listener keeps its old backend.
ProxyKeepsBackend(failed) ==
  /\ pc = "proxy"
  /\ failed \subseteq Unopened(WantedListeners, listeners)
  /\ listeners' =
       {l \in listeners : \E m \in WantedListeners : SameSocket(l, m)} \cup
       (Unopened(WantedListeners, listeners) \ failed)
  /\ pc' = "publish"
  /\ UNCHANGED envVars /\ UNCHANGED passVars
  /\ UNCHANGED <<disk, crashes, pool, dns, status>>

\* Proxy.Reconcile: close what is not wanted, repoint what is open, open the
\* rest; the sockets in failed could not be bound and wait for a later pass.
ProxyReconcile(failed) ==
  /\ pc = "proxy"
  /\ failed \subseteq Unopened(WantedListeners, listeners)
  /\ listeners' = WantedListeners \ failed
  /\ pc' = "publish"
  /\ UNCHANGED envVars /\ UNCHANGED passVars
  /\ UNCHANGED <<disk, crashes, pool, dns, status>>

Publish ==
  /\ pc = "publish"
  /\ status' = buildStatusSnapshot(winners, stacks, snap)
  /\ pc' = "idle"
  /\ ClearPass
  /\ UNCHANGED envVars
  /\ UNCHANGED <<disk, crashes, pool, dns, listeners>>

Allocate ==
  \E k \in todo :
    \/ \E l \in Reusable(snap, k, pool) : AllocateReuse(k, l)
    \/ \E v \in Free(Dropped(snap, k), pool) : AllocateFresh(k, v)
    \/ AllocateExhausted(k)

Next ==
  \/ Tick
  \/ \E c \in Containers : StartContainer(c) \/ StopContainer(c)
  \/ Crash \/ Restart
  \/ Begin \/ Load \/ List \/ AbandonPass
  \/ Allocate
  \/ Save \/ SaveFails \/ SetRecords
  \/ \E failed \in SUBSET WantedListeners : ProxyReconcile(failed)
  \/ Publish

Spec == Init /\ [][Next]_vars

\* The engine's goroutine keeps running and a supervisor restarts the daemon
\* (WF); errors of the file system, of Docker and of bind are transient (SF).
Fairness ==
  /\ WF_vars(Restart) /\ WF_vars(Begin) /\ WF_vars(Allocate)
  /\ WF_vars(SetRecords) /\ WF_vars(Publish)
  /\ SF_vars(Load) /\ SF_vars(List) /\ SF_vars(Save)
  /\ WF_vars(\E failed \in SUBSET WantedListeners : ProxyReconcile(failed))
  /\ SF_vars(ProxyReconcile({}))

FairSpec == Spec /\ Fairness

-----------------------------------------------------------------------------
\* Properties.

StatusType ==
  [stacks : SUBSET [key : Keys, vip : Vips, lease : {"active", "grace"}],
   endpoints : SUBSET [name : EndpointNames, port : Nat, bind : Nat,
                       vip : Vips],
   resolve : SUBSET [name : DnsNames, vip : Vips]]

\* Every variable has its type.
TypeOK ==
  /\ clock \in Nat /\ flips \in Nat /\ crashes \in Nat
  /\ running \subseteq Containers
  /\ disk \subseteq Lease(Keys, Vips)
  /\ pool \in Pools
  /\ pc \in Stages
  /\ now \in Nat
  /\ snap \subseteq Lease(Keys, Vips)
  /\ winners \subseteq Containers
  /\ todo \subseteq Keys
  /\ stacks \subseteq StackEntry
  /\ dns \subseteq [name : DnsNames, vip : Vips]
  /\ listeners \subseteq [vip : Vips, port : Nat, bind : Nat]
  /\ status \in StatusType

\* Allocate, ReleaseExpired and touchActiveLeases never give a VIP to two
\* stacks or a stack two VIPs, so Save's validateSnapshot never refuses a
\* snapshot and Load never finds state.json corrupt.
LeasesUnique == validateSnapshot(disk) /\ validateSnapshot(snap)

\* "crash after advertise cannot lose durable VIP ownership" (apply): a DNS
\* record's VIP is leased in state.json to a stack that has that name, and a
\* listener's VIP to a stack with an endpoint on that port.  The exception
\* is the moment between Save and the two updates that follow it.
AdvertisedIsDurable ==
  /\ pc # "dns" =>
       \A r \in dns : \E l \in disk :
         l.vip = r.vip /\ r.name \in NamesOf(l.key)
  /\ pc \notin {"dns", "proxy"} =>
       \A s \in listeners : \E l \in disk : \E c \in Containers :
         /\ l.vip = s.vip /\ l.key = KeyOf(c)
         /\ s.port = c.port /\ s.bind = c.bind

\* A stack that has a live endpoint is left unserved by a pass only when
\* every address of the pool is leased to some other stack.
UnservedOnlyWhenFull ==
  pc \in {"dns", "proxy", "publish"} =>
    \A c \in winners :
      \/ KeyOf(c) \in ActiveKeys
      \/ \A v \in pool : \E l \in snap : l.vip = v /\ l.key # KeyOf(c)

\* Once SetRecords has run, a name resolves to one address: a stack's name to
\* the VIP of that stack, an endpoint's name to the VIP of its stack.  Endpoint
\* x of b and instance x of b have the same name; then it is the stack's
\* (BuildDesired, buildDNSRecords).
NamesResolveToStackVIP ==
  pc = "proxy" =>
    \A r \in dns, s \in stacks :
      /\ r.name = StackFQDN(s.key) => r.vip = s.vip
      /\ \A c \in winners : KeyOf(c) = s.key /\ r.name = EndpointFQDN(c) =>
           r.vip = s.vip \/ \E t \in stacks : r.name = StackFQDN(t.key)

\* Once Proxy.Reconcile has run, a connection to the VIP and public port of an
\* endpoint reaches its container or, as a socket serves one endpoint, that of
\* the same stack's endpoint with a later name on the same port.
EndpointsReachable ==
  pc = "publish" =>
    \A c \in winners, s \in stacks, l \in listeners :
      KeyOf(c) = s.key /\ l.vip = s.vip /\ l.port = c.port =>
        \E d \in winners :
          /\ KeyOf(d) = KeyOf(c) /\ d.port = c.port /\ l.bind = d.bind
          /\ d = c \/ NameLess(EndpointFQDN(c), EndpointFQDN(d))

\* The documented retention rule, on the times as state.json has them.
GraceOver(l, t) ==
  \/ l.active # 0 /\ t - l.active >= Grace
  \/ l.active = 0 /\ l.created # 0 /\ t - l.created >= Grace

\* A lease leaves state.json only when its grace has run out at the time of
\* the pass that drops it, or when its VIP is outside the configured pool;
\* crashes, restarts, failed passes and other stacks never take it.
NoEarlyRelease ==
  [][\A l \in disk :
       (\A m \in disk' : ~(m.key = l.key /\ m.vip = l.vip)) =>
         GraceOver(l, now) \/ l.vip \notin pool]_vars

\* "1 or more live valid endpoints: VIP lease kept": a pass that finds a
\* stack live leaves it the VIP it had.
LiveStackKeepsVIP ==
  [][\A l \in disk :
       l.key \in ActiveKeys /\ l.vip \in pool =>
         \E m \in disk' : m.key = l.key /\ m.vip = l.vip]_vars

Served ==
  /\ {r.name : r \in dns} =
       {EndpointFQDN(c) : c \in Winners(running)} \cup
       {StackFQDN(KeyOf(c)) : c \in Winners(running)}
  /\ {l.bind : l \in listeners} = {c.bind : c \in Winners(running)}
  /\ {e.bind : e \in status.endpoints} = {c.bind : c \in Winners(running)}

\* Once containers stop changing and the daemon stays up, DNS, proxy and
\* status settle on exactly the running containers, whatever was lost before.
Converges == <>[]Served
=============================================================================
