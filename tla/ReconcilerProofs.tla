-------------------------- MODULE ReconcilerProofs --------------------------
(***************************************************************************)
(* Proofs about Reconciler, for every set of containers, every pool, every *)
(* initial state file and every bound.                                     *)
(***************************************************************************)
EXTENDS Reconciler, TLAPS

USE DEF Lease

-----------------------------------------------------------------------------
\* Facts about the operators.

\* Cutting a time to whole seconds yields a time that is not later.
LEMMA FormatTimeNat ==
  ASSUME NEW t \in Nat PROVE formatTime(t) \in Nat /\ formatTime(t) <= t
<1>1. Second \in Nat /\ Second > 0
  BY SecondAssumption
<1>2. t % Second \in 0 .. (Second - 1) /\ t = Second * (t \div Second) + (t % Second)
  BY <1>1
<1>3. t \div Second \in Nat
  BY <1>1
<1>4. Second * (t \div Second) \in Nat
  BY <1>1, <1>3
<1> QED BY <1>2, <1>4 DEF formatTime

\* What Save writes is a set of leases with the same keys and VIPs.
LEMMA StoredType ==
  ASSUME NEW K, NEW V, NEW l \in Lease(K, V)
  PROVE  /\ Stored(l) \in Lease(K, V)
         /\ Stored(l).key = l.key /\ Stored(l).vip = l.vip
BY FormatTimeNat DEF Stored

\* touchActiveLeases changes no key and no VIP.
LEMMA TouchedType ==
  ASSUME NEW K, NEW V, NEW l \in Lease(K, V), NEW S, NEW t \in Nat
  PROVE  /\ Touched(l, S, t) \in Lease(K, V)
         /\ Touched(l, S, t).key = l.key /\ Touched(l, S, t).vip = l.vip
BY DEF Touched

\* The container and pool constants have the types the model relies on.
LEMMA ConstantTypes ==
  /\ \A c \in Containers : c.id \in Nat /\ c.port \in Nat /\ c.bind \in Nat
  /\ \A c \in Containers : KeyOf(c) \in Keys
  /\ \A p \in Pools : p \subseteq Vips /\ p \subseteq Nat
  /\ \A d \in InitDisks : d \subseteq Lease(Keys, Vips)
  /\ \A d \in InitDisks : validateSnapshot(d)
<1>1. \A c \in Containers : c.id \in Nat /\ c.port \in Nat /\ c.bind \in Nat
  BY ContainersAssumption DEF IsContainerSet
<1>2. \A c \in Containers : KeyOf(c) \in Keys
  BY DEF Keys
<1>3. \A p \in Pools : p \subseteq Vips /\ p \subseteq Nat
  BY PoolsAssumption DEF Vips
<1>4. \A d \in InitDisks : d \subseteq Lease(Keys, Vips)
  <2> SUFFICES ASSUME NEW d \in InitDisks, NEW l \in d
               PROVE  l \in Lease(Keys, Vips)
    OBVIOUS
  <2>1. l \in Lease(Keys, Nat)
    BY InitDisksAssumption
  <2>2. l.vip \in Vips
    BY DEF Vips
  <2> QED BY <2>1, <2>2
<1>5. \A d \in InitDisks : validateSnapshot(d)
  BY InitDisksAssumption
<1> QED BY <1>1, <1>2, <1>3, <1>4, <1>5

EndpointType ==
  [name : EndpointNames, port : Nat, bind : Nat, vip : Vips]

\* Every desired endpoint comes from a winner and from its stack's entry.
LEMMA EndpointsOrigin ==
  ASSUME NEW ws \in SUBSET Containers, NEW st \in SUBSET StackEntry,
         NEW e \in Endpoints(ws, st)
  PROVE  \E c \in ws, s \in st :
           /\ KeyOf(c) = s.key /\ e.vip = s.vip
           /\ e.name = EndpointFQDN(c)
           /\ e.port = c.port /\ e.bind = c.bind
           /\ e \in EndpointType
<1>1. PICK p \in {q \in ws \X st : KeyOf(q[1]) = q[2].key} :
        e = [name |-> EndpointFQDN(p[1]), port |-> p[1].port,
             bind |-> p[1].bind, vip |-> p[2].vip]
  BY DEF Endpoints
<1>2. p[1] \in ws /\ p[2] \in st /\ KeyOf(p[1]) = p[2].key
  BY <1>1
<1>3. p[2].vip \in Vips /\ EndpointFQDN(p[1]) \in EndpointNames
  BY <1>2 DEF StackEntry, EndpointNames
<1>4. p[1].port \in Nat /\ p[1].bind \in Nat
  BY <1>2, ConstantTypes
<1>5. e \in EndpointType
  BY <1>1, <1>3, <1>4 DEF EndpointType
<1> QED BY <1>1, <1>2, <1>5

\* Every DNS record and every resolve entry names a stack that has the VIP.
LEMMA RecordsOrigin ==
  ASSUME NEW ws \in SUBSET Containers, NEW st \in SUBSET StackEntry,
         NEW r \in buildDNSRecords(ws, st) \cup ResolveMap(ws, st)
  PROVE  /\ \E s \in st : r.vip = s.vip /\ r.name \in NamesOf(s.key)
         /\ r \in [name : DnsNames, vip : Vips]
<1>1. \/ r \in StackRecords(st)
      \/ r \in EndpointRecords(Endpoints(ws, st))
  BY DEF buildDNSRecords, ResolveMap
<1>2. \E s \in st : /\ r.vip = s.vip /\ r.name \in NamesOf(s.key)
                    /\ r = [name |-> r.name, vip |-> r.vip]
  <2>1. CASE r \in StackRecords(st)
    BY <2>1 DEF StackRecords, NamesOf
  <2>2. CASE r \in EndpointRecords(Endpoints(ws, st))
    <3>1. PICK e \in Endpoints(ws, st) : r = [name |-> e.name, vip |-> e.vip]
      BY <2>2 DEF EndpointRecords
    <3>2. PICK c \in ws, s \in st :
            KeyOf(c) = s.key /\ e.vip = s.vip /\ e.name = EndpointFQDN(c)
      BY <3>1, EndpointsOrigin
    <3>3. r.name \in NamesOf(s.key)
      BY <3>1, <3>2 DEF NamesOf
    <3> QED BY <3>1, <3>2, <3>3
  <2> QED BY <1>1, <2>1, <2>2
<1>3. \A s \in st : s.key \in Keys /\ s.vip \in Vips
  BY DEF StackEntry
<1>4. r.name \in DnsNames /\ r.vip \in Vips
  BY <1>2, <1>3 DEF DnsNames
<1> QED BY <1>2, <1>4

\* A status snapshot has its type.
LEMMA StatusTypeOK ==
  ASSUME NEW ws \in SUBSET Containers, NEW st \in SUBSET StackEntry,
         NEW ls \in SUBSET Lease(Keys, Vips)
  PROVE  buildStatusSnapshot(ws, st, ls) \in StatusType
<1>1. StatusStacks(st, ls)
        \subseteq [key : Keys, vip : Vips, lease : {"active", "grace"}]
  BY DEF StatusStacks, StackEntry
<1>2. Endpoints(ws, st) \subseteq EndpointType
  BY EndpointsOrigin
<1>3. ResolveMap(ws, st) \subseteq [name : DnsNames, vip : Vips]
  BY RecordsOrigin
<1> QED BY <1>1, <1>2, <1>3 DEF buildStatusSnapshot, StatusType, EndpointType

-----------------------------------------------------------------------------
\* Type correctness.

\* The daemon's first state has the types.
LEMMA TypeInit == Init => TypeOK
<1> SUFFICES ASSUME Init PROVE TypeOK
  OBVIOUS
<1>1. Starting \in StatusType
  BY DEF Starting, StatusType
<1>2. clock \in Nat
  BY SecondAssumption DEF Init
<1> QED BY <1>1, <1>2, ConstantTypes DEF Init, TypeOK, Stages

\* Every step of the pass and of its environment keeps the types.
LEMMA TypeNext == TypeOK /\ [Next]_vars => TypeOK'
<1> SUFFICES ASSUME TypeOK, [Next]_vars PROVE TypeOK'
  OBVIOUS
<1> USE DEF TypeOK, Stages, envVars, passVars, outVars
<1>1. CASE Tick
  BY <1>1 DEF Tick
<1>2. CASE \E c \in Containers : StartContainer(c) \/ StopContainer(c)
  BY <1>2 DEF StartContainer, StopContainer
<1>3. CASE Crash
  <2>1. Starting \in StatusType
    BY DEF Starting, StatusType
  <2> QED BY <1>3, <2>1 DEF Crash, ClearPass
<1>4. CASE Restart
  BY <1>4 DEF Restart
<1>5. CASE Begin
  BY <1>5 DEF Begin
<1>6. CASE Load
  BY <1>6 DEF Load
<1>7. CASE List
  <2>1. Winners(running) \subseteq Containers
    BY DEF Winners, Candidates
  <2>2. {KeyOf(c) : c \in Winners(running)} \subseteq Keys
    BY <2>1, ConstantTypes
  <2>3. ReleaseExpired(snap, now) \subseteq snap
    BY DEF ReleaseExpired
  <2> QED BY <1>7, <2>1, <2>2, <2>3 DEF List
<1>8. CASE AbandonPass
  BY <1>8 DEF AbandonPass, ClearPass
<1>9. CASE Allocate
  <2>1. PICK k \in todo :
          \/ \E l \in Reusable(snap, k, pool) : AllocateReuse(k, l)
          \/ \E v \in Free(Dropped(snap, k), pool) : AllocateFresh(k, v)
          \/ AllocateExhausted(k)
    BY <1>9 DEF Allocate
  <2>2. Dropped(snap, k) \subseteq snap
    BY DEF Dropped
  <2>3. CASE \E l \in Reusable(snap, k, pool) : AllocateReuse(k, l)
    <3>1. PICK l \in Reusable(snap, k, pool) : AllocateReuse(k, l)
      BY <2>3
    <3>2. l \in snap
      BY DEF Reusable, LeasesOf
    <3>3. [key |-> k, vip |-> l.vip] \in StackEntry
      BY <3>2 DEF StackEntry
    <3> QED BY <3>1, <3>3 DEF AllocateReuse
  <2>4. CASE \E v \in Free(Dropped(snap, k), pool) : AllocateFresh(k, v)
    <3>1. PICK v \in Free(Dropped(snap, k), pool) : AllocateFresh(k, v)
      BY <2>4
    <3>2. v \in Vips
      BY ConstantTypes DEF Free
    <3>3. [key |-> k, vip |-> v] \in StackEntry
      BY <3>2 DEF StackEntry
    <3>4. NewLease(k, v, clock) \in Lease(Keys, Vips)
      BY <3>2 DEF NewLease
    <3> QED BY <2>2, <3>1, <3>3, <3>4 DEF AllocateFresh
  <2>5. CASE AllocateExhausted(k)
    BY <2>2, <2>5 DEF AllocateExhausted
  <2> QED BY <2>1, <2>3, <2>4, <2>5
<1>10. BuiltSnap \subseteq Lease(Keys, Vips)
  BY TouchedType DEF BuiltSnap, touchActiveLeases
<1>11. CASE Save
  <2>1. toFileSnapshot(BuiltSnap) \subseteq Lease(Keys, Vips)
    BY <1>10, StoredType DEF toFileSnapshot
  <2> QED BY <1>10, <1>11, <2>1 DEF Save
<1>12. CASE SaveFails
  BY <1>10, <1>12, StatusTypeOK DEF SaveFails, ClearPass
<1>13. CASE SetRecords
  <2>1. buildDNSRecords(winners, stacks) \subseteq [name : DnsNames, vip : Vips]
    BY RecordsOrigin
  <2> QED BY <1>13, <2>1 DEF SetRecords
<1>14. CASE \E failed \in SUBSET WantedListeners : ProxyReconcile(failed)
  <2>1. WantedListeners \subseteq [vip : Vips, port : Nat, bind : Nat]
    <3>1. Endpoints(winners, stacks) \subseteq EndpointType
      BY EndpointsOrigin
    <3> QED BY <3>1 DEF WantedListeners, DesiredListeners, EndpointType
  <2> QED BY <1>14, <2>1 DEF ProxyReconcile
<1>15. CASE Publish
  BY <1>15, StatusTypeOK DEF Publish, ClearPass
<1>16. CASE UNCHANGED vars
  BY <1>16 DEF vars
<1> QED
  BY <1>1, <1>2, <1>3, <1>4, <1>5, <1>6, <1>7, <1>8, <1>9, <1>11, <1>12,
     <1>13, <1>14, <1>15, <1>16 DEF Next

\* Reconciler's variables keep their types, whatever the containers, the
\* pools, the files and the failures.
THEOREM TypeCorrect == Spec => []TypeOK
BY TypeInit, TypeNext, PTL DEF Spec

-----------------------------------------------------------------------------
\* The inductive invariant behind the safety properties.

Holds(leases, k, v) == \E l \in leases : l.key = k /\ l.vip = v

\* Every stack of the desired state has its VIP leased in the snapshot ...
StacksLeased == \A s \in stacks : Holds(snap, s.key, s.vip)

\* ... and in state.json once Save is done.
StacksSaved ==
  pc \in {"dns", "proxy", "publish"} =>
    \A s \in stacks : Holds(disk, s.key, s.vip)

\* Between passes there is no desired state.
StacksOnlyInPass == pc \in {"down", "idle", "load", "list"} => stacks = {}

\* A stack is allocated once: what a later Allocate drops from the snapshot
\* is never the lease of a stack already in the desired state.
TodoDisjoint == \A s \in stacks : s.key \notin todo

TodoDone == pc \in {"dns", "proxy", "publish"} => todo = {}

\* The snapshot still has every lease of state.json that the pass has no
\* reason to drop.
SnapKeepsDisk ==
  /\ pc = "list" => snap = disk
  /\ pc = "alloc" =>
       \A l \in disk : l \in snap \/ GraceOver(l, now) \/ l.vip \notin pool

PoolFullFor(k) == \A v \in pool : \E l \in snap : l.vip = v /\ l.key # k

\* A winner's stack is yet to be allocated, allocated, or out of addresses.
WinnersAccounted ==
  pc \in {"alloc", "dns", "proxy", "publish"} =>
    \A c \in winners :
      KeyOf(c) \in todo \/ KeyOf(c) \in ActiveKeys \/ PoolFullFor(KeyOf(c))

IInv ==
  /\ TypeOK
  /\ LeasesUnique
  /\ StacksLeased /\ StacksSaved /\ StacksOnlyInPass
  /\ TodoDisjoint /\ TodoDone
  /\ SnapKeepsDisk
  /\ WinnersAccounted
  /\ AdvertisedIsDurable

-----------------------------------------------------------------------------
\* Lease tables: what the operators of Leases preserve.

\* Dropping leases, as ReleaseExpired and Allocate do, keeps them unique.
LEMMA SubsetUnique ==
  ASSUME NEW S, validateSnapshot(S), NEW T \in SUBSET S
  PROVE  validateSnapshot(T)
BY DEF validateSnapshot

\* A fresh allocation keeps leases unique.
LEMMA FreshUnique ==
  ASSUME NEW S, validateSnapshot(S), NEW k, NEW p, NEW t,
         NEW v \in Free(Dropped(S, k), p)
  PROVE  validateSnapshot(Dropped(S, k) \cup {NewLease(k, v, t)})
<1> DEFINE D == Dropped(S, k)
           n == NewLease(k, v, t)
<1>1. n.key = k /\ n.vip = v
  BY DEF NewLease
<1>2. \A l \in D : l.key # k /\ l.vip # v
  BY DEF Dropped, LeasesOf, Free
<1>3. \A l, m \in D : l.key = m.key \/ l.vip = m.vip => l = m
  BY DEF Dropped, validateSnapshot
<1>4. \A l, m \in D \cup {n} : l.key = m.key \/ l.vip = m.vip => l = m
  BY <1>1, <1>2, <1>3
<1> QED BY <1>4 DEF validateSnapshot

\* touchActiveLeases keeps leases unique, and keeps who holds what.
LEMMA TouchKeeps ==
  ASSUME NEW K, NEW V, NEW S \in SUBSET Lease(K, V), validateSnapshot(S),
         NEW A, NEW t \in Nat
  PROVE  /\ validateSnapshot(touchActiveLeases(S, A, t))
         /\ \A k, v : Holds(S, k, v) => Holds(touchActiveLeases(S, A, t), k, v)
<1>1. \A l \in S : /\ Touched(l, A, t).key = l.key
                   /\ Touched(l, A, t).vip = l.vip
  BY TouchedType
<1>2. validateSnapshot(touchActiveLeases(S, A, t))
  BY <1>1 DEF validateSnapshot, touchActiveLeases
<1>3. \A k, v : Holds(S, k, v) => Holds(touchActiveLeases(S, A, t), k, v)
  BY <1>1 DEF Holds, touchActiveLeases
<1> QED BY <1>2, <1>3

\* So does what Save writes.
LEMMA StoreKeeps ==
  ASSUME NEW K, NEW V, NEW S \in SUBSET Lease(K, V), validateSnapshot(S)
  PROVE  /\ validateSnapshot(toFileSnapshot(S))
         /\ \A k, v : Holds(S, k, v) => Holds(toFileSnapshot(S), k, v)
<1>1. \A l \in S : Stored(l).key = l.key /\ Stored(l).vip = l.vip
  BY StoredType
<1>2. validateSnapshot(toFileSnapshot(S))
  BY <1>1 DEF validateSnapshot, toFileSnapshot
<1>3. \A k, v : Holds(S, k, v) => Holds(toFileSnapshot(S), k, v)
  BY <1>1 DEF Holds, toFileSnapshot
<1> QED BY <1>2, <1>3

\* A lease ReleaseExpired drops has outlived the documented grace.
LEMMA ExpiredMeansGraceOver ==
  ASSUME NEW K, NEW V, NEW l \in Lease(K, V), NEW t \in Nat, Expired(l, t)
  PROVE  GraceOver(l, t)
BY GraceAssumption DEF Expired, Baseline, GraceOver

\* The lease a fresh or failed Allocate drops is outside the pool.
LEMMA DroppedOutsidePool ==
  ASSUME NEW S, validateSnapshot(S), NEW k, NEW p, Reusable(S, k, p) = {},
         NEW l \in S, l.key = k
  PROVE  l.vip \notin p
BY DEF Reusable, LeasesOf, validateSnapshot

-----------------------------------------------------------------------------
\* The inductive invariant holds initially and is kept by every step.

USE DEF ActiveKeys

\* The daemon starts with no desired state and nothing advertised.
LEMMA IInvInit == Init => IInv
<1> SUFFICES ASSUME Init PROVE IInv
  OBVIOUS
<1>1. TypeOK
  BY TypeInit
<1>2. LeasesUnique
  BY ConstantTypes DEF Init, LeasesUnique, validateSnapshot
<1>3. AdvertisedIsDurable
  BY DEF Init, AdvertisedIsDurable
<1>4. /\ StacksLeased /\ StacksSaved /\ StacksOnlyInPass
      /\ TodoDisjoint /\ TodoDone /\ SnapKeepsDisk /\ WinnersAccounted
  BY DEF Init, StacksLeased, StacksSaved, StacksOnlyInPass, TodoDisjoint,
         TodoDone, SnapKeepsDisk, WinnersAccounted
<1> QED BY <1>1, <1>2, <1>3, <1>4 DEF IInv

PassInv ==
  /\ StacksLeased /\ StacksSaved /\ StacksOnlyInPass
  /\ TodoDisjoint /\ TodoDone /\ SnapKeepsDisk /\ WinnersAccounted

\* Steps that change neither the pass nor the file nor what is advertised.
LEMMA IdleStepKeeps ==
  ASSUME IInv, UNCHANGED <<disk, pool, pc, dns, listeners>>,
         UNCHANGED passVars
  PROVE  LeasesUnique' /\ AdvertisedIsDurable' /\ PassInv'
BY DEF IInv, PassInv, LeasesUnique, AdvertisedIsDurable, StacksLeased,
       StacksSaved, StacksOnlyInPass, TodoDisjoint, TodoDone, SnapKeepsDisk,
       WinnersAccounted, PoolFullFor, passVars

\* Steps that end a pass, or the daemon, without touching the file.
LEMMA EndOfPassKeeps ==
  ASSUME IInv, UNCHANGED disk, ClearPass, pc' \in {"idle", "down"},
         \/ dns' = {} /\ listeners' = {}
         \/ UNCHANGED <<dns, listeners>> /\ pc \notin {"dns", "proxy"}
  PROVE  LeasesUnique' /\ AdvertisedIsDurable' /\ PassInv'
<1>1. LeasesUnique'
  BY DEF IInv, LeasesUnique, ClearPass, validateSnapshot
<1>2. AdvertisedIsDurable'
  BY DEF IInv, AdvertisedIsDurable
<1>3. PassInv'
  BY DEF PassInv, StacksLeased, StacksSaved, StacksOnlyInPass, TodoDisjoint,
         TodoDone, SnapKeepsDisk, WinnersAccounted, ClearPass
<1> QED BY <1>1, <1>2, <1>3

\* ListRunning answered: only expired leases have left the snapshot.
LEMMA ListKeeps ==
  ASSUME IInv, List
  PROVE  LeasesUnique' /\ AdvertisedIsDurable' /\ PassInv'
<1> USE DEF List, outVars
<1>1. pc = "list" /\ pc' = "alloc" /\ snap = disk /\ stacks = {} /\ stacks' = {}
  BY DEF IInv, SnapKeepsDisk, StacksOnlyInPass
<1>2. snap' \subseteq snap
  BY DEF ReleaseExpired
<1>3. LeasesUnique'
  BY <1>2, SubsetUnique DEF IInv, LeasesUnique
<1>4. AdvertisedIsDurable'
  BY <1>1 DEF IInv, AdvertisedIsDurable
<1>5. SnapKeepsDisk'
  <2> SUFFICES ASSUME NEW l \in disk, l \notin snap' PROVE GraceOver(l, now)
    BY <1>1 DEF SnapKeepsDisk
  <2>1. Expired(l, now)
    BY <1>1 DEF ReleaseExpired
  <2>2. l \in Lease(Keys, Vips) /\ now \in Nat
    BY DEF IInv, TypeOK
  <2> QED BY <2>1, <2>2, ExpiredMeansGraceOver
<1>6. WinnersAccounted'
  BY DEF WinnersAccounted
<1>7. PassInv'
  BY <1>1, <1>5, <1>6 DEF PassInv, StacksLeased, StacksSaved,
     StacksOnlyInPass, TodoDisjoint, TodoDone
<1> QED BY <1>3, <1>4, <1>7

\* Allocate drops from the snapshot at most one lease outside the pool.
LEMMA AllocateKeeps ==
  ASSUME IInv, Allocate
  PROVE  LeasesUnique' /\ AdvertisedIsDurable' /\ PassInv'
<1>1. PICK k \in todo :
        \/ \E l \in Reusable(snap, k, pool) : AllocateReuse(k, l)
        \/ \E v \in Free(Dropped(snap, k), pool) : AllocateFresh(k, v)
        \/ AllocateExhausted(k)
  BY DEF Allocate
<1>2. /\ pc = "alloc" /\ pc' = "alloc" /\ todo' = todo \ {k}
      /\ disk' = disk /\ pool' = pool /\ now' = now /\ winners' = winners
      /\ dns' = dns /\ listeners' = listeners
  BY <1>1 DEF AllocateReuse, AllocateFresh, AllocateExhausted, outVars
<1>3. /\ validateSnapshot(snap) /\ validateSnapshot(disk)
      /\ StacksLeased /\ TodoDisjoint /\ SnapKeepsDisk /\ WinnersAccounted
  BY DEF IInv, LeasesUnique
<1>4. AdvertisedIsDurable'
  BY <1>2 DEF IInv, AdvertisedIsDurable
<1>5. StacksSaved' /\ StacksOnlyInPass' /\ TodoDone'
  BY <1>2 DEF StacksSaved, StacksOnlyInPass, TodoDone
<1>6. CASE \E l \in Reusable(snap, k, pool) : AllocateReuse(k, l)
  <2>1. PICK l \in Reusable(snap, k, pool) : AllocateReuse(k, l)
    BY <1>6
  <2>2. /\ snap' = snap /\ stacks' = stacks \cup {[key |-> k, vip |-> l.vip]}
        /\ l \in snap /\ l.key = k
    BY <2>1 DEF AllocateReuse, Reusable, LeasesOf
  <2>3. LeasesUnique'
    BY <1>2, <1>3, <2>2 DEF LeasesUnique
  <2>4. StacksLeased'
    BY <1>3, <2>2 DEF StacksLeased, Holds
  <2>5. TodoDisjoint'
    BY <1>2, <1>3, <2>2 DEF TodoDisjoint
  <2>6. SnapKeepsDisk'
    BY <1>2, <1>3, <2>2 DEF SnapKeepsDisk
  <2>7. WinnersAccounted'
    <3> SUFFICES ASSUME NEW c \in winners, KeyOf(c) \notin todo'
                 PROVE  KeyOf(c) \in ActiveKeys' \/ PoolFullFor(KeyOf(c))'
      BY <1>2 DEF WinnersAccounted
    <3>1. CASE KeyOf(c) = k
      <4>1. [key |-> k, vip |-> l.vip].key = k
        OBVIOUS
      <4>2. \E s \in stacks' : s.key = k
        <5>1. [key |-> k, vip |-> l.vip] \in stacks'
          BY <2>2
        <5> QED BY <4>1, <5>1
      <4> QED BY <3>1, <4>2
    <3>2. CASE KeyOf(c) \in ActiveKeys
      BY <2>2, <3>2
    <3>3. CASE PoolFullFor(KeyOf(c))
      BY <1>2, <2>2, <3>3 DEF PoolFullFor
    <3> QED BY <1>2, <1>3, <3>1, <3>2, <3>3 DEF WinnersAccounted
  <2> QED BY <1>4, <1>5, <2>3, <2>4, <2>5, <2>6, <2>7 DEF PassInv
<1>7. ASSUME Reusable(snap, k, pool) = {}
      PROVE  /\ \A l \in snap : l \in Dropped(snap, k) \/ l.vip \notin pool
             /\ \A l \in Dropped(snap, k) : l \in snap /\ l.key # k
             /\ \A s \in stacks : Holds(Dropped(snap, k), s.key, s.vip)
             /\ \A j : PoolFullFor(j) =>
                  \A v \in pool : \E l \in Dropped(snap, k) : l.vip = v /\ l.key # j
  <2>1. \A l \in snap : l \in Dropped(snap, k) \/ l.key = k
    BY DEF Dropped, LeasesOf
  <2>2. \A l \in snap : l \in Dropped(snap, k) \/ l.vip \notin pool
    BY <1>3, <1>7, <2>1, DroppedOutsidePool
  <2>3. \A l \in Dropped(snap, k) : l \in snap /\ l.key # k
    BY DEF Dropped, LeasesOf
  <2>4. \A s \in stacks : Holds(Dropped(snap, k), s.key, s.vip)
    BY <1>3, <2>1 DEF StacksLeased, TodoDisjoint, Holds
  <2>5. \A j : PoolFullFor(j) =>
          \A v \in pool : \E l \in Dropped(snap, k) : l.vip = v /\ l.key # j
    BY <2>2 DEF PoolFullFor
  <2> QED BY <2>2, <2>3, <2>4, <2>5
<1>8. CASE \E v \in Free(Dropped(snap, k), pool) : AllocateFresh(k, v)
  <2>1. PICK v \in Free(Dropped(snap, k), pool) : AllocateFresh(k, v)
    BY <1>8
  <2>2. /\ Reusable(snap, k, pool) = {}
        /\ snap' = Dropped(snap, k) \cup {NewLease(k, v, clock)}
        /\ stacks' = stacks \cup {[key |-> k, vip |-> v]}
    BY <2>1 DEF AllocateFresh
  <2>3. LeasesUnique'
    BY <1>2, <1>3, <2>1, <2>2, FreshUnique DEF LeasesUnique
  <2>4. StacksLeased'
    <3>1. NewLease(k, v, clock).key = k /\ NewLease(k, v, clock).vip = v
      BY DEF NewLease
    <3> QED BY <1>7, <2>2, <3>1 DEF StacksLeased, Holds
  <2>5. TodoDisjoint'
    BY <1>2, <1>3, <2>2 DEF TodoDisjoint
  <2>6. SnapKeepsDisk'
    BY <1>2, <1>3, <1>7, <2>2 DEF SnapKeepsDisk
  <2>7. WinnersAccounted'
    <3> SUFFICES ASSUME NEW c \in winners, KeyOf(c) \notin todo'
                 PROVE  KeyOf(c) \in ActiveKeys' \/ PoolFullFor(KeyOf(c))'
      BY <1>2 DEF WinnersAccounted
    <3>1. CASE KeyOf(c) = k
      <4>1. [key |-> k, vip |-> v].key = k
        OBVIOUS
      <4>2. \E s \in stacks' : s.key = k
        <5>1. [key |-> k, vip |-> v] \in stacks'
          BY <2>2
        <5> QED BY <4>1, <5>1
      <4> QED BY <3>1, <4>2
    <3>2. CASE KeyOf(c) \in ActiveKeys
      BY <2>2, <3>2
    <3>3. CASE PoolFullFor(KeyOf(c))
      BY <1>2, <1>7, <2>2, <3>3 DEF PoolFullFor
    <3> QED BY <1>2, <1>3, <3>1, <3>2, <3>3 DEF WinnersAccounted
  <2> QED BY <1>4, <1>5, <2>3, <2>4, <2>5, <2>6, <2>7 DEF PassInv
<1>9. CASE AllocateExhausted(k)
  <2>1. /\ Reusable(snap, k, pool) = {} /\ Free(Dropped(snap, k), pool) = {}
        /\ snap' = Dropped(snap, k) /\ stacks' = stacks
    BY <1>9 DEF AllocateExhausted
  <2>2. LeasesUnique'
    BY <1>2, <1>3, <1>7, <2>1, SubsetUnique DEF LeasesUnique
  <2>3. StacksLeased' /\ TodoDisjoint' /\ SnapKeepsDisk'
    BY <1>2, <1>3, <1>7, <2>1 DEF StacksLeased, TodoDisjoint, SnapKeepsDisk
  <2>4. PoolFullFor(k)'
    BY <1>2, <1>7, <2>1 DEF PoolFullFor, Free
  <2>5. WinnersAccounted'
    BY <1>2, <1>3, <1>7, <2>1, <2>4 DEF WinnersAccounted, PoolFullFor
  <2> QED BY <1>4, <1>5, <2>2, <2>3, <2>5 DEF PassInv
<1> QED BY <1>1, <1>6, <1>8, <1>9

\* A successful Save makes the desired stacks durable.
LEMMA SaveKeeps ==
  ASSUME IInv, Save
  PROVE  LeasesUnique' /\ AdvertisedIsDurable' /\ PassInv'
<1> USE DEF Save, outVars
<1>1. /\ snap \subseteq Lease(Keys, Vips) /\ now \in Nat
      /\ validateSnapshot(snap)
  BY DEF IInv, TypeOK, LeasesUnique
<1>2. /\ validateSnapshot(snap')
      /\ \A k, v : Holds(snap, k, v) => Holds(snap', k, v)
  BY <1>1, TouchKeeps DEF BuiltSnap
<1>3. snap' \subseteq Lease(Keys, Vips)
  <2>1. \A l \in snap : Touched(l, ActiveKeys, now) \in Lease(Keys, Vips)
    BY <1>1, TouchedType
  <2> QED BY <2>1 DEF BuiltSnap, touchActiveLeases
<1>4. /\ validateSnapshot(disk')
      /\ \A k, v : Holds(snap', k, v) => Holds(disk', k, v)
  BY <1>2, <1>3, StoreKeeps
<1>5. StacksLeased' /\ StacksSaved'
  BY <1>2, <1>4 DEF IInv, StacksLeased, StacksSaved
<1>6. WinnersAccounted'
  <2>1. ASSUME NEW k, PoolFullFor(k) PROVE PoolFullFor(k)'
    <3> SUFFICES ASSUME NEW v \in pool
                 PROVE  \E l \in snap' : l.vip = v /\ l.key # k
      BY DEF PoolFullFor
    <3>1. PICK l \in snap : l.vip = v /\ l.key # k
      BY <2>1 DEF PoolFullFor
    <3>2. Holds(snap', l.key, v)
      BY <1>2, <3>1 DEF Holds
    <3> QED BY <3>1, <3>2 DEF Holds
  <2> QED BY <2>1 DEF IInv, WinnersAccounted
<1> QED
  BY <1>2, <1>4, <1>5, <1>6
  DEF IInv, LeasesUnique, AdvertisedIsDurable, PassInv, StacksOnlyInPass,
      TodoDisjoint, TodoDone, SnapKeepsDisk

\* DNS and the proxy are built from stacks whose VIPs are in state.json.
LEMMA AdvertiseKeeps ==
  ASSUME IInv,
         SetRecords \/ \E failed \in SUBSET WantedListeners : ProxyReconcile(failed)
  PROVE  LeasesUnique' /\ AdvertisedIsDurable' /\ PassInv'
<1>1. /\ disk' = disk /\ pool' = pool /\ UNCHANGED passVars
      /\ pc \in {"dns", "proxy"} /\ pc' \in {"proxy", "publish"}
  BY DEF SetRecords, ProxyReconcile
<1>2. \A s \in stacks : Holds(disk, s.key, s.vip)
  BY <1>1 DEF IInv, StacksSaved
<1>3. winners \in SUBSET Containers /\ stacks \in SUBSET StackEntry
  BY DEF IInv, TypeOK
<1>4. LeasesUnique'
  BY <1>1 DEF IInv, LeasesUnique, passVars
<1>5. PassInv'
  BY <1>1 DEF IInv, PassInv, StacksLeased, StacksSaved, StacksOnlyInPass,
     TodoDisjoint, TodoDone, SnapKeepsDisk, WinnersAccounted, PoolFullFor,
     passVars
<1>6. CASE SetRecords
  <2>1. pc' = "proxy" /\ dns' = buildDNSRecords(winners, stacks)
    BY <1>6 DEF SetRecords
  <2>2. ASSUME NEW r \in dns'
        PROVE  \E l \in disk : l.vip = r.vip /\ r.name \in NamesOf(l.key)
    <3>1. PICK s \in stacks : r.vip = s.vip /\ r.name \in NamesOf(s.key)
      BY <1>3, <2>1, <2>2, RecordsOrigin
    <3> QED BY <1>2, <3>1 DEF Holds
  <2>3. AdvertisedIsDurable'
    BY <1>1, <2>1, <2>2 DEF AdvertisedIsDurable
  <2> QED BY <1>4, <1>5, <2>3
<1>7. CASE \E failed \in SUBSET WantedListeners : ProxyReconcile(failed)
  <2>1. pc = "proxy" /\ dns' = dns /\ listeners' \subseteq WantedListeners
    BY <1>7 DEF ProxyReconcile
  <2>2. ASSUME NEW w \in listeners'
        PROVE  \E l \in disk : \E c \in Containers :
                 /\ l.vip = w.vip /\ l.key = KeyOf(c)
                 /\ w.port = c.port /\ w.bind = c.bind
    <3>1. PICK e \in Endpoints(winners, stacks) :
            w = [vip |-> e.vip, port |-> e.port, bind |-> e.bind]
      BY <2>1, <2>2 DEF WantedListeners, DesiredListeners
    <3>2. PICK c \in winners, s \in stacks :
            /\ KeyOf(c) = s.key /\ e.vip = s.vip
            /\ e.port = c.port /\ e.bind = c.bind
      BY <1>3, <3>1, EndpointsOrigin
    <3>3. PICK l \in disk : l.key = s.key /\ l.vip = s.vip
      BY <1>2, <3>2 DEF Holds
    <3>4. /\ c \in Containers
          /\ l.vip = w.vip /\ l.key = KeyOf(c)
          /\ w.port = c.port /\ w.bind = c.bind
      BY <1>3, <3>1, <3>2, <3>3
    <3> QED BY <3>3, <3>4
  <2>3. \A r \in dns : \E l \in disk : l.vip = r.vip /\ r.name \in NamesOf(l.key)
    BY <2>1 DEF IInv, AdvertisedIsDurable
  <2>4. AdvertisedIsDurable'
    BY <1>1, <2>1, <2>2, <2>3 DEF AdvertisedIsDurable
  <2> QED BY <1>4, <1>5, <2>4
<1> QED BY <1>6, <1>7

\* Begin, Load and Restart: no desired state yet, nothing newly advertised.
LEMMA EarlyStepKeeps ==
  ASSUME IInv, Begin \/ Load \/ Restart
  PROVE  LeasesUnique' /\ AdvertisedIsDurable' /\ PassInv'
<1> USE DEF Begin, Load, Restart, outVars, passVars
<1>1. /\ disk' = disk /\ dns' = dns /\ listeners' = listeners
      /\ snap' \in {snap, disk} /\ stacks' = stacks
      /\ pc \in {"down", "idle", "load"} /\ pc' \in {"idle", "load", "list"}
      /\ pc' = "list" => snap' = disk
  OBVIOUS
<1>2. stacks = {}
  BY <1>1 DEF IInv, StacksOnlyInPass
<1>3. LeasesUnique'
  BY <1>1 DEF IInv, LeasesUnique
<1>4. AdvertisedIsDurable'
  BY <1>1 DEF IInv, AdvertisedIsDurable
<1>5. PassInv'
  BY <1>1, <1>2 DEF PassInv, StacksLeased, StacksSaved, StacksOnlyInPass,
     TodoDisjoint, TodoDone, SnapKeepsDisk, WinnersAccounted
<1> QED BY <1>3, <1>4, <1>5

\* Every step of the daemon and of its environment keeps the invariant.
LEMMA IInvNext == IInv /\ [Next]_vars => IInv'
<1> SUFFICES ASSUME IInv, [Next]_vars PROVE IInv'
  OBVIOUS
<1>1. TypeOK'
  BY TypeNext DEF IInv
<1> SUFFICES LeasesUnique' /\ AdvertisedIsDurable' /\ PassInv'
  BY <1>1 DEF IInv, PassInv
<1>2. CASE Tick
  BY <1>2, IdleStepKeeps DEF Tick, outVars
<1>3. CASE \E c \in Containers : StartContainer(c) \/ StopContainer(c)
  BY <1>3, IdleStepKeeps DEF StartContainer, StopContainer, outVars
<1>4. CASE Crash
  BY <1>4, EndOfPassKeeps DEF Crash
<1>5. CASE Begin \/ Load \/ Restart
  BY <1>5, EarlyStepKeeps
<1>6. CASE List
  BY <1>6, ListKeeps
<1>7. CASE AbandonPass
  BY <1>7, EndOfPassKeeps DEF AbandonPass, outVars
<1>8. CASE Allocate
  BY <1>8, AllocateKeeps
<1>9. CASE Save
  BY <1>9, SaveKeeps
<1>10. CASE SaveFails
  BY <1>10, EndOfPassKeeps DEF SaveFails
<1>11. CASE SetRecords \/ \E failed \in SUBSET WantedListeners : ProxyReconcile(failed)
  BY <1>11, AdvertiseKeeps
<1>12. CASE Publish
  BY <1>12, EndOfPassKeeps DEF Publish
<1>13. CASE UNCHANGED vars
  BY <1>13, IdleStepKeeps DEF vars, passVars
<1> QED
  BY <1>2, <1>3, <1>4, <1>5, <1>6, <1>7, <1>8, <1>9, <1>10, <1>11, <1>12,
     <1>13 DEF Next

-----------------------------------------------------------------------------
\* The results.

\* The inductive invariant holds in every reachable state.
LEMMA Invariance == Spec => []IInv
BY IInvInit, IInvNext, PTL DEF Spec

\* No VIP is leased to two stacks and no stack holds two VIPs, in the file
\* and in the pass's snapshot.
THEOREM LeasesAreUnique == Spec => []LeasesUnique
<1>1. IInv => LeasesUnique
  BY DEF IInv
<1> QED BY <1>1, Invariance, PTL

\* DNS records and listeners only ever use VIPs that state.json leases to
\* the stack they are for.
THEOREM AdvertisedVIPsAreDurable == Spec => []AdvertisedIsDurable
<1>1. IInv => AdvertisedIsDurable
  BY DEF IInv
<1> QED BY <1>1, Invariance, PTL

\* A live stack goes without a VIP only when the pool has none left.
THEOREM LiveStacksAreServed == Spec => []UnservedOnlyWhenFull
<1>1. IInv => UnservedOnlyWhenFull
  BY DEF IInv, TodoDone, WinnersAccounted, UnservedOnlyWhenFull, PoolFullFor
<1> QED BY <1>1, Invariance, PTL

\* No pass, crash, restart or failure takes a lease out of state.json
\* before its grace is over, unless its VIP is outside the pool.
THEOREM LeasesOutliveGrace == Spec => NoEarlyRelease
<1> DEFINE Gone(l) == \A m \in disk' : ~(m.key = l.key /\ m.vip = l.vip)
           Step == \A l \in disk : Gone(l) => GraceOver(l, now) \/ l.vip \notin pool
<1>1. IInv /\ [Next]_vars => [Step]_vars
  <2> SUFFICES ASSUME IInv, [Next]_vars,
                      NEW l \in disk, Gone(l)
               PROVE  GraceOver(l, now) \/ l.vip \notin pool
    OBVIOUS
  <2>1. CASE Save
    <3>1. pc = "alloc" /\ disk' = toFileSnapshot(BuiltSnap)
      BY <2>1 DEF Save
    <3>2. /\ snap \subseteq Lease(Keys, Vips) /\ now \in Nat
          /\ validateSnapshot(snap)
      BY DEF IInv, TypeOK, LeasesUnique
    <3>3. \A k, v : Holds(snap, k, v) => Holds(BuiltSnap, k, v)
      BY <3>2, TouchKeeps DEF BuiltSnap
    <3>4. validateSnapshot(BuiltSnap)
      BY <3>2, TouchKeeps DEF BuiltSnap
    <3>5. BuiltSnap \subseteq Lease(Keys, Vips)
      <4>1. \A m \in snap : Touched(m, ActiveKeys, now) \in Lease(Keys, Vips)
        BY <3>2, TouchedType
      <4> QED BY <4>1 DEF BuiltSnap, touchActiveLeases
    <3>6. \A k, v : Holds(BuiltSnap, k, v) => Holds(disk', k, v)
      BY <3>1, <3>4, <3>5, StoreKeeps
    <3>7. l \notin snap
      BY <3>3, <3>6 DEF Holds
    <3> QED BY <3>1, <3>7 DEF IInv, SnapKeepsDisk
  <2>2. CASE ~Save
    <3>1. disk' = disk
      BY <2>2 DEF Next, Tick, StartContainer, StopContainer, Crash, Restart,
         Begin, Load, List, AbandonPass, Allocate, AllocateReuse,
         AllocateFresh, AllocateExhausted, SaveFails, SetRecords,
         ProxyReconcile, Publish, vars
    <3> QED BY <3>1
  <2> QED BY <2>1, <2>2
<1>2. [][Step]_vars => NoEarlyRelease
  BY PTL DEF NoEarlyRelease
<1> QED BY <1>1, <1>2, Invariance, PTL DEF Spec

-----------------------------------------------------------------------------
\* What a live stack can count on: the true form of LiveStackKeepsVIP.

\* A pass gives a live stack the VIP of its lease in state.json, unless the
\* lease's grace was over when the pass began or the pool has changed.
LiveStackStays ==
  pc = "alloc" =>
    \A s \in stacks, l \in disk :
      l.key = s.key => l.vip = s.vip \/ GraceOver(l, now) \/ l.vip \notin pool

\* Once Save is done, the grace of a live stack runs from this pass, cut to
\* the second.
GraceRestarts ==
  pc \in {"dns", "proxy", "publish"} =>
    \A s \in stacks : \E l \in disk :
      l.key = s.key /\ l.vip = s.vip /\ l.active = formatTime(now)

\* Allocate keeps a live stack where its lease says (vip/allocator.go), the
\* leases dropped beforehand and the stacks allocated before it included.
THEOREM LiveStacksStay == Spec => []LiveStackStays
<1>1. IInv => LiveStackStays
  <2> SUFFICES ASSUME IInv, pc = "alloc", NEW s \in stacks, NEW l \in disk, l.key = s.key
               PROVE  l.vip = s.vip \/ GraceOver(l, now) \/ l.vip \notin pool
    BY DEF LiveStackStays
  <2>1. CASE l \in snap
    <3>1. PICK m \in snap : m.key = s.key /\ m.vip = s.vip
      BY DEF IInv, StacksLeased, Holds
    <3> QED
      BY <2>1, <3>1 DEF IInv, LeasesUnique, validateSnapshot
  <2> QED
    BY <2>1 DEF IInv, SnapKeepsDisk
<1> QED BY <1>1, Invariance, PTL

\* A successful pass restarts the grace of every live stack, so that by
\* LiveStacksStay passes that succeed within the grace, less the second that
\* formatTime may cut off, never move it.
THEOREM GraceIsRestarted == Spec => []GraceRestarts
<1>1. Init => GraceRestarts
  BY DEF Init, GraceRestarts
<1>2. IInv /\ GraceRestarts /\ [Next]_vars => GraceRestarts'
  <2> SUFFICES ASSUME IInv, GraceRestarts, [Next]_vars PROVE GraceRestarts'
    OBVIOUS
  <2>1. CASE Save
    <3> SUFFICES ASSUME NEW s \in stacks
                 PROVE  \E l \in disk' : /\ l.key = s.key /\ l.vip = s.vip
                                         /\ l.active = formatTime(now)
      BY <2>1 DEF Save, GraceRestarts
    <3>1. PICK m \in snap : m.key = s.key /\ m.vip = s.vip
      BY DEF IInv, StacksLeased, Holds
    <3> DEFINE t == Touched(m, ActiveKeys, now)
    <3>2. m \in Lease(Keys, Vips) /\ now \in Nat
      BY DEF IInv, TypeOK
    <3>3. t \in Lease(Keys, Vips) /\ t.key = s.key /\ t.vip = s.vip
      BY <3>1, <3>2, TouchedType
    <3>4. t.active = now
      BY <3>1, <3>2 DEF Touched, ActiveKeys, Lease
    <3> HIDE DEF t
    <3>5. /\ Stored(t).key = s.key /\ Stored(t).vip = s.vip
          /\ Stored(t).active = formatTime(now)
      BY <3>3, <3>4 DEF Stored, Lease
    <3>6. Stored(t) \in disk'
      BY <2>1 DEF Save, BuiltSnap, touchActiveLeases, toFileSnapshot, t
    <3> QED BY <3>5, <3>6
  <2>2. ASSUME UNCHANGED <<disk, now, stacks>>, pc \in {"dns", "proxy", "publish"}
        PROVE  GraceRestarts'
    BY <2>2 DEF GraceRestarts
  <2>3. ASSUME pc' \notin {"dns", "proxy", "publish"} PROVE GraceRestarts'
    BY <2>3 DEF GraceRestarts
  <2>4. CASE ~Save
    <3>1. \/ pc' \notin {"dns", "proxy", "publish"}
          \/ UNCHANGED <<disk, now, stacks>> /\ pc \in {"dns", "proxy", "publish"}
      BY <2>4 DEF Next, Tick, StartContainer, StopContainer, Crash, Restart,
         Begin, Load, List, AbandonPass, Allocate, AllocateReuse,
         AllocateFresh, AllocateExhausted, SaveFails, SetRecords,
         ProxyReconcile, Publish, passVars, vars
    <3> QED BY <2>2, <2>3, <3>1
  <2> QED BY <2>1, <2>4
<1> QED BY <1>1, <1>2, Invariance, PTL DEF Spec

-----------------------------------------------------------------------------
\* Names and sockets: what is advertised is what the pass has built.

\* Docker runs one container of an ID.
RunningDistinct == \A c, d \in running : c.id = d.id => c = d

\* One winner for each map key.
WinnersDistinct ==
  \A c, d \in winners : EndpointMapKey(c) = EndpointMapKey(d) => c = d

\* The desired stacks are those of winners.
StacksOfWinners ==
  /\ \A k \in todo : \E c \in winners : KeyOf(c) = k
  /\ \A s \in stacks : \E c \in winners : KeyOf(c) = s.key

\* DNS and proxy have what the pass built, right after they were given it.
OutputsBuilt ==
  /\ pc = "proxy" => dns = buildDNSRecords(winners, stacks)
  /\ pc = "publish" => listeners \subseteq WantedListeners

BuildInv == RunningDistinct /\ WinnersDistinct /\ StacksOfWinners /\ OutputsBuilt

\* Of the containers with one map key the pass takes one.
LEMMA WinnersApart ==
  ASSUME TypeOK, RunningDistinct
  PROVE  \A c, d \in Winners(running) : EndpointMapKey(c) = EndpointMapKey(d) => c = d
<1> SUFFICES ASSUME NEW c \in Winners(running), NEW d \in Winners(running),
                    EndpointMapKey(c) = EndpointMapKey(d)
             PROVE  c = d
  OBVIOUS
<1>1. c \in running /\ d \in running /\ c.id <= d.id /\ d.id <= c.id
  BY DEF Winners, Candidates
<1>2. c.id \in Nat /\ d.id \in Nat
  BY <1>1, ConstantTypes DEF TypeOK
<1> QED BY <1>1, <1>2 DEF RunningDistinct

\* Every step keeps it.
LEMMA BuildInvNext == IInv /\ BuildInv /\ [Next]_vars => BuildInv'
<1> SUFFICES ASSUME IInv, BuildInv, [Next]_vars PROVE BuildInv'
  OBVIOUS
<1> USE DEF BuildInv
<1>1. ASSUME UNCHANGED running, UNCHANGED passVars, UNCHANGED <<pc, dns, listeners>>
      PROVE  BuildInv'
  BY <1>1 DEF RunningDistinct, WinnersDistinct, StacksOfWinners, OutputsBuilt,
     WantedListeners, passVars
<1>2. ASSUME UNCHANGED running, ClearPass, pc' \in {"idle", "down"}
      PROVE  BuildInv'
  BY <1>2 DEF RunningDistinct, WinnersDistinct, StacksOfWinners, OutputsBuilt,
     ClearPass
<1>3. CASE Tick \/ UNCHANGED vars
  BY <1>1, <1>3 DEF Tick, vars, passVars, outVars
<1>4. CASE \E c \in Containers : StartContainer(c) \/ StopContainer(c)
  <2>1. RunningDistinct'
    BY <1>4 DEF StartContainer, StopContainer, RunningDistinct
  <2>2. UNCHANGED <<now, snap, winners, todo, stacks, pc, dns, listeners>>
    BY <1>4 DEF StartContainer, StopContainer, passVars, outVars
  <2> QED BY <2>1, <2>2 DEF WinnersDistinct, StacksOfWinners, OutputsBuilt,
          WantedListeners
<1>5. CASE Crash \/ AbandonPass \/ SaveFails \/ Publish
  BY <1>2, <1>5 DEF Crash, AbandonPass, SaveFails, Publish, envVars
<1>6. CASE Restart \/ Begin \/ Load \/ Save
  BY <1>6 DEF Restart, Begin, Load, Save, envVars, passVars, RunningDistinct,
     WinnersDistinct, StacksOfWinners, OutputsBuilt
<1>7. CASE List
  <2>1. WinnersDistinct'
    BY <1>7, WinnersApart DEF List, WinnersDistinct, IInv
  <2>2. stacks' = {}
    BY <1>7 DEF List, IInv, StacksOnlyInPass
  <2>3. StacksOfWinners'
    BY <1>7, <2>2 DEF List, StacksOfWinners
  <2> QED BY <1>7, <2>1, <2>3 DEF List, envVars, RunningDistinct, OutputsBuilt
<1>8. CASE Allocate
  <2>1. PICK k \in todo :
          \/ \E l \in Reusable(snap, k, pool) : AllocateReuse(k, l)
          \/ \E v \in Free(Dropped(snap, k), pool) : AllocateFresh(k, v)
          \/ AllocateExhausted(k)
    BY <1>8 DEF Allocate
  <2>2. /\ todo' = todo \ {k} /\ winners' = winners /\ running' = running
        /\ pc = "alloc" /\ pc' = "alloc"
    BY <2>1 DEF AllocateReuse, AllocateFresh, AllocateExhausted, envVars
  <2>3. \A s \in stacks' : s \in stacks \/ s.key = k
    BY <2>1 DEF AllocateReuse, AllocateFresh, AllocateExhausted
  <2> QED BY <2>2, <2>3 DEF RunningDistinct, WinnersDistinct, StacksOfWinners,
          OutputsBuilt
<1>9. CASE SetRecords
  BY <1>9 DEF SetRecords, envVars, passVars, RunningDistinct, WinnersDistinct,
     StacksOfWinners, OutputsBuilt
<1>10. CASE \E failed \in SUBSET WantedListeners : ProxyReconcile(failed)
  BY <1>10 DEF ProxyReconcile, envVars, passVars, RunningDistinct, WinnersDistinct,
     StacksOfWinners, OutputsBuilt, WantedListeners
<1> QED
  BY <1>3, <1>4, <1>5, <1>6, <1>7, <1>8, <1>9, <1>10 DEF Next

\* It holds in every reachable state.
LEMMA BuildInvariant == Spec => []BuildInv
<1>1. Init => BuildInv
  BY DEF Init, BuildInv, RunningDistinct, WinnersDistinct, StacksOfWinners,
     OutputsBuilt
<1> QED BY <1>1, Invariance, BuildInvNext, PTL DEF Spec

\* Names tell stacks apart: the apexes of two stacks differ, and so do
\* endpoint names of two stacks.
LEMMA NamesApart ==
  ASSUME NEW c, NEW d
  PROVE  /\ StackFQDN(KeyOf(c)) = StackFQDN(KeyOf(d)) => KeyOf(c) = KeyOf(d)
         /\ EndpointFQDN(c) = EndpointFQDN(d) => KeyOf(c) = KeyOf(d)
<1>1. \A a : StackFQDN(KeyOf(a)) = IF a.instance = NoInstance THEN <<a.project>>
                                   ELSE <<a.instance, a.project>>
  BY DEF StackFQDN, KeyOf, MakeStackKey
<1>2. \A u, v, w, x, y, z :
        /\ <<u>> # <<v, w>> /\ <<u, v>> # <<w, x, y>>
        /\ <<u>> = <<v>> => u = v
        /\ <<u, v>> = <<w, x>> => u = w /\ v = x
        /\ <<u, v, w>> = <<x, y, z>> => u = x /\ v = y /\ w = z
  <2>1. \A u, v, w, x, y, z :
          /\ Len(<<u>>) = 1 /\ Len(<<u, v>>) = 2 /\ Len(<<u, v, w>>) = 3
          /\ <<u>>[1] = u /\ <<u, v>>[1] = u /\ <<u, v>>[2] = v
          /\ <<u, v, w>>[1] = u /\ <<u, v, w>>[2] = v /\ <<u, v, w>>[3] = w
    OBVIOUS
  <2> QED BY <2>1
<1>3. StackFQDN(KeyOf(c)) = StackFQDN(KeyOf(d)) => KeyOf(c) = KeyOf(d)
  <2> SUFFICES ASSUME StackFQDN(KeyOf(c)) = StackFQDN(KeyOf(d))
               PROVE  KeyOf(c) = KeyOf(d)
    OBVIOUS
  <2>1. (IF c.instance = NoInstance THEN <<c.project>> ELSE <<c.instance, c.project>>)
          = IF d.instance = NoInstance THEN <<d.project>> ELSE <<d.instance, d.project>>
    BY <1>1
  <2>2. /\ c.project = d.project
        /\ c.instance = NoInstance <=> d.instance = NoInstance
        /\ c.instance # NoInstance => c.instance = d.instance
    BY <1>2, <2>1
  <2> QED BY <2>2 DEF KeyOf, MakeStackKey
<1>4. EndpointFQDN(c) = EndpointFQDN(d) => KeyOf(c) = KeyOf(d)
  BY <1>2 DEF EndpointFQDN, KeyOf, MakeStackKey
<1> QED BY <1>3, <1>4

\* In the desired state a stack has one VIP and a VIP one stack.
LEMMA StacksApart ==
  ASSUME IInv, NEW s \in stacks, NEW t \in stacks
  PROVE  s.key = t.key <=> s.vip = t.vip
<1>1. PICK l \in snap : l.key = s.key /\ l.vip = s.vip
  BY DEF IInv, StacksLeased, Holds
<1>2. PICK m \in snap : m.key = t.key /\ m.vip = t.vip
  BY DEF IInv, StacksLeased, Holds
<1>3. l.key = m.key \/ l.vip = m.vip => l = m
  BY DEF IInv, LeasesUnique, validateSnapshot
<1> QED BY <1>1, <1>2, <1>3

\* A stack's name resolves to its VIP only, an endpoint's name to the VIP of
\* its stack unless it is the name of a stack.
THEOREM NamesResolve == Spec => []NamesResolveToStackVIP
<1>1. IInv /\ BuildInv => NamesResolveToStackVIP
  <2> SUFFICES ASSUME IInv, BuildInv, pc = "proxy", NEW r \in dns, NEW s \in stacks
               PROVE  /\ r.name = StackFQDN(s.key) => r.vip = s.vip
                      /\ \A c \in winners : KeyOf(c) = s.key /\ r.name = EndpointFQDN(c) =>
                           \/ r.vip = s.vip
                           \/ \E t \in stacks : r.name = StackFQDN(t.key)
    BY DEF NamesResolveToStackVIP
  <2> DEFINE apex == StackRecords(stacks)
             eps  == EndpointRecords(Endpoints(winners, stacks))
  <2>1. r \in apex \/ (r \in eps /\ \A a \in apex : a.name # r.name)
    BY DEF BuildInv, OutputsBuilt, buildDNSRecords, Shadowed
  <2>2. \A t \in stacks : [name |-> StackFQDN(t.key), vip |-> t.vip] \in apex
    BY DEF StackRecords
  <2>3. \A t \in stacks : \E c \in winners : KeyOf(c) = t.key
    BY DEF BuildInv, StacksOfWinners
  <2>4. CASE r \in apex
    <3>1. PICK t \in stacks : r = [name |-> StackFQDN(t.key), vip |-> t.vip]
      BY <2>4 DEF StackRecords
    <3>2. r.name = StackFQDN(t.key) /\ r.vip = t.vip
      BY <3>1
    <3>3. r.name = StackFQDN(s.key) => t.key = s.key
      BY <2>3, <3>2, NamesApart
    <3> QED BY <3>2, <3>3, StacksApart
  <2>5. CASE r \in eps /\ \A a \in apex : a.name # r.name
    <3>1. r.name # StackFQDN(s.key)
      BY <2>2, <2>5
    <3>2. PICK e \in Endpoints(winners, stacks) : r = [name |-> e.name, vip |-> e.vip]
      BY <2>5 DEF EndpointRecords
    <3>3. winners \in SUBSET Containers /\ stacks \in SUBSET StackEntry
      BY DEF IInv, TypeOK
    <3>4. PICK d \in winners, t \in stacks :
            KeyOf(d) = t.key /\ e.vip = t.vip /\ e.name = EndpointFQDN(d)
      BY <3>3, EndpointsOrigin
    <3>5. ASSUME NEW c \in winners, KeyOf(c) = s.key, r.name = EndpointFQDN(c)
          PROVE  r.vip = s.vip
      <4>1. KeyOf(c) = KeyOf(d)
        BY <3>2, <3>4, <3>5, NamesApart
      <4> QED BY <3>2, <3>4, <3>5, <4>1, StacksApart
    <3> QED BY <3>1, <3>5
  <2> QED BY <2>1, <2>4, <2>5
<1> QED BY <1>1, Invariance, BuildInvariant, PTL

\* A connection to an endpoint's VIP and port reaches its container, or that
\* of the same stack's endpoint with a later name on the same port.
THEOREM EndpointsAreReachable == Spec => []EndpointsReachable
<1>1. IInv /\ BuildInv => EndpointsReachable
  <2> SUFFICES ASSUME IInv, BuildInv, pc = "publish",
                      NEW c \in winners, NEW s \in stacks, NEW l \in listeners,
                      KeyOf(c) = s.key, l.vip = s.vip, l.port = c.port
               PROVE  \E d \in winners :
                        /\ KeyOf(d) = KeyOf(c) /\ d.port = c.port /\ l.bind = d.bind
                        /\ d = c \/ NameLess(EndpointFQDN(c), EndpointFQDN(d))
    BY DEF EndpointsReachable
  <2> DEFINE eps == Endpoints(winners, stacks)
             e == [name |-> EndpointFQDN(c), port |-> c.port, bind |-> c.bind,
                   vip |-> s.vip]
  <2>1. winners \in SUBSET Containers /\ stacks \in SUBSET StackEntry
    BY DEF IInv, TypeOK
  <2>2. l \in DesiredListeners(eps)
    BY DEF BuildInv, OutputsBuilt, WantedListeners
  <2>3. PICK f \in eps : /\ l = [vip |-> f.vip, port |-> f.port, bind |-> f.bind]
                         /\ \A g \in eps : g.vip = f.vip /\ g.port = f.port =>
                                             ~NameLess(f.name, g.name)
    BY <2>2 DEF DesiredListeners
  <2>4. PICK d \in winners, t \in stacks :
          /\ KeyOf(d) = t.key /\ f.vip = t.vip /\ f.name = EndpointFQDN(d)
          /\ f.port = d.port /\ f.bind = d.bind
    BY <2>1, EndpointsOrigin
  <2>5. KeyOf(d) = KeyOf(c) /\ d.port = c.port /\ l.bind = d.bind
    BY <2>3, <2>4, StacksApart
  <2>6. e \in eps
    <3>1. <<c, s>> \in {q \in winners \X stacks : KeyOf(q[1]) = q[2].key}
      OBVIOUS
    <3> QED BY <3>1 DEF Endpoints
  <2>7. ~NameLess(EndpointFQDN(d), EndpointFQDN(c))
    <3>1. e.vip = f.vip /\ e.port = f.port /\ e.name = EndpointFQDN(c)
      BY <2>3
    <3> HIDE DEF e, eps
    <3> QED BY <2>3, <2>4, <2>6, <3>1
  <2>8. EndpointFQDN(c) \in EndpointNames /\ EndpointFQDN(d) \in EndpointNames
    BY <2>1 DEF EndpointNames
  <2>9. EndpointFQDN(d) = EndpointFQDN(c) => d = c
    BY <2>5 DEF BuildInv, WinnersDistinct, EndpointMapKey
  <2>10. d = c \/ NameLess(EndpointFQDN(c), EndpointFQDN(d))
    BY <2>7, <2>8, <2>9, NameLessAssumption
  <2> QED BY <2>5, <2>10
<1> QED BY <1>1, Invariance, BuildInvariant, PTL
=============================================================================
