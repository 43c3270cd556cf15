------------------------------- MODULE Leases -------------------------------
(***************************************************************************)
(* VIP leases: internal/vip/allocator.go and the lease rules of            *)
(* internal/state/jsonstore.go.                                            *)
(*                                                                         *)
(* A lease table (state.Snapshot.Leases) is a set of records               *)
(* [key, vip, created, active].  The slice's order is never read, and      *)
(* LastSeenAt is written but never read, so neither is kept.  Times are    *)
(* natural numbers, 0 being Go's zero time.  VIPs are natural numbers in   *)
(* the order of Pool.UsableSorted().                                       *)
(***************************************************************************)
EXTENDS Integers

CONSTANTS
  Grace,    \* vip.lease_grace, in clock units
  Second    \* clock units in one second: state.json keeps whole seconds

ASSUME GraceAssumption  == Grace \in Nat \ {0}
ASSUME SecondAssumption == Second \in Nat \ {0}

Lease(Key, Vip) == [key : Key, vip : Vip, created : Nat, active : Nat]

\* Fault: the grace runs from the lease's creation.
CreatedBaseline(l) == l.created

\* The time a lease's grace runs from: LastActiveAt, or CreatedAt if zero.
Baseline(l) == IF l.active = 0 THEN l.created ELSE l.active

Expired(l, now) == Baseline(l) # 0 /\ now >= Baseline(l) + Grace

ReleaseExpired(leases, now) == {l \in leases : ~Expired(l, now)}

LeasesOf(leases, k) == {l \in leases : l.key = k}

\* The lease Allocate hands back: in the pool and owned by no other key.
Reusable(leases, k, pool) ==
  {l \in LeasesOf(leases, k) :
     /\ l.vip \in pool
     /\ \A m \in leases : m.vip = l.vip => m.key = k}

\* Fault: the unusable lease stays beside the new one.
NothingDropped(leases, k) == leases

\* What a fresh allocation keeps: k's own unusable lease is dropped first.
Dropped(leases, k) == leases \ LeasesOf(leases, k)

\* Fault: the address after the last usable one is handed out too.
FreeOffByOne(leases, pool) ==
  {v \in pool \cup {w + 1 : w \in pool} : \A l \in leases : l.vip # v}

\* Fault: the last usable address is never handed out.
FreeSkipsLast(leases, pool) ==
  {v \in pool : (\E w \in pool : v < w) /\ \A l \in leases : l.vip # v}

Free(leases, pool) == {v \in pool : \A l \in leases : l.vip # v}

FirstFree(leases, pool, v) ==
  /\ v \in Free(leases, pool)
  /\ \A u \in Free(leases, pool) : v <= u

NewLease(k, v, now) == [key |-> k, vip |-> v, created |-> now, active |-> now]

Touched(l, keys, now) ==
  IF l.key \in keys THEN [l EXCEPT !.active = now] ELSE l

touchActiveLeases(leases, keys, now) ==
  {Touched(l, keys, now) : l \in leases}

\* Fault: times are rounded to the nearest second.
formatTimeRounded(t) == ((t + (Second \div 2)) \div Second) * Second

\* RFC3339 without a fraction: sub-second digits are cut off.
formatTime(t) == t - (t % Second)

Stored(l) == [l EXCEPT !.created = formatTime(@), !.active = formatTime(@)]

toFileSnapshot(leases) == {Stored(l) : l \in leases}

\* No two leases share a stack key or a VIP.
validateSnapshot(leases) ==
  \A l, m \in leases : l.key = m.key \/ l.vip = m.vip => l = m
=============================================================================
