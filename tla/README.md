# A TLA+ model of stacklane

Stacklane gives every Docker Compose stack on a developer's machine its own
loopback address (VIP), DNS names that resolve to it, and TCP listeners on it
that lead to the containers' published ports. This directory models the parts
of it that are hard to test: the reconcile pass with its crash points, the loop
that decides when to reconcile, the state file, the TCP proxy manager, the TCP
and UDP relays, the DNS server, the life of a daemon beside its predecessor and
its clients, and the merging of the configuration. TLC checks the models on
small instances, and TLAPS proves the safety properties of all of them for every
value of the constants.

`PROJECT.json` maps each definition to the lines it models, and lists runs,
mutants, findings, hazards and theorems.

## 1. The system

| Component | Source | State | Operations |
|---|---|---|---|
| Engine, scheduling | `internal/reconcile/engine.go` Run | trigger channel, debounce timer, ticker, two event channels | the cases of one `select` |
| Engine, one pass | `engine.go` reconcileOnce, `build.go`, `apply.go` | lease snapshot, desired state, status snapshot | Load, ListRunning, ReleaseExpired, BuildDesired, Save, SetRecords, Proxy.Reconcile, publish |
| Allocator | `internal/vip/allocator.go` | none of its own: works on the snapshot | Allocate, ReleaseExpired |
| Pool | `internal/vip/pool.go` | usable addresses | ParsePool, Contains |
| State store | `internal/state/jsonstore.go` | `state.json`, `state.json.tmp` | Load, Save |
| DNS server | `internal/dns/server.go` | record set behind an atomic pointer, serial, two sockets | SetRecords, queries, Start, Shutdown |
| Proxy manager | `internal/proxy/manager.go`, `tcp.go` | listener map, connection count, contexts | Reconcile, Shutdown, accept loops, handlers |
| Relay | `internal/relay/udp.go`, `relay.go` | UDP sessions; TCP connections | read loop, pumps, sweeper, shutdown |
| Docker client | `internal/dockerapi` | event channel of 32 | ListRunning, Events |
| Labels, names | `internal/labels`, `internal/domain` | none | Parse, MakeStackKey, BuildFQDNs |
| Daemon | `internal/app/serve.go` | lock file, control socket | Serve, its deferred calls |
| Clients | `internal/app/status.go` | none | stat, dial, request |
| Config, CLI | `internal/config`, `cmd` | none | Load, Validate, choice of the state directory |
| Installer, version | `scripts`, `internal/version` | none | host set-up, a constant |

How they interact. `Serve` takes the daemon lock, checks that `state.json`
loads, starts DNS, proxy and the engine's goroutine. `Engine.Run` calls
`reconcileOnce` at startup, on ticks and on Docker events. A pass reads
`state.json` and Docker, changes the leases, saves them, and only then replaces
the DNS records and has the proxy open, repoint and close listeners; at the end
it publishes the status that `stacklane status` and `resolve` read through the
control socket. On cancellation `Serve` shuts proxy and DNS down without
waiting for the engine. The relay is a program of its own.

What is hard here: a stop of the daemon between two steps of a pass; passes
that fail half-way; expiry decided on stored times; claims that collide; a
timer that is restarted by what should fire it; an event stream that breaks; a
shutdown that races a reconcile; counts and sessions shared by goroutines; the
torn write of a file; half-closed connections; a record set that is replaced
under a query; a lock that is given up before the work it guards is over; two
parsers that must agree on one command line. The hazard list in `PROJECT.json`
has one entry each with its line and the properties that watch it.

## 2. The modules

| Module | Models | Extends |
|---|---|---|
| `Leases` | lease tables: expiry, reuse, fresh allocation, touching, what Save writes | |
| `Names` | stack keys, DNS names, map keys | |
| `Reconciler` | the reconcile pass against clock, Docker, crashes and restarts | `Leases`, `Names` |
| `ReconcilerProofs` | theorems about it | `Reconciler`, `TLAPS` |
| `EngineLoop` | `Engine.Run` and the goroutine of `Client.Events` | |
| `EngineLoopProofs` | theorems about it | `EngineLoop`, `TLAPS` |
| `StateFile` | abstract: an atomic, crash-safe file | |
| `JSONStore` | `Save` one system call at a time; implements `StateFile` | `Leases` |
| `JSONStoreProofs` | theorems about it, the refinement included | `JSONStore`, `TLAPS` |
| `ProxyManager` | Reconcile, Shutdown, accept loops, handlers | |
| `ProxyManagerProofs` | theorems about it | `ProxyManager`, `FiniteSetTheorems`, `TLAPS` |
| `UDPRelay` | `runUDP` | |
| `UDPRelayProofs` | theorems about it | `UDPRelay`, `FiniteSetTheorems`, `TLAPS` |
| `TCPRelay` | `runTCP`, a connection's handler and its two pipes | |
| `TCPRelayProofs` | theorems about it | `TCPRelay`, `FiniteSetTheorems`, `TLAPS` |
| `DnsServer` | Start, Shutdown, SetRecords, the answers | |
| `DnsServerProofs` | theorems about it | `DnsServer`, `WellFoundedInduction`, `TLAPS` |
| `Daemon` | several runs of `Serve` on one state directory, and a client | |
| `VipPool` | addresses of a CIDR, counted in two ways | |
| `Config` | Load, Validate, the clients' state directory | `VipPool` |
| `ServeProofs` | theorems about `Daemon` and `Config`, the two halves of `stacklane serve` | `Daemon`, `Config`, `FiniteSetTheorems`, `SequenceTheorems`, `WellFoundedInduction`, `TLAPS` |
| `MC…` | constants for TLC | the module of that name |

Definitions under a comment that starts with "Fault:" are not part of any
specification. Each is the code with a plausible mistake, and shows that the
property it is paired with in `PROJECT.json` would notice.

### Reconciler

State: `clock`, `running` and `flips` are the environment; `disk` is the lease
table in `state.json`; `now`, `snap`, `winners`, `todo`, `stacks` are the local
variables of a pass (`desired.Stacks` is `stacks`, `desired.Endpoints` is
`Endpoints(winners, stacks)`); `dns`, `listeners`, `status` are what the three
consumers serve; `pc` says where `reconcileOnce` is.

Actions in the order of the code: `Begin` (reads the clock), `Load`, `List`
(ListRunning, ReleaseExpired, candidates and winners), `AllocateReuse`,
`AllocateFresh`, `AllocateExhausted` (one step per stack in key order), `Save`
(touchActiveLeases, validation, truncation of times, write), `SetRecords`,
`ProxyReconcile(failed)` (the sockets in `failed` could not be bound),
`Publish`. `AbandonPass` is an error of Load or ListRunning; `SaveFails` is an
error of Save, after which the code skips DNS and proxy and still publishes a
status. `Crash` can happen anywhere and leaves only `disk`; `Restart` may bring
another `vip.pool`.

Abstractions: a VIP is a number in the order of `UsableSorted`; a name is the
sequence of its labels; `LastSeenAt` is dropped because nothing reads it; a
container is a record of what its labels and its loopback binding say, with
`valid` false if they do not parse. `Save` is one step here; `JSONStore` shows
why that is right. `SetRecords` cannot fail on what the pass hands it (IPv4
loopback addresses under the base domain), so its error path is left out.

### EngineLoop

One action for each case of the `select` (`CtxDone`, `OnTrigger`, `OnDebounce`,
`OnTick`, `OnEvent`, `OnEventsClosed`, `OnError`), `scheduleDebounced` and
`stopDebounce` as in the code, the startup pass, and the event goroutine
(`Forward` into a bounded channel, `CloseStream`). When the stream fails, what
the SDK held is lost; a message that the goroutine has already taken, and may be
blocked on, is still forwarded before the error is. `debounceTimer` and
`debounceC` are separate variables, because the code clears them separately.
`inventory` records whether a change was made since the last list ("changed"),
and whether its event was lost or its pass failed ("missed"). Time passes with
`Advance`: a ready case is served within a unit, while a pass may take any
number of units.

### StateFile and JSONStore

`StateFile` says what `Save` promises: the file changes at one instant or not
at all, whole. `JSONStore` has validate, mkdir, open with truncation, write,
sync and close, rename, sync of the directory, each of which may fail. `Kill`
ends the process at any point; `PowerLoss` may also turn unsynced bytes into
garbage and bring back directory entries that were not synced (`old`). `Load`
is modelled by what it accepts; a file that others may read is refused without
counting as corrupt, which decides what `--state-reset-on-corrupt` may discard.

### ProxyManager

A listener object lives on after it has left the map, so objects have
identities. `Reconcile` checks `m.shutting`, then takes the lock; holding it, it
stops stale listeners (and waits for each with a timeout), updates backends and
opens listeners. `Shutdown` sets the flag, cancels the root context, takes the
lock, closes what is in the map, and waits for connections or its timeout. Each
connection is accepted, counted, refused or handled, dialled, proxied, and ended
by itself or by its listener's context; then its handler's deferred calls
uncount it (`Uncount`) and release `Shutdown` (`Done`), a step each. So there
may be more handlers than `proxy.max_conns`, but never more that still have an
open connection (`Handled`).

### UDPRelay

The read loop is the only one that inserts sessions; pumps, the sweeper, failed
writes and shutdown remove them. The lock is given up while the loop dials, so
`ReceiveNew` and `Insert` are separate steps. A pump removes its entry and
closes its socket in two steps. Ages stop counting at `Idle + 1`, where they no
longer matter.

### TCPRelay

The accept loop counts a connection before it compares with the limit; the
handler's three deferred calls (close, uncount, `active.Done()`) are three steps.
Each direction of a connection is a record: what its source sent, whether it
has ended, what the pipe holds and what was delivered, and whether the pipe
reads, writes, half-closes or has reported. `CtxCloses` is the goroutine that
waits for the context, `UseClosed` a read or write on a socket that this process
closed itself. Once an error has ended a pipe, or it has reported, its counters
no longer matter and are cleared. `internal/proxy/tcp.go` repeats this code for
the proxy, so what is shown of a connection here holds there.

### DnsServer

`SetRecords` publishes with two stores (`records`, then `serial`), and a handler
loads each on its own: `Receive` loads the set, `Reply` does the rest. The
variables `list` and `since` are history, what callers handed in and what was
in force while the query was handled. `Start` and `Shutdown` hold `s.mu` over
several steps (`dpc`). `nsIP` calls `ListenAddr`, which takes the same lock, so
the answer for `ns.<base>` cannot be made while `Shutdown` waits for handlers
(`MayReply`); the two-second timeout in `Serve` resolves this. The miekg/dns
servers are external: they are taken to have been activated by the time
`Shutdown` is called (otherwise they return an error and leave the sockets
open), and to wait for their handlers.

### Daemon

A process runs `Serve` once: lock, state, DNS, control socket, engine, and the
deferred calls in reverse order, each a step. Removing the socket and closing
its listener go by the path and remove whatever is there. The engine is a
goroutine that `Serve` does not wait for; a pass here lists, saves and binds
one VIP listener, with the checks of context and `m.shutting` where the code has
them. `Kill` ends a process anywhere: the kernel releases lock, sockets and
ports, and the socket's file stays. A client finds the file, dials it and waits.

### VipPool and Config

`Config` is a function of its input, stepped through `Load`, `ParsePool` and a
client. `Parse` is Go's flag package, which stops at the first word or `--` and
fails at the first token it does not understand; `filterKnown` is the code's own
pass over the same tokens that looks for `--config`. Both are functions of the
position in the command line (`ParseAt` and `FilterAt` say what happens at a
token), `LastOf` is the last token that `filterKnown` takes with a flag, and a
token is a flag, a flag with a value, a number that starts with a dash, or a
word. The value parsers take such a number as the value of the flag before it,
unless it is to have no sign (`Refuses`). One setting stands for all that are
treated alike; the settings that `Validate` treats in a way of their own (base
domain, default instance, log level, automatic aliases) are there by themselves,
as far as it looks at their text. Names that `Daemon` has too start with
`Config`, so that one module can be about both. `VipPool` works on address
numbers; `countUsable` and `enumerateUsable` are the two ways of counting.

## 3. What the runs check

| Run | Result | Shows |
|---|---|---|
| `MCReconciler` | pass | `LeasesUnique`, `AdvertisedIsDurable`, `NoEarlyRelease`, `UnservedOnlyWhenFull`, `NamesResolveToStackVIP`, `EndpointsReachable` over all interleavings of a pass with time, containers, failures, one stop of the daemon and a changed pool |
| `MCReconcilerLive` | pass | `Converges`: once containers stop changing, DNS, proxy and status settle on them |
| `MCEngineLoop` | pass | `NoLostWakeup`, and `HealsOrStops`: a missed event is made good by a tick unless the loop stops, and a cancelled loop returns; with and without debounce |
| `MCJSONStore` | pass | `SavesAtomically` (every step is one of `StateFile`), `LoadableStays`, `RefusedUntouched`, `DeadlinesKept` |
| `MCProxyManager` | pass | `ConnsBounded`, `CancelReachesConns`, `ShutdownReturns`, `RemovedConnsEnd` |
| `MCUDPRelay` | pass | `SessionsBounded`, `SessionsConsistent`, `ShutdownCompletes`, `IdleExpires` |
| `MCReconcilerGap` | violation of `LiveStackKeepsVIP` | expiry is decided before liveness |
| `MCTCPRelay` | pass | `ConnsBounded`, `HalfCloseIsClean`, `Delivered`, `RelayEnds` |
| `MCDnsServer` | pass | `AnswerWasCurrent`, `PublishedInOrder`, `ZoneRules`, `ServerStops` |
| `MCDaemon` | pass | `ServingIsReachable`, `NothingInTheWay`, `BesideHolderOnlyExit`, `StopExits`, `TakesOver` |
| `MCConfig` | pass | `DiscoveryAgrees`, `StrongestWins`, `PoolAgrees`, `ClientFindsDaemon` |
| `MCDaemonTwoWriters` | violation of `OneWriter` | the engine outlives the lock |

`MCReconciler` and `MCJSONStore` also check the type invariant of their modules,
the first conjunct of the inductive invariants of section 4. The type invariants
of the other modules are not conditions of a run; they are proved there.
`Config` has none, because its variables only hold values of its operators;
`ConfigInv` of section 4 says which.

### Findings

The violation runs state what the repository says of itself and show a
behaviour of the code that disagrees; the quotes are in `PROJECT.json`.

1. **A live stack can lose its VIP** (`engine.go:271`). If no pass succeeds for
   as long as the grace (the daemon was stopped, the machine slept), the first
   pass after the gap releases the leases of running stacks before it looks at
   them. They get addresses again in key order, not necessarily the old ones.
2. **Two daemons can write at a time** (`serve.go:210`). `Serve` does not wait for
   the engine, and `Save` looks at no context. The lock is released while a last
   pass may be about to save; after an error of the control server the engine
   has not even been cancelled. `BesideHolderOnlyExit` says how far it goes: the
   process has nothing left to do but to exit, so the overlap is short.

### Observations

Other behaviours of the code that the models contain and that a maintainer may
want to know. The passing runs hold with all of them, or within the bounds that
leave them out, as noted.

* Endpoint `x` of project `b` and instance `x` of project `b` share a DNS name.
  `buildDNSRecords` lets the instance have it (`apply.go:110`), so the endpoint's
  name leads to another stack; `NamesResolveToStackVIP` says so. The map behind
  `stacklane resolve` is filled in the other order (`apply.go:200`) and names the
  endpoint's address, so `resolve` and DNS disagree.
* Two endpoints of a stack on one public port share one listener, and the later
  name gets it without a warning (`manager.go:159`), because `BuildDesired` only
  looks for conflicts of name and port together (`build.go:63`).
  `EndpointsReachable` says so. Container 5 of `MCReconciler` makes both happen.
* A tick only restarts the debounce timer (`engine.go:190`), so with a debounce
  of at least the interval, which validation accepts, `HealsOrStops` is
  false. `MCEngineLoop` has shorter ones. Events closer together than the
  debounce postpone every pass in the same way.
* `Reconcile` reads `m.shutting` before it takes the lock (`manager.go:139`), so a
  listener may be opened after `Shutdown` has closed them all. Its context is
  cancelled, so nothing is proxied (`CancelReachesConns`), and it goes
  with the process (`TakesOver`).
* An accept loop ends on any error that is not a timeout, such as too many open
  files (`manager.go:295`); the listener stays in the map, and no later pass
  opens it again. `AcceptError` is part of `MCProxyManager`. The TCP relay
  ends as a whole in that case.
* After a failed Save the status still shows allocations that were neither saved
  nor advertised (`apply.go:42`).
* The pump's read deadline in `udp.go:212` is not moved by packets of the client,
  so a session that is busy in one direction only ends after `SessionIdle`.
* An A query for the apex is answered NXDOMAIN, although other types find that
  the name exists (`server.go:315`); `ZoneRules` leaves the apex out.
* `Shutdown` of the DNS server and a query for `ns.<base>` wait for each other
  until the timeout (`server.go:394`).
* On a command line with a stray word, or where a value starts with a dash, the
  search for `--config` and the flags disagree about what is a value
  (`config.go:568`). `Plain` in `DiscoveryAgrees` leaves these out. So do
  command lines that the flags refuse, where nothing is loaded.
* `validateVIPPool` and `ParsePool` count usable addresses in different ways, and
  both counts are at least 2 for every loopback pool from /30 to /16
  (`PoolUsable`), so a pool of that shape is never refused as too small.
* A client passes `~/` from its flag or variable on unexpanded, and falls back to
  the default directory if the daemon's file does not load without the daemon's
  other flags (`main.go:99`). `ClientFindsDaemon` names both exceptions.
* `--dns-ttl` is cut to 32 bits without an error (`config.go:520`); a multiple of
  2^32 becomes 0 and is then refused.

### Bounds

* `MCReconciler`: three stacks and two addresses, so that the pool runs out; seven
  containers, among them one that comes back without a binding, one with another
  host port, two with one endpoint, two of a stack with one port, and one with
  the DNS name of another stack;
  clock readings 1..3 with a grace of 2, so that a lease can be created,
  touched, kept and expire; three container starts or stops, enough to fill the
  pool, to replace a container, or to have two claim one endpoint; one stop of
  the daemon, with a pool that overlaps the old one; three initial files: none,
  one from an older pool, one with leases that lack times.
* `MCReconcilerLive`: two stacks, one stop, three starts or stops.
* `MCEngineLoop`: debounce 0 or 1, interval 3, three events, room for two in
  the channel, so that the goroutine blocks.
* `MCProxyManager`: one socket with two backends, two listener objects (an old
  one still draining and its successor), two connections, a limit of one.
* `MCJSONStore`: lease tables with none, one, two and two conflicting leases;
  times that are not whole seconds; six initial files. The number of saves and
  crashes is not bounded.
* `MCTCPRelay`: two connections, a limit of one, one chunk in each direction. With
  two chunks the same properties hold (373,523 states), in three minutes.
* `MCDnsServer`: seven record lists that move, drop, repeat and capitalise two
  names or are refused; 56 questions; two updates, so that one can fall before
  and one after a handler's load; any number of queries.
* `MCDaemon`: two runs of the daemon, which is one with a successor; passes,
  client calls and failures are not bounded.
* `MCConfig`: every setting in every source with a good and a bad value, and 34
  command lines, 22 of them plain. A 32-bit TTL has 4 bits (`TtlMod`); pools are /23 to /31, because
  a /16 only repeats the same last octets.
* `MCUDPRelay`: two clients, one session allowed, two session objects alive, so
  that a new session meets the pump of an old one. Time is not bounded.

`EngineLoop`, `ProxyManager`, the relays, `DnsServer` and `Daemon` end when they are
cancelled, shut down or have exited, so their runs do not check for deadlock;
that they get there is a liveness property. `Config` ends with its client.

### Fairness

* `Reconciler`: the engine's goroutine keeps running, and the unit that
  `scripts/install.sh` writes restarts the daemon (`Restart=on-failure`): weak
  fairness. Load, List, Save and binding may fail any number of times but not
  for ever: strong fairness of their success. Nothing is assumed about
  containers or crashes; both are bounded in number.
* `EngineLoop`: goroutines run and time passes (weak). Go's `select` chooses
  uniformly among ready cases, so the cases that start a pass or end Run are
  not passed over for ever, and Docker's errors are transient (strong).
* `ProxyManager`: goroutines run (weak); a Go mutex does not starve a waiter
  (strong fairness of taking it). Nobody is obliged to call Reconcile or
  Shutdown, or to end a connection.
* `UDPRelay`: goroutines run, and the sweeper ticks while its context lives
  (weak). Nothing is assumed about clients and the upstream host.

* `TCPRelay`: goroutines run, and dials, writes and the drain have timeouts
  (weak). A read may wait for ever while its socket is open, peers need not
  send, end or connect, and nobody need cancel.
* `DnsServer`: a call of Start, Shutdown or SetRecords that has begun goes on, and
  so does a handler that is not waiting for the lock (weak).
* `Daemon`: processes run (weak); Docker and the disk do not fail for ever
  (strong fairness of List and Saved). Signals, kills, the control server's
  errors and the client are free.
* `Config` has no fairness; it states no liveness.

## 4. What is proved

The theorems hold for every value of the constants that satisfies the named
assumptions of the modules: any containers, pools, clocks, daemons, clients,
connections, record lists, limits, and any number of failures and crashes. The
assumptions say that the constants have their types and limits are positive,
and beyond that

* initial files pass `validateSnapshot`, and pools are sets of numbers
  (`Reconciler`);
* of two different endpoint names one comes first (`NameLessAssumption`), as with
  Go's order of strings; proofs need it where a later record replaces an earlier
  one;
* a lease's `LastActiveAt` is the zero time or at least a second later
  (`TimesAssumption` in `JSONStore`). Otherwise cutting a time to whole seconds
  could turn it into the zero time, which means "never active". Go's zero time is
  in the year 1, and the code writes `time.Now`;
* processes, clients, session objects, listeners and connections are finitely
  many, so that counts are numbers;
* a command line is a finite sequence of tokens (`ArgListsAssumption`), every
  setting has a default (`DefaultAssumption`), and what a source says of the pool
  is one of `Cidrs`, which include text that is no CIDR (`PoolTextAssumption`).

Every theorem about an invariant rests on an inductive one: `Init` implies it,
each step keeps it, and it implies the property. None of the properties below
is inductive by itself. For each component there is also the theorem that its
`TypeOK` always holds.

`ReconcilerProofs`: `LeasesAreUnique`, `AdvertisedVIPsAreDurable`,
`LiveStacksAreServed`, the action property `LeasesOutliveGrace`
(`NoEarlyRelease`), `NamesResolve`, `EndpointsAreReachable`. `IInv` adds what a
pass in progress guarantees: each stack of the desired state has its lease in
the snapshot (`StacksLeased`), and on disk once Save is done (`StacksSaved`); a
stack still to be allocated is not in the desired state (`TodoDisjoint`), so that
dropping its lease harms no other; the snapshot has every lease of the file that
the pass has no reason to drop (`SnapKeepsDisk`, for `NoEarlyRelease`); each
winner is waiting, served or out of addresses (`WinnersAccounted`, for
`UnservedOnlyWhenFull`). For names and listeners, `BuildInv` says that there is
one winner for a map key (as no two running containers have one ID), that
desired stacks are those of winners, and that DNS and proxy have exactly what
was built. Two more theorems give the true form of finding 1: `LiveStacksStay`, a
pass gives a live stack the VIP of its lease in the file unless the grace was
over when the pass began, or the pool changed; and `GraceIsRestarted`, a Save lets the
grace of every live stack run from its pass. So passes that succeed within the
grace, less the second that `formatTime` may cut off, never move a live stack. `NamesApart` and `StacksApart` then say which endpoints and stacks
share a name, and the lease invariants that different stacks have different
VIPs.

`JSONStoreProofs`: `LoadableFilesStay`, `RefusedFilesStay`, `DeadlinesAreKept`,
and the refinement, `SavesAreAtomic` and `StoreRefinesStateFile`
(`Spec => StateFile!Spec`). The mapping takes a Save to be done when the rename
has happened. `StoreInv` says that bytes under the name `state.json` are always
synced (`FilesSafe`), what the temporary file and, after the rename, the file
hold at each step (`TmpReady`), that a snapshot being written was validated
(`ArgValid`), that a running daemon has a file it can load (`Serving`), and that
earlier files were good unless one was discarded on request (`OldLoadable`).

`ServeProofs`, of `Daemon`: `ServingReachable`, `WayIsClear`, `BesideHolder`.
`DaemonInv` ties
every resource to a stretch of `Serve`: the lock is held exactly between
acquiring and releasing it (`LockHeld`), the DNS port, the socket listener, the VIP
listener and the engine each within a stretch of their own (`OwnersPlaced`), all
inside the lock's except the last two, which reach as far as the exit. One holder
of the lock then means one owner of the others.

`ServeProofs`, of `Config`: `ConfigDiscoveryAgrees`, `ConfigStrongestWins`,
`ConfigPoolAgrees`, `ConfigClientFindsDaemon`. `ConfigInv` says that the input
stays, that a daemon past `Load` has what `Load` makes of the input, and that one
which failed did so in `Load`; the rest is about `Load` itself. `FilterAgrees` is
the core of it: at every token of a plain command line where a flag starts, what
is left after `filterKnown` yields the same `--config` as the flags do. It is
shown by induction from the end of the line, with the set of the distances from
the end for which it holds (`SetInduction`, from the well-foundedness of the
naturals, needs no rule with a predicate as parameter); that the two recursions
have a solution (`ParseExists`, `FilterExists`) goes the same way. `ParseShift` lets
a parser forget the tokens before its position. For the client,
the same lemma is applied to the command line that the client makes up itself
(`ClientFile`). `MergedAt` is the order of the sources. `PoolFours` takes the
prefix lengths 16 to 30 one by one, as the provers know powers of two only
as numerals: the network address and the size are multiples of four, so the next
two addresses end neither in 0 nor in 255 and are usable (`PoolUsable`).

`UDPRelayProofs`: `UDPSessionsBounded`, `UDPSessionsConsistent`. Between the two
checks of the limit only others act, and they only remove, so the count falls or
stays (`CountFalls`). `MapInv` adds the life of a session object: one that is
done is free, an entry's pump has not removed it yet, and nothing is inserted
after the last `closeAll`.

`TCPRelayProofs`: `TCPConnsBounded`, `TCPHalfCloseIsClean`. `CountInv` says what
the counter counts, the connections whose handlers have not uncounted them and
the one the loop has just accepted. `PipesInv` says of each direction that what
was delivered and what is buffered was sent (`PipeOK`), and that sockets under a
copying pipe are open until the context ends (`SocketsOpen`).

`ProxyManagerProofs`: `ProxyConnsBounded`, `ProxyCancelReachesConns`. `ProxyInv`
says that a listener with a live context is in the map, that there is none once
`shutting` is set (one that a late Reconcile opens starts cancelled), and that
`m.conns` is exact. The limit is proved of the connections that were let in and
not yet uncounted, as the counter also has those about to be refused.

`EngineLoopProofs`: `WakeupNotLost`. `LoopInv` says that the timer is set exactly
while its channel is listened to (`TimerArmed`), which channels are open or
empty at each stage of the stream (`StreamPlaced`), and `Waking`, the property at
every place of Run instead of only at the select.

`DnsServerProofs`: `DnsPublishedInOrder`, `DnsAnswerWasCurrent`, `DnsZoneRules`.
`DnsInv` ties the published set and the set a handler has loaded to a list: the
last one, and one in force since the query came. That the set built from a list
has the list's names needs the last of several records for a name
(`LastPosition`, from the well-foundedness of the naturals).

Only model-checked are the liveness properties (`Converges`, `HealsOrStops`,
`ShutdownReturns`, `RemovedConnsEnd`, `ShutdownCompletes`, `IdleExpires`, `Delivered`,
`RelayEnds`, `ServerStops`, `StopExits`, `TakesOver`), because the prover has no rule
for fairness. Every other property of a passing run is proved.

## 5. What is not modelled

* Label parsing and slug validation are string handling without state: a
  container record says whether its labels parse and what they yield. The
  mapping of Docker's inspect answer, field by field, likewise.
* `validateEndpoint` and `validateLoopbackBackend` are checks of addresses and
  ports without state: an endpoint that fails them is not in the `desired` map of
  `ProxyManager`. The VIPs of a validated pool are
  loopback addresses, as the checks require (`PoolAgrees`).
* The output of `status` and `resolve`, usage text, dispatch and the flags of
  `stacklane-relay` are formatting and parsing.
* The fake Docker client is a test double, the version a constant, the installer
  host set-up; of the latter, `Restart=on-failure` is assumed by `Reconciler`.

## 6. Plan

Done: all modules of section 2, their runs, and the proofs of every safety
property that the runs check. What could still be added:

1. `Daemon`: that of two saves that overlap the later one wins whole, which needs
   the steps of `JSONStore` in two processes at once.
2. `Config`: how the two searches for `--config` differ on command lines that are
   not plain, as a list of cases instead of a condition.
