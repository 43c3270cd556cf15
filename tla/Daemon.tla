------------------------------- MODULE Daemon -------------------------------
(***************************************************************************)
(* Daemons that share a state directory: Serve and its lock                *)
(* (internal/app/serve.go), the signal handling of cmdServe                *)
(* (cmd/stacklane/main.go) and the status and resolve clients              *)
(* (internal/app/status.go).                                               *)
(*                                                                         *)
(* A process runs Serve once: it takes the lock, starts DNS, binds the     *)
(* control socket, starts the engine, and on the way out undoes all this   *)
(* in the order of its deferred calls.  The engine is a goroutine that     *)
(* Serve does not wait for; it lives until the process exits.  What a pass *)
(* computes is Reconciler's business: here a pass lists, saves and binds.  *)
(***************************************************************************)
EXTENDS Naturals, FiniteSets

CONSTANTS Procs    \* runs of "stacklane serve" on one state directory

ASSUME ProcsAssumption == IsFiniteSet(Procs)

Nobody == "nobody"
ASSUME NobodyAssumption == Nobody \notin Procs

VARIABLES
  pc,         \* process -> where Serve is
  cancelled,  \* the processes whose ctx is done
  eng,        \* process -> where its engine is
  lock,       \* the holders of the flock on daemon.lock
  sock,       \* the process that made the file stacklane.sock, or Nobody
  listening,  \* the processes whose control listener is open
  dns,        \* the process that has the DNS port
  vip,        \* the process that has the listener of a VIP and port
  shut,       \* the processes whose proxy manager has been shut down
  client      \* a status or resolve call: [st, to]

vars == <<pc, cancelled, eng, lock, sock, listening, dns, vip, shut, client>>
resVars == <<lock, sock, listening, dns, vip, shut>>

NoCall == [st |-> "idle", to |-> Nobody]

Init ==
  /\ pc = [p \in Procs |-> "new"] /\ cancelled = {}
  /\ eng = [p \in Procs |-> "off"]
  /\ lock = {} /\ sock = Nobody /\ listening = {}
  /\ dns = Nobody /\ vip = Nobody /\ shut = {}
  /\ client = NoCall

Goto(p, s) == pc' = [pc EXCEPT ![p] = s]

Alive(p) == pc[p] \notin {"new", "gone"}

Without(owner, p) == IF owner = p THEN Nobody ELSE owner

-----------------------------------------------------------------------------
\* Starting.

\* acquireDaemonLock.
Acquire(p) ==
  /\ pc[p] = "new" /\ lock = {}
  /\ lock' = {p} /\ Goto(p, "load")
  /\ UNCHANGED <<cancelled, eng, sock, listening, dns, vip, shut, client>>

AlreadyRunning(p) ==
  /\ pc[p] = "new" /\ lock # {}
  /\ Goto(p, "gone")
  /\ UNCHANGED resVars /\ UNCHANGED <<cancelled, eng, client>>

\* The state file loads; the pool and the Docker client are made.
LoadState(p) ==
  /\ pc[p] = "load" /\ Goto(p, "dns")
  /\ UNCHANGED resVars /\ UNCHANGED <<cancelled, eng, client>>

DnsStart(p) ==
  /\ pc[p] = "dns" /\ dns = Nobody
  /\ dns' = p /\ Goto(p, "unlink")
  /\ UNCHANGED <<cancelled, eng, lock, sock, listening, vip, shut, client>>

\* Fault: a socket file that is there is left alone.
RemoveSockSkipped(p) ==
  /\ pc[p] = "unlink" /\ Goto(p, "bind")
  /\ UNCHANGED resVars /\ UNCHANGED <<cancelled, eng, client>>

\* The file that an earlier daemon may have left is removed.
RemoveSock(p) ==
  /\ pc[p] = "unlink"
  /\ sock' = Nobody /\ Goto(p, "bind")
  /\ UNCHANGED <<cancelled, eng, lock, listening, dns, vip, shut, client>>

\* The control socket is bound, its server and the engine are started.
ListenControl(p) ==
  /\ pc[p] = "bind" /\ sock = Nobody
  /\ sock' = p /\ listening' = listening \cup {p}
  /\ eng' = [eng EXCEPT ![p] = "list"] /\ Goto(p, "serve")
  /\ UNCHANGED <<cancelled, lock, dns, vip, shut, client>>

\* A step of the start fails: the file is corrupt, a port or path is taken
\* by somebody else.  What was deferred by then is run.
StartFails(p) ==
  /\ \/ pc[p] \in {"load", "dns"} /\ Goto(p, "unlock")
     \/ pc[p] = "bind" /\ Goto(p, "unproxy")
  /\ UNCHANGED resVars /\ UNCHANGED <<cancelled, eng, client>>

-----------------------------------------------------------------------------
\* Stopping.

\* SIGINT or SIGTERM.
Signal(p) ==
  /\ Alive(p) /\ p \notin cancelled
  /\ cancelled' = cancelled \cup {p}
  /\ UNCHANGED resVars /\ UNCHANGED <<pc, eng, client>>

\* httpSrv.Shutdown closes the listener, which removes the socket file, and
\* waits for requests.
CtxDone(p) ==
  /\ pc[p] = "serve" /\ p \in cancelled
  /\ listening' = listening \ {p} /\ sock' = Nobody
  /\ Goto(p, "http")
  /\ UNCHANGED <<cancelled, eng, lock, dns, vip, shut, client>>

\* The control server ends with an error: Serve returns without Shutdown,
\* and nobody has cancelled the engine.
ControlFails(p) ==
  /\ pc[p] = "serve" /\ Goto(p, "unsock")
  /\ UNCHANGED resVars /\ UNCHANGED <<cancelled, eng, client>>

HttpDrained(p) ==
  /\ pc[p] = "http" /\ client.to # p
  /\ Goto(p, "unsock")
  /\ UNCHANGED resVars /\ UNCHANGED <<cancelled, eng, client>>

\* Fault: the requests are waited for without a limit.
HttpWaits(p) == HttpDrained(p)

\* Five seconds have passed.
HttpTimeout(p) ==
  /\ pc[p] = "http" /\ Goto(p, "unsock")
  /\ UNCHANGED resVars /\ UNCHANGED <<cancelled, eng, client>>

\* The deferred calls, the last one first.  Closing the listener and removing
\* the file go by the path: they remove whatever is there.
CloseControl(p) ==
  /\ pc[p] = "unsock"
  /\ listening' = listening \ {p} /\ sock' = Nobody
  /\ Goto(p, "unproxy")
  /\ UNCHANGED <<cancelled, eng, lock, dns, vip, shut, client>>

ProxyShutdown(p) ==
  /\ pc[p] = "unproxy"
  /\ vip' = Without(vip, p) /\ shut' = shut \cup {p}
  /\ Goto(p, "undns")
  /\ UNCHANGED <<cancelled, eng, lock, sock, listening, dns, client>>

\* Fault: the lock is deferred after DNS, so it is given up before.
UnlockFirst(p) ==
  /\ pc[p] = "undns"
  /\ \/ p \in lock /\ lock' = lock \ {p} /\ UNCHANGED <<pc, dns>>
     \/ p \notin lock /\ dns' = Without(dns, p) /\ Goto(p, "unlock") /\ UNCHANGED lock
  /\ UNCHANGED <<cancelled, eng, sock, listening, vip, shut, client>>

DnsShutdown(p) ==
  /\ pc[p] = "undns"
  /\ dns' = Without(dns, p) /\ Goto(p, "unlock")
  /\ UNCHANGED <<cancelled, eng, lock, sock, listening, vip, shut, client>>

Unlock(p) ==
  /\ pc[p] = "unlock"
  /\ lock' = lock \ {p} /\ Goto(p, "exit")
  /\ UNCHANGED <<cancelled, eng, sock, listening, dns, vip, shut, client>>

\* What the system takes back from a process that ends.  A file stays.
Ended(p) ==
  /\ Goto(p, "gone")
  /\ eng' = [eng EXCEPT ![p] = "off"]
  /\ lock' = lock \ {p} /\ listening' = listening \ {p}
  /\ dns' = Without(dns, p) /\ vip' = Without(vip, p)
  /\ client' = IF client.to = p THEN NoCall ELSE client
  /\ UNCHANGED <<cancelled, sock, shut>>

\* Fault: the socket file is removed once more when Serve has returned.
ExitRemovesSock(p) ==
  /\ pc[p] = "exit" /\ Goto(p, "gone")
  /\ eng' = [eng EXCEPT ![p] = "off"] /\ vip' = Without(vip, p)
  /\ sock' = Nobody
  /\ client' = IF client.to = p THEN NoCall ELSE client
  /\ UNCHANGED <<cancelled, lock, listening, dns, shut>>

Exit(p) == pc[p] = "exit" /\ Ended(p)

Kill(p) == Alive(p) /\ Ended(p)

-----------------------------------------------------------------------------
\* The engine's goroutine.

EngGoto(p, s) ==
  /\ eng' = [eng EXCEPT ![p] = s]
  /\ UNCHANGED <<pc, cancelled, client>>

\* A tick, an event or a trigger; the select may prefer it to ctx.Done().
BeginPass(p) == eng[p] = "select" /\ EngGoto(p, "list") /\ UNCHANGED resVars

EngineStops(p) ==
  eng[p] = "select" /\ p \in cancelled /\ EngGoto(p, "off") /\ UNCHANGED resVars

\* The state is loaded and Docker answers.
List(p) ==
  /\ eng[p] = "list" /\ p \notin cancelled
  /\ EngGoto(p, "save") /\ UNCHANGED resVars

\* One of the two fails; under a context that is done the list does.
ListFails(p) == eng[p] = "list" /\ EngGoto(p, "select") /\ UNCHANGED resVars

\* Save looks at no context.
Saved(p) == eng[p] = "save" /\ EngGoto(p, "advertise") /\ UNCHANGED resVars

\* A lease table that could not be saved is not advertised.
SaveFails(p) == eng[p] = "save" /\ EngGoto(p, "select") /\ UNCHANGED resVars

\* Proxy.Reconcile looks at m.shutting, then asks for the manager's lock.
ReconcileProxy(p) ==
  /\ eng[p] = "advertise"
  /\ EngGoto(p, IF p \in shut THEN "select" ELSE "listen")
  /\ UNCHANGED resVars

\* Fault: a listener that cannot be bound ends the engine.
BindOrStop(p) ==
  /\ eng[p] = "listen"
  /\ vip' = IF vip = Nobody THEN p ELSE vip
  /\ EngGoto(p, IF vip \in {Nobody, p} THEN "select" ELSE "off")
  /\ UNCHANGED <<lock, sock, listening, dns, shut>>

\* A listener that cannot be bound is left to the next pass.
Bind(p) ==
  /\ eng[p] = "listen"
  /\ vip' = IF vip = Nobody THEN p ELSE vip
  /\ EngGoto(p, "select")
  /\ UNCHANGED <<lock, sock, listening, dns, shut>>

-----------------------------------------------------------------------------
\* status and resolve.

ClientStep == UNCHANGED resVars /\ UNCHANGED <<pc, cancelled, eng>>

\* os.Stat finds the socket file; without one the client gives up.
ClientStat ==
  /\ client.st = "idle" /\ sock # Nobody
  /\ client' = [client EXCEPT !.st = "dial"]
  /\ ClientStep

ClientDial ==
  /\ client.st = "dial" /\ sock \in listening
  /\ client' = [st |-> "sent", to |-> sock]
  /\ ClientStep

\* The file is gone again, or nobody listens behind it.
ClientRefused ==
  /\ client.st = "dial" /\ sock \notin listening
  /\ client' = NoCall
  /\ ClientStep

\* An answer has come, or the client's three seconds are over.
ClientReturns ==
  /\ client.st = "sent" /\ client' = NoCall
  /\ ClientStep

-----------------------------------------------------------------------------
StartStep(p) ==
  LoadState(p) \/ DnsStart(p) \/ RemoveSock(p) \/ ListenControl(p) \/ StartFails(p)

StopStep(p) ==
  \/ CtxDone(p) \/ HttpDrained(p) \/ HttpTimeout(p) \/ CloseControl(p)
  \/ ProxyShutdown(p) \/ DnsShutdown(p) \/ Unlock(p) \/ Exit(p)

EngineStep(p) ==
  \/ BeginPass(p) \/ EngineStops(p) \/ List(p) \/ ListFails(p)
  \/ Saved(p) \/ SaveFails(p) \/ ReconcileProxy(p) \/ Bind(p)

Client == ClientStat \/ ClientDial \/ ClientRefused \/ ClientReturns

Next ==
  \/ \E p \in Procs : \/ Acquire(p) \/ AlreadyRunning(p) \/ StartStep(p)
                      \/ Signal(p) \/ ControlFails(p) \/ StopStep(p) \/ Kill(p)
                      \/ EngineStep(p)
  \/ Client

\* A process runs; Docker and the disk do not fail for ever.  When daemons are
\* started, stopped and killed is up to the user, and a client may hang.
Fairness ==
  \A p \in Procs :
    /\ WF_vars(StartStep(p)) /\ WF_vars(StopStep(p)) /\ WF_vars(EngineStep(p))
    /\ SF_vars(List(p)) /\ SF_vars(Saved(p))

Spec == Init /\ [][Next]_vars /\ Fairness

-----------------------------------------------------------------------------
\* Properties.

Owner == Procs \cup {Nobody}

\* Every variable has its type; the lock has at most one holder.
TypeOK ==
  /\ pc \in [Procs -> {"new", "load", "dns", "unlink", "bind", "serve", "http",
                       "unsock", "unproxy", "undns", "unlock", "exit", "gone"}]
  /\ eng \in [Procs -> {"off", "select", "list", "save", "advertise", "listen"}]
  /\ lock \in {{}} \cup {{p} : p \in Procs}
  /\ cancelled \subseteq Procs /\ listening \subseteq Procs /\ shut \subseteq Procs
  /\ sock \in Owner /\ dns \in Owner /\ vip \in Owner
  /\ client \in [st : {"idle", "dial", "sent"}, to : Owner]

\* A daemon that serves can be reached: no other process, on its way in or
\* out, has removed or replaced its control socket.
ServingIsReachable ==
  \A p \in Procs : pc[p] = "serve" => sock = p /\ p \in listening

\* Whoever gets the lock can start: neither a daemon that was killed nor one
\* that is still leaving is in the way of its DNS port and control socket.
NothingInTheWay ==
  \A p \in Procs :
    /\ pc[p] = "dns" => dns = Nobody
    /\ pc[p] = "bind" => sock = Nobody

Writing(p) == eng[p] \in {"list", "save"}

\* "Daemon lock prevents two writers", as far as it goes: whatever Serve
\* does, only a process that has nothing left to do but to exit may touch
\* state.json, or keep a VIP, beside the holder of the lock.
BesideHolderOnlyExit ==
  \A p \in Procs :
    Writing(p) \/ vip = p \/ dns = p \/ p \in listening =>
      p \in lock \/ (pc[p] = "exit" /\ dns # p /\ p \notin listening)

\* "Daemon lock prevents two writers": no two processes save at a time.
OneWriter ==
  \A p, q \in Procs : eng[p] = "save" /\ eng[q] = "save" => p = q

\* A daemon that is told to stop does so, whatever its clients, its engine
\* and another daemon are doing.
StopExits == \A p \in Procs : p \in cancelled ~> pc[p] = "gone"

\* A daemon that goes on serving gets its VIP listeners, even if the one
\* before it still had them when the first pass was made.
TakesOver ==
  \A p \in Procs : pc[p] = "serve" ~> vip = p \/ pc[p] # "serve"
=============================================================================
