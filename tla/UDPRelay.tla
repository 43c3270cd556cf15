------------------------------ MODULE UDPRelay ------------------------------
(***************************************************************************)
(* The UDP side of stacklane-relay: runUDP of internal/relay/udp.go.       *)
(*                                                                         *)
(* Goroutines that interleave: the loop that reads client packets, one     *)
(* pump per session from the upstream socket back to the client, the idle  *)
(* sweeper, and the one that closes the listener when the context ends.    *)
(* A session object outlives its entry in the sessions map, until its pump *)
(* has returned.  Times are ages in clock units, counted up to Idle + 1.   *)
(***************************************************************************)
EXTENDS Integers, FiniteSets

CONSTANTS
  Clients,      \* client addresses
  Slots,        \* identities of session objects; bounds how many linger
  MaxSessions,  \* cfg.MaxSessions
  Idle          \* cfg.SessionIdle

NoSlot == 0

ASSUME ClientsAssumption     == IsFiniteSet(Clients) /\ Clients # {}
ASSUME SlotsAssumption       == Slots \subseteq Nat \ {NoSlot} /\ IsFiniteSet(Slots)
ASSUME MaxSessionsAssumption == MaxSessions \in Nat \ {0}
ASSUME IdleAssumption        == Idle \in Nat \ {0}

VARIABLES
  ctx,       \* "live" or "cancelled"
  ln,        \* the listening socket: "open" or "closed"
  pc,        \* the read loop: "read", "dial", "write", "wait", "final", "returned"
  client,    \* the client whose packet the loop is handling
  up,        \* the session whose upstream socket it is about to write to
  sessions,  \* the map: client -> session object or NoSlot
  sess       \* object -> [client, open, age, quiet, pump]

vars == <<ctx, ln, pc, client, up, sessions, sess>>
loopVars == <<ctx, ln, pc, client, up>>

\* age: since s.last.  quiet: since the pump's pending Read began.
Free == [client |-> CHOOSE c \in Clients : TRUE, open |-> FALSE,
         age |-> 0, quiet |-> 0, pump |-> "done"]

Init ==
  /\ ctx = "live" /\ ln = "open" /\ pc = "read"
  /\ client \in Clients /\ up = NoSlot
  /\ sessions = [c \in Clients |-> NoSlot]
  /\ sess = [s \in Slots |-> Free]

Mapped(s) == sessions[sess[s].client] = s

Count == Cardinality({c \in Clients : sessions[c] # NoSlot})

\* Fault: the limit is off by one.
AtCapOffByOne == Count > MaxSessions

AtCap == Count >= MaxSessions

\* A closed socket: its times are of no interest any more.
Closed(b) == [b EXCEPT !.open = FALSE, !.age = 0, !.quiet = 0]

-----------------------------------------------------------------------------
\* The read loop.

\* A packet of a client that has a session.
ReceiveKnown(c) ==
  /\ pc = "read" /\ ln = "open" /\ sessions[c] # NoSlot
  /\ sess' = [sess EXCEPT ![sessions[c]].age = 0]
  /\ pc' = "write" /\ client' = c /\ up' = sessions[c]
  /\ UNCHANGED <<ctx, ln, sessions>>

\* A packet of a new client.  At the limit it is dropped and nothing changes.
ReceiveNew(c) ==
  /\ pc = "read" /\ ln = "open" /\ sessions[c] = NoSlot /\ ~AtCap
  /\ pc' = "dial" /\ client' = c
  /\ UNCHANGED <<ctx, ln, up, sessions, sess>>

\* Resolving or dialling fails, with no lock held: the packet is dropped.
DialFails ==
  /\ pc = "dial" /\ pc' = "read"
  /\ UNCHANGED <<ctx, ln, client, up, sessions, sess>>

\* The lowest identity that no session uses.
NextSlot(s) ==
  /\ sess[s] = Free
  /\ \A t \in Slots : sess[t] = Free => s <= t

\* The session is entered under the lock and its pump starts.  The two
\* branches that give the new socket up are never taken: see SessionsBounded.
Insert(s) ==
  /\ pc = "dial" /\ sessions[client] = NoSlot /\ ~AtCap
  /\ NextSlot(s)
  /\ sessions' = [sessions EXCEPT ![client] = s]
  /\ sess' = [sess EXCEPT ![s] = [client |-> client, open |-> TRUE, age |-> 0,
                                  quiet |-> 0, pump |-> "run"]]
  /\ pc' = "write" /\ up' = s
  /\ UNCHANGED <<ctx, ln, client>>

WriteOk ==
  /\ pc = "write" /\ sess[up].open
  /\ pc' = "read" /\ up' = NoSlot
  /\ UNCHANGED <<ctx, ln, client, sessions, sess>>

\* The write fails: the session is removed, if it still is the client's.
WriteFails ==
  /\ pc = "write"
  /\ pc' = "read" /\ up' = NoSlot
  /\ IF sessions[client] = up
     THEN /\ sessions' = [sessions EXCEPT ![client] = NoSlot]
          /\ sess' = [sess EXCEPT ![up] = Closed(@)]
     ELSE UNCHANGED <<sessions, sess>>
  /\ UNCHANGED <<ctx, ln, client>>

closeAll ==
  /\ sessions' = [c \in Clients |-> NoSlot]
  /\ sess' = [s \in Slots |->
                IF Mapped(s) THEN Closed(sess[s]) ELSE sess[s]]

\* Fault: the loop goes on after a failed read.
LoopGoesOn ==
  /\ pc = "read" /\ ln = "closed" /\ closeAll
  /\ UNCHANGED loopVars

\* The read fails because the listener was closed.
LoopStops ==
  /\ pc = "read" /\ ln = "closed"
  /\ pc' = "wait" /\ closeAll
  /\ UNCHANGED <<ctx, ln, client, up>>

\* The read fails by itself: the sessions stay open during the wait.
ReadFails ==
  /\ pc = "read" /\ ctx = "live"
  /\ pc' = "wait"
  /\ UNCHANGED <<ctx, ln, client, up, sessions, sess>>

PumpsDone == \A s \in Slots : sess[s].pump = "done"

\* r.active.Wait, or cfg.ShutdownTimeout.
WaitDone ==
  /\ pc = "wait" /\ PumpsDone
  /\ pc' = "final"
  /\ UNCHANGED <<ctx, ln, client, up, sessions, sess>>

WaitTimeout ==
  /\ pc = "wait" /\ ~PumpsDone
  /\ pc' = "final"
  /\ UNCHANGED <<ctx, ln, client, up, sessions, sess>>

\* The sweeper has stopped; the last deferred call is closeAll.
Return ==
  /\ pc = "final"
  /\ pc' = "returned" /\ closeAll
  /\ UNCHANGED <<ctx, ln, client, up>>

-----------------------------------------------------------------------------
\* The sweeper, the clock and the context.

\* Fault: the comparison with SessionIdle is the wrong way round.
FreshClients ==
  {c \in Clients : sessions[c] # NoSlot /\ sess[sessions[c]].age < Idle}

ExpiredClients ==
  {c \in Clients : sessions[c] # NoSlot /\ sess[sessions[c]].age > Idle}

Sweep ==
  /\ pc \notin {"final", "returned"} /\ ExpiredClients # {}
  /\ sessions' = [c \in Clients |->
                    IF c \in ExpiredClients THEN NoSlot ELSE sessions[c]]
  /\ sess' = [s \in Slots |->
                IF Mapped(s) /\ sess[s].client \in ExpiredClients
                THEN Closed(sess[s]) ELSE sess[s]]
  /\ UNCHANGED loopVars

Older(n) == IF n > Idle THEN n ELSE n + 1

Tick ==
  /\ sess' = [s \in Slots |->
                IF sess[s].open
                THEN [sess[s] EXCEPT !.age = Older(@), !.quiet = Older(@)]
                ELSE sess[s]]
  /\ sess' # sess
  /\ UNCHANGED loopVars /\ UNCHANGED sessions

Cancel ==
  /\ ctx = "live" /\ ctx' = "cancelled"
  /\ UNCHANGED <<ln, pc, client, up, sessions, sess>>

CloseListener ==
  /\ ctx = "cancelled" /\ ln = "open" /\ ln' = "closed"
  /\ UNCHANGED <<ctx, pc, client, up, sessions, sess>>

-----------------------------------------------------------------------------
\* The pump of session s.

\* A reply goes back to the client; the pump ends when it cannot be sent or
\* when the context is done.
PumpReply(s) ==
  /\ sess[s].pump = "run" /\ sess[s].open
  /\ sess' = [sess EXCEPT ![s].age = 0, ![s].quiet = 0,
                          ![s].pump = IF ctx = "live" THEN "run" ELSE "ending"]
  /\ UNCHANGED loopVars /\ UNCHANGED sessions

\* The read deadline passes: cfg.SessionIdle and 50 ms after the Read began.
PumpTimeout(s) ==
  /\ sess[s].pump = "run" /\ sess[s].open /\ sess[s].quiet > Idle
  /\ sess' = [sess EXCEPT ![s].pump = "ending"]
  /\ UNCHANGED loopVars /\ UNCHANGED sessions

\* The socket was closed, or the upstream host refuses.
PumpReadError(s) ==
  /\ sess[s].pump = "run"
  /\ sess' = [sess EXCEPT ![s].pump = "ending"]
  /\ UNCHANGED loopVars /\ UNCHANGED sessions

\* Fault: the pump removes whatever session its client has by now.
PumpRemovesAny(s) ==
  /\ sess[s].pump = "ending"
  /\ sessions' = [sessions EXCEPT ![sess[s].client] = NoSlot]
  /\ sess' = [sess EXCEPT ![s].pump = "closing"]
  /\ UNCHANGED loopVars

\* The entry is deleted only if it still is this session.
PumpRemove(s) ==
  /\ sess[s].pump = "ending"
  /\ sessions' = IF Mapped(s)
                 THEN [sessions EXCEPT ![sess[s].client] = NoSlot] ELSE sessions
  /\ sess' = [sess EXCEPT ![s].pump = "closing"]
  /\ UNCHANGED loopVars

PumpClose(s) ==
  /\ sess[s].pump = "closing"
  /\ sess' = [sess EXCEPT ![s] = Free]
  /\ UNCHANGED loopVars /\ UNCHANGED sessions

Loop ==
  \/ DialFails \/ (\E s \in Slots : Insert(s))
  \/ WriteOk \/ WriteFails \/ LoopStops
  \/ WaitDone \/ WaitTimeout \/ Return

Pump(s) ==
  \/ PumpReply(s) \/ PumpTimeout(s) \/ PumpReadError(s)
  \/ PumpRemove(s) \/ PumpClose(s)

Next ==
  \/ \E c \in Clients : ReceiveKnown(c) \/ ReceiveNew(c)
  \/ Loop \/ ReadFails
  \/ Sweep \/ Tick \/ Cancel \/ CloseListener
  \/ \E s \in Slots : Pump(s)

\* Goroutines run, the sweeper's ticker ticks while the context lives, and a
\* pump whose socket is closed gets its error.  Nothing is assumed of clients
\* and of the upstream host.
Fairness ==
  /\ WF_vars(Loop) /\ WF_vars(CloseListener)
  /\ WF_vars(ctx = "live" /\ Sweep)
  /\ \A s \in Slots :
       /\ WF_vars(~sess[s].open /\ PumpReadError(s))
       /\ WF_vars(PumpRemove(s) \/ PumpClose(s))

Spec == Init /\ [][Next]_vars /\ Fairness

-----------------------------------------------------------------------------
\* Properties.

Session ==
  [client : Clients, open : BOOLEAN, age : 0 .. Idle + 1,
   quiet : 0 .. Idle + 1, pump : {"run", "ending", "closing", "done"}]

\* Every variable has its type; a write has a session to write to.
TypeOK ==
  /\ ctx \in {"live", "cancelled"} /\ ln \in {"open", "closed"}
  /\ pc \in {"read", "dial", "write", "wait", "final", "returned"}
  /\ client \in Clients
  /\ up \in Slots \cup {NoSlot} /\ (pc = "write" <=> up # NoSlot)
  /\ sessions \in [Clients -> Slots \cup {NoSlot}]
  /\ sess \in [Slots -> Session]

\* "bounded session count" and "Re-check under lock before insert": no
\* interleaving of removals and packets gets past cfg.MaxSessions, and since
\* only the loop inserts, what it found before the dial still holds after.
SessionsBounded ==
  /\ Count <= MaxSessions
  /\ pc = "dial" => sessions[client] = NoSlot /\ ~AtCap

\* The map and the objects agree.  An entry is its client's session, and its
\* socket is open.  A session that left the map does not run on: its socket
\* is closed or its pump is ending; in particular the pump of a replaced
\* session does not take the new one with it.  When runUDP has returned,
\* only pumps on their way out have sockets.
SessionsConsistent ==
  /\ \A c \in Clients : sessions[c] # NoSlot =>
       sess[sessions[c]].client = c /\ sess[sessions[c]].open
  /\ \A s \in Slots : sess[s].pump = "run" /\ sess[s].open => Mapped(s)
  /\ pc = "returned" =>
       \A s \in Slots : sess[s].open => sess[s].pump \in {"ending", "closing"}

\* Once the context is cancelled runUDP returns and no socket stays open.
ShutdownCompletes ==
  (ctx = "cancelled") ~>
    (pc = "returned" /\ \A s \in Slots : ~sess[s].open)

\* "idle expiry": a session without traffic for longer than SessionIdle ends,
\* or traffic comes back.
IdleExpires ==
  \A s \in Slots :
    (Mapped(s) /\ sess[s].age > Idle) ~> (~Mapped(s) \/ sess[s].age = 0)
=============================================================================
