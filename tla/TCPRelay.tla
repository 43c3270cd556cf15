------------------------------ MODULE TCPRelay ------------------------------
(***************************************************************************)
(* The TCP side of stacklane-relay: runTCP, handleTCP, proxyBidirectional, *)
(* pipe and copyStream of internal/relay/relay.go.  The proxy's            *)
(* handleProxy (internal/proxy/tcp.go) has the same code for a connection. *)
(*                                                                         *)
(* Goroutines that interleave: the accept loop, the one that closes the    *)
(* listener, and for each connection its handler, two pipes and the one    *)
(* that closes both sockets when the context ends.  Direction "up" goes    *)
(* from the client to the target, "down" comes back; bytes are counted.    *)
(***************************************************************************)
EXTENDS Integers, FiniteSets

CONSTANTS
  Conns,      \* client connections; bounds their number
  MaxConns,   \* Config.MaxConns
  MaxBytes    \* bound on what a peer sends in one direction

ASSUME ConnsAssumption == IsFiniteSet(Conns)
ASSUME LimitsAssumption == MaxConns \in Nat \ {0} /\ MaxBytes \in Nat

VARIABLES
  cancelled,  \* ctx is done
  lnOpen,     \* the listener is open
  lpc,        \* runTCP: "accept", "counted", "drain", "returned"
  next,       \* the connection the loop is busy with
  ret,        \* how the drain ended: "none", "done", "timeout"
  conns,      \* r.conns
  st,         \* connection -> where its handler is
  open,       \* connection -> its two sockets are open
  dir         \* connection -> direction -> what was sent, copied, delivered

vars == <<cancelled, lnOpen, lpc, next, ret, conns, st, open, dir>>
loopVars == <<lnOpen, lpc, next, ret>>
connVars == <<st, open, dir>>

Dirs == {"up", "down"}

NoConn == "none"
ASSUME NoConnAssumption == NoConn \notin Conns

\* A direction: bytes the source sent and whether it has ended; bytes in the
\* pipe's buffer; bytes delivered; where the pipe is; whether an error ended
\* it, and of which side.
Unstarted == [sent |-> 0, eof |-> FALSE, buf |-> 0, got |-> 0,
              ph |-> "off", err |-> "none"]

\* A pipe that an error has ended, and one that has reported to its handler:
\* nothing else of them matters.
Broken(e) == [Unstarted EXCEPT !.ph = "shut", !.err = e]
Reported == [Unstarted EXCEPT !.ph = "done"]

Copying(p) == p.ph \in {"read", "write"}

Init ==
  /\ cancelled = FALSE /\ lnOpen = TRUE
  /\ lpc = "accept" /\ next = NoConn /\ ret = "none" /\ conns = 0
  /\ st = [c \in Conns |-> "new"]
  /\ open = [c \in Conns |-> FALSE]
  /\ dir = [c \in Conns |-> [d \in Dirs |-> Unstarted]]

-----------------------------------------------------------------------------
\* The environment.

Cancel ==
  /\ ~cancelled /\ cancelled' = TRUE
  /\ UNCHANGED loopVars /\ UNCHANGED connVars /\ UNCHANGED conns

PeerSends(c, d) ==
  /\ open[c] /\ Copying(dir[c][d])
  /\ ~dir[c][d].eof /\ dir[c][d].sent < MaxBytes
  /\ dir' = [dir EXCEPT ![c][d].sent = @ + 1]
  /\ UNCHANGED loopVars /\ UNCHANGED <<cancelled, conns, st, open>>

PeerEnds(c, d) ==
  /\ open[c] /\ Copying(dir[c][d]) /\ ~dir[c][d].eof
  /\ dir' = [dir EXCEPT ![c][d].eof = TRUE]
  /\ UNCHANGED loopVars /\ UNCHANGED <<cancelled, conns, st, open>>

-----------------------------------------------------------------------------
\* runTCP.

CloseListener ==
  /\ cancelled /\ lnOpen /\ lnOpen' = FALSE
  /\ UNCHANGED connVars /\ UNCHANGED <<cancelled, lpc, next, ret, conns>>

\* A client connects; the loop accepts and counts the connection.
Accept(c) ==
  /\ lpc = "accept" /\ lnOpen /\ st[c] = "new"
  /\ lpc' = "counted" /\ next' = c /\ conns' = conns + 1
  /\ open' = [open EXCEPT ![c] = TRUE]
  /\ UNCHANGED <<cancelled, lnOpen, ret, st, dir>>

\* Fault: one connection too many is let in.
OverByTwo == conns > MaxConns + 1

Over == conns > MaxConns

\* Over the limit: uncount it and close it.
Refuse(c) ==
  /\ lpc = "counted" /\ next = c /\ Over
  /\ conns' = conns - 1
  /\ st' = [st EXCEPT ![c] = "gone"] /\ open' = [open EXCEPT ![c] = FALSE]
  /\ lpc' = "accept" /\ next' = NoConn
  /\ UNCHANGED <<cancelled, lnOpen, ret, dir>>

\* active.Add(1), and the handler starts with a dial.
Spawn(c) ==
  /\ lpc = "counted" /\ next = c /\ ~Over
  /\ st' = [st EXCEPT ![c] = "dial"]
  /\ lpc' = "accept" /\ next' = NoConn
  /\ UNCHANGED <<cancelled, lnOpen, ret, conns, open, dir>>

\* Accept fails, on a closed listener or with an error of its own.
AcceptFails ==
  /\ lpc = "accept" /\ lpc' = "drain"
  /\ UNCHANGED connVars /\ UNCHANGED <<cancelled, lnOpen, next, ret, conns>>

\* The handlers that active counts.
Active == {c \in Conns : st[c] \in {"dial", "proxy", "close", "uncount", "done"}}

Drained ==
  /\ lpc = "drain" /\ Active = {}
  /\ lpc' = "returned" /\ ret' = "done"
  /\ UNCHANGED connVars /\ UNCHANGED <<cancelled, lnOpen, next, conns>>

\* ShutdownTimeout passes first.
DrainTimeout ==
  /\ lpc = "drain" /\ Active # {}
  /\ lpc' = "returned" /\ ret' = "timeout"
  /\ UNCHANGED connVars /\ UNCHANGED <<cancelled, lnOpen, next, conns>>

-----------------------------------------------------------------------------
\* handleTCP and proxyBidirectional.

\* Both pipes and the goroutine that waits for the context start.  A dial
\* under a context that is done fails.
DialSucceeds(c) ==
  /\ st[c] = "dial" /\ ~cancelled
  /\ st' = [st EXCEPT ![c] = "proxy"]
  /\ dir' = [dir EXCEPT ![c] = [d \in Dirs |-> [@[d] EXCEPT !.ph = "read"]]]
  /\ UNCHANGED loopVars /\ UNCHANGED <<cancelled, conns, open>>

\* Refused, timed out, or cancelled.
DialFails(c) ==
  /\ st[c] = "dial"
  /\ st' = [st EXCEPT ![c] = "close"]
  /\ UNCHANGED loopVars /\ UNCHANGED <<cancelled, conns, open, dir>>

\* Fault: the connection ends with the first direction that does.
FinishFirst(c) ==
  /\ st[c] = "proxy"
  /\ cancelled \/ \E d \in Dirs : dir[c][d].ph = "done"
  /\ st' = [st EXCEPT ![c] = "close"]
  /\ UNCHANGED loopVars /\ UNCHANGED <<cancelled, conns, open, dir>>

\* Both pipes have reported, or the context is done.
Finish(c) ==
  /\ st[c] = "proxy"
  /\ cancelled \/ \A d \in Dirs : dir[c][d].ph = "done"
  /\ st' = [st EXCEPT ![c] = "close"]
  /\ UNCHANGED loopVars /\ UNCHANGED <<cancelled, conns, open, dir>>

\* The goroutine that waits for the connection's context.
CtxCloses(c) ==
  /\ st[c] = "proxy" /\ cancelled /\ open[c]
  /\ open' = [open EXCEPT ![c] = FALSE]
  /\ UNCHANGED loopVars /\ UNCHANGED <<cancelled, conns, st, dir>>

\* The deferred calls, in their order: both sockets are closed, the
\* connection is uncounted, and active.Done() is called.
HandlerCloses(c) ==
  /\ st[c] = "close"
  /\ open' = [open EXCEPT ![c] = FALSE] /\ st' = [st EXCEPT ![c] = "uncount"]
  /\ UNCHANGED loopVars /\ UNCHANGED <<cancelled, conns, dir>>

HandlerUncounts(c) ==
  /\ st[c] = "uncount"
  /\ conns' = conns - 1 /\ st' = [st EXCEPT ![c] = "done"]
  /\ UNCHANGED loopVars /\ UNCHANGED <<cancelled, open, dir>>

HandlerDone(c) ==
  /\ st[c] = "done"
  /\ st' = [st EXCEPT ![c] = "gone"]
  /\ UNCHANGED loopVars /\ UNCHANGED <<cancelled, conns, open, dir>>

-----------------------------------------------------------------------------
\* pipe and copyStream.

PipeStep(c, d, new) ==
  /\ dir' = [dir EXCEPT ![c][d] = new]
  /\ UNCHANGED loopVars /\ UNCHANGED <<cancelled, conns, st, open>>

Unread(p) == p.sent - p.got - p.buf

\* Fault: the source is read to its end before anything is written.
ReadAtEnd(c, d, n) ==
  LET p == dir[c][d]
  IN  /\ p.ph = "read" /\ open[c] /\ p.eof /\ n = Unread(p) /\ n > 0
      /\ PipeStep(c, d, [p EXCEPT !.buf = n, !.ph = "write"])

\* Read returns some of the bytes that have arrived.
Read(c, d, n) ==
  LET p == dir[c][d]
  IN  /\ p.ph = "read" /\ open[c] /\ n \in 1 .. Unread(p)
      /\ PipeStep(c, d, [p EXCEPT !.buf = n, !.ph = "write"])

\* Read returns io.EOF: everything before it has been read.
ReadEOF(c, d) ==
  LET p == dir[c][d]
  IN  /\ p.ph = "read" /\ open[c] /\ p.eof /\ Unread(p) = 0
      /\ PipeStep(c, d, [p EXCEPT !.ph = "shut"])

\* The read deadline passes, or the peer resets.
ReadFails(c, d) ==
  /\ dir[c][d].ph = "read" /\ open[c]
  /\ PipeStep(c, d, Broken("peer"))

Write(c, d) ==
  LET p == dir[c][d]
  IN  /\ p.ph = "write" /\ open[c]
      /\ PipeStep(c, d, [p EXCEPT !.got = @ + p.buf, !.buf = 0, !.ph = "read"])

\* The write deadline passes or the peer resets.
WriteFails(c, d) ==
  /\ dir[c][d].ph = "write" /\ open[c]
  /\ PipeStep(c, d, Broken("peer"))

\* Read or Write on a socket that this process has closed.
UseClosed(c, d) ==
  /\ Copying(dir[c][d]) /\ ~open[c]
  /\ PipeStep(c, d, Broken("closed"))

\* Fault: errc has no buffer.
ReportBlocks(c, d) ==
  /\ dir[c][d].ph = "shut" /\ st[c] = "proxy"
  /\ PipeStep(c, d, Reported)

\* CloseWrite, whatever ended the copying, and the report to the handler.
CloseWrite(c, d) ==
  /\ dir[c][d].ph = "shut"
  /\ PipeStep(c, d, Reported)

-----------------------------------------------------------------------------
Loop ==
  \/ \E c \in Conns : Refuse(c) \/ Spawn(c)
  \/ Drained \/ DrainTimeout

Handler(c) ==
  \/ DialSucceeds(c) \/ DialFails(c) \/ Finish(c)
  \/ HandlerCloses(c) \/ HandlerUncounts(c) \/ HandlerDone(c)

Copy(c, d) ==
  \/ \E n \in 1 .. MaxBytes : Read(c, d, n)
  \/ ReadEOF(c, d) \/ Write(c, d) \/ WriteFails(c, d) \/ UseClosed(c, d)
  \/ CloseWrite(c, d)

Next ==
  \/ Cancel \/ CloseListener \/ Loop \/ AcceptFails
  \/ \E c \in Conns : Accept(c)
  \/ \E c \in Conns :
       \/ Handler(c) \/ CtxCloses(c)
       \/ \E d \in Dirs : PeerSends(c, d) \/ PeerEnds(c, d)
                          \/ ReadFails(c, d) \/ Copy(c, d)

\* Goroutines run, and dials, writes and drains are bounded by timeouts.  A
\* Read may wait for ever (idle timeout 0) until its socket is closed, and
\* Accept until the listener is.  The goroutines of a connection take finitely
\* many steps, so fairness of all of them together is fairness of each.
Fairness ==
  /\ WF_vars(Loop \/ CloseListener \/ (AcceptFails /\ ~lnOpen))
  /\ \A c \in Conns :
       WF_vars(Handler(c) \/ CtxCloses(c) \/ \E d \in Dirs : Copy(c, d))

Spec == Init /\ [][Next]_vars /\ Fairness

-----------------------------------------------------------------------------
\* Properties.

Direction ==
  [sent : 0 .. MaxBytes, eof : BOOLEAN, buf : 0 .. MaxBytes,
   got : 0 .. MaxBytes,
   ph : {"off", "read", "write", "shut", "done"},
   err : {"none", "peer", "closed"}]

\* Every variable has its type.
TypeOK ==
  /\ cancelled \in BOOLEAN /\ lnOpen \in BOOLEAN
  /\ lpc \in {"accept", "counted", "drain", "returned"}
  /\ next \in Conns \cup {NoConn}
  /\ ret \in {"none", "done", "timeout"}
  /\ conns \in Nat
  /\ st \in [Conns -> {"new", "dial", "proxy", "close", "uncount",
                       "done", "gone"}]
  /\ open \in [Conns -> BOOLEAN]
  /\ dir \in [Conns -> [Dirs -> Direction]]

\* Connections that hold sockets on both sides or are about to.
Handled == {c \in Conns : st[c] \in {"dial", "proxy", "close"}}

\* runTCP counts before it compares and handlers uncount on their own, and
\* yet no more than MaxConns connections are relayed at a time; and "drain
\* in-flight connections": if Run returns before its timeout, every one that
\* it accepted is closed and the count is back at zero.
ConnsBounded ==
  /\ Cardinality(Handled) <= MaxConns
  /\ ret = "done" => conns = 0 /\ \A c \in Conns : st[c] \in {"new", "gone"}

\* "On EOF from one side, half-closes the opposite write": when pipe is about
\* to half-close without an error, the source has ended and the destination
\* has all of its bytes; and the other direction goes on, as this process
\* closes no socket under a pipe that is still copying before the context ends.
HalfCloseIsClean ==
  \A c \in Conns, d \in Dirs :
    /\ dir[c][d].ph = "shut" /\ dir[c][d].err = "none" =>
         dir[c][d].eof /\ dir[c][d].got = dir[c][d].sent
    /\ dir[c][d].err = "closed" => cancelled

\* What a peer has sent is delivered, unless the direction fails.
Delivered ==
  \A c \in Conns, d \in Dirs :
    dir[c][d].sent > dir[c][d].got ~>
      dir[c][d].sent = dir[c][d].got \/ dir[c][d].err # "none"

\* Nothing is left behind: a cancelled relay returns, whatever its connections
\* do, and the pipes of a connection end once it is over.
RelayEnds ==
  /\ cancelled ~> lpc = "returned"
  /\ \A c \in Conns :
       st[c] = "gone" ~> \A d \in Dirs : dir[c][d].ph \in {"off", "done"}
=============================================================================
