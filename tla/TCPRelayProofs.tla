--------------------------- MODULE TCPRelayProofs ---------------------------
(***************************************************************************)
(* Proofs about TCPRelay, for any number of connections and bytes and any  *)
(* limit.                                                                  *)
(*                                                                         *)
(* The limit rests on what r.conns counts: the connections that handlers   *)
(* have not uncounted yet, and the one the loop has just accepted.  That   *)
(* an end of a direction is clean rests on two facts: a pipe has read what *)
(* it has delivered and what is in its buffer, and a socket under a pipe   *)
(* that still copies is closed only after the context has ended.           *)
(***************************************************************************)
EXTENDS TCPRelay, FiniteSetTheorems, TLAPS

\* Connections that a handler has and has not uncounted.
Held == {c \in Conns : st[c] \in {"dial", "proxy", "close", "uncount"}}

\* The loop's connection: accepted and counted, and no handler has it yet.
LoopPlaced ==
  /\ lpc = "counted" <=> next # NoConn
  /\ next # NoConn => st[next] = "new" /\ open[next]

\* r.conns is exact.
CountExact == conns = Cardinality(Held) + (IF lpc = "counted" THEN 1 ELSE 0)

\* The count is compared before a handler is started.
HeldBounded == Cardinality(Held) <= MaxConns

\* A drain that ends by itself leaves no handler, and none is started after.
DrainedQuiet == ret = "done" => lpc = "returned" /\ Active = {}

CountInv == LoopPlaced /\ CountExact /\ HeldBounded /\ DrainedQuiet

\* A pipe has delivered or holds part of what was sent, and ends without an
\* error only when it has delivered everything.
PipeOK(p) ==
  /\ p.got + p.buf <= p.sent
  /\ p.ph = "off" => p = Unstarted
  /\ p.ph = "read" => p.buf = 0
  /\ p.ph = "shut" /\ p.err = "none" => p.eof /\ p.got = p.sent

\* Pipes start when the dial has succeeded.
PipesFresh ==
  \A c \in Conns : st[c] \in {"new", "dial"} =>
    \A d \in Dirs : dir[c][d].ph = "off"

\* A socket is open while the handler dials, and while a pipe copies unless
\* the context has ended.
SocketsOpen ==
  \A c \in Conns :
    /\ st[c] = "dial" => open[c]
    /\ \A d \in Dirs :
         /\ Copying(dir[c][d]) => cancelled \/ (st[c] = "proxy" /\ open[c])
         /\ dir[c][d].err = "closed" => cancelled

PipesInv ==
  /\ PipesFresh /\ SocketsOpen
  /\ \A c \in Conns, d \in Dirs : PipeOK(dir[c][d])

TCPInv == TypeOK /\ CountInv /\ PipesInv

-----------------------------------------------------------------------------
\* What happens to a pipe's record.

\* The fixed records have the type and are in order.
LEMMA FixedPipes ==
  /\ Unstarted \in Direction /\ PipeOK(Unstarted)
  /\ Unstarted.ph = "off" /\ Unstarted.err = "none"
  /\ \A e \in {"peer", "closed"} :
       /\ Broken(e) \in Direction /\ PipeOK(Broken(e))
       /\ Broken(e).ph = "shut" /\ Broken(e).err = e
  /\ Reported \in Direction /\ PipeOK(Reported)
  /\ Reported.ph = "done" /\ Reported.err = "none"
<1>1. Unstarted \in Direction /\ Unstarted.ph = "off" /\ Unstarted.err = "none"
  BY LimitsAssumption DEF Unstarted, Direction
<1>2. PipeOK(Unstarted)
  BY DEF Unstarted, PipeOK
<1>3. ASSUME NEW e \in {"peer", "closed"}
      PROVE  /\ Broken(e) \in Direction /\ PipeOK(Broken(e))
             /\ Broken(e).ph = "shut" /\ Broken(e).err = e
  <2>0. PICK r : r = Broken(e)
    OBVIOUS
  <2>1. r = [sent |-> 0, eof |-> FALSE, buf |-> 0, got |-> 0,
             ph |-> "shut", err |-> e]
    BY <2>0 DEF Broken, Unstarted
  <2>2. r \in Direction
    BY <2>1, LimitsAssumption DEF Direction
  <2>3. PipeOK(r)
    BY <2>1 DEF PipeOK
  <2> QED
    BY <2>0, <2>1, <2>2, <2>3
<1>4. PICK r : r = Reported
  OBVIOUS
<1>5. r = [sent |-> 0, eof |-> FALSE, buf |-> 0, got |-> 0,
           ph |-> "done", err |-> "none"]
  BY <1>4 DEF Reported, Unstarted
<1>6. r \in Direction
  BY <1>5, LimitsAssumption DEF Direction
<1>7. PipeOK(r)
  BY <1>5 DEF PipeOK
<1> QED
  BY <1>1, <1>2, <1>3, <1>4, <1>5, <1>6, <1>7

\* Read fills the buffer.
LEMMA ReadPipe ==
  ASSUME NEW p \in Direction, PipeOK(p), p.ph = "read", NEW n \in 1 .. Unread(p)
  PROVE  LET r == [p EXCEPT !.buf = n, !.ph = "write"]
         IN  r \in Direction /\ PipeOK(r) /\ r.ph = "write" /\ r.err = p.err
<1>1. PICK r : r = [p EXCEPT !.buf = n]
  OBVIOUS
<1>2. n \in 0 .. MaxBytes /\ p.got + n <= p.sent
  BY LimitsAssumption DEF Unread, Direction, PipeOK
<1>3. r \in Direction
  BY <1>1, <1>2 DEF Direction
<1>4. PICK t : t = [r EXCEPT !.ph = "write"]
  OBVIOUS
<1>5. t \in Direction
  BY <1>3, <1>4 DEF Direction
<1>6. t.buf = n /\ t.ph = "write" /\ t.got = p.got /\ t.sent = p.sent /\ t.err = p.err
  BY <1>1, <1>4 DEF Direction
<1>7. PipeOK(t)
  BY <1>2, <1>6 DEF PipeOK
<1> QED
  BY <1>1, <1>4, <1>5, <1>6, <1>7

\* Write empties it.
LEMMA WritePipe ==
  ASSUME NEW p \in Direction, PipeOK(p), p.ph = "write"
  PROVE  LET r == [p EXCEPT !.got = @ + p.buf, !.buf = 0, !.ph = "read"]
         IN  r \in Direction /\ PipeOK(r) /\ r.ph = "read" /\ r.err = p.err
<1>1. p.got + p.buf \in 0 .. MaxBytes /\ 0 \in 0 .. MaxBytes
  BY LimitsAssumption DEF Direction, PipeOK
<1>2. PICK r : r = [p EXCEPT !.got = p.got + p.buf]
  OBVIOUS
<1>3. r \in Direction
  BY <1>1, <1>2 DEF Direction
<1>4. PICK t : t = [r EXCEPT !.buf = 0]
  OBVIOUS
<1>5. t \in Direction
  BY <1>1, <1>3, <1>4 DEF Direction
<1>6. PICK u : u = [t EXCEPT !.ph = "read"]
  OBVIOUS
<1>7. u \in Direction
  BY <1>5, <1>6 DEF Direction
<1>8. /\ u.got = p.got + p.buf /\ u.buf = 0 /\ u.ph = "read"
      /\ u.sent = p.sent /\ u.err = p.err
  BY <1>2, <1>4, <1>6 DEF Direction
<1>9. PipeOK(u)
  BY <1>1, <1>8 DEF PipeOK, Direction
<1> QED
  BY <1>2, <1>4, <1>6, <1>7, <1>8, <1>9

\* The end of the source is found when everything before it was delivered.
LEMMA EOFPipe ==
  ASSUME NEW p \in Direction, PipeOK(p), p.ph = "read", p.eof, Unread(p) = 0
  PROVE  LET r == [p EXCEPT !.ph = "shut"]
         IN  r \in Direction /\ PipeOK(r) /\ r.ph = "shut" /\ r.err = p.err
<1>1. PICK r : r = [p EXCEPT !.ph = "shut"]
  OBVIOUS
<1>2. /\ r \in Direction /\ r.ph = "shut" /\ r.err = p.err /\ r.eof
      /\ r.got = p.got /\ r.sent = p.sent /\ r.buf = p.buf
  BY <1>1 DEF Direction
<1>3. p.got = p.sent
  BY DEF Unread, PipeOK, Direction
<1>4. PipeOK(r)
  BY <1>2, <1>3 DEF PipeOK
<1> QED
  BY <1>1, <1>2, <1>4

\* What a peer does to a pipe that copies.
LEMMA PeerPipe ==
  ASSUME NEW p \in Direction, PipeOK(p), Copying(p), ~p.eof
  PROVE  /\ p.sent < MaxBytes =>
              LET r == [p EXCEPT !.sent = @ + 1]
              IN  r \in Direction /\ PipeOK(r) /\ r.ph = p.ph /\ r.err = p.err
         /\ LET r == [p EXCEPT !.eof = TRUE]
            IN  r \in Direction /\ PipeOK(r) /\ r.ph = p.ph /\ r.err = p.err
<1>1. ASSUME p.sent < MaxBytes, NEW r, r = [p EXCEPT !.sent = @ + 1]
      PROVE  r \in Direction /\ PipeOK(r) /\ r.ph = p.ph /\ r.err = p.err
  BY <1>1, LimitsAssumption DEF Direction, PipeOK, Copying
<1>2. ASSUME NEW r, r = [p EXCEPT !.eof = TRUE]
      PROVE  r \in Direction /\ PipeOK(r) /\ r.ph = p.ph /\ r.err = p.err
  BY <1>2 DEF Direction, PipeOK, Copying
<1> QED
  BY <1>1, <1>2

\* A pipe starts reading with nothing in its buffer.
LEMMA StartPipe ==
  LET r == [Unstarted EXCEPT !.ph = "read"]
  IN  r \in Direction /\ PipeOK(r) /\ r.ph = "read" /\ r.err = "none"
<1>1. PICK r : r = [Unstarted EXCEPT !.ph = "read"]
  OBVIOUS
<1>2. r = [sent |-> 0, eof |-> FALSE, buf |-> 0, got |-> 0,
           ph |-> "read", err |-> "none"]
  BY <1>1 DEF Unstarted
<1>3. r \in Direction
  BY <1>2, LimitsAssumption DEF Direction
<1>4. PipeOK(r)
  BY <1>2 DEF PipeOK
<1> QED
  BY <1>1, <1>2, <1>3, <1>4

-----------------------------------------------------------------------------
\* Counting.

\* There are finitely many handlers.
LEMMA HeldFinite == IsFiniteSet(Held) /\ Cardinality(Held) \in Nat
<1>1. IsFiniteSet(Held)
  BY ConnsAssumption, FS_Subset DEF Held
<1> QED
  BY <1>1, FS_CardinalityType

\* A handler more, a handler less.
LEMMA HeldSteps ==
  ASSUME NEW c \in Conns
  PROVE  /\ c \notin Held /\ Held' = Held \cup {c} =>
              Cardinality(Held') = Cardinality(Held) + 1
         /\ c \in Held /\ Held' = Held \ {c} =>
              Cardinality(Held') = Cardinality(Held) - 1
<1>1. Cardinality(Held \cup {c}) =
        IF c \in Held THEN Cardinality(Held) ELSE Cardinality(Held) + 1
  BY HeldFinite, FS_AddElement
<1>2. Cardinality(Held \ {c}) =
        IF c \in Held THEN Cardinality(Held) - 1 ELSE Cardinality(Held)
  BY HeldFinite, FS_RemoveElement
<1> QED
  BY <1>1, <1>2

\* Every step keeps the count exact and within the limit.
LEMMA TCPCountNext == TCPInv /\ [Next]_vars => CountInv' /\ conns' \in Nat
<1> SUFFICES ASSUME TCPInv, [Next]_vars PROVE CountInv' /\ conns' \in Nat
  OBVIOUS
<1> USE DEF CountInv, LoopPlaced, CountExact, HeldBounded, DrainedQuiet, Active,
            loopVars, connVars
<1>0. TypeOK /\ CountInv
  BY DEF TCPInv
<1>1. ASSUME Held' = Held, conns' = conns, lpc' = lpc, LoopPlaced',
             DrainedQuiet'
      PROVE  CountInv' /\ conns' \in Nat
  BY <1>0, <1>1 DEF TypeOK
<1>2. ASSUME UNCHANGED <<lpc, next, ret, conns, st, open>>
      PROVE  CountInv' /\ conns' \in Nat
  BY <1>0, <1>2 DEF Held, TypeOK
<1>3. CASE Cancel \/ CloseListener
  BY <1>2, <1>3 DEF Cancel, CloseListener
<1>4. ASSUME NEW c \in Conns, NEW d \in Dirs,
             PeerSends(c, d) \/ PeerEnds(c, d) \/ ReadFails(c, d) \/ Copy(c, d)
      PROVE  CountInv' /\ conns' \in Nat
  BY <1>2, <1>4 DEF PeerSends, PeerEnds, ReadFails, Copy, Read, ReadEOF, Write,
     WriteFails, UseClosed, CloseWrite, PipeStep
<1>5. ASSUME NEW c \in Conns, Accept(c) PROVE CountInv' /\ conns' \in Nat
  <2>1. Held' = Held
    BY <1>5 DEF Accept, Held
  <2> QED
    BY <1>0, <1>5, <2>1, HeldFinite, NoConnAssumption DEF Accept, TypeOK
<1>6. ASSUME NEW c \in Conns, Refuse(c) PROVE CountInv' /\ conns' \in Nat
  <2>1. Held' = Held
    BY <1>0, <1>6, NoConnAssumption DEF Refuse, Held, TypeOK
  <2> QED
    BY <1>0, <1>6, <2>1, HeldFinite DEF Refuse
<1>7. ASSUME NEW c \in Conns, Spawn(c) PROVE CountInv' /\ conns' \in Nat
  <2>1. c \notin Held /\ Held' = Held \cup {c}
    BY <1>0, <1>7, NoConnAssumption DEF Spawn, Held, TypeOK
  <2>2. Cardinality(Held') = Cardinality(Held) + 1
    BY <2>1, HeldSteps
  <2> QED
    BY <1>0, <1>7, <2>2, HeldFinite, LimitsAssumption DEF Spawn, Over, TypeOK
<1>8. CASE AcceptFails \/ Drained \/ DrainTimeout
  <2>1. Held' = Held /\ conns' = conns
    BY <1>8 DEF AcceptFails, Drained, DrainTimeout, Held
  <2> QED
    BY <1>0, <1>8, <2>1 DEF AcceptFails, Drained, DrainTimeout, TypeOK
<1>9. ASSUME NEW c \in Conns,
             \/ DialSucceeds(c) \/ DialFails(c) \/ Finish(c)
             \/ CtxCloses(c) \/ HandlerCloses(c) \/ HandlerDone(c)
      PROVE  CountInv' /\ conns' \in Nat
  <2>1. Held' = Held /\ conns' = conns /\ lpc' = lpc
    BY <1>0, <1>9 DEF DialSucceeds, DialFails, Finish, CtxCloses, HandlerCloses,
       HandlerDone, Held, TypeOK
  <2>2. LoopPlaced' /\ DrainedQuiet'
    BY <1>0, <1>9 DEF DialSucceeds, DialFails, Finish, CtxCloses, HandlerCloses,
       HandlerDone, TypeOK
  <2> QED
    BY <1>1, <2>1, <2>2
<1>10. ASSUME NEW c \in Conns, HandlerUncounts(c) PROVE CountInv' /\ conns' \in Nat
  <2>1. c \in Held /\ Held' = Held \ {c}
    BY <1>0, <1>10 DEF HandlerUncounts, Held, TypeOK
  <2>2. Cardinality(Held') = Cardinality(Held) - 1
    BY <2>1, HeldSteps
  <2>3. Cardinality(Held') \in Nat
    BY <2>1, HeldFinite, FS_RemoveElement, FS_CardinalityType
  <2>4. LoopPlaced' /\ DrainedQuiet'
    BY <1>0, <1>10 DEF HandlerUncounts, TypeOK
  <2> QED
    BY <1>0, <1>10, <2>2, <2>3, <2>4, HeldFinite, LimitsAssumption
       DEF HandlerUncounts, TypeOK
<1>11. CASE UNCHANGED vars
  BY <1>2, <1>11 DEF vars
<1> QED
  BY <1>3, <1>4, <1>5, <1>6, <1>7, <1>8, <1>9, <1>10, <1>11
     DEF Next, Loop, Handler

-----------------------------------------------------------------------------
\* Pipes.

DirType == dir \in [Conns -> [Dirs -> Direction]]

\* A pipe that has started may go on or end, as long as it stays in order.
LEMMA PipeStepKeeps ==
  ASSUME TypeOK, PipesInv, NEW c \in Conns, NEW d \in Dirs, NEW new \in Direction,
         PipeStep(c, d, new), PipeOK(new),
         dir[c][d].ph # "off",
         Copying(new) => Copying(dir[c][d]),
         new.err = "closed" => cancelled
  PROVE  DirType' /\ PipesInv'
<1>1. /\ DirType'
      /\ dir'[c][d] = new
      /\ \A e \in Conns, g \in Dirs : e # c \/ g # d => dir'[e][g] = dir[e][g]
  BY DEF PipeStep, TypeOK, DirType
<1>2. UNCHANGED <<cancelled, st, open>>
  BY DEF PipeStep
<1>3. PipesFresh'
  BY <1>1, <1>2 DEF PipesInv, PipesFresh
<1>4. SocketsOpen'
  BY <1>1, <1>2 DEF PipesInv, SocketsOpen
<1>5. \A e \in Conns, g \in Dirs : PipeOK(dir'[e][g])
  BY <1>1 DEF PipesInv
<1> QED
  BY <1>1, <1>3, <1>4, <1>5 DEF PipesInv

\* The steps of pipes and of the peers.
LEMMA CopyKeeps ==
  ASSUME TCPInv, NEW c \in Conns, NEW d \in Dirs,
         PeerSends(c, d) \/ PeerEnds(c, d) \/ ReadFails(c, d) \/ Copy(c, d)
  PROVE  DirType' /\ PipesInv'
<1>0. /\ TypeOK /\ PipesInv /\ dir[c][d] \in Direction /\ PipeOK(dir[c][d])
      /\ dir[c][d].err = "closed" => cancelled
  BY DEF TCPInv, TypeOK, PipesInv, SocketsOpen
<1> USE PipeStepKeeps DEF Copying
<1>1. CASE PeerSends(c, d)
  <2>1. PICK r : r = [dir[c][d] EXCEPT !.sent = @ + 1]
    OBVIOUS
  <2>2. r \in Direction /\ PipeOK(r) /\ r.ph = dir[c][d].ph /\ r.err = dir[c][d].err
    BY <1>0, <1>1, <2>1, PeerPipe DEF PeerSends
  <2>3. PipeStep(c, d, r)
    BY <1>0, <1>1, <2>1 DEF PeerSends, PipeStep, TypeOK
  <2> QED
    BY <1>0, <1>1, <2>2, <2>3 DEF PeerSends
<1>2. CASE PeerEnds(c, d)
  <2>1. PICK r : r = [dir[c][d] EXCEPT !.eof = TRUE]
    OBVIOUS
  <2>2. r \in Direction /\ PipeOK(r) /\ r.ph = dir[c][d].ph /\ r.err = dir[c][d].err
    BY <1>0, <1>2, <2>1, PeerPipe DEF PeerEnds
  <2>3. PipeStep(c, d, r)
    BY <1>0, <1>2, <2>1 DEF PeerEnds, PipeStep, TypeOK
  <2> QED
    BY <1>0, <1>2, <2>2, <2>3 DEF PeerEnds
<1>3. ASSUME NEW n \in 1 .. MaxBytes, Read(c, d, n) PROVE DirType' /\ PipesInv'
  <2>1. PICK r : r = [dir[c][d] EXCEPT !.buf = n, !.ph = "write"]
    OBVIOUS
  <2>2. r \in Direction /\ PipeOK(r) /\ r.ph = "write" /\ r.err = dir[c][d].err
    BY <1>0, <1>3, <2>1, ReadPipe DEF Read
  <2>3. PipeStep(c, d, r)
    BY <1>3, <2>1 DEF Read
  <2> QED
    BY <1>0, <1>3, <2>2, <2>3 DEF Read
<1>4. CASE ReadEOF(c, d)
  <2>1. PICK r : r = [dir[c][d] EXCEPT !.ph = "shut"]
    OBVIOUS
  <2>2. r \in Direction /\ PipeOK(r) /\ r.ph = "shut" /\ r.err = dir[c][d].err
    BY <1>0, <1>4, <2>1, EOFPipe DEF ReadEOF
  <2>3. PipeStep(c, d, r)
    BY <1>4, <2>1 DEF ReadEOF
  <2> QED
    BY <1>0, <1>4, <2>2, <2>3 DEF ReadEOF
<1>5. CASE Write(c, d)
  <2>1. PICK r : r = [dir[c][d] EXCEPT !.got = @ + dir[c][d].buf, !.buf = 0,
                                       !.ph = "read"]
    OBVIOUS
  <2>2. r \in Direction /\ PipeOK(r) /\ r.ph = "read" /\ r.err = dir[c][d].err
    BY <1>0, <1>5, <2>1, WritePipe DEF Write
  <2>3. PipeStep(c, d, r)
    BY <1>5, <2>1 DEF Write
  <2> QED
    BY <1>0, <1>5, <2>2, <2>3 DEF Write
<1>6. CASE ReadFails(c, d) \/ WriteFails(c, d)
  BY <1>0, <1>6, FixedPipes DEF ReadFails, WriteFails
<1>7. CASE UseClosed(c, d)
  <2>1. cancelled
    BY <1>0, <1>7 DEF UseClosed, PipesInv, SocketsOpen
  <2> QED
    BY <1>0, <1>7, <2>1, FixedPipes DEF UseClosed
<1>8. CASE CloseWrite(c, d)
  BY <1>0, <1>8, FixedPipes DEF CloseWrite
<1> QED
  BY <1>1, <1>2, <1>3, <1>4, <1>5, <1>6, <1>7, <1>8 DEF Copy

\* The other steps leave the records of pipes alone, except a dial, which
\* starts both.
LEMMA TCPPipesNext == TCPInv /\ [Next]_vars => DirType' /\ PipesInv'
<1> SUFFICES ASSUME TCPInv, [Next]_vars PROVE DirType' /\ PipesInv'
  OBVIOUS
<1> USE DEF loopVars, connVars
<1>0. TypeOK /\ PipesInv /\ LoopPlaced
  BY DEF TCPInv, CountInv
<1>1. ASSUME dir' = dir, PipesFresh', SocketsOpen' PROVE DirType' /\ PipesInv'
  BY <1>0, <1>1 DEF PipesInv, TypeOK, DirType
<1>2. CASE \/ Cancel \/ CloseListener \/ AcceptFails \/ Drained \/ DrainTimeout
           \/ UNCHANGED vars
  <2>1. dir' = dir /\ PipesFresh' /\ SocketsOpen'
    BY <1>0, <1>2 DEF Cancel, CloseListener, AcceptFails, Drained, DrainTimeout,
       vars, PipesInv, PipesFresh, SocketsOpen
  <2> QED
    BY <1>1, <2>1
<1>3. ASSUME NEW c \in Conns, Accept(c) \/ Refuse(c) \/ Spawn(c)
      PROVE  DirType' /\ PipesInv'
  <2>1. dir' = dir /\ PipesFresh'
    BY <1>0, <1>3, NoConnAssumption
       DEF Accept, Refuse, Spawn, PipesInv, PipesFresh, LoopPlaced, TypeOK
  <2>2. SocketsOpen'
    BY <1>0, <1>3, <2>1, NoConnAssumption
       DEF Accept, Refuse, Spawn, PipesInv, PipesFresh, SocketsOpen, LoopPlaced,
           TypeOK, Copying
  <2> QED
    BY <1>1, <2>1, <2>2
<1>4. ASSUME NEW c \in Conns, DialSucceeds(c) PROVE DirType' /\ PipesInv'
  <2>1. \A d \in Dirs : dir[c][d] = Unstarted
    BY <1>0, <1>4 DEF DialSucceeds, PipesInv, PipesFresh, PipeOK
  <2>2. PICK r : r = [Unstarted EXCEPT !.ph = "read"]
    OBVIOUS
  <2>3. r \in Direction /\ PipeOK(r) /\ r.ph = "read" /\ r.err = "none"
    BY <2>2, StartPipe
  <2>4. dir' = [dir EXCEPT ![c] = [d \in Dirs |-> r]]
    BY <1>0, <1>4, <2>1, <2>2 DEF DialSucceeds, TypeOK
  <2>5. DirType'
    BY <1>0, <2>3, <2>4 DEF TypeOK, DirType
  <2>6. /\ \A d \in Dirs : dir'[c][d] = r
        /\ \A e \in Conns : e # c => dir'[e] = dir[e]
    BY <1>0, <2>4 DEF TypeOK
  <2>7. PipesFresh'
    BY <1>0, <1>4, <2>6 DEF DialSucceeds, PipesInv, PipesFresh, TypeOK
  <2>8. SocketsOpen'
    BY <1>0, <1>4, <2>3, <2>6 DEF DialSucceeds, PipesInv, SocketsOpen, TypeOK
  <2>9. \A e \in Conns, d \in Dirs : PipeOK(dir'[e][d])
    BY <1>0, <2>3, <2>6 DEF PipesInv
  <2> QED
    BY <2>5, <2>7, <2>8, <2>9 DEF PipesInv
<1>5. ASSUME NEW c \in Conns,
             \/ DialFails(c) \/ Finish(c) \/ CtxCloses(c)
             \/ HandlerCloses(c) \/ HandlerUncounts(c) \/ HandlerDone(c)
      PROVE  DirType' /\ PipesInv'
  <2>1. dir' = dir /\ PipesFresh'
    BY <1>0, <1>5 DEF DialFails, Finish, CtxCloses, HandlerCloses,
       HandlerUncounts, HandlerDone, PipesInv, PipesFresh, TypeOK
  <2>2. SocketsOpen'
    BY <1>0, <1>5, <2>1 DEF DialFails, Finish, CtxCloses, HandlerCloses,
       HandlerUncounts, HandlerDone, PipesInv, PipesFresh, SocketsOpen, Copying, TypeOK
  <2> QED
    BY <1>1, <2>1, <2>2
<1>6. ASSUME NEW c \in Conns, NEW d \in Dirs,
             PeerSends(c, d) \/ PeerEnds(c, d) \/ ReadFails(c, d) \/ Copy(c, d)
      PROVE  DirType' /\ PipesInv'
  BY <1>6, CopyKeeps
<1> QED
  BY <1>2, <1>3, <1>4, <1>5, <1>6 DEF Next, Loop, Handler

-----------------------------------------------------------------------------
\* The invariant.

\* It holds when runTCP starts.
LEMMA TCPInvInit == Init => TCPInv
<1> SUFFICES ASSUME Init PROVE TCPInv
  OBVIOUS
<1>1. TypeOK
  BY FixedPipes DEF Init, TypeOK
<1>2. Held = {} /\ Cardinality(Held) = 0
  BY FS_EmptySet DEF Init, Held
<1>3. CountInv
  BY <1>2, LimitsAssumption DEF Init, CountInv, LoopPlaced, CountExact,
     HeldBounded, DrainedQuiet
<1>4. PipesInv
  BY FixedPipes DEF Init, PipesInv, PipesFresh, SocketsOpen, Copying
<1> QED
  BY <1>1, <1>3, <1>4 DEF TCPInv

\* Every step keeps the types; conns and dir are the cases with an argument.
LEMMA TCPTypeNext == TCPInv /\ [Next]_vars => TypeOK'
<1> SUFFICES ASSUME TCPInv, [Next]_vars PROVE TypeOK'
  OBVIOUS
<1> DEFINE Others == /\ cancelled \in BOOLEAN /\ lnOpen \in BOOLEAN
                     /\ lpc \in {"accept", "counted", "drain", "returned"}
                     /\ next \in Conns \cup {NoConn}
                     /\ ret \in {"none", "done", "timeout"}
                     /\ st \in [Conns -> {"new", "dial", "proxy", "close",
                                          "uncount", "done", "gone"}]
                     /\ open \in [Conns -> BOOLEAN]
<1> USE DEF loopVars, connVars
<1>0. Others
  BY DEF TCPInv, TypeOK
<1>1. ASSUME Cancel \/ CloseListener \/ AcceptFails \/ Drained \/ DrainTimeout
      PROVE  Others'
  BY <1>0, <1>1 DEF Cancel, CloseListener, AcceptFails, Drained, DrainTimeout
<1>2. ASSUME NEW c \in Conns, Accept(c) \/ Refuse(c) \/ Spawn(c) PROVE Others'
  BY <1>0, <1>2 DEF Accept, Refuse, Spawn
<1>3. ASSUME NEW c \in Conns, Handler(c) \/ CtxCloses(c) PROVE Others'
  BY <1>0, <1>3 DEF Handler, DialSucceeds, DialFails, Finish, CtxCloses,
     HandlerCloses, HandlerUncounts, HandlerDone
<1>4. ASSUME NEW c \in Conns, NEW d \in Dirs,
             PeerSends(c, d) \/ PeerEnds(c, d) \/ ReadFails(c, d) \/ Copy(c, d)
      PROVE  Others'
  BY <1>0, <1>4 DEF PeerSends, PeerEnds, ReadFails, Copy, Read, ReadEOF, Write,
     WriteFails, UseClosed, CloseWrite, PipeStep
<1>5. ASSUME UNCHANGED vars PROVE Others'
  BY <1>0, <1>5 DEF vars
<1>6. Others'
  BY <1>1, <1>2, <1>3, <1>4, <1>5 DEF Next, Loop
<1>7. conns' \in Nat /\ DirType'
  BY TCPCountNext, TCPPipesNext
<1> QED
  BY <1>6, <1>7 DEF TypeOK, DirType

\* The invariant holds in every behaviour of runTCP.
LEMMA TCPInvariant == Spec => []TCPInv
<1>1. TCPInv /\ [Next]_vars => TCPInv'
  BY TCPTypeNext, TCPCountNext, TCPPipesNext DEF TCPInv
<1> QED
  BY <1>1, TCPInvInit, PTL DEF Spec

-----------------------------------------------------------------------------
\* The theorems.

\* Every variable of the relay keeps its type; r.conns never goes below zero
\* (TypeOK).
THEOREM TCPTypeCorrect == Spec => []TypeOK
<1>1. TCPInv => TypeOK
  BY DEF TCPInv
<1> QED
  BY <1>1, TCPInvariant, PTL

\* No more than MaxConns connections are relayed at a time, and a drain that
\* ends by itself leaves nothing (ConnsBounded): runTCP's count, raised before
\* it is compared and lowered by the handlers, never lets one too many in.
THEOREM TCPConnsBounded == Spec => []ConnsBounded
<1>1. TCPInv => ConnsBounded
  <2> SUFFICES ASSUME TypeOK, CountInv PROVE ConnsBounded
    BY DEF TCPInv
  <2>1. Handled \in SUBSET Held
    BY DEF Handled, Held
  <2>2. Cardinality(Handled) <= Cardinality(Held) /\ Cardinality(Handled) \in Nat
    BY <2>1, HeldFinite, FS_Subset, FS_CardinalityType
  <2>3. Cardinality(Handled) <= MaxConns
    BY <2>2, HeldFinite, LimitsAssumption DEF CountInv, HeldBounded
  <2>4. ASSUME ret = "done"
        PROVE  conns = 0 /\ \A c \in Conns : st[c] \in {"new", "gone"}
    <3>1. \A c \in Conns : st[c] \in {"new", "gone"}
      BY <2>4 DEF CountInv, DrainedQuiet, Active, TypeOK
    <3>2. Held = {}
      BY <3>1 DEF Held
    <3>3. Cardinality(Held) = 0
      BY <3>2, FS_EmptySet
    <3> QED
      BY <2>4, <3>1, <3>3 DEF CountInv, CountExact, DrainedQuiet
  <2> QED
    BY <2>3, <2>4 DEF ConnsBounded
<1> QED
  BY <1>1, TCPInvariant, PTL

\* A pipe half-closes without an error only when everything was delivered, and
\* no socket is closed under one that copies before the context ends
\* (HalfCloseIsClean).
THEOREM TCPHalfCloseIsClean == Spec => []HalfCloseIsClean
<1>1. TCPInv => HalfCloseIsClean
  BY DEF TCPInv, PipesInv, PipeOK, SocketsOpen, HalfCloseIsClean
<1> QED
  BY <1>1, TCPInvariant, PTL
=============================================================================
