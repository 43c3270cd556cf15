--------------------------- MODULE UDPRelayProofs ---------------------------
(***************************************************************************)
(* Proofs about UDPRelay, for any number of clients and session objects    *)
(* and any limit.                                                          *)
(*                                                                         *)
(* The limit holds because only the read loop inserts: between its first   *)
(* check and the second one, after the dial, the others only remove.  That *)
(* the map and the objects agree needs the life of an object: it is Free,  *)
(* or it runs, and its entry is gone before its pump closes the socket.    *)
(***************************************************************************)
EXTENDS UDPRelay, FiniteSetTheorems, TLAPS

\* An object whose pump has returned holds nothing.
DoneIsFree == \A s \in Slots : sess[s].pump = "done" => sess[s] = Free

\* An entry of the map: its client's session, open, its pump not past the
\* removal of the entry.
EntriesLive ==
  \A c \in Clients : sessions[c] # NoSlot =>
    /\ sess[sessions[c]].client = c /\ sess[sessions[c]].open
    /\ sess[sessions[c]].pump \in {"run", "ending"}

\* An object that runs has an entry.
RunnersMapped ==
  \A s \in Slots : sess[s].pump = "run" /\ sess[s].open => Mapped(s)

\* The last closeAll is not followed by an insertion.
ReturnedEmpty == pc = "returned" => \A c \in Clients : sessions[c] = NoSlot

MapInv == DoneIsFree /\ EntriesLive /\ RunnersMapped /\ ReturnedEmpty

UDPInv == TypeOK /\ SessionsBounded /\ MapInv

-----------------------------------------------------------------------------
\* Counting entries.

\* The number of sessions is a natural number.
LEMMA CountNat == Count \in Nat
<1>1. IsFiniteSet({c \in Clients : sessions[c] # NoSlot})
  BY ClientsAssumption, FS_Subset
<1> QED
  BY <1>1, FS_CardinalityType DEF Count

\* A step that enters no client does not raise the count.
LEMMA CountFalls ==
  ASSUME \A c \in Clients : sessions'[c] # NoSlot => sessions[c] # NoSlot
  PROVE  Count' <= Count /\ Count' \in Nat
<1> DEFINE S == {c \in Clients : sessions[c] # NoSlot}
           T == {c \in Clients : sessions'[c] # NoSlot}
<1>1. IsFiniteSet(S) /\ T \in SUBSET S
  BY ClientsAssumption, FS_Subset
<1>2. IsFiniteSet(T) /\ Cardinality(T) <= Cardinality(S)
  BY <1>1, FS_Subset
<1>3. Cardinality(T) \in Nat
  BY <1>2, FS_CardinalityType
<1> QED
  BY <1>2, <1>3 DEF Count

\* Entering a client raises it by one.
LEMMA CountRises ==
  ASSUME TypeOK, NEW c \in Clients, NEW s \in Slots,
         sessions' = [sessions EXCEPT ![c] = s]
  PROVE  Count' <= Count + 1 /\ Count' \in Nat
<1> DEFINE S == {d \in Clients : sessions[d] # NoSlot}
           T == {d \in Clients : sessions'[d] # NoSlot}
<1>1. IsFiniteSet(S)
  BY ClientsAssumption, FS_Subset
<1>2. T = S \cup {c}
  BY SlotsAssumption DEF TypeOK
<1>3. Cardinality(T) = IF c \in S THEN Cardinality(S) ELSE Cardinality(S) + 1
  BY <1>1, <1>2, FS_AddElement
<1>4. Cardinality(S) \in Nat
  BY <1>1, FS_CardinalityType
<1> QED
  BY <1>3, <1>4 DEF Count

-----------------------------------------------------------------------------
\* The record of an unused object is a session record.
LEMMA FreeType == Free \in Session
<1>1. (CHOOSE c \in Clients : TRUE) \in Clients
  BY ClientsAssumption
<1> QED
  BY <1>1, IdleAssumption DEF Free, Session

\* Closing a session keeps its type.
LEMMA ClosedType ==
  ASSUME NEW b \in Session
  PROVE  Closed(b) \in Session
<1>1. PICK c : c = [b EXCEPT !.open = FALSE]
  OBVIOUS
<1>2. c \in Session
  BY <1>1 DEF Session
<1>3. PICK d : d = [c EXCEPT !.age = 0]
  OBVIOUS
<1>4. d \in Session
  BY <1>2, <1>3, IdleAssumption DEF Session
<1>5. [d EXCEPT !.quiet = 0] \in Session
  BY <1>4, IdleAssumption DEF Session
<1> QED
  BY <1>1, <1>3, <1>5 DEF Closed

\* So do new ages within their range.
LEMMA AgedType ==
  ASSUME NEW b \in Session, NEW m \in 0 .. Idle + 1, NEW n \in 0 .. Idle + 1
  PROVE  [b EXCEPT !.age = m, !.quiet = n] \in Session
<1>1. PICK c : c = [b EXCEPT !.age = m]
  OBVIOUS
<1>2. c \in Session
  BY <1>1 DEF Session
<1>3. [c EXCEPT !.quiet = n] \in Session
  BY <1>2 DEF Session
<1> QED
  BY <1>1, <1>3

\* A reply resets the ages, and the pump may end.
LEMMA ReplyKeepsType ==
  ASSUME TypeOK, NEW s \in Slots, PumpReply(s)
  PROVE  sess' \in [Slots -> Session]
<1>1. PICK c : c = [sess[s] EXCEPT !.age = 0]
  OBVIOUS
<1>2. c \in Session
  BY <1>1, IdleAssumption DEF TypeOK, Session
<1>3. PICK d : d = [c EXCEPT !.quiet = 0]
  OBVIOUS
<1>4. d \in Session
  BY <1>2, <1>3, IdleAssumption DEF Session
<1>5. PICK e : e = [d EXCEPT !.pump = IF ctx = "live" THEN "run" ELSE "ending"]
  OBVIOUS
<1>6. e \in Session
  BY <1>4, <1>5 DEF Session
<1>7. sess' = [sess EXCEPT ![s] = e]
  BY <1>1, <1>3, <1>5 DEF PumpReply, TypeOK
<1> QED
  BY <1>6, <1>7 DEF TypeOK

\* Ages stop at Idle + 1.
LEMMA TickKeepsType ==
  ASSUME TypeOK, Tick
  PROVE  sess' \in [Slots -> Session]
<1>1. ASSUME NEW s \in Slots PROVE sess'[s] \in Session
  <2>1. sess[s] \in Session
    BY DEF TypeOK
  <2>2. Older(sess[s].age) \in 0 .. Idle + 1 /\ Older(sess[s].quiet) \in 0 .. Idle + 1
    BY <2>1, IdleAssumption DEF Older, Session
  <2>3. [sess[s] EXCEPT !.age = Older(@), !.quiet = Older(@)] \in Session
    BY <2>1, <2>2, AgedType
  <2> QED
    BY <2>1, <2>3 DEF Tick
<1> QED
  BY <1>1 DEF Tick

\* Closing leaves the client and the pump alone.
LEMMA ClosedFields ==
  ASSUME NEW b \in Session
  PROVE  /\ Closed(b).client = b.client /\ Closed(b).pump = b.pump
         /\ ~Closed(b).open
BY DEF Closed, Session

\* An object that nobody uses has no socket.
LEMMA FreeFields == Free.pump = "done" /\ ~Free.open
BY DEF Free

\* Time changes nothing but the ages of open sessions.
LEMMA TickFields ==
  ASSUME TypeOK, Tick, NEW s \in Slots
  PROVE  /\ sess'[s].client = sess[s].client /\ (sess'[s].open <=> sess[s].open)
         /\ sess'[s].pump = sess[s].pump
         /\ ~sess[s].open => sess'[s] = sess[s]
BY DEF TypeOK, Session, Tick

\* The invariant holds when runUDP starts.
LEMMA UDPInvInit == Init => UDPInv
<1> SUFFICES ASSUME Init PROVE UDPInv
  OBVIOUS
<1>1. TypeOK
  BY FreeType, SlotsAssumption DEF Init, TypeOK
<1>2. Count = 0
  <2>1. {c \in Clients : sessions[c] # NoSlot} = {}
    BY DEF Init
  <2> QED
    BY <2>1, FS_EmptySet DEF Count
<1>3. SessionsBounded
  BY <1>2, MaxSessionsAssumption DEF Init, SessionsBounded
<1>4. MapInv
  BY SlotsAssumption DEF Init, MapInv, DoneIsFree, EntriesLive, RunnersMapped,
     ReturnedEmpty, Free
<1> QED
  BY <1>1, <1>3, <1>4 DEF UDPInv

\* Every step keeps the types; the ages stop at Idle + 1.
LEMMA UDPTypeNext == UDPInv /\ [Next]_vars => TypeOK'
<1> SUFFICES ASSUME UDPInv, [Next]_vars PROVE TypeOK'
  OBVIOUS
<1> USE SlotsAssumption, IdleAssumption DEF TypeOK, loopVars
<1>0. TypeOK /\ EntriesLive
  BY DEF UDPInv, MapInv
<1>1. \A b \in Session : Closed(b) \in Session
  BY ClosedType
<1>2. ASSUME closeAll
      PROVE  sessions' \in [Clients -> Slots \cup {NoSlot}] /\ sess' \in [Slots -> Session]
  BY <1>0, <1>1, <1>2 DEF closeAll
<1>3. ASSUME NEW c \in Clients, ReceiveKnown(c) \/ ReceiveNew(c) PROVE TypeOK'
  BY <1>0, <1>3 DEF ReceiveKnown, ReceiveNew, Session
<1>4. ASSUME NEW s \in Slots, Insert(s) PROVE TypeOK'
  BY <1>0, <1>4 DEF Insert, Session
<1>5. CASE DialFails \/ WriteOk
  BY <1>0, <1>5 DEF DialFails, WriteOk
<1>6. CASE WriteFails
  BY <1>0, <1>1, <1>6 DEF WriteFails
<1>7. CASE LoopStops \/ Return
  BY <1>0, <1>2, <1>7 DEF LoopStops, Return
<1>8. CASE ReadFails \/ WaitDone \/ WaitTimeout \/ Cancel \/ CloseListener
  BY <1>0, <1>8 DEF ReadFails, WaitDone, WaitTimeout, Cancel, CloseListener
<1>9. CASE Sweep
  BY <1>0, <1>1, <1>9 DEF Sweep
<1>10. CASE Tick
  BY <1>0, <1>10, TickKeepsType DEF Tick
<1>11. ASSUME NEW s \in Slots, Pump(s) PROVE TypeOK'
  <2>1. CASE PumpReply(s)
    BY <1>0, <2>1, ReplyKeepsType DEF PumpReply
  <2>2. CASE PumpTimeout(s) \/ PumpReadError(s)
    BY <1>0, <2>2 DEF PumpTimeout, PumpReadError, Session
  <2>3. CASE PumpRemove(s)
    BY <1>0, <2>3 DEF PumpRemove, Session
  <2>4. CASE PumpClose(s)
    BY <1>0, <2>4, FreeType DEF PumpClose
  <2> QED
    BY <1>11, <2>1, <2>2, <2>3, <2>4 DEF Pump
<1>12. CASE UNCHANGED vars
  BY <1>0, <1>12 DEF vars
<1> QED
  BY <1>3, <1>4, <1>5, <1>6, <1>7, <1>8, <1>9, <1>10, <1>11, <1>12
     DEF Next, Loop

\* Every step respects the limit, and what the loop found before the dial
\* still holds when it inserts.
LEMMA UDPBoundNext == UDPInv /\ [Next]_vars => SessionsBounded'
<1> SUFFICES ASSUME UDPInv, [Next]_vars PROVE SessionsBounded'
  OBVIOUS
<1> USE MaxSessionsAssumption DEF loopVars
<1>0. TypeOK /\ SessionsBounded
  BY DEF UDPInv
<1>1. ASSUME \A c \in Clients : sessions'[c] # NoSlot => sessions[c] # NoSlot,
             pc' = "dial" => pc = "dial" /\ client' = client
      PROVE  SessionsBounded'
  BY <1>0, <1>1, CountNat, CountFalls DEF SessionsBounded, AtCap, TypeOK
<1>2. ASSUME NEW c \in Clients, ReceiveNew(c) PROVE SessionsBounded'
  <2>1. Count' = Count
    BY <1>2 DEF ReceiveNew, Count
  <2> QED
    BY <1>0, <1>2, <2>1 DEF ReceiveNew, SessionsBounded, AtCap
<1>3. ASSUME NEW s \in Slots, Insert(s) PROVE SessionsBounded'
  <2>1. Count' <= Count + 1 /\ Count' \in Nat
    BY <1>0, <1>3, CountRises DEF Insert, TypeOK
  <2> QED
    BY <1>3, <2>1, CountNat DEF Insert, SessionsBounded, AtCap
<1>4. ASSUME NEW c \in Clients, ReceiveKnown(c) PROVE SessionsBounded'
  BY <1>1, <1>4 DEF ReceiveKnown
<1>5. CASE DialFails \/ WriteOk \/ ReadFails \/ WaitDone \/ WaitTimeout
  BY <1>1, <1>5 DEF DialFails, WriteOk, ReadFails, WaitDone, WaitTimeout
<1>6. CASE WriteFails
  BY <1>0, <1>1, <1>6 DEF WriteFails, TypeOK
<1>7. CASE LoopStops \/ Return
  BY <1>1, <1>7 DEF LoopStops, Return, closeAll
<1>8. CASE Sweep
  BY <1>1, <1>8 DEF Sweep
<1>9. CASE Tick \/ Cancel \/ CloseListener
  BY <1>1, <1>9 DEF Tick, Cancel, CloseListener
<1>10. ASSUME NEW s \in Slots, Pump(s) PROVE SessionsBounded'
  BY <1>0, <1>1, <1>10
     DEF Pump, PumpReply, PumpTimeout, PumpReadError, PumpRemove, PumpClose, TypeOK
<1>11. CASE UNCHANGED vars
  BY <1>1, <1>11 DEF vars
<1> QED
  BY <1>2, <1>3, <1>4, <1>5, <1>6, <1>7, <1>8, <1>9, <1>10, <1>11 DEF Next, Loop

\* Every step keeps the map and the objects in agreement.
LEMMA UDPMapNext == UDPInv /\ [Next]_vars => MapInv'
<1> SUFFICES ASSUME UDPInv, [Next]_vars PROVE MapInv'
  OBVIOUS
<1> USE SlotsAssumption
    DEF MapInv, DoneIsFree, EntriesLive, RunnersMapped, ReturnedEmpty, Mapped,
        TypeOK, loopVars
<1>0. /\ TypeOK /\ MapInv
      /\ \A s \in Slots : sess[s] \in Session /\ sess[s].client \in Clients
  BY DEF UDPInv, Session
<1>a. \A b \in Session : /\ Closed(b).client = b.client /\ Closed(b).pump = b.pump
                         /\ ~Closed(b).open
  BY ClosedFields
<1>b. \A s \in Slots : Mapped(s) => sess[s].open /\ sess[s].pump \in {"run", "ending"}
  BY <1>0
<1>1. ASSUME NEW c \in Clients, ReceiveKnown(c) PROVE MapInv'
  BY <1>0, <1>1 DEF ReceiveKnown
<1>2. ASSUME NEW s \in Slots, Insert(s) PROVE MapInv'
  BY <1>0, <1>2, FreeFields DEF Insert, NextSlot
<1>3. CASE WriteFails
  <2>0. up \in Slots /\ \A c \in Clients : sessions[client] = up /\ sessions[c] = up => c = client
    BY <1>0, <1>3 DEF WriteFails
  <2>1. DoneIsFree'
    BY <1>0, <1>a, <1>b, <1>3, <2>0 DEF WriteFails
  <2>2. EntriesLive'
    <3> SUFFICES ASSUME NEW c \in Clients, sessions'[c] # NoSlot
                 PROVE  LET s == sessions[c]
                        IN  /\ sessions'[c] = s /\ s \in Slots
                            /\ sess'[s].client = c /\ sess'[s].open
                            /\ sess'[s].pump \in {"run", "ending"}
      OBVIOUS
    <3>1. sessions'[c] = sessions[c] /\ sessions[c] \in Slots
      BY <1>0, <1>3 DEF WriteFails
    <3>2. sess'[sessions[c]] = sess[sessions[c]]
      BY <1>0, <1>3, <2>0, <3>1 DEF WriteFails
    <3> QED
      BY <1>0, <3>1, <3>2
  <2>3. RunnersMapped'
    BY <1>0, <1>a, <1>b, <1>3, <2>0 DEF WriteFails
  <2>4. ReturnedEmpty'
    BY <1>0, <1>a, <1>b, <1>3, <2>0 DEF WriteFails
  <2> QED
    BY <2>1, <2>2, <2>3, <2>4
<1>4. CASE LoopStops \/ Return
  <2>1. DoneIsFree'
    BY <1>0, <1>a, <1>b, <1>4 DEF LoopStops, Return, closeAll
  <2>2. EntriesLive'
    BY <1>0, <1>a, <1>b, <1>4 DEF LoopStops, Return, closeAll
  <2>3. RunnersMapped'
    BY <1>0, <1>a, <1>b, <1>4 DEF LoopStops, Return, closeAll
  <2>4. ReturnedEmpty'
    BY <1>0, <1>a, <1>b, <1>4 DEF LoopStops, Return, closeAll
  <2> QED
    BY <2>1, <2>2, <2>3, <2>4
<1>5. CASE Sweep
  <2>1. DoneIsFree'
    BY <1>0, <1>a, <1>b, <1>5 DEF Sweep, ExpiredClients
  <2>2. EntriesLive'
    BY <1>0, <1>a, <1>b, <1>5 DEF Sweep, ExpiredClients
  <2>3. RunnersMapped'
    BY <1>0, <1>a, <1>b, <1>5 DEF Sweep, ExpiredClients
  <2>4. ReturnedEmpty'
    BY <1>0, <1>a, <1>b, <1>5 DEF Sweep, ExpiredClients
  <2> QED
    BY <2>1, <2>2, <2>3, <2>4
<1>6. CASE Tick
  <2>0. \A s \in Slots :
          /\ sess'[s].client = sess[s].client /\ (sess'[s].open <=> sess[s].open)
          /\ sess'[s].pump = sess[s].pump
          /\ ~sess[s].open => sess'[s] = sess[s]
    BY <1>0, <1>6, TickFields
  <2>a. sessions' = sessions /\ pc' = pc
    BY <1>6 DEF Tick
  <2>1. DoneIsFree'
    BY <1>0, <2>0, <2>a, FreeFields
  <2>2. EntriesLive'
    <3> SUFFICES ASSUME NEW c \in Clients, sessions'[c] # NoSlot
                 PROVE  LET s == sessions[c]
                        IN  /\ sessions'[c] = s /\ s \in Slots
                            /\ sess'[s].client = c /\ sess'[s].open
                            /\ sess'[s].pump \in {"run", "ending"}
      OBVIOUS
    <3>1. sessions'[c] = sessions[c] /\ sessions[c] \in Slots
      BY <1>0, <2>a
    <3> QED
      BY <1>0, <2>0, <3>1
  <2>3. RunnersMapped'
    BY <1>0, <2>0, <2>a, FreeFields
  <2>4. ReturnedEmpty'
    BY <1>0, <2>0, <2>a, FreeFields
  <2> QED
    BY <2>1, <2>2, <2>3, <2>4
<1>7. ASSUME NEW s \in Slots, PumpReply(s) PROVE MapInv'
  BY <1>0, <1>7 DEF PumpReply
<1>8. ASSUME NEW s \in Slots, PumpTimeout(s) \/ PumpReadError(s) PROVE MapInv'
  <2>1. /\ sess' = [sess EXCEPT ![s].pump = "ending"] /\ sess[s].pump = "run"
        /\ sessions' = sessions /\ pc' = pc
    BY <1>8 DEF PumpTimeout, PumpReadError
  <2> QED
    BY <1>0, <2>1
<1>9. ASSUME NEW s \in Slots, PumpRemove(s) PROVE MapInv'
  BY <1>0, <1>9 DEF PumpRemove
<1>10. ASSUME NEW s \in Slots, PumpClose(s) PROVE MapInv'
  <2>1. DoneIsFree'
    BY <1>0, <1>10, FreeFields DEF PumpClose
  <2>2. EntriesLive'
    BY <1>0, <1>10, FreeFields DEF PumpClose
  <2>3. RunnersMapped'
    BY <1>0, <1>10, FreeFields DEF PumpClose
  <2>4. ReturnedEmpty'
    BY <1>0, <1>10, FreeFields DEF PumpClose
  <2> QED
    BY <2>1, <2>2, <2>3, <2>4
<1>11. CASE \/ DialFails \/ WriteOk \/ ReadFails \/ WaitDone \/ WaitTimeout
            \/ Cancel \/ CloseListener \/ \E c \in Clients : ReceiveNew(c)
  BY <1>0, <1>11 DEF DialFails, WriteOk, ReadFails, WaitDone, WaitTimeout,
     Cancel, CloseListener, ReceiveNew
<1>12. CASE UNCHANGED vars
  BY <1>0, <1>12 DEF vars
<1> QED
  BY <1>1, <1>2, <1>3, <1>4, <1>5, <1>6, <1>7, <1>8, <1>9, <1>10, <1>11, <1>12
     DEF Next, Loop, Pump

-----------------------------------------------------------------------------
\* The theorems.

\* The invariant holds in every behaviour of runUDP.
LEMMA UDPInvariant == Spec => []UDPInv
<1>1. UDPInv /\ [Next]_vars => UDPInv'
  BY UDPTypeNext, UDPBoundNext, UDPMapNext DEF UDPInv
<1> QED
  BY <1>1, UDPInvInit, PTL DEF Spec

\* Every variable of runUDP keeps its type; a write has a session (TypeOK).
THEOREM UDPTypeCorrect == Spec => []TypeOK
<1>1. UDPInv => TypeOK
  BY DEF UDPInv
<1> QED
  BY <1>1, UDPInvariant, PTL

\* No interleaving of packets, pumps and sweeps gets past cfg.MaxSessions, and
\* the re-check before the insertion never fails (SessionsBounded).
THEOREM UDPSessionsBounded == Spec => []SessionsBounded
<1>1. UDPInv => SessionsBounded
  BY DEF UDPInv
<1> QED
  BY <1>1, UDPInvariant, PTL

\* The sessions map and the session objects agree (SessionsConsistent): no
\* session runs outside the map, and none is left when runUDP has returned.
THEOREM UDPSessionsConsistent == Spec => []SessionsConsistent
<1>1. UDPInv => SessionsConsistent
  <2> SUFFICES ASSUME TypeOK, MapInv PROVE SessionsConsistent
    BY DEF UDPInv
  <2>1. \A c \in Clients : sessions[c] # NoSlot =>
          sess[sessions[c]].client = c /\ sess[sessions[c]].open
    BY DEF MapInv, EntriesLive
  <2>2. ASSUME pc = "returned", NEW s \in Slots, sess[s].open
        PROVE  sess[s].pump \in {"ending", "closing"}
    <3>1. ~Mapped(s)
      BY <2>2, SlotsAssumption DEF MapInv, ReturnedEmpty, Mapped, TypeOK, Session
    <3>2. sess[s].pump # "run" /\ sess[s].pump # "done"
      BY <2>2, <3>1, FreeFields DEF MapInv, RunnersMapped, DoneIsFree
    <3> QED
      BY <3>2 DEF TypeOK, Session
  <2> QED
    BY <2>1, <2>2 DEF SessionsConsistent, MapInv, RunnersMapped
<1> QED
  BY <1>1, UDPInvariant, PTL
=============================================================================
