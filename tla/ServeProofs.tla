---------------------------- MODULE ServeProofs -----------------------------
(***************************************************************************)
(* Proofs about "stacklane serve": the daemon's lifecycle (Daemon), for    *)
(* any number of daemons on a state directory, and the configuration it    *)
(* starts from (Config), for every command line, environment and file.     *)
(*                                                                         *)
(* Daemon.  Whatever a process has, a place in Serve goes with it.  The    *)
(* places at which Serve has a resource are those between taking and       *)
(* giving up the lock; only the engine and its VIP listeners reach one     *)
(* place further, to "exit".  Since the lock has one holder, the resources *)
(* have one too.                                                           *)
(*                                                                         *)
(* Config.  The input never changes, so the invariant only says that what  *)
(* the daemon has is what Load makes of it.  The argument is about Load:   *)
(* that its two parsers of the command line agree, by induction from the   *)
(* line's end, that the sources are merged in order, and that a well-      *)
(* formed pool has usable addresses, which are loopback.                   *)
(***************************************************************************)
EXTENDS Daemon, Config, FiniteSetTheorems, SequenceTheorems,
        WellFoundedInduction, TLAPS

-----------------------------------------------------------------------------
\* Daemon.

\* Where Serve is between taking the lock and giving it up.
Locked == {"load", "dns", "unlink", "bind", "serve", "http", "unsock",
           "unproxy", "undns", "unlock"}

\* Where it has the DNS port, and where its engine may be running.
DnsUp == {"unlink", "bind", "serve", "http", "unsock", "unproxy", "undns"}
EngineUp == {"serve", "http", "unsock", "unproxy", "undns", "unlock", "exit"}

\* The flock is held exactly between Acquire and Unlock.
LockHeld == \A p \in Procs : p \in lock <=> pc[p] \in Locked

\* Nothing is kept beyond the deferred call that gives it back.
OwnersPlaced ==
  \A p \in Procs :
    /\ dns = p => pc[p] \in DnsUp
    /\ p \in listening => pc[p] \in {"serve", "unsock"}
    /\ vip = p => pc[p] \in EngineUp
    /\ eng[p] # "off" => pc[p] \in EngineUp

\* The socket file of the daemon that is starting or serving.
SockPlaced ==
  \A p \in Procs :
    /\ pc[p] = "bind" => sock = Nobody
    /\ pc[p] = "serve" => sock = p /\ p \in listening

DaemonInv == TypeOK /\ LockHeld /\ OwnersPlaced /\ SockPlaced

-----------------------------------------------------------------------------
\* The lock excludes: two processes that are both inside are the same.
LEMMA OneInside ==
  ASSUME TypeOK, LockHeld, NEW p \in Procs, NEW q \in Procs,
         pc[p] \in Locked, pc[q] \in Locked
  PROVE  p = q /\ lock = {p}
<1>1. p \in lock /\ q \in lock
  BY DEF LockHeld
<1>2. PICK r \in Procs : lock = {r}
  BY <1>1 DEF TypeOK
<1> QED
  BY <1>1, <1>2

\* The initial state satisfies the invariant.
LEMMA DaemonInvInit == Init => DaemonInv
BY NobodyAssumption
   DEF Init, DaemonInv, TypeOK, LockHeld, OwnersPlaced, SockPlaced, Owner, NoCall,
       Locked

\* Every step preserves the invariant.
LEMMA DaemonInvNext == DaemonInv /\ [Next]_vars => DaemonInv'
<1> SUFFICES ASSUME DaemonInv, [Next]_vars
             PROVE  DaemonInv'
  OBVIOUS
<1> USE NobodyAssumption
    DEF DaemonInv, TypeOK, LockHeld, OwnersPlaced, SockPlaced, Locked, DnsUp,
        EngineUp, Owner, resVars, Goto, Without
<1>1. ASSUME NEW p \in Procs, Acquire(p) PROVE DaemonInv'
  BY <1>1 DEF Acquire
<1>2. ASSUME NEW p \in Procs, AlreadyRunning(p) PROVE DaemonInv'
  BY <1>2 DEF AlreadyRunning
<1>3. ASSUME NEW p \in Procs, LoadState(p) PROVE DaemonInv'
  BY <1>3 DEF LoadState
<1>4. ASSUME NEW p \in Procs, DnsStart(p) PROVE DaemonInv'
  BY <1>4 DEF DnsStart
<1>5. ASSUME NEW p \in Procs, RemoveSock(p) PROVE DaemonInv'
  BY <1>5 DEF RemoveSock
<1>6. ASSUME NEW p \in Procs, ListenControl(p) PROVE DaemonInv'
  BY <1>6 DEF ListenControl
<1>7. ASSUME NEW p \in Procs, StartFails(p) PROVE DaemonInv'
  BY <1>7 DEF StartFails
<1>8. ASSUME NEW p \in Procs, Signal(p) PROVE DaemonInv'
  BY <1>8 DEF Signal
<1>9. ASSUME NEW p \in Procs, CtxDone(p) PROVE DaemonInv'
  BY <1>9 DEF CtxDone
<1>10. ASSUME NEW p \in Procs, ControlFails(p) PROVE DaemonInv'
  BY <1>10 DEF ControlFails
<1>11. ASSUME NEW p \in Procs, HttpDrained(p) PROVE DaemonInv'
  BY <1>11 DEF HttpDrained
<1>12. ASSUME NEW p \in Procs, HttpTimeout(p) PROVE DaemonInv'
  BY <1>12 DEF HttpTimeout
<1>13. ASSUME NEW p \in Procs, CloseControl(p) PROVE DaemonInv'
  BY <1>13 DEF CloseControl
<1>14. ASSUME NEW p \in Procs, ProxyShutdown(p) PROVE DaemonInv'
  BY <1>14 DEF ProxyShutdown
<1>15. ASSUME NEW p \in Procs, DnsShutdown(p) PROVE DaemonInv'
  BY <1>15 DEF DnsShutdown
<1>16. ASSUME NEW p \in Procs, Unlock(p) PROVE DaemonInv'
  BY <1>16 DEF Unlock
<1>17. ASSUME NEW p \in Procs, Exit(p) PROVE DaemonInv'
  BY <1>17 DEF Exit, Ended, NoCall, Alive
<1>18. ASSUME NEW p \in Procs, Kill(p) PROVE DaemonInv'
  BY <1>18 DEF Kill, Ended, NoCall, Alive
<1>19. ASSUME NEW p \in Procs, BeginPass(p) PROVE DaemonInv'
  BY <1>19 DEF BeginPass, EngGoto
<1>20. ASSUME NEW p \in Procs, EngineStops(p) PROVE DaemonInv'
  BY <1>20 DEF EngineStops, EngGoto
<1>21. ASSUME NEW p \in Procs, List(p) PROVE DaemonInv'
  BY <1>21 DEF List, EngGoto
<1>22. ASSUME NEW p \in Procs, ListFails(p) PROVE DaemonInv'
  BY <1>22 DEF ListFails, EngGoto
<1>23. ASSUME NEW p \in Procs, Saved(p) PROVE DaemonInv'
  BY <1>23 DEF Saved, EngGoto
<1>24. ASSUME NEW p \in Procs, SaveFails(p) PROVE DaemonInv'
  BY <1>24 DEF SaveFails, EngGoto
<1>25. ASSUME NEW p \in Procs, ReconcileProxy(p) PROVE DaemonInv'
  BY <1>25 DEF ReconcileProxy, EngGoto
<1>26. ASSUME NEW p \in Procs, Bind(p) PROVE DaemonInv'
  BY <1>26 DEF Bind, EngGoto
<1>27. CASE ClientStat
  BY <1>27 DEF ClientStat, ClientStep, NoCall
<1>28. CASE ClientDial
  BY <1>28 DEF ClientDial, ClientStep, NoCall
<1>29. CASE ClientRefused
  BY <1>29 DEF ClientRefused, ClientStep, NoCall
<1>30. CASE ClientReturns
  BY <1>30 DEF ClientReturns, ClientStep, NoCall
<1>31. CASE UNCHANGED vars
  BY <1>31 DEF vars
<1> QED
  BY <1>1, <1>2, <1>3, <1>4, <1>5, <1>6, <1>7, <1>8, <1>9, <1>10, <1>11,
     <1>12, <1>13, <1>14, <1>15, <1>16, <1>17, <1>18, <1>19, <1>20, <1>21,
     <1>22, <1>23, <1>24, <1>25, <1>26, <1>27, <1>28, <1>29, <1>30, <1>31
     DEF Next, StartStep, StopStep, EngineStep, Client

-----------------------------------------------------------------------------
\* The theorems.

\* The invariant holds in every behaviour.
LEMMA DaemonInvariant == Spec => []DaemonInv
BY DaemonInvInit, DaemonInvNext, PTL DEF Spec

\* Every variable keeps its type; in particular acquireDaemonLock lets one
\* process in at a time (TypeOK).
THEOREM DaemonTypeCorrect == Spec => []TypeOK
<1>1. DaemonInv => TypeOK
  BY DEF DaemonInv
<1> QED
  BY <1>1, DaemonInvariant, PTL

\* The control socket of a daemon that serves is its own and is listened to
\* (ServingIsReachable), however many daemons come and go.
THEOREM ServingReachable == Spec => []ServingIsReachable
<1>1. DaemonInv => ServingIsReachable
  BY DEF DaemonInv, SockPlaced, ServingIsReachable
<1> QED
  BY <1>1, DaemonInvariant, PTL

\* Serve finds its DNS port free and its socket path clear once it has the
\* lock (NothingInTheWay).
THEOREM WayIsClear == Spec => []NothingInTheWay
<1>1. DaemonInv => NothingInTheWay
  <2> SUFFICES ASSUME DaemonInv, NEW p \in Procs
               PROVE  /\ pc[p] = "dns" => dns = Nobody
                      /\ pc[p] = "bind" => sock = Nobody
    BY DEF NothingInTheWay
  <2>1. ASSUME pc[p] = "dns" PROVE dns = Nobody
    <3> SUFFICES ASSUME dns \in Procs PROVE FALSE
      BY DEF DaemonInv, TypeOK, Owner
    <3>1. pc[dns] \in DnsUp
      BY DEF DaemonInv, OwnersPlaced
    <3>2. dns = p
      BY <2>1, <3>1, OneInside DEF DaemonInv, Locked, DnsUp
    <3> QED
      BY <2>1, <3>1, <3>2 DEF DnsUp
  <2> QED
    BY <2>1 DEF DaemonInv, SockPlaced
<1> QED
  BY <1>1, DaemonInvariant, PTL

\* Beside the holder of the lock only a process that is about to exit writes
\* state.json or keeps a VIP (BesideHolderOnlyExit): how far "Daemon lock
\* prevents two writers" is true of serve.go.
THEOREM BesideHolder == Spec => []BesideHolderOnlyExit
<1>1. DaemonInv => BesideHolderOnlyExit
  <2> SUFFICES ASSUME DaemonInv, NEW p \in Procs, p \notin lock,
                      Writing(p) \/ vip = p \/ dns = p \/ p \in listening
               PROVE  pc[p] = "exit" /\ dns # p /\ p \notin listening
    BY DEF BesideHolderOnlyExit
  <2>1. pc[p] \notin Locked
    BY DEF DaemonInv, LockHeld
  <2>2. dns # p /\ p \notin listening
    BY <2>1 DEF DaemonInv, OwnersPlaced, DnsUp, Locked
  <2>3. pc[p] \in EngineUp
    BY <2>2 DEF DaemonInv, OwnersPlaced, Writing
  <2> QED
    BY <2>1, <2>2, <2>3 DEF EngineUp, Locked
<1> QED
  BY <1>1, DaemonInvariant, PTL

-----------------------------------------------------------------------------
\* Config: command lines.

\* Induction over the naturals, for a set of numbers.
LEMMA SetInduction ==
  ASSUME NEW S, 0 \in S, \A n \in Nat : n \in S => n + 1 \in S
  PROVE  \A n \in Nat : n \in S
<1> DEFINE T == {n \in Nat : n \notin S}
<1> DEFINE R == OpToRel(<, Nat)
<1> SUFFICES ASSUME T # {} PROVE FALSE
  OBVIOUS
<1>1. PICK x \in T : \A y \in T : ~(<<y, x>> \in R)
  <2>1. T \subseteq Nat
    OBVIOUS
  <2> HIDE DEF T, R
  <2>2. IsWellFoundedOn(R, Nat)
    BY NatLessThanWellFounded DEF R
  <2> QED
    BY <2>1, <2>2, WFMin
<1>2. x \in Nat /\ x \notin S
  OBVIOUS
<1>4. x # 0
  BY <1>2
<1>5. x - 1 \in Nat /\ (x - 1) + 1 = x
  BY <1>2, <1>4
<1>6. x - 1 \notin S
  BY <1>2, <1>5
<1>3. <<x - 1, x>> \in R
  BY <1>2, <1>5 DEF OpToRel
<1> QED
  BY <1>1, <1>3, <1>5, <1>6

\* What Parse does at a token depends on the two places after it only.
LEMMA ParseLocal ==
  ASSUME NEW line, NEW names, NEW g, NEW h, NEW i,
         i > Len(line) \/ (g[i + 1] = h[i + 1] /\ g[i + 2] = h[i + 2])
  PROVE  ParseAt(line, names, g, i) = ParseAt(line, names, h, i)
BY DEF ParseAt

\* The recursion of Parse has a solution.
LEMMA ParseExists ==
  ASSUME NEW line, NEW names, NEW N \in Nat, Len(line) = N
  PROVE  \E g : g = [i \in 1 .. N + 2 |-> ParseAt(line, names, g, i)]
<1> DEFINE From(g, k) ==
      /\ g = [i \in 1 .. N + 2 |-> g[i]]
      /\ \A i \in 1 .. N + 2 : i + k > N => g[i] = ParseAt(line, names, g, i)
<1> DEFINE S == {k \in Nat : \E g : From(g, k)}
<1>1. 0 \in S
  <2> DEFINE g == [i \in 1 .. N + 2 |-> [ok |-> TRUE, given |-> <<>>]]
  <2>1. From(g, 0)
    BY DEF ParseAt
  <2> QED
    BY <2>1
<1>2. ASSUME NEW k \in Nat, k \in S PROVE k + 1 \in S
  <2>1. PICK g : From(g, k)
    BY <1>2
  <2> DEFINE h == [i \in 1 .. N + 2 |->
                     IF i = N - k THEN ParseAt(line, names, g, i) ELSE g[i]]
  <2>2. ASSUME NEW i \in 1 .. N + 2, i + (k + 1) > N
        PROVE  h[i] = ParseAt(line, names, h, i)
    <3>1. h[i] = ParseAt(line, names, g, i)
      <4>1. i = N - k \/ i + k > N
        <5> HIDE DEF h, From
        <5> QED BY <2>2
      <4> QED
        BY <2>1, <4>1
    <3>2. i > N \/ (g[i + 1] = h[i + 1] /\ g[i + 2] = h[i + 2])
      <4>1. i <= N => /\ i + 1 \in 1 .. N + 2 /\ i + 1 # N - k
                      /\ i + 2 \in 1 .. N + 2 /\ i + 2 # N - k
        <5> HIDE DEF h, From
        <5> QED BY <2>2
      <4>2. \A j \in 1 .. N + 2 : j # N - k => h[j] = g[j]
        OBVIOUS
      <4> HIDE DEF h, From
      <4> QED BY <4>1, <4>2
    <3> HIDE DEF h
    <3> QED
      BY <3>1, <3>2, ParseLocal
  <2>3. From(h, k + 1)
    <3>1. h = [i \in 1 .. N + 2 |-> h[i]]
      OBVIOUS
    <3> HIDE DEF h
    <3> QED BY <2>2, <3>1
  <2> HIDE DEF From, h
  <2> QED
    BY <2>3
<1>3. N \in S
  <2> HIDE DEF S
  <2> QED BY <1>1, <1>2, SetInduction
<1>4. PICK g : From(g, N)
  BY <1>3
<1>5. \A i \in 1 .. N + 2 : i + N > N
  OBVIOUS
<1>6. \A i \in 1 .. N + 2 : g[i] = ParseAt(line, names, g, i)
  BY <1>4, <1>5
<1>7. g = [i \in 1 .. N + 2 |-> ParseAt(line, names, g, i)]
  BY <1>4, <1>6
<1> QED
  BY <1>7

\* Parse at each token.
LEMMA ParseRule ==
  ASSUME NEW line, NEW names, Len(line) \in Nat
  PROVE  ParseFrom(line, names) =
           [i \in 1 .. Len(line) + 2 |-> ParseAt(line, names, ParseFrom(line, names), i)]
BY ParseExists DEF ParseFrom

\* The same for filterKnown.
LEMMA FilterLocal ==
  ASSUME NEW line, NEW g, NEW h, NEW i \in Nat,
         i > Len(line) \/ (g[i + 1] = h[i + 1] /\ g[i + 2] = h[i + 2])
  PROVE  FilterAt(line, g, i) = FilterAt(line, h, i)
<1>1. CASE i > Len(line)
  BY <1>1 DEF FilterAt
<1>2. CASE g[i + 1] = h[i + 1] /\ g[i + 2] = h[i + 2]
  <2>1. LastOf(line, i) = i \/ LastOf(line, i) = i + 1
    BY DEF LastOf
  <2>2. (i + 1) + 1 = i + 2
    OBVIOUS
  <2>3. g[LastOf(line, i) + 1] = h[LastOf(line, i) + 1]
    BY <1>2, <2>1, <2>2
  <2> QED
    BY <1>2, <2>3 DEF FilterAt
<1> QED
  BY <1>1, <1>2

\* The recursion of filterKnown has a solution.
LEMMA FilterExists ==
  ASSUME NEW line, NEW N \in Nat, Len(line) = N
  PROVE  \E g : g = [i \in 1 .. N + 2 |-> FilterAt(line, g, i)]
<1> DEFINE From(g, k) ==
      /\ g = [i \in 1 .. N + 2 |-> g[i]]
      /\ \A i \in 1 .. N + 2 : i + k > N => g[i] = FilterAt(line, g, i)
<1> DEFINE S == {k \in Nat : \E g : From(g, k)}
<1>1. 0 \in S
  <2> DEFINE g == [i \in 1 .. N + 2 |-> <<>>]
  <2>1. From(g, 0)
    BY DEF FilterAt
  <2> QED
    BY <2>1
<1>2. ASSUME NEW k \in Nat, k \in S PROVE k + 1 \in S
  <2>1. PICK g : From(g, k)
    BY <1>2
  <2> DEFINE h == [i \in 1 .. N + 2 |->
                     IF i = N - k THEN FilterAt(line, g, i) ELSE g[i]]
  <2>2. ASSUME NEW i \in 1 .. N + 2, i + (k + 1) > N
        PROVE  h[i] = FilterAt(line, h, i)
    <3>1. h[i] = FilterAt(line, g, i)
      <4>1. i = N - k \/ i + k > N
        <5> HIDE DEF h, From
        <5> QED BY <2>2
      <4> QED
        BY <2>1, <4>1
    <3>2. i > N \/ (g[i + 1] = h[i + 1] /\ g[i + 2] = h[i + 2])
      <4>1. i <= N => /\ i + 1 \in 1 .. N + 2 /\ i + 1 # N - k
                      /\ i + 2 \in 1 .. N + 2 /\ i + 2 # N - k
        <5> HIDE DEF h, From
        <5> QED BY <2>2
      <4>2. \A j \in 1 .. N + 2 : j # N - k => h[j] = g[j]
        OBVIOUS
      <4> HIDE DEF h, From
      <4> QED BY <4>1, <4>2
    <3>3. i \in Nat
      OBVIOUS
    <3> HIDE DEF h
    <3> QED
      BY <3>1, <3>2, <3>3, FilterLocal
  <2>3. From(h, k + 1)
    <3>1. h = [i \in 1 .. N + 2 |-> h[i]]
      OBVIOUS
    <3> HIDE DEF h
    <3> QED BY <2>2, <3>1
  <2> HIDE DEF From, h
  <2> QED
    BY <2>3
<1>3. N \in S
  <2> HIDE DEF S
  <2> QED BY <1>1, <1>2, SetInduction
<1>4. PICK g : From(g, N)
  BY <1>3
<1>5. \A i \in 1 .. N + 2 : i + N > N
  OBVIOUS
<1>6. \A i \in 1 .. N + 2 : g[i] = FilterAt(line, g, i)
  BY <1>4, <1>5
<1>7. g = [i \in 1 .. N + 2 |-> FilterAt(line, g, i)]
  BY <1>4, <1>6
<1> QED
  BY <1>7

\* filterKnown at each token.
LEMMA FilterRule ==
  ASSUME NEW line, Len(line) \in Nat
  PROVE  FilterFrom(line) =
           [i \in 1 .. Len(line) + 2 |-> FilterAt(line, FilterFrom(line), i)]
BY FilterExists DEF FilterFrom

\* After L tokens u goes on with the M tokens of s.
EndsWith(u, s, L, M) ==
  Len(s) = M /\ Len(u) = L + M /\ \A j \in 1 .. M : u[L + j] = s[j]

\* Parse of a command line that ends like another.
LEMMA ParseShift ==
  ASSUME NEW u, NEW s, NEW names, NEW L \in Nat, NEW M \in Nat, EndsWith(u, s, L, M)
  PROVE  \A j \in 1 .. M + 2 : ParseFrom(u, names)[L + j] = ParseFrom(s, names)[j]
<1> DEFINE U == ParseFrom(u, names)
           V == ParseFrom(s, names)
           S == {k \in Nat : \A j \in 1 .. M + 2 : j + k > M => U[L + j] = V[j]}
<1>0. Len(s) = M /\ Len(u) = L + M /\ \A j \in 1 .. M : u[L + j] = s[j]
  BY DEF EndsWith
<1>1. \A j \in 1 .. M + 2 : /\ U[L + j] = ParseAt(u, names, U, L + j)
                            /\ V[j] = ParseAt(s, names, V, j)
  <2>1. \A j \in 1 .. M + 2 : L + j \in 1 .. (L + M) + 2
    OBVIOUS
  <2>2. /\ U = [i \in 1 .. (L + M) + 2 |-> ParseAt(u, names, U, i)]
        /\ V = [i \in 1 .. M + 2 |-> ParseAt(s, names, V, i)]
    BY <1>0, ParseRule
  <2> HIDE DEF U, V
  <2> QED
    BY <2>1, <2>2
<1> HIDE DEF U, V
<1>2. ASSUME NEW j \in 1 .. M + 2, j > M PROVE U[L + j] = V[j]
  <2>1. L + j > Len(u) /\ j > Len(s)
    BY <1>0, <1>2
  <2> QED
    BY <1>1, <2>1 DEF ParseAt
<1>3. ASSUME NEW j \in 1 .. M,
             U[L + (j + 1)] = V[j + 1], U[L + (j + 2)] = V[j + 2]
      PROVE  U[L + j] = V[j]
  <2>1. u[L + j] = s[j] /\ (j < M => u[(L + j) + 1] = s[j + 1])
    <3>1. j < M => j + 1 \in 1 .. M /\ L + (j + 1) = (L + j) + 1
      OBVIOUS
    <3> QED BY <1>0, <3>1
  <2>2. /\ ~(L + j > Len(u)) /\ ~(j > Len(s))
        /\ ((L + j = Len(u)) <=> (j = Len(s)))
        /\ (j < M \/ j = Len(s))
        /\ (L + j) + 1 = L + (j + 1) /\ (L + j) + 2 = L + (j + 2)
    BY <1>0
  <2>3. Separate(u, L + j) <=> Separate(s, j)
    BY <2>1 DEF Separate
  <2>4. (Separate(s, j) /\ j = Len(s)) \/ Value(u, L + j) = Value(s, j)
    BY <2>1, <2>2 DEF Value, Separate
  <2>5. U[L + j] = ParseAt(u, names, U, L + j) /\ V[j] = ParseAt(s, names, V, j)
    BY <1>1
  <2>6. ParseAt(u, names, U, L + j) = ParseAt(s, names, V, j)
    BY <1>3, <2>1, <2>2, <2>3, <2>4 DEF ParseAt
  <2> QED BY <2>5, <2>6
<1>4. 0 \in S
  BY <1>2
<1>5. ASSUME NEW k \in Nat, k \in S PROVE k + 1 \in S
  <2> SUFFICES ASSUME NEW j \in 1 .. M + 2, j + (k + 1) > M PROVE U[L + j] = V[j]
    OBVIOUS
  <2>1. CASE j > M
    BY <1>2, <2>1
  <2>2. CASE j <= M
    <3>1. /\ j \in 1 .. M
          /\ j + 1 \in 1 .. M + 2 /\ (j + 1) + k > M
          /\ j + 2 \in 1 .. M + 2 /\ (j + 2) + k > M
      BY <2>2
    <3>2. U[L + (j + 1)] = V[j + 1] /\ U[L + (j + 2)] = V[j + 2]
      BY <1>5, <3>1
    <3> QED
      BY <1>3, <3>1, <3>2
  <2> QED
    BY <2>1, <2>2
<1>6. M \in S
  <2> HIDE DEF S
  <2> QED BY <1>4, <1>5, SetInduction
<1>7. \A j \in 1 .. M + 2 : j + M > M
  OBVIOUS
<1>8. \A j \in 1 .. M + 2 : U[L + j] = V[j]
  BY <1>6, <1>7
<1> QED
  BY <1>8 DEF U, V

\* filterKnown's value of a flag is in the command line.
LEMMA LastOfRange ==
  ASSUME NEW line, NEW N \in Nat, Len(line) = N, NEW i \in 1 .. N
  PROVE  LastOf(line, i) \in i .. N /\ LastOf(line, i) \in {i, i + 1}
<1>1. LastOf(line, i) = i \/ (LastOf(line, i) = i + 1 /\ i < Len(line))
  BY Zenon DEF LastOf
<1>2. CASE LastOf(line, i) = i
  BY <1>2
<1>3. CASE LastOf(line, i) = i + 1 /\ i < Len(line)
  BY <1>3
<1> QED
  BY <1>1, <1>2, <1>3

\* filterKnown keeps tokens of the command line.
LEMMA FilterSeq ==
  ASSUME NEW line, NEW N \in Nat, Len(line) = N, NEW T, \A j \in 1 .. N : line[j] \in T
  PROVE  \A i \in 1 .. N + 2 : FilterFrom(line)[i] \in Seq(T)
<1> DEFINE F == FilterFrom(line)
           S == {k \in Nat : \A i \in 1 .. N + 2 : i + k > N => F[i] \in Seq(T)}
<1>1. \A i \in 1 .. N + 2 : F[i] = FilterAt(line, F, i)
  <2>1. F = [i \in 1 .. N + 2 |-> FilterAt(line, F, i)]
    BY FilterRule
  <2> HIDE DEF F
  <2> QED BY <2>1
<1> HIDE DEF F
<1>2. ASSUME NEW i \in 1 .. N + 2, i > N PROVE F[i] \in Seq(T)
  BY <1>1, <1>2, EmptySeq DEF FilterAt
<1>3. ASSUME NEW i \in 1 .. N, F[i + 1] \in Seq(T), F[i + 2] \in Seq(T)
      PROVE  F[i] \in Seq(T)
  <2> DEFINE l == LastOf(line, i)
  <2>1. l \in i .. N /\ l \in {i, i + 1}
    BY LastOfRange
  <2> HIDE DEF l, S
  <2>2. F[l + 1] \in Seq(T)
    <3>1. l + 1 = i + 1 \/ l + 1 = i + 2
      BY <2>1
    <3> QED
      BY <1>3, <3>1
  <2>3. SubSeq(line, i, l) \in Seq(T)
    <3>1. l \in Int /\ i \in Int /\ \A j \in i .. l : j \in 1 .. N
      BY <2>1
    <3>2. \A j \in i .. l : line[j] \in T
      BY <3>1
    <3> QED BY <3>1, <3>2, SubSeqProperties
  <2>4. SubSeq(line, i, l) \o F[l + 1] \in Seq(T)
    BY <2>2, <2>3, ConcatProperties
  <2>5. i \in 1 .. N + 2 /\ ~(i > Len(line))
    OBVIOUS
  <2> QED
    BY <1>1, <1>3, <2>2, <2>4, <2>5 DEF FilterAt, l
<1>4. 0 \in S
  BY <1>2
<1>5. ASSUME NEW k \in Nat, k \in S PROVE k + 1 \in S
  <2> SUFFICES ASSUME NEW i \in 1 .. N + 2, i + (k + 1) > N PROVE F[i] \in Seq(T)
    OBVIOUS
  <2>1. CASE i > N
    BY <1>2, <2>1
  <2>2. CASE i <= N
    <3>1. /\ i \in 1 .. N
          /\ i + 1 \in 1 .. N + 2 /\ (i + 1) + k > N
          /\ i + 2 \in 1 .. N + 2 /\ (i + 2) + k > N
      BY <2>2
    <3> QED
      BY <1>3, <1>5, <3>1
  <2> QED
    BY <2>1, <2>2
<1>6. N \in S
  <2> HIDE DEF S
  <2> QED BY <1>4, <1>5, SetInduction
<1>7. \A i \in 1 .. N + 2 : i + N > N
  OBVIOUS
<1> QED
  BY <1>6, <1>7 DEF F

\* Two results of Parse that say the same of --config.
SameConfig(g, h) ==
  /\ "config" \in DOMAIN g <=> "config" \in DOMAIN h
  /\ "config" \in DOMAIN g => g["config"] = h["config"]

\* Parse for --config alone, of --config with its value before other tokens.
LEMMA ParseConfigFirst ==
  ASSUME NEW u, NEW s, NEW L \in Nat, NEW M \in Nat,
         EndsWith(u, s, L, M), u[1].dash, u[1].name = "config",
         L = IF Separate(u, 1) THEN 2 ELSE 1
  PROVE  Parse(u, {"config"}).given =
           Overlay(Parse(s, {"config"}).given, [n \in {"config"} |-> Value(u, 1)])
<1> DEFINE U == ParseFrom(u, {"config"})
           V == ParseFrom(s, {"config"})
<1>0. Len(u) = L + M /\ L \in 1 .. 2
  BY DEF EndsWith
<1>1. U[1] = ParseAt(u, {"config"}, U, 1)
  <2>1. U = [i \in 1 .. (L + M) + 2 |-> ParseAt(u, {"config"}, U, i)]
    BY <1>0, ParseRule
  <2>2. 1 \in 1 .. (L + M) + 2
    OBVIOUS
  <2> HIDE DEF U
  <2> QED BY <2>1, <2>2
<1>2. U[L + 1] = V[1]
  <2>1. 1 \in 1 .. M + 2
    OBVIOUS
  <2> QED BY <2>1, ParseShift
<1> HIDE DEF U, V
<1>3. /\ ~(1 > Len(u)) /\ ~(Separate(u, 1) /\ 1 = Len(u))
      /\ ~Refuses(u[1].name, Value(u, 1)) /\ u[1].name \in {"config"}
      /\ u[1].name # ""
  BY <1>0 DEF Refuses, IsBool, Numbers
<1>4. (IF Separate(u, 1) THEN 1 + 2 ELSE 1 + 1) = L + 1
  OBVIOUS
<1>5. U[1].given = Overlay(V[1].given, [n \in {"config"} |-> Value(u, 1)])
  BY <1>1, <1>2, <1>3, <1>4 DEF ParseAt
<1> QED
  BY <1>5 DEF U, V, Parse

\* On a plain command line that the flags accept, filterKnown and the parser
\* for --config alone say of --config what the parser for all flags says.
LEMMA FilterAgrees ==
  ASSUME NEW line, NEW names, NEW N \in Nat, Len(line) = N,
         IsCommandLine(line), Plain(line), Parse(line, names).ok
  PROVE  SameConfig(Parse(filterKnown(line), {"config"}).given,
                    Parse(line, names).given)
<1> DEFINE T == {line[j] : j \in 1 .. N}
           F == FilterFrom(line)
           P == ParseFrom(line, names)
           Start(i) == i > N \/ line[i].dash
           Same(i) == Start(i) /\ P[i].ok =>
                        SameConfig(Parse(F[i], {"config"}).given, P[i].given)
           S == {k \in Nat : \A i \in 1 .. N + 2 : i + k > N => Same(i)}
<1>1. \A i \in 1 .. N + 2 : /\ F[i] = FilterAt(line, F, i)
                            /\ P[i] = ParseAt(line, names, P, i)
                            /\ F[i] \in Seq(T)
  <2>1. F = [i \in 1 .. N + 2 |-> FilterAt(line, F, i)]
    BY FilterRule
  <2>2. P = [i \in 1 .. N + 2 |-> ParseAt(line, names, P, i)]
    BY ParseRule
  <2>3. \A i \in 1 .. N + 2 : F[i] \in Seq(T)
    BY FilterSeq
  <2> HIDE DEF F, P, T
  <2> QED BY <2>1, <2>2, <2>3
<1>2. \A i \in 1 .. N : /\ line[i].dash \in BOOLEAN /\ line[i].eq \in BOOLEAN
                        /\ ~line[i].dash => /\ i > 1 /\ line[i - 1].dash
                                          /\ Separate(line, i - 1)
                        /\ line[i].dash => line[i].name # ""
                        /\ line[i].dash /\ Separate(line, i) => i < N /\ ~line[i + 1].dash
  BY DEF IsCommandLine, Plain
<1>3. \A j \in 1 .. N : line[j] \in T
  OBVIOUS
<1> HIDE DEF F, P, T, S, Same, Start
<1>4. ASSUME NEW i \in 1 .. N + 2, i > N PROVE Same(i)
  <2>0. i > Len(line) /\ F[i] = FilterAt(line, F, i) /\ P[i] = ParseAt(line, names, P, i)
    BY <1>1, <1>4
  <2>1. F[i] = <<>> /\ P[i].given = <<>>
    BY <2>0 DEF FilterAt, ParseAt
  <2>2. Parse(<<>>, {"config"}) = ParseAt(<<>>, {"config"}, ParseFrom(<<>>, {"config"}), 1)
    BY ParseRule DEF Parse
  <2>3. Parse(<<>>, {"config"}).given = <<>>
    BY <2>2 DEF ParseAt
  <2> QED
    BY <2>1, <2>3 DEF SameConfig, Same
<1>5. ASSUME NEW i \in 1 .. N, Same(i + 1), Same(i + 2) PROVE Same(i)
  <2> SUFFICES ASSUME line[i].dash, P[i].ok
               PROVE  SameConfig(Parse(F[i], {"config"}).given, P[i].given)
    BY DEF Same, Start
  <2> DEFINE nx == IF Separate(line, i) THEN i + 2 ELSE i + 1
             v  == [n \in {line[i].name} |-> Value(line, i)]
  <2>1. i \in 1 .. N + 2 /\ ~(i > Len(line))
    OBVIOUS
  <2>2. P[i].given = Overlay(P[nx].given, v) /\ P[nx].ok
    <3>1. P[i] = ParseAt(line, names, P, i) /\ line[i].name # ""
      BY <1>1, <1>2, <2>1
    <3> DEFINE Err == \/ line[i].name \notin names
                      \/ Separate(line, i) /\ i = Len(line)
                      \/ Refuses(line[i].name, Value(line, i))
               full == [ok |-> P[nx].ok, given |-> Overlay(P[nx].given, v)]
    <3>2. P[i] = IF Err THEN [ok |-> FALSE, given |-> <<>>] ELSE full
      BY <2>1, <3>1, Zenon DEF ParseAt
    <3> HIDE DEF Err, full
    <3>3. P[i] = full
      BY <3>2
    <3> QED BY <3>3 DEF full
  <2>3. Start(nx)
    <3>1. CASE Separate(line, i)
      <4>1. i < N /\ ~line[i + 1].dash
        BY <1>2, <3>1
      <4>2. CASE i + 2 <= N
        <5>1. i + 2 \in 1 .. N /\ (i + 2) - 1 = i + 1
          BY <4>2
        <5> QED BY <1>2, <3>1, <4>1, <5>1 DEF Start
      <4> QED BY <3>1, <4>2 DEF Start
    <3>2. CASE ~Separate(line, i)
      <4>1. CASE i + 1 <= N
        <5>1. i + 1 \in 1 .. N /\ (i + 1) - 1 = i
          BY <4>1
        <5>2. ~line[i + 1].dash => Separate(line, (i + 1) - 1)
          BY <1>2, <5>1
        <5>3. line[i + 1].dash
          BY <3>2, <5>1, <5>2
        <5> QED BY <3>2, <5>3 DEF Start
      <4> QED BY <3>2, <4>1 DEF Start
    <3> QED BY <3>1, <3>2
  <2>4. LastOf(line, i) + 1 = nx
    <3>1. CASE Separate(line, i)
      <4>1. LastOf(line, i) = i + 1
        BY <1>2, <3>1 DEF LastOf, Separate
      <4> QED BY <3>1, <4>1
    <3>2. CASE ~Separate(line, i)
      <4>1. i < N => line[i + 1].dash
        BY <2>3, <3>2 DEF Start
      <4>2. LastOf(line, i) = i
        BY <4>1 DEF LastOf
      <4> QED BY <3>2, <4>2
    <3> QED BY <3>1, <3>2
  <2>5. SameConfig(Parse(F[nx], {"config"}).given, P[nx].given)
    BY <1>5, <2>2, <2>3 DEF Same
  <2>6. CASE line[i].name # "config"
    <3>1. F[i] = F[nx]
      BY <1>1, <2>1, <2>4, <2>6 DEF FilterAt
    <3>2. SameConfig(P[nx].given, P[i].given)
      <4> HIDE DEF nx
      <4> QED BY <2>2, <2>6 DEF SameConfig, Overlay
    <3> HIDE DEF nx, v
    <3> QED BY <2>5, <3>1, <3>2 DEF SameConfig
  <2>7. CASE line[i].name = "config"
    <3> DEFINE s == F[nx]
               L == nx - i
               b == SubSeq(line, i, nx - 1)
               u == b \o s
    <3>1. nx \in 1 .. N + 2 /\ nx - 1 \in Int /\ L \in 1 .. 2 /\ LastOf(line, i) = nx - 1
          /\ nx - 1 <= N
      <4>1. Separate(line, i) => i < N
        BY <1>2
      <4>2. LastOf(line, i) \in i .. N
        BY LastOfRange
      <4> QED BY <2>4, <4>1, <4>2
    <3>2. F[i] = u
      BY <1>1, <2>1, <2>4, <2>7, <3>1 DEF FilterAt
    <3>3. /\ b \in Seq(T) /\ Len(b) = L
          /\ b[1] = line[i]
          /\ L = 2 => b[2] = line[i + 1]
      <4>1. \A j \in i .. nx - 1 : j \in 1 .. N
        BY <3>1
      <4>2. \A j \in i .. nx - 1 : line[j] \in T
        BY <1>3, <4>1
      <4>3. /\ SubSeq(line, i, nx - 1) \in Seq(T)
            /\ Len(SubSeq(line, i, nx - 1)) =
                 IF i <= nx - 1 THEN (nx - 1) - i + 1 ELSE 0
            /\ \A j \in 1 .. (nx - 1) - i + 1 :
                 SubSeq(line, i, nx - 1)[j] = line[i + j - 1]
        <5> HIDE DEF nx
        <5> QED BY <3>1, <4>2, SubSeqProperties
      <4>4. /\ i <= nx - 1 /\ (nx - 1) - i + 1 = L
            /\ i + 1 - 1 = i /\ i + 2 - 1 = i + 1
            /\ 1 \in 1 .. L /\ (L = 2 => 2 \in 1 .. L)
        BY <3>1
      <4> HIDE DEF nx, L
      <4> QED BY <4>3, <4>4
    <3>4. s \in Seq(T) /\ Len(s) \in Nat
      <4> HIDE DEF nx
      <4>1. s \in Seq(T)
        BY <1>1, <3>1
      <4> HIDE DEF s
      <4> QED BY <4>1, LenProperties
    <3> HIDE DEF s, L, b
    <3>5. /\ EndsWith(u, s, L, Len(s))
          /\ u[1] = line[i]
          /\ L = 2 => u[2] = line[i + 1]
      <4>1. /\ Len(u) = L + Len(s)
            /\ \A j \in 1 .. L + Len(s) : u[j] = IF j <= L THEN b[j] ELSE s[j - L]
        BY <3>3, <3>4, ConcatProperties
      <4>2. ASSUME NEW j \in 1 .. Len(s) PROVE u[L + j] = s[j]
        <5> HIDE DEF u
        <5>1. L + j \in 1 .. L + Len(s) /\ ~(L + j <= L) /\ (L + j) - L = j
          BY <3>1, <3>4
        <5> QED BY <4>1, <5>1
      <4>3. 1 \in 1 .. L + Len(s) /\ 1 <= L /\ (L = 2 => 2 \in 1 .. L + Len(s) /\ 2 <= L)
        BY <3>1, <3>4
      <4> HIDE DEF u
      <4> QED BY <3>3, <4>1, <4>2, <4>3 DEF EndsWith
    <3>6. /\ Separate(u, 1) <=> Separate(line, i)
          /\ L = IF Separate(u, 1) THEN 2 ELSE 1
          /\ Value(u, 1) = Value(line, i)
      <4> HIDE DEF u
      <4>1. Separate(u, 1) <=> Separate(line, i)
        BY <3>5 DEF Separate
      <4>2. L = IF Separate(line, i) THEN 2 ELSE 1
        BY DEF L
      <4>3. 1 + 1 = 2
        OBVIOUS
      <4>4. Value(u, 1) = Value(line, i)
        BY <3>5, <4>2, <4>3 DEF Value, Separate
      <4> QED BY <4>1, <4>2, <4>4
    <3> HIDE DEF u, nx
    <3>7. Parse(u, {"config"}).given = Overlay(Parse(s, {"config"}).given, v)
      <4>1. L \in Nat
        BY <3>1
      <4>2. u[1].dash /\ u[1].name = "config"
        BY <2>7, <3>5
      <4>3. Parse(u, {"config"}).given =
              Overlay(Parse(s, {"config"}).given, [n \in {"config"} |-> Value(u, 1)])
        BY <3>4, <3>5, <3>6, <4>1, <4>2, ParseConfigFirst
      <4> QED BY <2>7, <3>6, <4>3
    <3>8. SameConfig(Parse(s, {"config"}).given, P[nx].given)
      BY <2>5 DEF s
    <3> QED
      BY <2>2, <2>7, <3>2, <3>7, <3>8 DEF SameConfig, Overlay
  <2> QED
    BY <2>6, <2>7
<1>6. 0 \in S
  BY <1>4 DEF S
<1>7. ASSUME NEW k \in Nat, k \in S PROVE k + 1 \in S
  <2> SUFFICES ASSUME NEW i \in 1 .. N + 2, i + (k + 1) > N PROVE Same(i)
    BY DEF S
  <2>1. CASE i > N
    BY <1>4, <2>1
  <2>2. CASE i <= N
    <3>1. /\ i \in 1 .. N
          /\ i + 1 \in 1 .. N + 2 /\ (i + 1) + k > N
          /\ i + 2 \in 1 .. N + 2 /\ (i + 2) + k > N
      BY <2>2
    <3> QED
      BY <1>5, <1>7, <3>1 DEF S
  <2> QED
    BY <2>1, <2>2
<1>8. N \in S
  BY <1>6, <1>7, SetInduction
<1>9. Same(1)
  <2>1. 1 \in 1 .. N + 2 /\ 1 + N > N
    OBVIOUS
  <2> QED BY <1>8, <2>1 DEF S
<1>10. Start(1)
  <2>1. CASE N = 0
    BY <2>1 DEF Start
  <2>2. CASE N # 0
    <3>1. 1 \in 1 .. N
      BY <2>2
    <3>2. ~(1 > 1)
      OBVIOUS
    <3>3. line[1].dash
      BY <1>2, <3>1, <3>2
    <3> QED BY <3>3 DEF Start
  <2> QED BY <2>1, <2>2
<1> QED
  BY <1>9, <1>10 DEF F, P, Same, Parse, filterKnown

\* The value that a parser has for a flag is the value of such a flag in the
\* command line.
LEMMA GivenFrom ==
  ASSUME NEW line, NEW names, NEW N \in Nat, Len(line) = N
  PROVE  \A k \in DOMAIN Parse(line, names).given : \E j \in 1 .. N :
           /\ line[j].dash /\ line[j].name = k
           /\ Separate(line, j) => j < N
           /\ Parse(line, names).given[k] = Value(line, j)
<1> DEFINE P == ParseFrom(line, names)
           From(g) == \A k \in DOMAIN g : \E j \in 1 .. N :
                        /\ line[j].dash /\ line[j].name = k
                        /\ Separate(line, j) => j < N
                        /\ g[k] = Value(line, j)
           S == {k \in Nat : \A i \in 1 .. N + 2 : i + k > N => From(P[i].given)}
<1>1. \A i \in 1 .. N + 2 : P[i] = ParseAt(line, names, P, i)
  <2>1. P = [i \in 1 .. N + 2 |-> ParseAt(line, names, P, i)]
    BY ParseRule
  <2> HIDE DEF P
  <2> QED BY <2>1
<1>2. From(<<>>)
  OBVIOUS
<1> HIDE DEF P, From, S
<1>3. ASSUME NEW i \in 1 .. N + 2, i > N PROVE From(P[i].given)
  <2>1. i > Len(line) /\ P[i] = ParseAt(line, names, P, i)
    BY <1>1, <1>3
  <2> QED BY <1>2, <2>1 DEF ParseAt
<1>4. ASSUME NEW i \in 1 .. N, From(P[i + 1].given), From(P[i + 2].given)
      PROVE  From(P[i].given)
  <2> DEFINE nx == IF Separate(line, i) THEN i + 2 ELSE i + 1
             v  == [n \in {line[i].name} |-> Value(line, i)]
             Last == Separate(line, i) /\ i = Len(line)
             full == [ok |-> P[nx].ok, given |-> Overlay(P[nx].given, v)]
  <2>1. ~(i > Len(line)) /\ P[i] = ParseAt(line, names, P, i)
    BY <1>1
  <2>2. \/ P[i].given = <<>>
        \/ P[i] = full /\ line[i].dash /\ ~Last
    <3> DEFINE none(b) == [ok |-> b, given |-> <<>>]
               Stop == ~line[i].dash \/ line[i].name = ""
               Err == \/ line[i].name \notin names \/ Last
                      \/ Refuses(line[i].name, Value(line, i))
    <3>1. P[i] = IF Stop THEN none(TRUE) ELSE IF Err THEN none(FALSE) ELSE full
      BY <2>1, Zenon DEF ParseAt
    <3>2. (Stop \/ line[i].dash) /\ (Err \/ ~Last)
      OBVIOUS
    <3> HIDE DEF Stop, Err, full, Last
    <3> QED BY <3>1, <3>2
  <2>3. ASSUME P[i] = full, line[i].dash, ~Last PROVE From(P[i].given)
    <3>1. Separate(line, i) => i < N
      BY <2>3
    <3>2. From(P[nx].given)
      BY <1>4
    <3> HIDE DEF nx
    <3>3. P[i].given = Overlay(P[nx].given, v)
      BY <2>3
    <3> QED
      BY <2>3, <3>1, <3>2, <3>3 DEF From, Overlay
  <2> QED
    BY <1>2, <2>2, <2>3
<1>5. 0 \in S
  BY <1>3 DEF S
<1>6. ASSUME NEW k \in Nat, k \in S PROVE k + 1 \in S
  <2> SUFFICES ASSUME NEW i \in 1 .. N + 2, i + (k + 1) > N PROVE From(P[i].given)
    BY DEF S
  <2>1. CASE i > N
    BY <1>3, <2>1
  <2>2. CASE i <= N
    <3>1. /\ i \in 1 .. N
          /\ i + 1 \in 1 .. N + 2 /\ (i + 1) + k > N
          /\ i + 2 \in 1 .. N + 2 /\ (i + 2) + k > N
      BY <2>2
    <3> QED
      BY <1>4, <1>6, <3>1 DEF S
  <2> QED
    BY <2>1, <2>2
<1>7. N \in S
  BY <1>5, <1>6, SetInduction
<1>8. 1 \in 1 .. N + 2 /\ 1 + N > N
  OBVIOUS
<1>9. From(P[1].given)
  BY <1>7, <1>8 DEF S
<1> QED
  BY <1>9 DEF From, P, Parse

-----------------------------------------------------------------------------
\* Pools.

\* The first address of a well-formed pool is a multiple of four, of which it
\* has at least four.
LEMMA PoolFours ==
  ASSUME NEW c, c.ip \in Int, WellFormed(c)
  PROVE  /\ Size(c) \in Nat /\ Size(c) >= 4
         /\ \E q \in Int : Masked(c) = 4 * q
<1> DEFINE d == 32 - c.bits
<1>1. c.bits \in 16 .. 30
  BY DEF WellFormed
<1>2. d \in 2 .. 16
  BY <1>1
<1>3. Size(c) = 2 ^ d
  BY DEF Size
<1> HIDE DEF d
<1>4. \E m \in Nat \ {0} : Size(c) = 4 * m
  <2>1. d = 2 \/ d = 3 \/ d = 4 \/ d = 5 \/ d = 6 \/ d = 7 \/ d = 8 \/ d = 9 \/ d = 10
        \/ d = 11 \/ d = 12 \/ d = 13 \/ d = 14 \/ d = 15 \/ d = 16
    BY <1>2
  <2>2. /\ d = 2 => Size(c) = 2 ^ 2
        /\ d = 3 => Size(c) = 2 ^ 3
        /\ d = 4 => Size(c) = 2 ^ 4
        /\ d = 5 => Size(c) = 2 ^ 5
        /\ d = 6 => Size(c) = 2 ^ 6
        /\ d = 7 => Size(c) = 2 ^ 7
        /\ d = 8 => Size(c) = 2 ^ 8
        /\ d = 9 => Size(c) = 2 ^ 9
        /\ d = 10 => Size(c) = 2 ^ 10
        /\ d = 11 => Size(c) = 2 ^ 11
        /\ d = 12 => Size(c) = 2 ^ 12
        /\ d = 13 => Size(c) = 2 ^ 13
        /\ d = 14 => Size(c) = 2 ^ 14
        /\ d = 15 => Size(c) = 2 ^ 15
        /\ d = 16 => Size(c) = 2 ^ 16
    BY <1>3, Zenon
  <2>3. Size(c) \in {4, 8, 16, 32, 64, 128, 256, 512, 1024, 2048, 4096, 8192, 16384,
                     32768, 65536}
    BY <2>1, <2>2
  <2>4. Size(c) \div 4 \in Nat \ {0} /\ Size(c) = 4 * (Size(c) \div 4)
    BY <2>3
  <2> QED
    BY <2>4
<1>5. PICK m \in Nat \ {0} : Size(c) = 4 * m
  BY <1>4
<1>6. Size(c) \in Nat /\ Size(c) >= 4
  BY <1>5
<1>7. c.ip \div Size(c) \in Int
  BY <1>6
<1>8. Masked(c) = (c.ip \div Size(c)) * (4 * m)
  BY <1>5 DEF Masked
<1>9. \A x \in Int : x * (4 * m) = 4 * (x * m) /\ x * m \in Int
  OBVIOUS
<1> QED
  BY <1>6, <1>7, <1>8, <1>9

\* A well-formed pool has at least two usable addresses, whichever way they
\* are counted, and every one of them is loopback.
LEMMA PoolUsable ==
  ASSUME NEW c, c.ip \in Int, WellFormed(c)
  PROVE  /\ validateVIPPool(c) /\ ParsePool(c)
         /\ \A a \in enumerateUsable(c) : IsLoopback(a)
<1> DEFINE m == Masked(c)
           z == Size(c)
           E == enumerateUsable(c)
<1>1. z \in Nat /\ z >= 4
  BY PoolFours
<1>2. PICK q \in Int : m = 4 * q
  BY PoolFours
<1>3. m \in Int /\ lastAddr(c) = m + (z - 1)
  BY <1>2 DEF lastAddr
<1>4. IsLoopback(m) /\ IsLoopback(m + (z - 1))
  BY <1>3 DEF WellFormed
<1>5. E = {a \in m + 1 .. (m + (z - 1)) - 1 : a % 256 \notin {0, 255}}
  BY <1>3 DEF enumerateUsable, lastOctet
<1> HIDE DEF m, z, E
<1>6. \A a \in E : IsLoopback(a)
  <2> DEFINE lo == IPv4(127, 0, 0, 0)
             hi == IPv4(127, 255, 255, 255)
  <2>1. lo \in Int /\ hi \in Int
    BY DEF IPv4
  <2>2. m \in lo .. hi /\ m + (z - 1) \in lo .. hi
    BY <1>4 DEF IsLoopback
  <2> HIDE DEF lo, hi
  <2>3. \A a \in m + 1 .. (m + (z - 1)) - 1 : a \in lo .. hi
    BY <1>1, <1>3, <2>1, <2>2
  <2> QED
    BY <1>5, <2>3 DEF IsLoopback, lo, hi
<1>7. (m + 1) % 256 \notin {0, 255} /\ (m + 2) % 256 \notin {0, 255}
  BY <1>2
<1>8. m + 1 .. m + 2 \subseteq E
  BY <1>1, <1>3, <1>5, <1>7
<1>9. Cardinality(E) >= 2
  <2>1. IsFiniteSet(m + 1 .. (m + (z - 1)) - 1)
    BY <1>1, <1>3, FS_Interval
  <2>2. IsFiniteSet(E)
    BY <1>5, <2>1, FS_Subset
  <2>3. Cardinality(m + 1 .. m + 2) = 2
    <3>1. m + 1 \in Int /\ m + 2 \in Int /\ ~(m + 1 > m + 2) /\ (m + 2) - (m + 1) + 1 = 2
      BY <1>3
    <3> QED BY <3>1, FS_Interval
  <2>4. Cardinality(m + 1 .. m + 2) <= Cardinality(E)
    BY <1>8, <2>2, FS_Subset
  <2> QED
    BY <2>2, <2>3, <2>4, FS_CardinalityType
<1>10. countUsable(c) >= 2
  <2> DEFINE I == {i \in 1 .. z - 1 : (m + i) % 256 \notin {0, 255}}
  <2>1. countUsable(c) = Cardinality(I)
    BY DEF countUsable, lastOctet, m, z
  <2>2. PICK one \in Int : one = 1
    OBVIOUS
  <2>3. one .. one + 1 \subseteq I
    BY <1>1, <1>3, <1>7, <2>2
  <2>4. IsFiniteSet(I)
    <3>1. z - 1 \in Int
      BY <1>1
    <3>2. IsFiniteSet(1 .. z - 1)
      BY <3>1, FS_Interval
    <3> QED BY <3>2, FS_Subset
  <2> HIDE DEF I
  <2>5. Cardinality(one .. one + 1) = 2
    <3>1. one + 1 \in Int /\ ~(one > one + 1) /\ (one + 1) - one + 1 = 2
      OBVIOUS
    <3> QED BY <3>1, FS_Interval
  <2>6. Cardinality(one .. one + 1) <= Cardinality(I)
    BY <2>3, <2>4, FS_Subset
  <2> QED
    BY <2>1, <2>4, <2>5, <2>6, FS_CardinalityType
<1> QED
  BY <1>6, <1>9, <1>10 DEF ParsePool, validateVIPPool, E

-----------------------------------------------------------------------------
\* Load.

\* Each setting of the merged sources is that of the strongest that has it.
LEMMA MergedAt ==
  ASSUME NEW f, NEW e, NEW given, NEW k \in Keys
  PROVE  /\ k \in DOMAIN Merged(f, e, given)
         /\ Merged(f, e, given)[k] =
              IF k \in DOMAIN given
              THEN IF k = "ttl" THEN uint32(Text(k, given[k])) ELSE Text(k, given[k])
              ELSE IF k \in Understood(e) THEN IF k = "allow" THEN envBool(e[k]) ELSE e[k]
              ELSE IF k \in DOMAIN f.set THEN f.set[k] ELSE Default[k]
<1> DEFINE a == applyFile(Default, f)
           b == applyEnv(a, e)
<1>1. k \in DOMAIN a /\ a[k] = IF k \in DOMAIN f.set THEN f.set[k] ELSE Default[k]
  BY DefaultAssumption DEF applyFile, Overlay
<1> HIDE DEF a
<1>2. /\ k \in DOMAIN b
      /\ b[k] = IF k \in Understood(e) THEN IF k = "allow" THEN envBool(e[k]) ELSE e[k]
                ELSE a[k]
  BY <1>1 DEF applyEnv, Overlay
<1> HIDE DEF b
<1>3. /\ k \in DOMAIN applyFlags(b, given)
      /\ applyFlags(b, given)[k] =
           IF k \in DOMAIN given
           THEN IF k = "ttl" THEN uint32(Text(k, given[k])) ELSE Text(k, given[k])
           ELSE b[k]
  BY <1>2 DEF applyFlags, Overlay
<1>4. Merged(f, e, given) = applyFlags(b, given)
  BY DEF Merged, b, a
<1> QED
  BY <1>1, <1>2, <1>3, <1>4

\* What Load returns when it succeeds.
LEMMA LoadOk ==
  ASSUME NEW line, NEW e, Load(line, e).ok
  PROVE  LET c == Merged(FileAt(configPath(line, e)), e, Parse(line, FlagNames).given)
         IN  /\ Parse(line, FlagNames).ok
             /\ Validate(Load(line, e).cfg)
             /\ \A k \in Keys \ {"dir"} : Load(line, e).cfg[k] = c[k]
             /\ Load(line, e).cfg.dir = expandHome(c.dir)
<1> DEFINE f == FileAt(configPath(line, e))
           flags == Parse(line, FlagNames)
           c == Merged(f, e, flags.given)
           d == [c EXCEPT !.dir = expandHome(@)]
<1>1. Load(line, e) = IF FileFails(f) \/ ~flags.ok THEN [ok |-> FALSE, cfg |-> Default]
                      ELSE IF Validate(d) THEN [ok |-> TRUE, cfg |-> d]
                      ELSE [ok |-> FALSE, cfg |-> Default]
  BY Zenon DEF Load
<1>2. \A k \in Keys : k \in DOMAIN c
  BY MergedAt
<1>3. "dir" \in Keys
  BY DEF Keys
<1> HIDE DEF c, f, flags
<1>4. /\ \A k \in Keys \ {"dir"} : d[k] = c[k]
      /\ d.dir = expandHome(c.dir)
  BY <1>2, <1>3
<1> HIDE DEF d
<1>5. flags.ok /\ Validate(d) /\ Load(line, e).cfg = d
  BY <1>1
<1> QED
  BY <1>4, <1>5 DEF c, f, flags

\* DiscoveryAgrees, of every plain command line.
LEMMA DiscoveredPath ==
  ASSUME NEW line, NEW e, IsCommandLine(line), Plain(line), Parse(line, FlagNames).ok
  PROVE  LET path == PathOf(Parse(line, FlagNames).given)
         IN  configPath(line, e) = IF path # NoPath THEN path
                                   ELSE IF Given(e, "config") THEN e["config"]
                                   ELSE NoPath
<1>1. Len(line) \in Nat
  BY DEF IsCommandLine
<1>2. SameConfig(Parse(filterKnown(line), {"config"}).given, Parse(line, FlagNames).given)
  BY <1>1, FilterAgrees
<1>3. PathOf(Parse(filterKnown(line), {"config"}).given)
        = PathOf(Parse(line, FlagNames).given)
  BY <1>2 DEF SameConfig, PathOf, Given
<1> QED
  BY <1>3, Zenon DEF configPath

\* The command line of a client.
ClientLine(path) == IF path = NoPath THEN <<>> ELSE <<Flag("config"), Word(path)>>

\* A client reads the file that --config names, or else the variable's, and
\* has no other flag.
LEMMA ClientFile ==
  ASSUME NEW path, NEW e
  PROVE  /\ configPath(ClientLine(path), e) =
              IF path # NoPath THEN path
              ELSE IF Given(e, "config") THEN e["config"] ELSE NoPath
         /\ "dir" \notin DOMAIN Parse(ClientLine(path), FlagNames).given
<1>1. CASE path = NoPath
  <2>1. ClientLine(path) = <<>>
    BY <1>1 DEF ClientLine
  <2>2. Parse(<<>>, FlagNames) = ParseAt(<<>>, FlagNames, ParseFrom(<<>>, FlagNames), 1)
    BY ParseRule DEF Parse
  <2>3. Parse(<<>>, FlagNames) = [ok |-> TRUE, given |-> <<>>]
    BY <2>2 DEF ParseAt
  <2>4. IsCommandLine(<<>>) /\ Plain(<<>>)
    BY DEF IsCommandLine, Plain
  <2>5. PathOf(<<>>) = NoPath
    BY DEF PathOf, Given
  <2>6. configPath(<<>>, e) = IF Given(e, "config") THEN e["config"] ELSE NoPath
    BY <2>3, <2>4, <2>5, DiscoveredPath
  <2> QED
    BY <1>1, <2>1, <2>3, <2>6
<1>2. CASE path # NoPath
  <2> DEFINE a == <<Flag("config"), Word(path)>>
             P == ParseFrom(a, FlagNames)
             g == Overlay(<<>>, [n \in {"config"} |-> Word(path)])
  <2>1. ClientLine(path) = a
    BY <1>2 DEF ClientLine
  <2>2. /\ Len(a) = 2 /\ a = [i \in 1 .. 2 |-> a[i]]
        /\ a[1] = Flag("config") /\ a[2] = Word(path)
    OBVIOUS
  <2>3. /\ Flag("config").dash = TRUE /\ Flag("config").name = "config"
        /\ Flag("config").eq = FALSE
        /\ Word(path).dash = FALSE /\ Word(path).eq = FALSE /\ Word(path).val = path
    BY DEF Flag, Word
  <2> HIDE DEF a
  <2>4. Separate(a, 1) /\ Value(a, 1) = Word(path)
    BY <2>2, <2>3 DEF Separate, Value, IsBool
  <2>5. P = [i \in 1 .. 4 |-> ParseAt(a, FlagNames, P, i)]
    <3>1. Len(a) \in Nat /\ Len(a) + 2 = 4
      BY <2>2
    <3> QED BY <3>1, ParseRule
  <2> HIDE DEF P, g
  <2>6. P[1] = ParseAt(a, FlagNames, P, 1) /\ P[3] = ParseAt(a, FlagNames, P, 3)
    BY <2>5
  <2>7. P[3] = [ok |-> TRUE, given |-> <<>>]
    <3>1. 3 > Len(a)
      BY <2>2
    <3> QED BY <2>6, <3>1 DEF ParseAt
  <2>8. P[1] = [ok |-> TRUE, given |-> g]
    <3>1. /\ "config" \in FlagNames /\ "config" # ""
          /\ ~Refuses("config", Word(path))
      BY DEF FlagNames, Refuses, IsBool, Numbers
    <3>2. ~(1 > Len(a)) /\ 1 # Len(a) /\ 1 + 2 = 3
      BY <2>2
    <3>3. a[1].dash /\ a[1].name = "config"
      BY <2>2, <2>3
    <3>4. P[1] = [ok |-> P[3].ok,
                  given |-> Overlay(P[3].given, [n \in {"config"} |-> Word(path)])]
      BY <2>4, <2>6, <3>1, <3>2, <3>3 DEF ParseAt
    <3> QED
      BY <2>7, <3>4 DEF g
  <2>9. DOMAIN g = {"config"} /\ g["config"] = Word(path)
    BY DEF g, Overlay
  <2>10. PathOf(g) = path
    BY <2>3, <2>9 DEF PathOf, Given
  <2>11. IsCommandLine(a)
    <3>1. \A i \in 1 .. 2 : a[i].dash \in BOOLEAN /\ a[i].eq \in BOOLEAN
      <4>1. \A i \in 1 .. 2 : i = 1 \/ i = 2
        OBVIOUS
      <4> QED BY <2>2, <2>3, <4>1
    <3> QED BY <2>2, <3>1 DEF IsCommandLine
  <2>12. Plain(a)
    <3>1. \A i \in 1 .. Len(a) : i = 1 \/ i = 2
      BY <2>2
    <3>2. 2 > 1 /\ 2 - 1 = 1 /\ 1 + 1 = 2 /\ 1 < Len(a)
      BY <2>2
    <3>3. a[1].dash /\ a[1].name # "" /\ ~a[2].dash
      BY <2>2, <2>3
    <3> QED BY <2>4, <3>1, <3>2, <3>3 DEF Plain
  <2>13. Parse(a, FlagNames) = [ok |-> TRUE, given |-> g]
    BY <2>8 DEF Parse, P
  <2>14. configPath(a, e) = path
    BY <1>2, <2>10, <2>11, <2>12, <2>13, DiscoveredPath
  <2> QED
    BY <1>2, <2>1, <2>9, <2>13, <2>14
<1> QED
  BY <1>1, <1>2

\* The pool of a configuration that loads is an address range that the user
\* wrote, or the default.
LEMMA LoadedPool ==
  ASSUME files \in Disks, NEW e \in Envs, NEW line \in ArgLists, Load(line, e).ok
  PROVE  LET pool == Load(line, e).cfg.pool IN WellFormed(pool) /\ pool.ip \in Int
<1> DEFINE given == Parse(line, FlagNames).given
           f == FileAt(configPath(line, e))
           pool == Load(line, e).cfg.pool
<1>1. "pool" \in Keys /\ "pool" # "dir" /\ "pool" # "ttl" /\ "pool" # "allow"
  BY DEF Keys
<1>2. pool = Merged(f, e, given)["pool"]
  BY <1>1, LoadOk
<1>3. WellFormed(pool)
  BY LoadOk DEF Validate, validateVIPPool
<1>4. pool = IF "pool" \in DOMAIN given THEN Text("pool", given["pool"])
             ELSE IF "pool" \in Understood(e) THEN e["pool"]
             ELSE IF "pool" \in DOMAIN f.set THEN f.set["pool"] ELSE Default["pool"]
  BY <1>1, <1>2, MergedAt
<1>5. "pool" \in DOMAIN f.set => f.set["pool"] \in Cidrs
  BY PoolTextAssumption DEF FileAt, NoFile, Given
<1>6. "pool" \in Understood(e) => e["pool"] \in Cidrs
  BY PoolTextAssumption DEF Understood, Given
<1>7. "pool" \in DOMAIN given => Text("pool", given["pool"]) \in Cidrs \cup {NoCidr}
  <2> SUFFICES ASSUME "pool" \in DOMAIN given
               PROVE  Text("pool", given["pool"]) \in Cidrs \cup {NoCidr}
    OBVIOUS
  <2>1. Len(line) \in Nat
    BY ArgListsAssumption DEF IsCommandLine
  <2>2. PICK j \in 1 .. Len(line) :
          /\ line[j].dash /\ line[j].name = "pool"
          /\ Separate(line, j) => j < Len(line)
          /\ given["pool"] = Value(line, j)
    BY <2>1, GivenFrom
  <2> HIDE DEF given
  <2>3. ~Value(line, j).dash => Value(line, j).val \in Cidrs
    BY <2>2, PoolTextAssumption
  <2>4. Text("pool", given["pool"]) =
          IF ~Value(line, j).dash THEN Value(line, j).val ELSE NoCidr
    BY <2>2 DEF Text, IsBool, Numbers
  <2> QED
    BY <2>3, <2>4
<1>8. Default["pool"] \in Cidrs
  BY PoolTextAssumption
<1> HIDE DEF given, f, pool
<1>9. pool \in Cidrs \cup {NoCidr}
  BY <1>4, <1>5, <1>6, <1>7, <1>8
<1>10. pool # NoCidr
  BY <1>3 DEF WellFormed, NoCidr
<1>11. pool.ip \in Int
  BY <1>9, <1>10, CidrsAssumption
<1> QED
  BY <1>3, <1>11 DEF pool

-----------------------------------------------------------------------------
\* The invariant: the input does not change, a daemon that got past Load has
\* what Load makes of it, and one that failed did so in Load.

ConfigInv ==
  /\ files \in Disks /\ env \in Envs /\ args \in ArgLists
  /\ stage \in {"start", "loaded", "serving", "failed"}
  /\ stage \in {"loaded", "serving"} =>
       Load(args, env).ok /\ cfg = Load(args, env).cfg
  /\ stage = "failed" => ~Load(args, env).ok
  /\ clientDir = NoDir \/ clientDir = stateDir(Parse(args, FlagNames).given, env)

\* What Load and a client make of the input is a matter of the input alone.
LEMMA InputStable ==
  ASSUME UNCHANGED <<files, env, args>>
  PROVE  /\ Load(args, env)' = Load(args, env)
         /\ stateDir(Parse(args, FlagNames).given, env)'
              = stateDir(Parse(args, FlagNames).given, env)
BY DEF Load, stateDir, ClientLoad, FileAt

\* Every reachable state satisfies the invariant: Load's result is kept, and
\* making the pool cannot fail.
THEOREM ConfigInvariant == ConfigSpec => []ConfigInv
<1>1. ConfigInit => ConfigInv
  BY DEF ConfigInit, ConfigInv
<1>2. ConfigInv /\ [ConfigNext]_configVars => ConfigInv'
  <2> SUFFICES ASSUME ConfigInv, [ConfigNext]_configVars PROVE ConfigInv'
    OBVIOUS
  <2>1. UNCHANGED <<files, env, args>>
    BY DEF ConfigNext, configVars, ServeLoad, ServePool, ClientDir
  <2>2. /\ Load(args, env)' = Load(args, env)
        /\ stateDir(Parse(args, FlagNames).given, env)'
             = stateDir(Parse(args, FlagNames).given, env)
    BY <2>1, InputStable
  <2>3. CASE ServeLoad
    BY <2>1, <2>2, <2>3 DEF ServeLoad, ConfigInv
  <2>4. CASE ServePool
    <3>1. ParsePool(cfg.pool)
      BY <2>4, LoadedPool, PoolUsable DEF ServePool, ConfigInv
    <3> QED
      BY <2>1, <2>2, <2>4, <3>1 DEF ServePool, ConfigInv
  <2>5. CASE ClientDir
    BY <2>1, <2>2, <2>5 DEF ClientDir, ConfigInv
  <2>6. CASE UNCHANGED configVars
    BY <2>1, <2>2, <2>6 DEF configVars, ConfigInv
  <2> QED
    BY <2>3, <2>4, <2>5, <2>6 DEF ConfigNext
<1> QED
  BY <1>1, <1>2, PTL DEF ConfigSpec

\* On every plain command line that the flags accept, Load's first look for
\* --config finds the file that the flags name, whatever the command line.
THEOREM ConfigDiscoveryAgrees == ConfigSpec => []DiscoveryAgrees
<1>1. ConfigInv => DiscoveryAgrees
  BY ArgListsAssumption, DiscoveredPath DEF ConfigInv, DiscoveryAgrees
<1> QED
  BY <1>1, ConfigInvariant, PTL

\* A daemon past Load has for every setting the value of the strongest source
\* that has one.
THEOREM ConfigStrongestWins == ConfigSpec => []StrongestWins
<1>1. ConfigInv => StrongestWins
  <2> SUFFICES ASSUME ConfigInv, stage \in {"loaded", "serving"}
               PROVE  /\ \A k \in Keys \ {"dir"} : cfg[k] = Strongest(k)
                      /\ cfg.dir = expandHome(Strongest("dir"))
    BY DEF StrongestWins
  <2> DEFINE c == Merged(FileAt(configPath(args, env)), env, Parse(args, FlagNames).given)
  <2>1. /\ \A k \in Keys \ {"dir"} : cfg[k] = c[k]
        /\ cfg.dir = expandHome(c.dir)
    BY LoadOk DEF ConfigInv
  <2>2. ASSUME NEW k \in Keys PROVE c[k] = Strongest(k)
    BY MergedAt DEF Strongest, Given, uint32, envBool
  <2>3. "dir" \in Keys
    BY DEF Keys
  <2> HIDE DEF c
  <2> QED
    BY <2>1, <2>2, <2>3
<1> QED
  BY <1>1, ConfigInvariant, PTL

\* A pool that the configuration accepts, of any size from /30 to /16, the
\* daemon can make, and its addresses are loopback.
THEOREM ConfigPoolAgrees == ConfigSpec => []PoolAgrees
<1>1. ConfigInv => PoolAgrees
  <2> SUFFICES ASSUME ConfigInv, stage = "serving"
               PROVE  \A a \in enumerateUsable(cfg.pool) : IsLoopback(a)
    BY DEF PoolAgrees, ConfigInv
  <2> QED
    BY LoadedPool, PoolUsable DEF ConfigInv
<1> QED
  BY <1>1, ConfigInvariant, PTL

\* A client that is given the daemon's --config and --state-dir uses the
\* daemon's directory, save for the two cases that ClientFindsDaemon names.
THEOREM ConfigClientFindsDaemon == ConfigSpec => []ClientFindsDaemon
<1>1. ConfigInv => ClientFindsDaemon
  <2> DEFINE given == Parse(args, FlagNames).given
             path == PathOf(given)
             loaded == ClientLoad(path, env)
             file == configPath(args, env)
             EnvFile == IF Given(env, "config") THEN env["config"] ELSE NoPath
             dirOf(g) == IF "dir" \in DOMAIN g THEN Text("dir", g["dir"])
                         ELSE IF "dir" \in DOMAIN env THEN env["dir"]
                         ELSE IF "dir" \in DOMAIN FileAt(file).set
                         THEN FileAt(file).set["dir"] ELSE Default["dir"]
  <2> SUFFICES ASSUME ConfigInv, stage = "serving", clientDir # NoDir, Plain(args)
               PROVE  clientDir = cfg.dir \/ clientDir.kind = "tilde" \/ ~loaded.ok
    BY DEF ClientFindsDaemon
  <2>1. /\ Load(args, env).ok /\ cfg = Load(args, env).cfg
        /\ clientDir = stateDir(given, env)
    BY DEF ConfigInv
  <2>2. /\ "dir" \in Keys /\ "dir" # "ttl" /\ "dir" # "allow"
        /\ "dir" \in Understood(env) <=> "dir" \in DOMAIN env
    BY DEF Keys, Numbers, Understood
  <2>3. cfg.dir = expandHome(dirOf(given))
    BY <2>1, <2>2, LoadOk, MergedAt
  <2>4. file = IF path # NoPath THEN path ELSE EnvFile
    BY <2>1, LoadOk, DiscoveredPath, ArgListsAssumption DEF ConfigInv
  <2>5. loaded.ok => loaded.cfg.dir = expandHome(dirOf(<<>>))
    <3> DEFINE line == ClientLine(path)
    <3>1. loaded = Load(line, env)
      BY DEF ClientLoad, ClientLine
    <3>2. configPath(line, env) = file /\ "dir" \notin DOMAIN Parse(line, FlagNames).given
      BY <2>4, ClientFile
    <3> HIDE DEF line
    <3> QED
      BY <2>2, <3>1, <3>2, LoadOk, MergedAt
  <2>6. \A d : expandHome(d) = d \/ d.kind = "tilde"
    BY DEF expandHome
  <2>7. /\ "dir" \in DOMAIN given => clientDir = Text("dir", given["dir"])
        /\ "dir" \notin DOMAIN given /\ (path # NoPath \/ Given(env, "config")) /\ loaded.ok
             => clientDir = loaded.cfg.dir
        /\ "dir" \notin DOMAIN given /\ path = NoPath /\ ~Given(env, "config")
             => clientDir = EnvDir(env)
    BY <2>1 DEF stateDir, Given
  <2>8. CASE "dir" \in DOMAIN given
    BY <2>3, <2>6, <2>7, <2>8
  <2>9. CASE /\ "dir" \notin DOMAIN given /\ loaded.ok
             /\ path # NoPath \/ Given(env, "config")
    <3>1. dirOf(given) = dirOf(<<>>)
      BY <2>9
    <3> QED
      BY <2>3, <2>5, <2>7, <2>9, <3>1
  <2>10. CASE "dir" \notin DOMAIN given /\ path = NoPath /\ ~Given(env, "config")
    <3>1. FileAt(file).set = <<>>
      BY <2>4, <2>10 DEF FileAt, NoFile
    <3>2. dirOf(given) = EnvDir(env)
      BY <2>10, <3>1 DEF EnvDir, Given
    <3> QED
      BY <2>3, <2>6, <2>7, <2>10, <3>2
  <2> QED
    BY <2>8, <2>9, <2>10
<1> QED
  BY <1>1, ConfigInvariant, PTL
=============================================================================
