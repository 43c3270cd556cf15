-------------------------- MODULE JSONStoreProofs --------------------------
(***************************************************************************)
(* The store implements the abstract file, for every set of snapshots.     *)
(*                                                                         *)
(* The argument: a file reaches the name state.json only through Rename,   *)
(* and by then the temporary file holds the whole snapshot (TmpReady) and  *)
(* has been synced, so that no file behind that name, present or earlier,  *)
(* can lose bytes (FilesSafe).                                             *)
(***************************************************************************)
EXTENDS JSONStore, TLAPS

\* The bytes of state.json, and of its predecessors, are on the disk.
FilesSafe == file.safe /\ \A f \in old : f.safe

\* What the temporary file holds at each step of Save, and state.json after
\* the rename.
TmpReady ==
  /\ pc = "write"  => tmp = Cached(Empty)
  /\ pc = "sync"   => tmp = Cached(Json(arg))
  /\ pc = "rename" => tmp = OnDisk(Json(arg))
  /\ pc = "dirsync" => file = OnDisk(Json(arg))

\* Save has accepted the snapshot that it writes.
ArgValid == pc # "idle" => validateSnapshot(arg)

\* The daemon runs on a file it can load, and only a running daemon saves.
Serving ==
  /\ up => LoadSucceeds(file.data)
  /\ pc # "idle" => up

\* The earlier files were good, unless the operator had one discarded; and
\* there are none while the daemon refuses the file.
OldLoadable ==
  /\ ~ResetOnCorrupt => \A f \in old : LoadSucceeds(f.data)
  /\ ~LoadSucceeds(file.data) => old = {}

StoreInv ==
  TypeOK /\ FilesSafe /\ TmpReady /\ ArgValid /\ Serving /\ OldLoadable

\* The contents that actions write are contents.
LEMMA ContentFacts ==
  /\ Missing \in Content /\ Corrupt \in Content /\ Empty \in Content
  /\ \A s \in Snapshots : Json(s) \in Content
  /\ \A d \in Content : OnDisk(d) \in File /\ Cached(d) \in File
BY DEF Missing, Corrupt, Empty, Json, Content, OnDisk, Cached, File

\* Cutting times to whole seconds keeps keys and VIPs apart.
LEMMA StoredStaysValid ==
  ASSUME NEW s \in Snapshots, validateSnapshot(s)
  PROVE  validateSnapshot(toFileSnapshot(s))
<1>1. \A l \in s : Stored(l).key = l.key /\ Stored(l).vip = l.vip
  BY SnapshotsAssumption DEF Stored, Lease
<1> QED
  BY <1>1 DEF validateSnapshot, toFileSnapshot

\* Rename puts a file in place that Load accepts.
LEMMA RenameLoadable ==
  TypeOK /\ TmpReady /\ ArgValid /\ Rename => LoadSucceeds(file'.data)
<1> SUFFICES ASSUME TypeOK, TmpReady, ArgValid, Rename
             PROVE  LoadSucceeds(file'.data)
  OBVIOUS
<1>1. file'.data = Json(arg)
  BY DEF Rename, TmpReady, OnDisk
<1>2. validateSnapshot(toFileSnapshot(arg))
  BY StoredStaysValid DEF Rename, ArgValid, TypeOK
<1> QED
  BY <1>1, <1>2 DEF LoadSucceeds, validateAndConvert, Json

\* A loss of power leaves the file or one of its predecessors.
LEMMA PowerLossFile ==
  TypeOK /\ FilesSafe /\ PowerLoss => file' = file \/ file' \in old
<1> SUFFICES ASSUME TypeOK, FilesSafe, PowerLoss
             PROVE  file' = file \/ file' \in old
  OBVIOUS
<1>1. PICK f \in {file} \cup old : \E d \in Survives(f) : file' = OnDisk(d)
  BY DEF PowerLoss
<1>2. f \in File /\ f.safe
  BY DEF TypeOK, FilesSafe
<1>3. file' = OnDisk(f.data)
  BY <1>1, <1>2 DEF Survives
<1>4. OnDisk(f.data) = f
  BY <1>2 DEF OnDisk, File
<1> QED
  BY <1>3, <1>4

\* Init establishes the invariant.
LEMMA StoreInvInit == Init => StoreInv
<1> SUFFICES ASSUME Init PROVE StoreInv
  OBVIOUS
<1>1. TypeOK
  BY ContentFacts, InitFilesAssumption DEF Init, TypeOK
<1>2. FilesSafe
  BY DEF Init, FilesSafe, OnDisk
<1>3. TmpReady
  BY DEF Init, TmpReady
<1>4. ArgValid /\ Serving /\ OldLoadable
  BY DEF Init, ArgValid, Serving, OldLoadable
<1> QED
  BY <1>1, <1>2, <1>3, <1>4 DEF StoreInv

\* Every step preserves it.
LEMMA StoreInvNext == StoreInv /\ [Next]_vars => StoreInv'
<1> SUFFICES ASSUME StoreInv, [Next]_vars PROVE StoreInv'
  OBVIOUS
<1> USE DEF StoreInv
<1>1. TypeOK'
  <2>1. CASE Start \/ EnsureDir \/ OpenFails \/ Kill \/ SyncDirFails
    BY <2>1 DEF TypeOK, Start, EnsureDir, OpenFails, Kill, SyncDirFails,
       Returned, callVars
  <2>2. CASE StartReset
    BY <2>2, ContentFacts DEF TypeOK, StartReset
  <2>3. CASE \E s \in Snapshots : Save(s)
    BY <2>3 DEF TypeOK, Save
  <2>4. CASE OpenTmp \/ Write
    <3>1. tmp' \in File
      BY <2>4, ContentFacts DEF OpenTmp, Write, TypeOK
    <3> QED
      BY <2>4, <3>1 DEF OpenTmp, Write, TypeOK, callVars
  <2>5. CASE Sync
    <3>1. tmp.data \in Content
      BY DEF TypeOK, File
    <3> QED
      BY <2>5, <3>1, ContentFacts DEF Sync, TypeOK, callVars
  <2>6. CASE WriteFails
    BY <2>6, ContentFacts DEF WriteFails, TypeOK, Returned, callVars
  <2>7. CASE Rename
    BY <2>7, ContentFacts DEF Rename, TypeOK, callVars
  <2>8. CASE SyncDir
    BY <2>8 DEF SyncDir, TypeOK, Returned, callVars
  <2>9. CASE PowerLoss
    <3>1. PICK f \in {file} \cup old : \E d \in Survives(f) : file' = OnDisk(d)
      BY <2>9 DEF PowerLoss
    <3>2. Survives(f) \subseteq Content
      BY ContentFacts DEF Survives, TypeOK, File
    <3> QED
      BY <2>9, <3>1, <3>2, ContentFacts DEF PowerLoss, TypeOK
  <2>10. CASE UNCHANGED vars
    BY <2>10 DEF TypeOK, vars
  <2> QED
    BY <2>1, <2>2, <2>3, <2>4, <2>5, <2>6, <2>7, <2>8, <2>9, <2>10
       DEF Next, SaveStep
<1>2. FilesSafe'
  <2>1. CASE Rename
    BY <2>1 DEF Rename, FilesSafe, TmpReady, OnDisk
  <2>2. CASE PowerLoss
    BY <2>2 DEF PowerLoss, FilesSafe, OnDisk
  <2>3. CASE StartReset
    BY <2>3 DEF StartReset, FilesSafe, OnDisk
  <2>4. CASE SyncDir
    BY <2>4 DEF SyncDir, FilesSafe
  <2>5. CASE UNCHANGED <<file, old>>
    BY <2>5 DEF FilesSafe
  <2> QED
    BY <2>1, <2>2, <2>3, <2>4, <2>5 DEF Next, SaveStep, vars, Start, Save,
       EnsureDir, OpenTmp, OpenFails, Write, Sync, WriteFails, SyncDirFails,
       Kill
<1>3. TmpReady'
  <2>1. CASE OpenTmp
    BY <2>1 DEF OpenTmp, TmpReady
  <2>2. CASE Write
    BY <2>2 DEF Write, TmpReady, Cached, callVars
  <2>3. CASE Sync
    BY <2>3 DEF Sync, TmpReady, Cached, callVars
  <2>4. CASE Rename
    BY <2>4 DEF Rename, TmpReady, callVars
  <2>5. CASE pc' \in {"idle", "dir", "open"}
    BY <2>5 DEF TmpReady
  <2>6. CASE UNCHANGED <<pc, arg, tmp, file>>
    BY <2>6 DEF TmpReady
  <2>7. CASE StartReset
    BY <2>7 DEF StartReset, TmpReady, Serving
  <2> QED
    BY <2>1, <2>2, <2>3, <2>4, <2>5, <2>6, <2>7 DEF Next, SaveStep, vars, Start,
       Save, EnsureDir, OpenFails, WriteFails, SyncDir,
       SyncDirFails, Kill, PowerLoss, Returned
<1>4. ArgValid'
  <2>1. CASE \E s \in Snapshots : Save(s)
    BY <2>1 DEF Save, ArgValid
  <2>2. CASE pc' = "idle"
    BY <2>2 DEF ArgValid
  <2>3. CASE arg' = arg /\ pc # "idle"
    BY <2>3 DEF ArgValid
  <2>4. CASE UNCHANGED <<pc, arg>>
    BY <2>4 DEF ArgValid
  <2> QED
    BY <2>1, <2>2, <2>3, <2>4 DEF Next, SaveStep, vars, callVars, Returned,
       Start, StartReset, EnsureDir, OpenTmp, OpenFails, Write, Sync,
       WriteFails, Rename, SyncDir, SyncDirFails, Kill, PowerLoss
<1>5. Serving'
  <2>1. CASE Rename
    BY <2>1, RenameLoadable DEF Rename, Serving, callVars
  <2>2. CASE StartReset
    BY <2>2 DEF StartReset, Serving, LoadSucceeds, OnDisk, Missing
  <2>3. CASE PowerLoss
    BY <2>3 DEF PowerLoss, Serving
  <2>4. CASE Start \/ Kill \/ \E s \in Snapshots : Save(s)
    BY <2>4 DEF Serving, Start, Kill, Save
  <2>5. CASE UNCHANGED <<up, file>> /\ (pc # "idle" \/ pc' = pc)
    BY <2>5 DEF Serving
  <2> QED
    BY <2>1, <2>2, <2>3, <2>4, <2>5 DEF Next, SaveStep, vars, callVars,
       Returned, EnsureDir, OpenTmp, OpenFails, Write, Sync, WriteFails,
       SyncDir, SyncDirFails
<1>6. OldLoadable'
  <2>1. CASE Rename
    <3>1. LoadSucceeds(file.data)
      BY <2>1 DEF Rename, Serving
    <3> QED
      BY <2>1, <3>1, RenameLoadable DEF Rename, OldLoadable
  <2>2. CASE StartReset
    BY <2>2 DEF StartReset, OldLoadable, LoadSucceeds, OnDisk, Missing
  <2>3. CASE PowerLoss \/ SyncDir
    BY <2>3 DEF PowerLoss, SyncDir, OldLoadable
  <2>4. CASE UNCHANGED <<file, old>>
    BY <2>4 DEF OldLoadable
  <2> QED
    BY <2>1, <2>2, <2>3, <2>4 DEF Next, SaveStep, vars, Start, Save, EnsureDir,
       OpenTmp, OpenFails, Write, Sync, WriteFails, SyncDirFails, Kill
<1> QED
  BY <1>1, <1>2, <1>3, <1>4, <1>5, <1>6

\* Every variable of the store keeps its type (TypeOK).
THEOREM StoreTypeCorrect == Spec => []TypeOK
<1>1. StoreInv => TypeOK
  BY DEF StoreInv
<1> QED
  BY StoreInvInit, StoreInvNext, <1>1, PTL DEF Spec

\* A step of the store is a step of the abstract file, or no step at all.
LEMMA StoreStep ==
  StoreInv /\ [Next]_vars => [StateFile!Next]_(StateFile!vars)
<1> SUFFICES ASSUME StoreInv, [Next]_vars
             PROVE  [StateFile!Next]_(StateFile!vars)
  OBVIOUS
<1> USE DEF StoreInv
<1>1. CASE Start \/ EnsureDir \/ OpenTmp \/ Write \/ Sync \/ UNCHANGED vars
  <2>1. Phase' = Phase /\ arg' = arg /\ file' = file /\ old' = old
    BY <1>1 DEF Phase, Start, EnsureDir, OpenTmp, Write, Sync, vars, callVars
  <2> QED
    BY <2>1 DEF StateFile!vars, Json
<1>2. CASE StartReset
  <2>1. pc' = pc /\ arg' = arg /\ file'.data = Missing /\ old' = old \cup {file}
    BY <1>2 DEF StartReset, OnDisk
  <2>2. Phase = "idle"
    BY <1>2 DEF StartReset, Serving, Phase
  <2>3. {f.data : f \in old'} = {f.data : f \in old} \cup {file.data}
    BY <2>1
  <2>4. StateFile!Reset
    BY <2>1, <2>2, <2>3 DEF StateFile!Reset, StateFile!Idle, Phase, Json
  <2> QED
    BY <2>4 DEF StateFile!Next
<1>3. CASE \E s \in Snapshots : Save(s)
  <2>1. PICK s \in Snapshots : Save(s)
    BY <1>3
  <2>2. Phase = "idle" /\ Phase' = "begun" /\ arg' = s
        /\ file' = file /\ old' = old
    BY <2>1 DEF Save, Phase
  <2>3. Json(s) \in Content
    BY ContentFacts
  <2>4. StateFile!Begin(Json(s))
    BY <2>2 DEF StateFile!Begin, StateFile!Idle, Json
  <2> QED
    BY <2>3, <2>4 DEF StateFile!Next
<1>4. CASE OpenFails \/ WriteFails
  <2>1. Phase = "begun" /\ Phase' = "idle" /\ arg' = arg
        /\ file' = file /\ old' = old
    BY <1>4 DEF OpenFails, WriteFails, Returned, callVars, Phase
  <2>2. StateFile!Fail
    BY <2>1 DEF StateFile!Fail, Json
  <2> QED
    BY <2>2 DEF StateFile!Next
<1>5. CASE Rename
  <2>1. Phase = "begun" /\ Phase' = "done" /\ arg' = arg
        /\ file'.data = Json(arg) /\ old' = old \cup {file}
    BY <1>5 DEF Rename, Phase, callVars, TmpReady, OnDisk
  <2>2. {f.data : f \in old'} = {f.data : f \in old} \cup {file.data}
    BY <2>1
  <2>3. StateFile!Install
    BY <2>1, <2>2 DEF StateFile!Install, Json
  <2> QED
    BY <2>3 DEF StateFile!Next
<1>6. CASE SyncDir \/ SyncDirFails
  <2>1. Phase = "done" /\ Phase' = "idle" /\ arg' = arg /\ file' = file
        /\ old' \in {old, {}}
    BY <1>6 DEF SyncDir, SyncDirFails, Returned, callVars, Phase
  <2>2. {f.data : f \in old'} \in {{f.data : f \in old}, {}}
    BY <2>1
  <2>3. StateFile!Return
    BY <2>1, <2>2 DEF StateFile!Return, Json
  <2> QED
    BY <2>3 DEF StateFile!Next
<1>7. CASE Kill
  <2>1. Phase' = "idle" /\ arg' = arg /\ file' = file /\ old' = old
    BY <1>7 DEF Kill, Phase
  <2>2. CASE Phase = "idle"
    BY <2>1, <2>2 DEF StateFile!vars, Json
  <2>3. CASE Phase # "idle"
    <3>1. StateFile!Kill
      BY <2>1, <2>3 DEF StateFile!Kill, StateFile!Idle, Json
    <3> QED
      BY <3>1 DEF StateFile!Next
  <2> QED
    BY <2>2, <2>3
<1>8. CASE PowerLoss
  <2>1. Phase' = "idle" /\ arg' = arg /\ old' = {}
    BY <1>8 DEF PowerLoss, Phase
  <2>2. PICK f \in {file} \cup old : \E d \in Survives(f) : file' = OnDisk(d)
    BY <1>8 DEF PowerLoss
  <2>3. file'.data = f.data
    BY <2>2 DEF FilesSafe, Survives, OnDisk
  <2>4. file'.data \in {file.data} \cup {g.data : g \in old}
    BY <2>2, <2>3
  <2>5. StateFile!PowerLoss
    BY <2>1, <2>4 DEF StateFile!PowerLoss, Json
  <2> QED
    BY <2>5 DEF StateFile!Next
<1> QED
  BY <1>1, <1>2, <1>3, <1>4, <1>5, <1>6, <1>7, <1>8 DEF Next, SaveStep

\* The initial states are initial states of the abstract file.
LEMMA StoreStart == Init => StateFile!Init
<1> SUFFICES ASSUME Init PROVE StateFile!Init
  OBVIOUS
<1>1. Phase = "idle" /\ Json(arg) \in Content
  BY ContentFacts DEF Init, Phase
<1>2. file.data \in Content
  BY InitFilesAssumption DEF Init, OnDisk
<1>3. old = {}
  BY DEF Init
<1> QED
  BY <1>1, <1>2, <1>3 DEF StateFile!Init

\* "Save atomically persists snap to disk" (SavesAtomically): every step of
\* Save, every failure, kill and loss of power is one of the abstract file.
THEOREM SavesAreAtomic == Spec => SavesAtomically
BY StoreInvInit, StoreInvNext, StoreStep, PTL DEF Spec, SavesAtomically

\* The store implements the abstract file (StateFile!Spec).
THEOREM StoreRefinesStateFile == Spec => StateFile!Spec
BY StoreInvInit, StoreInvNext, StoreStep, StoreStart, PTL
   DEF Spec, StateFile!Spec

\* A file that Load accepts stays one (LoadableStays): validated snapshots
\* only, whole files only.
THEOREM LoadableFilesStay == Spec => LoadableStays
<1>1. StoreInv /\ [Next]_vars =>
        [LoadSucceeds(file.data) =>
           LoadSucceeds(file'.data) \/ (ResetOnCorrupt /\ file' \in old)]_vars
  <2> SUFFICES ASSUME StoreInv, [Next]_vars, LoadSucceeds(file.data)
               PROVE  \/ LoadSucceeds(file'.data)
                      \/ ResetOnCorrupt /\ file' \in old
    OBVIOUS
  <2>1. CASE Rename
    BY <2>1, RenameLoadable DEF StoreInv
  <2>2. CASE PowerLoss
    <3>1. file' = file \/ file' \in old
      BY <2>2, PowerLossFile DEF StoreInv
    <3> QED
      BY <3>1 DEF StoreInv, OldLoadable
  <2>3. CASE StartReset
    BY <2>3 DEF StartReset, LoadSucceeds, OnDisk, Missing
  <2>4. CASE file' = file
    BY <2>4
  <2> QED
    BY <2>1, <2>2, <2>3, <2>4 DEF Next, SaveStep, vars, Start, Save, EnsureDir,
       OpenTmp, OpenFails, Write, Sync, WriteFails, SyncDir, SyncDirFails, Kill
<1> QED
  BY StoreInvInit, StoreInvNext, <1>1, PTL DEF Spec, LoadableStays

\* "Fail closed on corrupt state" (RefusedUntouched): nothing but the reset
\* that the operator asked for replaces a file that Load refuses.
THEOREM RefusedFilesStay == Spec => RefusedUntouched
<1>1. StoreInv /\ [Next]_vars =>
        [~LoadSucceeds(file.data) =>
           \/ file'.data = file.data
           \/ ResetOnCorrupt /\ ErrCorrupt(file.data)]_vars
  <2> SUFFICES ASSUME StoreInv, [Next]_vars, ~LoadSucceeds(file.data)
               PROVE  \/ file'.data = file.data
                      \/ ResetOnCorrupt /\ ErrCorrupt(file.data)
    OBVIOUS
  <2>1. CASE Rename
    BY <2>1 DEF Rename, StoreInv, Serving
  <2>2. CASE PowerLoss
    BY <2>2, PowerLossFile DEF StoreInv, OldLoadable
  <2>3. CASE StartReset
    BY <2>3 DEF StartReset
  <2>4. CASE file' = file
    BY <2>4
  <2> QED
    BY <2>1, <2>2, <2>3, <2>4 DEF Next, SaveStep, vars, Start, Save, EnsureDir,
       OpenTmp, OpenFails, Write, Sync, WriteFails, SyncDir, SyncDirFails, Kill
<1> QED
  BY StoreInvInit, StoreInvNext, <1>1, PTL DEF Spec, RefusedUntouched

\* Cutting a time to whole seconds takes less than a second off it, and makes
\* no time after the first second zero.
LEMMA FormatTimeCuts ==
  ASSUME NEW t \in Nat
  PROVE  /\ formatTime(t) \in Nat
         /\ formatTime(t) <= t /\ t < formatTime(t) + Second
         /\ t >= Second => formatTime(t) > 0
         /\ formatTime(0) = 0
<1>1. Second \in Nat /\ Second > 0
  BY SecondAssumption
<1>2. \A u \in Nat : u % Second \in 0 .. (Second - 1) /\ u \div Second \in Nat
                     /\ u = Second * (u \div Second) + (u % Second)
  BY <1>1
<1>3. Second * (t \div Second) \in Nat /\ Second * (0 \div Second) \in Nat
  BY <1>1, <1>2
<1>4. formatTime(t) = Second * (t \div Second) /\ t % Second \in 0 .. (Second - 1)
  BY <1>2, <1>3 DEF formatTime
<1>5. formatTime(t) \in Nat /\ formatTime(t) <= t /\ t < formatTime(t) + Second
  BY <1>1, <1>2, <1>3, <1>4
<1>6. 0 % Second = 0
  BY <1>2, <1>3
<1>7. formatTime(0) = 0
  BY <1>6 DEF formatTime
<1> QED
  BY <1>1, <1>5, <1>7

\* A lease in the file has its key and VIP, and a deadline that is less than
\* a second early.
LEMMA StoredDeadline ==
  ASSUME NEW l \in Lease(Keys, Vips), l.active = 0 \/ l.active >= Second
  PROVE  /\ Stored(l).key = l.key /\ Stored(l).vip = l.vip
         /\ Baseline(Stored(l)) <= Baseline(l)
         /\ Baseline(l) < Baseline(Stored(l)) + Second
<1>1. l.created \in Nat /\ l.active \in Nat
  BY DEF Lease
<1>2. /\ Stored(l).key = l.key /\ Stored(l).vip = l.vip
      /\ Stored(l).created = formatTime(l.created)
      /\ Stored(l).active = formatTime(l.active)
  BY DEF Stored, Lease
<1>3. Stored(l).active = 0 <=> l.active = 0
  BY <1>1, <1>2, FormatTimeCuts, SecondAssumption
<1> QED
  BY <1>1, <1>2, <1>3, FormatTimeCuts DEF Baseline

\* What Save has put into state.json is each lease of its snapshot, with a
\* deadline that is never late and less than a second early (DeadlinesKept).
THEOREM DeadlinesAreKept == Spec => []DeadlinesKept
<1>1. StoreInv => DeadlinesKept
  <2> SUFFICES ASSUME StoreInv, pc = "dirsync", NEW l \in arg
               PROVE  \E m \in file.data.leases :
                        /\ m.key = l.key /\ m.vip = l.vip
                        /\ Baseline(m) <= Baseline(l)
                        /\ Baseline(l) < Baseline(m) + Second
    BY DEF DeadlinesKept
  <2>1. file.data.leases = toFileSnapshot(arg)
    BY DEF StoreInv, TmpReady, OnDisk, Json
  <2>2. l \in Lease(Keys, Vips) /\ (l.active = 0 \/ l.active >= Second)
    BY SnapshotsAssumption, TimesAssumption DEF StoreInv, TypeOK
  <2>3. Stored(l) \in file.data.leases
    BY <2>1 DEF toFileSnapshot
  <2> QED
    BY <2>2, <2>3, StoredDeadline
<1> QED
  BY StoreInvInit, StoreInvNext, <1>1, PTL DEF Spec
=============================================================================
