----------------------------- MODULE JSONStore -----------------------------
(***************************************************************************)
(* The JSON state store, system call by system call: Load and Save of      *)
(* internal/state/jsonstore.go and the check of the file when the daemon   *)
(* starts (internal/app/serve.go).  The process may be killed and the      *)
(* machine may lose power between any two calls.                           *)
(*                                                                         *)
(* A file is [data, safe]: what a reader sees, and whether its bytes are   *)
(* known to be on the disk.  Save runs under the store's mutex, so there   *)
(* is one at a time.                                                       *)
(***************************************************************************)
EXTENDS Leases

CONSTANTS
  Keys, Vips,    \* stack keys and IPv4 addresses
  Snapshots,     \* lease tables that callers hand to Save
  InitFiles,     \* what state.json may hold before the first start
  ResetOnCorrupt \* --state-reset-on-corrupt

\* Contents of a file: nothing at all, JSON, what Load takes for corrupt (no
\* JSON, no known version, a bad field), an empty file, and a file whose
\* mode lets others read it.
Content == [kind : {"missing", "json", "corrupt", "empty", "readable"},
            leases : {toFileSnapshot(s) : s \in Snapshots} \cup {{}}]
Missing  == [kind |-> "missing", leases |-> {}]
Corrupt  == [kind |-> "corrupt", leases |-> {}]
Empty    == [kind |-> "empty", leases |-> {}]
Json(s)  == [kind |-> "json", leases |-> toFileSnapshot(s)]

ASSUME SnapshotsAssumption == Snapshots \subseteq SUBSET Lease(Keys, Vips)
\* LastActiveAt is the zero time or a time of day long after it.
ASSUME TimesAssumption ==
  \A s \in Snapshots : \A l \in s : l.active = 0 \/ l.active >= Second
ASSUME InitFilesAssumption == InitFiles \subseteq Content
ASSUME ResetAssumption     == ResetOnCorrupt \in BOOLEAN

VARIABLES
  up,      \* the daemon has started
  pc,      \* where Save is
  arg,     \* the snapshot being saved
  file,    \* state.json
  tmp,     \* state.json.tmp
  old      \* the earlier state.json that a loss of power may bring back

vars == <<up, pc, arg, file, tmp, old>>
callVars == <<up, arg>>

OnDisk(d) == [data |-> d, safe |-> TRUE]
Cached(d) == [data |-> d, safe |-> FALSE]

Init ==
  /\ up = FALSE /\ pc = "idle"
  /\ arg \in Snapshots
  /\ file \in {OnDisk(d) : d \in InitFiles}
  /\ tmp = OnDisk(Missing) /\ old = {}

-----------------------------------------------------------------------------
\* Load.

\* validateAndConvert: duplicate keys and VIPs are refused.
validateAndConvert(d) == validateSnapshot(d.leases)

LoadSucceeds(d) ==
  \/ d.kind = "missing"
  \/ d.kind = "json" /\ validateAndConvert(d)

\* The failures that --state-reset-on-corrupt covers.
ErrCorrupt(d) ==
  \/ d.kind \in {"corrupt", "empty"}
  \/ d.kind = "json" /\ ~validateAndConvert(d)

\* Serve's startup check: the daemon starts on a file it can load.
Start ==
  /\ ~up /\ LoadSucceeds(file.data)
  /\ up' = TRUE
  /\ UNCHANGED <<pc, arg, file, tmp, old>>

\* Fault: the reset covers every failure of Load.
StartResetAny ==
  /\ ~up /\ ResetOnCorrupt /\ ~LoadSucceeds(file.data)
  /\ up' = TRUE
  /\ file' = OnDisk(Missing) /\ old' = old \cup {file}
  /\ UNCHANGED <<pc, arg, tmp>>

\* ... or removes a corrupt one, when it is told to.
StartReset ==
  /\ ~up /\ ResetOnCorrupt /\ ErrCorrupt(file.data)
  /\ up' = TRUE
  /\ file' = OnDisk(Missing) /\ old' = old \cup {file}
  /\ UNCHANGED <<pc, arg, tmp>>

-----------------------------------------------------------------------------
\* Save.

\* Fault: the snapshot is not validated before it is written.
SaveUnchecked(s) ==
  /\ up /\ pc = "idle"
  /\ arg' = s /\ pc' = "dir"
  /\ UNCHANGED <<up, file, tmp, old>>

\* A snapshot with a duplicate key or VIP is refused and nothing changes.
Save(s) ==
  /\ up /\ pc = "idle"
  /\ validateSnapshot(s)
  /\ arg' = s /\ pc' = "dir"
  /\ UNCHANGED <<up, file, tmp, old>>

\* Save returns, with or without an error.
Returned == pc' = "idle" /\ UNCHANGED callVars

EnsureDir ==
  /\ pc = "dir" /\ pc' = "open"
  /\ UNCHANGED callVars /\ UNCHANGED <<file, tmp, old>>

\* What an earlier Save left in the temporary file is cut off.
OpenTmp ==
  /\ pc = "open" /\ pc' = "write"
  /\ tmp' = Cached(Empty)
  /\ UNCHANGED callVars /\ UNCHANGED <<file, old>>

\* The directory or the temporary file cannot be made.
OpenFails ==
  /\ pc \in {"dir", "open"}
  /\ Returned /\ UNCHANGED <<file, tmp, old>>

\* Fault: times are written with their fractions of a second.
WriteFractions ==
  /\ pc = "write" /\ pc' = "sync"
  /\ tmp' = Cached([kind |-> "json", leases |-> arg])
  /\ UNCHANGED callVars /\ UNCHANGED <<file, old>>

\* Bytes written over older ones that reach further do not make JSON.
Write ==
  /\ pc = "write" /\ pc' = "sync"
  /\ tmp' = Cached(IF tmp.data = Empty THEN Json(arg) ELSE Corrupt)
  /\ UNCHANGED callVars /\ UNCHANGED <<file, old>>

\* Fault: the file is not synced.
SyncSkipped ==
  /\ pc = "sync" /\ pc' = "rename"
  /\ UNCHANGED callVars /\ UNCHANGED <<file, tmp, old>>

\* f.Sync and f.Close.
Sync ==
  /\ pc = "sync" /\ pc' = "rename"
  /\ tmp' = OnDisk(tmp.data)
  /\ UNCHANGED callVars /\ UNCHANGED <<file, old>>

\* Chmod, Write, Sync, Close or Rename fails: the temporary file is removed,
\* and an error of that is ignored.
WriteFails ==
  /\ pc \in {"write", "sync", "rename"}
  /\ tmp' \in {OnDisk(Missing), OnDisk(Corrupt)}
  /\ Returned /\ UNCHANGED <<file, old>>

Rename ==
  /\ pc = "rename" /\ pc' = "dirsync"
  /\ file' = tmp /\ tmp' = OnDisk(Missing)
  /\ old' = old \cup {file}
  /\ UNCHANGED callVars

SyncDir ==
  /\ pc = "dirsync"
  /\ old' = {}
  /\ Returned /\ UNCHANGED <<file, tmp>>

\* An error of the directory's sync is ignored: Save reports success.
SyncDirFails ==
  /\ pc = "dirsync"
  /\ Returned /\ UNCHANGED <<file, tmp, old>>

-----------------------------------------------------------------------------
\* Failures.

\* The process dies; the kernel keeps what it was given.
Kill ==
  /\ up /\ up' = FALSE
  /\ pc' = "idle"
  /\ UNCHANGED <<arg, file, tmp, old>>

\* What may be left of a file's bytes when power is lost.
Survives(f) == IF f.safe THEN {f.data} ELSE {f.data, Empty, Corrupt}

\* Directory entries changed since the directory was last synced may be lost.
PowerLoss ==
  /\ up' = FALSE /\ pc' = "idle"
  /\ \E f \in {file} \cup old : \E d \in Survives(f) : file' = OnDisk(d)
  /\ tmp' \in {OnDisk(Missing), OnDisk(Corrupt)}
  /\ old' = {}
  /\ UNCHANGED arg

SaveStep ==
  \/ EnsureDir \/ OpenTmp \/ OpenFails \/ Write \/ Sync \/ WriteFails
  \/ Rename \/ SyncDir \/ SyncDirFails

Next ==
  \/ Start \/ StartReset
  \/ \E s \in Snapshots : Save(s)
  \/ SaveStep \/ Kill \/ PowerLoss

Spec == Init /\ [][Next]_vars

-----------------------------------------------------------------------------
\* Properties.

File == [data : Content, safe : BOOLEAN]

\* Every variable has its type.
TypeOK ==
  /\ up \in BOOLEAN
  /\ pc \in {"idle", "dir", "open", "write", "sync", "rename", "dirsync"}
  /\ arg \in Snapshots
  /\ file \in File /\ tmp \in File /\ old \subseteq File

\* The abstract file: a Save is "done" once the rename has happened.
Phase ==
  IF pc = "idle" THEN "idle" ELSE IF pc = "dirsync" THEN "done" ELSE "begun"

StateFile == INSTANCE StateFile WITH
  Contents <- Content,
  Absent   <- Missing,
  value    <- file.data,
  prior    <- {f.data : f \in old},
  op       <- [st |-> Phase, new |-> Json(arg)]

\* "Save atomically persists snap to disk": through every failure, crash and
\* loss of power, readers see a whole file, either the old or the new one.
SavesAtomically == [][StateFile!Next]_(StateFile!vars)

\* A file that Load accepts is never turned into one that it refuses: what
\* Save accepts, Load accepts, and no crash leaves a torn file behind.  Only
\* a corrupt file that was reset may come back, when power is lost.
LoadableStays ==
  [][LoadSucceeds(file.data) =>
       LoadSucceeds(file'.data) \/ (ResetOnCorrupt /\ file' \in old)]_vars

\* "Fail closed on corrupt state": a file that Load refuses is replaced by
\* nothing except the reset that the operator asked for.
RefusedUntouched ==
  [][~LoadSucceeds(file.data) =>
       file'.data = file.data \/ (ResetOnCorrupt /\ ErrCorrupt(file.data))]_vars

\* state.json keeps whole seconds, so the grace of a lease may end before its
\* time, but never after it and by less than a second: what a Save has put
\* into the file is each lease of the snapshot with such a deadline.
DeadlinesKept ==
  pc = "dirsync" =>
    \A l \in arg : \E m \in file.data.leases :
      /\ m.key = l.key /\ m.vip = l.vip
      /\ Baseline(m) <= Baseline(l) /\ Baseline(l) < Baseline(m) + Second
=============================================================================
