\* Every failure and crash point, with --state-reset-on-corrupt.
SPECIFICATION Spec
CONSTANTS
  Grace = 2
  Second = 2
  Keys = {"a", "b"}
  Vips = {1, 2}
  Snapshots <- MCSnapshots
  InitFiles <- MCInitFiles
  ResetOnCorrupt = TRUE
INVARIANTS TypeOK DeadlinesKept
PROPERTIES SavesAtomically LoadableStays RefusedUntouched
