\* Live stacks and a gap between passes of at least the grace.
SPECIFICATION Spec
CONSTANTS
  Grace = 2
  Second = 1
  Containers <- TwoStacks
  Pools <- OnePool
  InitDisks <- NoFile
  MaxTime = 4
  MaxCrashes = 0
  MaxFlips = 2
  KeyLess <- MCKeyLess
  NameLess <- MCNameLess
PROPERTY LiveStackKeepsVIP
