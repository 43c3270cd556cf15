\* Failing passes and a crash; containers settle.
SPECIFICATION FairSpec
CONSTANTS
  Grace = 1
  Second = 1
  Containers <- TwoStacks
  Pools <- OnePool
  InitDisks <- NoFile
  MaxTime = 2
  MaxCrashes = 1
  MaxFlips = 3
  KeyLess <- MCKeyLess
  NameLess <- MCNameLess
PROPERTY Converges
