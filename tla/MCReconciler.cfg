\* Conflicting claims, more stacks than addresses, a pool changed at restart, old files.
SPECIFICATION Spec
CONSTANTS
  Grace = 2
  Second = 1
  Containers <- MainContainers
  Pools <- TwoPools
  InitDisks <- OldFiles
  MaxTime = 3
  MaxCrashes = 1
  MaxFlips = 3
  KeyLess <- MCKeyLess
  NameLess <- MCNameLess
INVARIANTS NamesResolveToStackVIP EndpointsReachable
INVARIANTS TypeOK LeasesUnique AdvertisedIsDurable UnservedOnlyWhenFull
PROPERTY NoEarlyRelease
