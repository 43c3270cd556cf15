\* Every source against every other; uint32 is cut to four bits.
SPECIFICATION ConfigSpec
CONSTANTS
  Cidrs <- MCCidrs
  Disks <- MCDisks
  Envs <- MCEnvs
  ArgLists <- MCArgLists
  Default <- MCDefault
  TtlMod = 16
INVARIANTS DiscoveryAgrees PoolAgrees StrongestWins ClientFindsDaemon
CHECK_DEADLOCK FALSE
