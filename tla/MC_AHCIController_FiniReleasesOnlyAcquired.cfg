CONSTANTS
  NumDevs <- MCNumDevs
  PortIdx <- MCPortIdx
  GarbageMax <- MCGarbageMax
SPECIFICATION Spec
CHECK_DEADLOCK FALSE
INVARIANT FiniReleasesOnlyAcquired
