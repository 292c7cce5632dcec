CONSTANTS
  NumDevs <- MCNumDevs
  PortIdx <- MCPortIdx
  GarbageMax <- MCGarbageMax
SPECIFICATION Spec
\* After MODULE_FINI returns the module is unloaded and nothing happens.
CHECK_DEADLOCK FALSE
INVARIANTS
  TypeOK
  RegistryInDiscoveryOrder
  PortsMatchImplemented
  NoPortBeforeHandoffAndReset
  UnloadReleasesInitialised
PROPERTIES
  ModuleInitCompletes
