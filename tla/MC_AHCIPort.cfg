CONSTANTS
  t1 = t1
  t2 = t2
  NULL = NULL
  Threads <- MCThreads
  Timeout <- MCTimeout
SPECIFICATION Spec
INVARIANTS
  TypeOK
  NoIssueToStoppedEngine
  PortCleanOnReturn
  ResultFaithful
PROPERTIES
  IssueTerminates
  Refinement
