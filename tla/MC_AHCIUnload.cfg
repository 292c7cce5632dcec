CONSTANTS
  t1 = t1
  NULL = NULL
  Threads <- MCThreads
  Timeout <- MCTimeout
SPECIFICATION USpec
\* After the unmap no modelled step is left: the system may stop there.
CHECK_DEADLOCK FALSE
INVARIANT ResultFaithfulUnderUnload
