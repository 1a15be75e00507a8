SPECIFICATION InSpec
CONSTANTS
  v1 = v1
  u1 = u1
  w1 = w1
  NoMsg = NoMsg
  Stopping = Stopping
  Peers = {v1, u1}
  StakeOf <- MCStake
  VdrAllocSize = 1
  AtLargeAllocSize = 2
  NodeMaxAtLargeBytes = 2
  MaxProcessingMsgsPerNode = 1
  Sizes = {2}
  Threads = {w1}
  MaxFaults = 1
  MaxReads = 2
  MaxConnects = 1
\* a handler that has stopped stays so, and the reads are bounded
CHECK_DEADLOCK FALSE
INVARIANTS Accounted ConnectionsAlternate ClosedIsQuiet
PROPERTIES StopCloses ReadersProgress
