SPECIFICATION ServiceFairSpec
CONSTANTS
  Tasks = {t1, t2, t3}
  Goroutines = {g1, g2}
  Capacity = 1
  NumWorkers = 1
  MaxRegistered = 2
  ByteValues = 2
CHECK_DEADLOCK FALSE
INVARIANTS TaskInOnePlace NoSendOnClosed GracefulDrain
PROPERTIES AcceptedFinishes
