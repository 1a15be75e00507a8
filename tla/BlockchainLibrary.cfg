SPECIFICATION FairLibSpec
CONSTANTS
  TxIDs = {t1, bad}
  ValidTxs = {t1}
  Clients = {c1, c2}
  Loops = {l1}
  MaxWorkers = 1
  TxLimits = {0, 1}
  MaxParents = 0
  MaxBlocks = 2
  MaxTxs = 2
  UnknownID = UnknownID
  NoBlock = NoBlock
  NoLoop = NoLoop
INVARIANTS AcceptedAreValid
PROPERTIES RoundsEnd CreatedEventuallyAccepted
