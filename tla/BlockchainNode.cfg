SPECIFICATION Spec
CONSTANTS
  TxIDs = {t1}
  ValidTxs = {t1}
  Clients = {c1, c2}
  Loops = {l1, l2}
  MaxWorkers = 1
  TxLimits = {1}
  MaxParents = 2
  MaxBlocks = 2
  MaxTxs = 2
  UnknownID = UnknownID
  NoBlock = NoBlock
  NoLoop = NoLoop
SYMMETRY NodeSymmetry
INVARIANTS AcceptedAncestorClosed TxInOnePlace PendingOrAccepted
PROPERTIES RefinesLedger
