SPECIFICATION Spec
CONSTANTS
  TxIDs = {t1, t2}
  ValidTxs = {t1, t2}
  Clients = {c1, c2}
  Loops = {l1}
  MaxWorkers = 1
  TxLimits = {1}
  MaxParents = 1
  MaxBlocks = 3
  MaxTxs = 2
  UnknownID = UnknownID
  NoBlock = NoBlock
  NoLoop = NoLoop
INVARIANT TransactionsNeverLost
