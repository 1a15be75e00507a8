SPECIFICATION MCSpec
CONSTANTS
  v1 = v1 v2 = v2 v3 = v3 t1 = t1 t2 = t2 t3 = t3 i1 = i1 i2 = i2
  Vertices = {v1, v3}
  Txs <- MCTxs
  Inputs <- MCInputs
  ParentsOf <- MCParentsOf
  TxsOf <- MCTxsOf
  InputsOf <- MCInputsOf
  Priority <- MCPriority
  Faulty = {}
  Callers = {c1, c2}
  Runners = {r1, r2}
  MaxWorkers = 1
  None = None
CHECK_DEADLOCK FALSE
PROPERTY VerticesDecided
