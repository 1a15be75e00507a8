SPECIFICATION MCSpec
CONSTANTS
  b1 = b1
  b2 = b2
  b3 = b3
  b4 = b4
  v1 = v1
  v2 = v2
  v3 = v3
  v4 = v4
  v5 = v5
  Validators = {v1, v2, v3, v4, v5}
  MaxPolls = 2
  SampleOf <- MCSampleOf
  K = 5
  AlphaPreference = 3
  AlphaConfidence = 4
  Beta = 2
  IDs = {b1, b2, b3, b4}
  NumBits = 3
  IDBits <- MCIDBits
  Genesis = Genesis
  ParentOf <- MCParentOf
  HeightOf <- MCHeightOf
  Ancestry <- MCAncestry
  Gossiped = {b1, b2, b4}
  OptionsOf <- MCOptionsOf
  Slots = {1}
  ConcurrentRepolls = 1
  OptimalProcessing = 2
  MaxPollsOut = 2
  MaxBuilds = 1
\* the bound on polls lets them end
CHECK_DEADLOCK FALSE
INVARIANTS EarlyIsFinal OldestFirst BlockedWillResolve KeepsPolling UnverifiedUndecided
PROPERTIES VotesApplied
