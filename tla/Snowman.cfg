SPECIFICATION MCSpec
CONSTANTS
  b1 = b1
  b2 = b2
  b3 = b3
  b4 = b4
  K = 3
  AlphaPreference = 2
  AlphaConfidence = 3
  Beta = 2
  IDs = {b1, b2, b3, b4}
  TreeChoices = {b1, b2, b3, b4}
  NumBits = 3
  IDBits <- MCIDBits
  Genesis = Genesis
  NoBlock = NoBlock
  NoTrie = NoTrie
  ParentOf <- MCParentOf
  HeightOf <- MCHeightOf
  Ancestry <- MCAncestry
\* the engine stops a chain whose VM returns an error
CHECK_DEADLOCK FALSE
INVARIANTS TreeMatchesTrie RootedAtLastAccepted PreferredBranch FalterIsReset NothingPending
PROPERTIES FinalizedByBeta DecidesOneChain
