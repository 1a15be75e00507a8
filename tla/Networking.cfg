SPECIFICATION MCSpec
CONSTANTS
  MaxHeight = 4
  MaxAncestors = 2
  BatchWritePeriod = 2
  MaxStops = 2
  n = n
  P = P
  S = S
  primary = primary
  subnet = subnet
  q1 = q1
  q2 = q2
  Nodes = {n}
  Chains = {P, S}
  Subnets = {primary, subnet}
  PrimaryNetworkID = primary
  SubnetOf <- MCSubnetOf
  ValidatorOnly = {}
  MaxLeaves = 1
  Asked = {q1, q2}
  NodeOf <- MCNodeOf
  ChainOf <- MCChainOf
  sybilProtectionEnabled = TRUE
  Threshold = 1
  MaxFailures = 2
  Weight <- MCWeight
  MaxBenchedStake = 1
  None = None
  Now = Now
\* requests, failures and stops are bounded
CHECK_DEADLOCK FALSE
INVARIANTS IntervalsMatch ChainsSeePeers AnsweredOnce
PROPERTIES AcceptsInOrder BootstrapEnds RequestsCleared BenchedReleased
