SPECIFICATION FairSpec
CONSTANTS
  Networks <- Chains
  Solvers = {"global-relabel"}
  PathLimit = 4
PROPERTY GlobalRelabelReturns
CHECK_DEADLOCK FALSE
