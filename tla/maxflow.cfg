SPECIFICATION FairSpec
CONSTANTS
  Networks <- MCNetworks
  Solvers = {"edmonds-karp", "dinic", "ford-fulkerson", "capacity-scaling", "widest", "sap", "isap",
             "generic", "current-arc", "fifo", "highest-label", "relabel-to-front",
             "global-relabel", "gap-relabel", "excess-scaling", "partial-augment"}
  PathLimit = 4
INVARIANTS FlowOrPreflow ValidLabels CurrentArcsMissNothing OnlyMaximum
PROPERTY SolversReturn
CHECK_DEADLOCK FALSE
