SPECIFICATION FairSpec
CONSTANTS
  PathLengthLimit = 2
  Problems <- MCProblems
  Solvers = {"bellman-ford-ssp", "potential-dijkstra-ssp", "blocking-primal-dual",
             "capacity-scaling", "excess-scaling", "cycle-canceling", "mean-cycle-canceling",
             "out-of-kilter", "cost-scaling", "augment-relabel", "partial-augment-relabel",
             "price-refinement", "arc-fixing"}
INVARIANTS SolverKeepsFlow OnlyCheapest
PROPERTY CostSolversReturn
CHECK_DEADLOCK FALSE
