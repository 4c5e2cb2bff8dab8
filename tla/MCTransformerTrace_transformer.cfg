CONSTANTS
  DefaultTile = 2
  Workloads <- MCWorkloads
SPECIFICATION Spec
INVARIANTS DependenciesDeclared CausalCoverage FormulaMatchesTrace EveryResultUsed OverlapReorders
PROPERTY ImplementsTensorGraph
