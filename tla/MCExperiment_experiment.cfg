CONSTANTS
  DefaultTile = 2
  BuiltIn <- MCBuiltIn
  Dense <- MCDense
  Files <- MCFiles
  Commands <- MCCommands
  Lowered <- MCLowered
  Banks <- MCBanks
  Replays <- MCReplays
  MaxCommands = 2
SPECIFICATION FairSpec
CHECK_DEADLOCK FALSE
INVARIANTS NoWorkerLeftBehind ResultsValid PassIsEarned
PROPERTIES ExitTellsTheFile EveryRunReturns
