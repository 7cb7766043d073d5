SPECIFICATION Spec
CONSTANTS
  Symbols <- OneSymbol
  Proposals <- EnterAndExit
  NoProposal = NoProposal
  RiskConfig <- MCRiskConfig
  Account <- MCAccount
  Ticks <- OneTicks
  Commands = {"/halt"}
  Cached = TRUE
  StartBooks <- NoPositions
  Fundings = {TRUE}
  ErrorThreshold = 1
  MaxFaults = 0
  MaxCrashes = 0
  MaxCommands = 1
  MaxFires = 0
PROPERTY NoOrderWhileHalted
