SPECIFICATION Spec
CONSTANTS
  Symbols <- OneSymbol
  Proposals <- EnterAndExit
  NoProposal = NoProposal
  RiskConfig <- MCRiskConfig
  Account <- MCAccount
  Ticks <- OneTicks
  Commands = {}
  Cached = TRUE
  StartBooks <- NoPositions
  Fundings = {TRUE}
  ErrorThreshold = 1
  MaxFaults = 1
  MaxCrashes = 0
  MaxCommands = 0
  MaxFires = 0
PROPERTY SafeModeLeftProtected
