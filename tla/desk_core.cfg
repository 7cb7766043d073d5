SPECIFICATION Spec
CONSTANTS
  Symbols <- OneSymbol
  Proposals <- EnterAndExit
  NoProposal = NoProposal
  RiskConfig <- MCRiskConfig
  Account <- MCAccount
  Ticks <- OneTicks
  Commands = {"/halt", "/resume", "/flatten"}
  Cached = TRUE
  StartBooks <- NoPositions
  Fundings = {TRUE}
  ErrorThreshold = 1
  MaxFaults = 1
  MaxCrashes = 1
  MaxCommands = 1
  MaxFires = 1
INVARIANTS TypeOK DurableMode ModeWillBeDurable
PROPERTIES NoNewLegsWhileHalted ImplementsDesk
