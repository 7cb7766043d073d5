SPECIFICATION HSpec
CONSTANTS
  Symbols <- TwoSymbols
  Proposals <- Rotation
  NoProposal = NoProposal
  RiskConfig <- MCRiskConfig
  Account <- MCAccount
  Ticks <- TwoTicks
  Commands = {"/halt", "/resume", "/flatten"}
  Cached = TRUE
  StartBooks <- LeftOver
  Fundings = {TRUE}
  ErrorThreshold = 2
  MaxFaults = 1
  MaxCrashes = 0
  MaxCommands = 1
  MaxFires = 1
 
PROPERTY RecoveryIsProtected
