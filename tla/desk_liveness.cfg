SPECIFICATION FairSpec
CONSTANTS
  Symbols <- OneSymbol
  Proposals <- JustEnter
  NoProposal = NoProposal
  RiskConfig <- MCRiskConfig
  Account <- MCAccount
  Ticks <- OneTicks
  Commands = {"/halt", "/resume", "/flatten"}
  Cached = TRUE
  StartBooks <- NoPositions
  Fundings = {TRUE, FALSE}
  ErrorThreshold = 1
  MaxFaults = 1
  MaxCrashes = 0
  MaxCommands = 1
  MaxFires = 1
PROPERTIES CycleEnds NakedIsNoticed SafeModeEnds FlatLeavesTrade ModeGetsDurable
