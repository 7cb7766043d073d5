SPECIFICATION Spec
CONSTANTS
  Symbols <- MCSymbols
  Contexts <- MCContexts
  Configs <- MCConfigs
INVARIANT DrawdownStopsGrowth
CHECK_DEADLOCK FALSE
