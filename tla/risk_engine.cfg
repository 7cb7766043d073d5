SPECIFICATION Spec
CONSTANTS
  Symbols <- MCSymbols
  Contexts <- MCContexts
  Configs <- MCConfigs
INVARIANTS TighteningNeverApproves FullClosePassesAccountLimits ReduceOnlyNeverGrows
CHECK_DEADLOCK FALSE
