SPECIFICATION Spec
CONSTANTS
  NaN = NaN
  Profits <- MCProfits
  Amounts = {1, 2, 3}
  Thresholds <- MCThresholds
  MaxLevels = 4
  Depth = 3
CHECK_DEADLOCK FALSE
INVARIANTS
  TypeOK
  ScanKeepsBest
  UnlimitedUserMissesNothing
