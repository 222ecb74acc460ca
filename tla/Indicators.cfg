SPECIFICATION ClosedSpec
CONSTANTS
  Fast = 2
  Slow = 4
  Wilder = 3
  Window = 4
  Bars <- MCBars
  Unknown = Unknown
  MaxBars = 6
INVARIANTS EmaWeighsEveryClose TrendOrdersEmas RsiRemembersEveryChange RangesCoverTheMarket
CHECK_DEADLOCK FALSE
