SPECIFICATION Spec
CONSTANTS
  Length <- MCLength
  Limit = 3
  None = None
  MaxNow = 5
INVARIANTS UsedBarsAreClosed PriceIsNoOlderThanBars RejectedKeysNeverTrade
CHECK_DEADLOCK FALSE
