CONSTANTS
  btc = btc
  eth = eth
  sol = sol
  Symbols <- ThreeSymbols
  Garbage = Garbage
  Clean = Clean
  Partial = Partial
  Mangled = Mangled
  Cut = Cut
  Absent = Absent
  Scale = 10
  MaxPositionPct = 5
  MaxOpenPositions = 2
  FeeRate = 1
  Slippage = 1
  StopLoss = 3
  TakeProfit = 5
  ExitScore = 1
  MonitorScore = 2
  EnterScore = 3
  MinOrderQty = 1
  MinOrderValue = 210
  Capital = 2000
  Ticks = {1, 2}
  Scores = {0, 3}
  MaxRuns = 4
SYMMETRY MCSymmetry
SPECIFICATION Spec
INVARIANTS PositionsWithinLimit BooksBalance
  JournalAheadOfFile ApprovedEntryFits FreshEntryHolds TakeProfitPays
PROPERTY ImplementsDurableAccount
