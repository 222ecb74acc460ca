CONSTANTS
  btc = btc
  eth = eth
  Symbols <- TwoSymbols
  Garbage = Garbage
  Clean = Clean
  Partial = Partial
  Mangled = Mangled
  Cut = Cut
  Absent = Absent
  Scale = 10
  MaxPositionPct = 5
  MaxOpenPositions = 2
  FeeRate = 1
  Slippage = 1
  StopLoss = 3
  TakeProfit = 5
  ExitScore = 1
  MonitorScore = 2
  EnterScore = 3
  MinOrderQty = 1
  MinOrderValue = 300
  Capital = 2000
  Ticks = {2}
  Scores = {0, 3}
  MaxRuns = 3
  MaxRecent = 2
  MaxOvertake = 1
  SymbolSeq <- TwoSymbolSeq
  Credentials = {"ok"}
SPECIFICATION DashboardSpec
INVARIANTS UnsavedIsCurrent CycleIsJournaled PortfolioHasItsRows PersistedIsShown RunnerAgreesWithRows
