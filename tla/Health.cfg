CONSTANTS
  btc = btc
  eth = eth
  sol = sol
  Symbols <- ThreeSymbols
  Nothing = Nothing
  Interval = 2
  RunTime = 1
  CheckTime = 1
  Grace = 2
  Credentials = {"ok", "skipped"}
SPECIFICATION FairHealthSpec
INVARIANTS SuccessMeansAllSymbols ExitStatusTellsWhy
  LiveBotIsHealthy VerdictsMeanRecentLoop StopIsPrompt
PROPERTIES StopHolds StopTerminates CyclesFinish
