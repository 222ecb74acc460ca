SPECIFICATION Spec
CONSTANTS
  None = None
  FastEmas = {1000}
  SlowEmas = {999, 1000}
  Closes = {989, 990, 1025, 1026, 1060, 1061}
  Highs = {992, 1026, 1061, 1100}
  Lows = {980, 1020}
  Rsis = {49, 50, 55, 75, 80, 81}
  Volumes = {7, 8, 15}
  Counts = {0, 8, 9, 14, 15, 19, 20, 21}
  EnterScore = 65
  ExitScore = 30
INVARIANTS EntryIsWarmedUp ExitTakesTwoConditions MissingNeverHelps SelectionIgnoresOrder
CHECK_DEADLOCK FALSE
