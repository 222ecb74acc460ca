CONSTANTS
  btc = btc
  eth = eth
  Symbols <- MCSymbols
  StartingCash = 25
  Qtys = {1, 2}
  Prices = {2, 5, 7}
  Fees = {0, 1}
  MaxBuys = 3
SYMMETRY MCSymmetry
SPECIFICATION Spec
INVARIANTS TypeOK OpenMeansHeld BooksBalance
