---------------------------- MODULE MCMarketData ----------------------------
EXTENDS MarketData

\* 5, 15 and 60 minutes, in a ratio small enough for all three to close
MCLength == [m5 |-> 1, m15 |-> 2, h1 |-> 4]
=============================================================================
