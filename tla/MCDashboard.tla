---------------------------- MODULE MCDashboard ----------------------------
EXTENDS Dashboard

CONSTANTS btc, eth

TwoSymbols == {btc, eth}
TwoSymbolSeq == <<btc, eth>>
=============================================================================
