------------------------------ MODULE MCHealth ------------------------------
EXTENDS Health

CONSTANTS btc, eth, sol

ThreeSymbols == <<btc, eth, sol>>
=============================================================================
