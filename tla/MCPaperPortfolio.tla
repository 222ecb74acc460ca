-------------------------- MODULE MCPaperPortfolio --------------------------
EXTENDS PaperPortfolio, TLC

CONSTANTS btc, eth

MCSymbols == {btc, eth}
MCSymmetry == Permutations(MCSymbols)
=============================================================================
