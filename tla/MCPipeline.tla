----------------------------- MODULE MCPipeline -----------------------------
EXTENDS Pipeline, TLC

CONSTANTS btc, eth, sol

ThreeSymbols == {btc, eth, sol}
MCSymmetry == Permutations(ThreeSymbols)
=============================================================================
