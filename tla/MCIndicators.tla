---------------------------- MODULE MCIndicators ----------------------------
EXTENDS Indicators

Bar(low, close, high, volume) ==
  [low |-> low, close |-> close, high |-> high, volume |-> volume]

\* a bar without a range at each of five prices, and three with one
MCBars ==
  {Bar(p, p, p, p % 2) : p \in 1..5}
    \cup {Bar(1, 3, 5, 4), Bar(2, 2, 5, 0), Bar(1, 4, 4, 1)}
=============================================================================
