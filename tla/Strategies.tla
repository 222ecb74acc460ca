----------------------------- MODULE Strategies -----------------------------
(***************************************************************************)
(* From closed bars to the selected signal: which KlineFeatures the        *)
(* FeatureEngine can compute from n closed bars, the five conditions of    *)
(* each strategy, and SignalEngine's selection.                            *)
(*                                                                         *)
(* Prices are integers and the conditions compare them exactly, by cross   *)
(* multiplication.  RSI is in percent, relative volume in tenths, a score  *)
(* in hundredths.  How an average is computed is left out: the values it   *)
(* may take are constants.  M5 is fetched but no condition reads it.       *)
(***************************************************************************)
EXTENDS Integers, Sequences, FiniteSetsExt

CONSTANTS None,                   \* a feature that cannot be computed
          FastEmas, SlowEmas, Closes, Highs, Lows,
          Rsis, Volumes

ASSUME FeatureValues ==
  /\ FastEmas \cup SlowEmas \cup Closes \cup Highs \cup Lows \subseteq Nat \ {0}
  /\ Rsis \subseteq 0..100 /\ Volumes \subseteq Nat
ASSUME NoneIsNoNumber == None \notin Int

-----------------------------------------------------------------------------
(* FeatureEngine._compute_timeframe_features over n closed bars *)

\* mutant: off by one
KnownEarly(n, least, values) == IF n + 1 >= least THEN values ELSE {None}

Known(n, least, values) == IF n >= least THEN values ELSE {None}

\* the average volume of the last 20 bars may be 0
M15Features(n) ==
  {f \in [fast : Known(n, 9, FastEmas), slow : Known(n, 21, SlowEmas),
          rsi : Known(n, 15, Rsis),
          relVol : Known(n, 20, Volumes \cup {None}),
          high : Known(n, 20, Highs), close : Known(n, 1, Closes)] :
     f.high = None \/ f.close <= f.high}

H1Features(n) ==
  {f \in [fast : Known(n, 9, FastEmas), slow : Known(n, 21, SlowEmas),
          high : Known(n, 20, Highs), low : Known(n, 20, Lows)] :
     f.high = None \/ f.low <= f.high}

-----------------------------------------------------------------------------
(* The conditions.  A feature that is None fails each of them. *)

Above(f) == f.fast # None /\ f.slow # None /\ f.fast > f.slow

InZone(rsi, low, high) == rsi # None /\ rsi \in low..high

\* mutant: a volume that is not known is not held against the setup
ActiveUnlessKnown(relVol, least) == relVol = None \/ relVol >= least

Active(relVol, least) == relVol # None /\ relVol >= least

HasDistance(f) == f.fast # None /\ f.close # None

\* ema_distance_pct within -1.0 and 2.5
NotExtended(f) ==
  /\ HasDistance(f)
  /\ (f.close - f.fast) * 100 >= -f.fast
  /\ (f.close - f.fast) * 1000 <= 25 * f.fast

\* ema_distance_pct at most 6.0
NotChasing(f) == HasDistance(f) /\ (f.close - f.fast) * 100 <= 6 * f.fast

\* (high_20 - low_20) / low_20 < 4%
Consolidates(f) ==
  /\ f.high # None /\ f.low # None
  /\ (f.high - f.low) * 100 < 4 * f.low

\* (high_20 - close) / high_20 <= 0.3%
AtBreakout(f) ==
  /\ f.high # None /\ f.close # None
  /\ (f.high - f.close) * 1000 <= 3 * f.high

TrendConditions(m15, h1) ==
  [h1_trend |-> Above(h1), m15_structure |-> Above(m15),
   m15_momentum |-> InZone(m15.rsi, 50, 75),
   m15_price_location |-> NotExtended(m15),
   m15_volume |-> Active(m15.relVol, 8)]

TrendWeight == [h1_trend |-> 30, m15_structure |-> 20, m15_momentum |-> 25,
                m15_price_location |-> 15, m15_volume |-> 10]

BreakoutConditions(m15, h1) ==
  [h1_consolidation |-> Consolidates(h1), m15_breakout |-> AtBreakout(m15),
   m15_volume |-> Active(m15.relVol, 15),
   m15_momentum |-> InZone(m15.rsi, 55, 80),
   m15_not_extended |-> NotChasing(m15)]

BreakoutWeight == [h1_consolidation |-> 20, m15_breakout |-> 30,
                   m15_volume |-> 25, m15_momentum |-> 15,
                   m15_not_extended |-> 10]

Strategy == {"trend_continuation", "breakout_confirmation"}

ASSUME NoneIsNoStrategy == None \notin Strategy

Weight == [trend_continuation |-> TrendWeight,
           breakout_confirmation |-> BreakoutWeight]

\* the names of the conditions each strategy finds met
Evaluations(m15, h1) ==
  LET Met(conditions) == {c \in DOMAIN conditions : conditions[c]}
  IN  [trend_continuation |-> Met(TrendConditions(m15, h1)),
       breakout_confirmation |-> Met(BreakoutConditions(m15, h1))]

Scores == [s \in Strategy |->
             [met \in SUBSET DOMAIN Weight[s] |->
                MapThenSumSet(LAMBDA c : Weight[s][c], met)]]

Score(s, met) == Scores[s][met]

-----------------------------------------------------------------------------
(* SignalEngine.evaluate: order is the strategies as registered *)

Priority == [trend_continuation |-> 0, breakout_confirmation |-> 1]

\* max() keeps the first of the registered strategies that no other beats
First(order, best) == IF best = {} THEN None ELSE order[Min(best)]

\* the dashboard's strategy_selected, which looks at the scores alone; as a
\* mutant of Selected: no tie-break
StrategyShown(order, met) ==
  LET score(i) == Score(order[i], met[order[i]])
      valid == {i \in DOMAIN order : score(i) > 0}
  IN  First(order, {i \in valid : \A j \in valid : score(j) <= score(i)})

Selected(order, met) ==
  LET score(i) == Score(order[i], met[order[i]])
      Beats(i, j) == \/ score(i) > score(j)
                     \/ /\ score(i) = score(j)
                        /\ Priority[order[i]] < Priority[order[j]]
      valid == {i \in DOMAIN order : score(i) > 0}
  IN  First(order, {i \in valid : \A j \in valid : ~Beats(j, i)})

\* the signal_score of Pipeline.run
Best(order, met) ==
  LET s == Selected(order, met) IN IF s = None THEN 0 ELSE Score(s, met[s])
=============================================================================
