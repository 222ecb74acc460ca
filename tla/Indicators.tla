----------------------------- MODULE Indicators -----------------------------
(***************************************************************************)
(* The arithmetic of FeatureEngine (services/feature_engine.py) over the   *)
(* closed bars of one timeframe, which arrive one by one.  A quotient is a *)
(* pair of integers, so nothing is rounded: Decimal's 28 digits leave no   *)
(* visible error at these lengths.  The periods are the arguments the      *)
(* helpers are called with.                                                *)
(***************************************************************************)
EXTENDS Integers, SequencesExt, FiniteSetsExt

CONSTANTS Fast, Slow,   \* periods of the two averages: 9 and 21
          Wilder,       \* period of RSI and ATR: 14
          Window,       \* of volume average and 20-bar range: 20
          Bars,         \* the bars that may close
          Unknown,      \* cannot be computed
          MaxBars       \* bound of the model

ASSUME PeriodsArePositive ==
  {Fast, Slow, Wilder, Window} \subseteq Nat \ {0} /\ Fast < Slow
\* with a period of 1 there is no smoothing: only the last value counts
ASSUME SmoothingRemembers == Wilder > 1
ASSUME BarsAreCandles ==
  \A b \in Bars : /\ {b.low, b.close, b.high} \subseteq Nat \ {0}
                  /\ b.volume \in Nat
                  /\ b.low <= b.close /\ b.close <= b.high
ASSUME MaxBarsIsNat == MaxBars \in Nat

VARIABLE closed         \* klines with is_closed, oldest first

ClosedInit == closed = << >>

CandleCloses ==
  /\ Len(closed) < MaxBars
  /\ \E b \in Bars : closed' = Append(closed, b)

ClosedSpec == ClosedInit /\ [][CandleCloses]_closed

-----------------------------------------------------------------------------
Sum(values) == FoldLeft(+, 0, values)

Oldest(values, n) == SubSeq(values, 1, n)

After(values, n) == SubSeq(values, n + 1, Len(values))

Newest(values, n) == SubSeq(values, Len(values) - n + 1, Len(values))

Quotient(num, den) == [num |-> num, den |-> den]

\* k is 2 / (period + 1)
EmaTurn(period, ema, v) ==
  Quotient(2 * v * ema.den + (period - 1) * ema.num, (period + 1) * ema.den)

\* mutant: the seed is the first value
EmaFromFirst(values, period) ==
  IF Len(values) < period THEN Unknown
  ELSE FoldLeft(LAMBDA ema, v : EmaTurn(period, ema, v),
                Quotient(values[1], 1), After(values, period))

\* mutant: the closes come newest first, as the exchange serves them
EmaBackwards(values, period) ==
  IF Len(values) < period THEN Unknown
  ELSE FoldLeft(LAMBDA ema, v : EmaTurn(period, ema, v),
                Quotient(Sum(Oldest(Reverse(values), period)), period),
                After(Reverse(values), period))

Ema(values, period) ==
  IF Len(values) < period THEN Unknown
  ELSE FoldLeft(LAMBDA ema, v : EmaTurn(period, ema, v),
                Quotient(Sum(Oldest(values, period)), period),
                After(values, period))

WilderTurn(period, avg, v) ==
  Quotient((period - 1) * avg.num + v * avg.den, period * avg.den)

\* _rsi's and _atr's average: seeded with the mean of the first period values
Smoothed(values, period) ==
  FoldLeft(LAMBDA avg, v : WilderTurn(period, avg, v),
           Quotient(Sum(Oldest(values, period)), period),
           After(values, period))

Steps(values) == 1..(Len(values) - 1)

Gains(closes) ==
  [i \in Steps(closes) |-> Max({closes[i + 1] - closes[i], 0})]

Losses(closes) ==
  [i \in Steps(closes) |-> Max({closes[i] - closes[i + 1], 0})]

\* mutant: only the last changes count
RsiOfWindow(closes, period) ==
  IF Len(closes) < period + 1 THEN Unknown
  ELSE LET gain == Sum(Newest(Gains(closes), period))
           loss == Sum(Newest(Losses(closes), period))
       IN  IF loss = 0 THEN Quotient(100, 1)
           ELSE Quotient(100 * gain, gain + loss)

\* both averages have the same denominator, which cancels in rs
Rsi(closes, period) ==
  IF Len(closes) < period + 1 THEN Unknown
  ELSE LET gain == Smoothed(Gains(closes), period).num
           loss == Smoothed(Losses(closes), period).num
       IN  IF loss = 0 THEN Quotient(100, 1)
           ELSE Quotient(100 * (gain + loss) - 100 * loss, gain + loss)

Distance(a, b) == Max({a - b, b - a})

\* mutant: the gap to the previous close is not part of the range
RangesWithoutGap(bars) ==
  [i \in Steps(bars) |-> bars[i + 1].high - bars[i + 1].low]

TrueRanges(bars) ==
  [i \in Steps(bars) |->
     Max({bars[i + 1].high - bars[i + 1].low,
          Distance(bars[i + 1].high, bars[i].close),
          Distance(bars[i + 1].low, bars[i].close)})]

Atr(bars, period) ==
  IF Len(bars) < period + 1 THEN Unknown
  ELSE Smoothed(TrueRanges(bars), period)

-----------------------------------------------------------------------------
(* _compute_timeframe_features over the bars closed so far *)

ClosePrices == [i \in DOMAIN closed |-> closed[i].close]

Field(f) == [i \in DOMAIN closed |-> closed[i][f]]

High20 ==
  IF Len(closed) < Window THEN Unknown
  ELSE Max(Range(Newest(Field("high"), Window)))

Low20 ==
  IF Len(closed) < Window THEN Unknown
  ELSE Min(Range(Newest(Field("low"), Window)))

\* the volume of the last bar over the average of the window
RelativeVolume ==
  LET traded == Sum(Newest(Field("volume"), Window))
  IN  IF Len(closed) < Window \/ traded = 0 THEN Unknown
      ELSE Quotient(Last(closed).volume * Window, traded)

-----------------------------------------------------------------------------
Power(b, n) == FoldLeft(LAMBDA power, x : power * x, 1, [i \in 1..n |-> b])

\* the weight of the value at i, times a common denominator
Share(i, n, period) ==
  IF i <= period THEN Power(period - 1, n - period)
  ELSE 2 * period * Power(period - 1, n - i)
         * Power(period + 1, i - period - 1)

(* The moving average is the mean of all closes there are, the first       *)
(* period of them with one and the same weight, each later one with        *)
(* (period + 1) / (period - 1) times the weight of the one before (_ema's  *)
(* seed and loop).                                                         *)
EmaWeighsEveryClose ==
  \A period \in {Fast, Slow} :
    LET n == Len(closed)
        ema == Ema(ClosePrices, period)
    IN  ema # Unknown =>
          ema.num * period * Power(period + 1, n - period) =
          ema.den * Sum([i \in 1..n |-> Share(i, n, period) * ClosePrices[i]])

Rises == {i \in Steps(ClosePrices) : ClosePrices[i] < ClosePrices[i + 1]}
Falls == {i \in Steps(ClosePrices) : ClosePrices[i] > ClosePrices[i + 1]}

Compare(a, b) == a.num * b.den - b.num * a.den

(* The averages take the order the trend conditions read as a trend: the   *)
(* fast one above the slow one if every close was above the one before,    *)
(* below it if each was below, and neither on a market that stood still    *)
(* (_ema at its two periods, against trend_continuation's h1_trend and     *)
(* m15_structure).                                                         *)
TrendOrdersEmas ==
  LET fast == Ema(ClosePrices, Fast)
      slow == Ema(ClosePrices, Slow)
  IN  slow # Unknown =>
        /\ Rises = Steps(ClosePrices) => Compare(fast, slow) > 0
        /\ Falls = Steps(ClosePrices) => Compare(fast, slow) < 0
        /\ Rises = {} /\ Falls = {} => Compare(fast, slow) = 0

(* RSI is 100 only if no close in the whole history is below the one       *)
(* before, 0 only if some are and none is above, and in between it is      *)
(* symmetric: the same history upside down gives 100 minus it.  Smoothing  *)
(* forgets no change, however old (_rsi's edge cases).                     *)
RsiRemembersEveryChange ==
  LET rsi == Rsi(ClosePrices, Wilder)
      turned == Rsi([i \in DOMAIN ClosePrices |->
                       Max(Range(ClosePrices)) + 1 - ClosePrices[i]], Wilder)
  IN  rsi # Unknown =>
        /\ 0 <= rsi.num /\ rsi.num <= 100 * rsi.den
        /\ rsi.num = 100 * rsi.den <=> Falls = {}
        /\ rsi.num = 0 <=> Falls # {} /\ Rises = {}
        /\ Rises # {} /\ Falls # {} =>
             rsi.num * turned.den + turned.num * rsi.den =
               100 * rsi.den * turned.den

\* from the previous close to the bar and through it
Spans ==
  {Max({closed[i + 1].high, closed[i].close})
     - Min({closed[i + 1].low, closed[i].close}) : i \in Steps(closed)}

(* What is read off the recent bars covers what the market did.  The       *)
(* average true range lies between the least and the greatest way the      *)
(* price went from one close through the next bar, gaps included, so it is *)
(* 0 only on a market that never moved.  The window of range and volume    *)
(* ends with the bar it is compared with: the last close is within it, and *)
(* no bar has more than Window times the average volume (_atr, high_20,    *)
(* low_20 and relative_volume against breakout_confirmation).              *)
RangesCoverTheMarket ==
  LET atr == Atr(closed, Wilder)
  IN  /\ atr # Unknown =>
           /\ Min(Spans) * atr.den <= atr.num
           /\ atr.num <= Max(Spans) * atr.den
           /\ atr.num = 0 => Spans = {0}
      /\ High20 # Unknown =>
           Low20 <= Last(ClosePrices) /\ Last(ClosePrices) <= High20
      /\ RelativeVolume # Unknown =>
           RelativeVolume.num <= Window * RelativeVolume.den
=============================================================================
