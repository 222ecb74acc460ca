------------------------------ MODULE Engines ------------------------------
(***************************************************************************)
(* The stateless services a pipeline run consults between the market data  *)
(* and the portfolio: DecisionEngine, RiskEngine, ExitEvaluator and        *)
(* ExecutionEngine (paper mode), with the BITConfig rates they read.       *)
(*                                                                         *)
(* Units.  Rates are integers out of Scale (Scale stands for 1).  A market *)
(* price is a positive number of ticks per lot, a lot being qty_step.      *)
(* Money, fill prices and averages are in units of 1/Scale^2 tick, which   *)
(* makes every product of price, slippage and fee an integer.              *)
(***************************************************************************)
EXTENDS Portfolio

CONSTANTS
  Scale,
  MaxPositionPct, MaxOpenPositions,             \* risk
  FeeRate, Slippage,                            \* paper execution
  StopLoss, TakeProfit, ExitScore,              \* exits
  EnterScore, MonitorScore,                     \* decisions
  MinOrderQty, MinOrderValue                    \* InstrumentFilter

ASSUME ScalePositive == Scale \in Nat \ {0}
ASSUME RatesAreRates ==
  /\ MaxPositionPct \in 0..Scale /\ MaxOpenPositions \in Nat
  /\ FeeRate \in 0..Scale /\ Slippage \in 0..(Scale - 1)
  /\ StopLoss \in 0..Scale /\ TakeProfit \in Nat
ASSUME ScoresAreNat ==
  ExitScore \in Nat /\ EnterScore \in Nat /\ MonitorScore \in Nat
ASSUME FilterIsPositive ==
  MinOrderQty \in Nat \ {0} /\ MinOrderValue \in Nat

\* a full position, slipped and charged, costs no more than the cash it was
\* sized from: the default 20% with 0.05% and 0.1% is far inside
ASSUME PositionLeavesRoomForCosts ==
  MaxPositionPct * ((Scale + Slippage) * (Scale + FeeRate))
    <= Scale * (Scale * Scale)

\* the price of an entry, slipped, is between its own stop-loss and its own
\* take-profit: 0.05% against the default 5% and 10%
ASSUME EntryIsBetweenExits ==
  /\ (Scale + Slippage) * (Scale - StopLoss) < Scale * Scale
  /\ Scale * Scale < (Scale + Slippage) * (Scale + TakeProfit)

\* 0.30 and 0.65 by default
ASSUME ExitScoreBelowEntry == ExitScore < EnterScore

\* the take-profit margin, slipped and charged, still pays the fee of the
\* entry: 10% against 0.05% and twice 0.1% by default
ASSUME MarginCoversCosts ==
  (Scale * Scale) * (Scale + FeeRate)
    < (Scale - Slippage) * ((Scale - FeeRate) * (Scale + TakeProfit))

Quote(t) == t * (Scale * Scale)

-----------------------------------------------------------------------------
(* DecisionEngine.decide; score 0 is "no strategy selected" *)

Decide(score) ==
  CASE score = 0 -> "REJECT"
    [] score > 0 /\ score >= EnterScore -> "ENTER"
    [] score > 0 /\ score < EnterScore /\ score >= MonitorScore -> "MONITOR"
    [] OTHER -> "REJECT"

-----------------------------------------------------------------------------
(* RiskEngine.approve *)

\* mutant: the position is sized from all of the cash
MaxNotionalAll(a) == a.cash * Scale

\* available_usdt * max_position_pct, in units of 1/Scale money
MaxNotional(a) == a.cash * MaxPositionPct

\* snapped down to whole lots
SizedQty(a, t) == MaxNotional(a) \div (Quote(t) * Scale)

\* mutant: rule 1 off by one
ApprovedAtLimit(a, s, t) ==
  /\ Cardinality(a.open) <= MaxOpenPositions
  /\ s \notin a.open
  /\ MaxNotional(a) >= MinOrderValue * Scale
  /\ SizedQty(a, t) >= MinOrderQty

Approved(a, s, t) ==
  /\ Cardinality(a.open) < MaxOpenPositions
  /\ s \notin a.open
  /\ MaxNotional(a) >= MinOrderValue * Scale
  /\ SizedQty(a, t) >= MinOrderQty

-----------------------------------------------------------------------------
(* ExecutionEngine: the price moves against the order, the fee is charged  *)
(* on the filled notional                                                  *)

EntryFill(s, q, t) ==
  [symbol |-> s, side |-> "Buy", qty |-> q,
   price |-> t * ((Scale + Slippage) * Scale),
   fee |-> q * (t * ((Scale + Slippage) * FeeRate))]

ExitFill(s, q, t) ==
  [symbol |-> s, side |-> "Sell", qty |-> q,
   price |-> t * ((Scale - Slippage) * Scale),
   fee |-> q * (t * ((Scale - Slippage) * FeeRate))]

-----------------------------------------------------------------------------
(* ExitEvaluator.evaluate, in its order of priority *)

\* mutants of ExitReason: the wrong score threshold; take-profit inverted
ExitReasonBelowEntry(a, s, t, score) ==
  CASE Quote(t) * Scale <= a.avg[s] * (Scale - StopLoss) -> "stop_loss"
    [] Quote(t) * Scale > a.avg[s] * (Scale - StopLoss)
         /\ Quote(t) * Scale >= a.avg[s] * (Scale + TakeProfit) -> "take_profit"
    [] Quote(t) * Scale > a.avg[s] * (Scale - StopLoss)
         /\ Quote(t) * Scale < a.avg[s] * (Scale + TakeProfit)
         /\ score <= EnterScore -> "signal_deterioration"
    [] OTHER -> "none"

ExitReasonInverted(a, s, t, score) ==
  CASE Quote(t) * Scale <= a.avg[s] * (Scale - StopLoss) -> "stop_loss"
    [] Quote(t) * Scale > a.avg[s] * (Scale - StopLoss)
         /\ Quote(t) * Scale <= a.avg[s] * (Scale + TakeProfit) -> "take_profit"
    [] OTHER -> "none"

ExitReason(a, s, t, score) ==
  CASE Quote(t) * Scale <= a.avg[s] * (Scale - StopLoss) -> "stop_loss"
    [] Quote(t) * Scale > a.avg[s] * (Scale - StopLoss)
         /\ Quote(t) * Scale >= a.avg[s] * (Scale + TakeProfit) -> "take_profit"
    [] Quote(t) * Scale > a.avg[s] * (Scale - StopLoss)
         /\ Quote(t) * Scale < a.avg[s] * (Scale + TakeProfit)
         /\ score <= ExitScore -> "signal_deterioration"
    [] OTHER -> "none"
=============================================================================
