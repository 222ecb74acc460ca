------------------------------ MODULE Signals ------------------------------
(***************************************************************************)
(* One symbol from its first closed bars on, as the signals see it: bars   *)
(* close, and each run of the pipeline computes features, selects a signal *)
(* and may open or close the position.  An answer without klines leaves    *)
(* every feature of its timeframe unknown for that run.                    *)
(***************************************************************************)
EXTENDS Strategies

CONSTANTS Counts,                 \* numbers of closed bars to tell apart
          EnterScore, ExitScore

ASSUME CountsAreNat == Counts \subseteq Nat /\ 0 \in Counts

\* the default thresholds are 65 and 30
ASSUME ThresholdsApart ==
  EnterScore \in Nat /\ ExitScore \in Nat /\ EnterScore > ExitScore + 30

\* what trend_continuation scores without the RSI, and breakout_confirmation
\* on the hourly range and the RSI alone: at a lower threshold the bot would
\* enter on a warm-up
ASSUME WarmUpScoresLess == EnterScore > 45

VARIABLES
  order,      \* the strategies, in the order they were registered
  bars,       \* closed bars of each timeframe at the exchange
  held,       \* the open position: what its entry found met, by strategy
  turned,     \* history: of the last exit for signal deterioration, the
              \* conditions met at the entry and no longer met
  blind       \* history: that exit's run was not given all the klines there are

vars == <<order, bars, held, turned, blind>>

Orders == {<<s, t>> : s, t \in Strategy} \ {<<s, s>> : s \in Strategy}

\* __main__'s list of strategies
Registered == <<"trend_continuation", "breakout_confirmation">>

Init ==
  /\ order \in Orders
  /\ bars = [tf \in {"m15", "h1"} |-> 0]
  /\ held = None /\ turned = None /\ blind = FALSE

BarsClose(tf, n) ==
  /\ n > bars[tf] /\ bars' = [bars EXCEPT ![tf] = n]
  /\ UNCHANGED <<order, held, turned, blind>>

\* decision_engine, and the risk engine approves
Enter(met) ==
  LET s == Selected(order, met)
  IN  /\ held = None
      /\ Best(order, met) >= EnterScore
      /\ held' = [by |-> s, met |-> met[s]]
      /\ UNCHANGED <<order, bars, turned, blind>>

\* mutant: an exit at the score that does not enter
DeteriorateEarly(met, lacking) ==
  /\ held # None
  /\ Best(order, met) < EnterScore
  /\ held' = None
  /\ turned' = Cardinality(held.met \ met[held.by]) /\ blind' = lacking
  /\ UNCHANGED <<order, bars>>

\* exit_evaluator, priority 3
Deteriorate(met, lacking) ==
  /\ held # None
  /\ Best(order, met) <= ExitScore
  /\ held' = None
  /\ turned' = Cardinality(held.met \ met[held.by]) /\ blind' = lacking
  /\ UNCHANGED <<order, bars>>

\* exit_evaluator, priorities 1 and 2
PriceExit ==
  /\ held # None /\ held' = None
  /\ UNCHANGED <<order, bars, turned, blind>>

\* what the strategies may find with so many closed bars
Outcomes ==
  [n \in Counts \X Counts |->
     {Evaluations(m15, h1) : m15 \in M15Features(n[1]), h1 \in H1Features(n[2])}]

\* a run whose answers hold the closed bars there are, or no klines at all
Cycle ==
  \E n15 \in {0, bars["m15"]}, nH1 \in {0, bars["h1"]} :
    \E met \in Outcomes[<<n15, nH1>>] :
      \/ Enter(met)
      \/ Deteriorate(met, n15 < bars["m15"] \/ nH1 < bars["h1"])

BarCloses == \E tf \in {"m15", "h1"}, n \in Counts : BarsClose(tf, n)

Next == BarCloses \/ Cycle \/ PriceExit

Spec == Init /\ [][Next]_vars

-----------------------------------------------------------------------------
\* Features depend on the bars alone: it is enough to look at every set of
\* them before the first position.
Warming == held = None /\ turned = None

Features == M15Features(bars["m15"]) \X H1Features(bars["h1"])

\* f with one known feature less
Weaker(f) == {[f EXCEPT ![k] = None] : k \in DOMAIN f}

(* A feature that becomes unavailable never raises the selected score: a   *)
(* short history or an empty answer can only keep the bot out of a         *)
(* position (the None handling of both strategies, SignalEngine.evaluate). *)
MissingNeverHelps ==
  Warming => \A f \in Features :
    LET best == Best(order, Evaluations(f[1], f[2]))
    IN  /\ \A m15 \in Weaker(f[1]) : Best(order, Evaluations(m15, f[2])) <= best
        /\ \A h1 \in Weaker(f[2]) : Best(order, Evaluations(f[1], h1)) <= best

(* Which signal is selected does not depend on the order in which the      *)
(* strategies are registered, ties included; and as they are registered,   *)
(* by priority, the dashboard, which derives the strategy from the scores  *)
(* in the journal again, names the one that was selected (_priority_index, *)
(* _entry_to_decision_row, _build_runner).                                 *)
SelectionIgnoresOrder ==
  Warming => \A f \in Features :
    LET met == Evaluations(f[1], f[2])
    IN  /\ \A o \in Orders : Selected(o, met) = Selected(order, met)
        /\ order = Registered => StrategyShown(order, met) = Selected(order, met)

\* the closed bars a condition asks for when it says why it is not met
BarsNeeded ==
  [trend_continuation |->
     [h1_trend |-> 21, m15_structure |-> 21, m15_momentum |-> 15,
      m15_price_location |-> 9, m15_volume |-> 20],
   breakout_confirmation |->
     [h1_consolidation |-> 20, m15_breakout |-> 20, m15_volume |-> 20,
      m15_momentum |-> 15, m15_not_extended |-> 9]]

BarsOf(condition) ==
  bars[IF condition \in {"h1_trend", "h1_consolidation"} THEN "h1" ELSE "m15"]

(* No position is opened on a warm-up: every condition that carried the    *)
(* entry had the closed bars its rationale says it needs, and together     *)
(* they are never the early ones alone: an entry takes the RSI of the 15   *)
(* minute bars, and either the averages of the hourly bars or the 20-bar   *)
(* window of the 15 minute bars (weights and thresholds of the strategies  *)
(* against FeatureEngine's minimum histories).                             *)
EntryIsWarmedUp ==
  held # None =>
    /\ \A c \in held.met : BarsOf(c) >= BarsNeeded[held.by][c]
    /\ bars["m15"] >= 15
    /\ bars["h1"] >= 21 \/ bars["m15"] >= 20

(* Entry and exit scores are too far apart for a single condition to flap  *)
(* between them: at an exit for signal deterioration at least two of the   *)
(* conditions that carried the entry have turned, whichever strategy is    *)
(* selected by then (ExitEvaluator, DecisionEngine, condition weights).    *)
ExitTakesTwoConditions == turned # None => turned >= 2

(* "Missing data means we cannot trade safely" (both strategies): no       *)
(* position is sold for signal deterioration in a run whose answers lack   *)
(* klines that there are (the None handling of the strategies, which       *)
(* lowers the score, against ExitEvaluator, which sells on a low one).     *)
MissingDataNeverSells == ~blind

TypeOK ==
  /\ order \in Orders
  /\ bars \in [{"m15", "h1"} -> Counts]
  /\ blind \in BOOLEAN

(* What makes these two inductive: a position remembers an entry that had  *)
(* the score to be one.                                                    *)
HeldWasWorthIt ==
  held # None =>
    /\ held.by \in Strategy /\ held.met \in SUBSET DOMAIN Weight[held.by]
    /\ Score(held.by, held.met) >= EnterScore

IInv == TypeOK /\ HeldWasWorthIt /\ EntryIsWarmedUp /\ ExitTakesTwoConditions
=============================================================================
