--------------------------- MODULE Signals_proofs ---------------------------
(***************************************************************************)
(* From closed bars to decisions.                                          *)
(*                                                                         *)
(* Scores and what is decided by them, for every set of feature values and *)
(* every pair of thresholds that are far enough apart.  A score is a sum   *)
(* over the conditions met; taken apart condition by condition, it tells   *)
(* how much one condition can change and what is out of reach without it.  *)
(*                                                                         *)
(* The indicators the features are made of, for every period and every     *)
(* history of candles.  Sum, moving average and Wilder's smoothing are     *)
(* loops over a sequence, so what holds of them is proved by induction on  *)
(* the history (Folding): what one more value changes, starting from the   *)
(* seed.                                                                   *)
(***************************************************************************)
EXTENDS Signals, Indicators, FiniteSetTheorems, TLAPS

-----------------------------------------------------------------------------
(* A score, condition by condition *)

PickOne(S) == CHOOSE x \in S : TRUE

Sums == INSTANCE Folding WITH op <- +, choose <- PickOne

Trend == "trend_continuation"
Breakout == "breakout_confirmation"

\* what c contributes to a score
Part(w, c, met) == IF c \in met THEN w[c] ELSE 0

(* The score of a set of conditions is a fold over it.                     *)
LEMMA ScoreIsFold ==
  ASSUME NEW s \in Strategy, NEW met \in SUBSET DOMAIN Weight[s]
  PROVE  Score(s, met) = Sums!Fold(0, Weight[s], met)
<1>1. Score(s, met) = MapThenSumSet(LAMBDA c : Weight[s][c], met)
  BY DEF Score, Scores
<1> QED
  BY <1>1 DEF MapThenSumSet, MapThenFoldSet, Sums!Fold, Sums!MapThenFoldSet,
              PickOne

(* A finite set can be summed over.                                        *)
LEMMA FiniteSetsHaveSums ==
  ASSUME NEW S, IsFiniteSet(S)
  PROVE  Sums!Foldable(S)
BY DEF Sums!Foldable, Sums!IsFiniteSet, IsFiniteSet, PickOne

(* One condition is taken out of a sum.                                    *)
LEMMA TakeOut ==
  ASSUME NEW w, NEW c, NEW met, IsFiniteSet(met), \A x \in met : w[x] \in Int
  PROVE  /\ Sums!Fold(0, w, met) = Part(w, c, met) + Sums!Fold(0, w, met \ {c})
         /\ IsFiniteSet(met \ {c})
<1> DEFINE rest == Sums!Fold(0, w, met \ {c})
<1>1. IsFiniteSet(met \ {c})
  BY FS_Subset
<1>2. rest \in Int
  <2>1. \A u, v \in Int : u + v \in Int
    OBVIOUS
  <2> QED
    BY <1>1, <2>1, FiniteSetsHaveSums, Sums!FoldType
<1>3. CASE c \in met
  <2>1. /\ \A u, v \in Int : u + v \in Int
        /\ \A u, v, x \in Int : u + (v + x) = v + (u + x)
    OBVIOUS
  <2>2. \A x \in met : Sums!Fold(0, w, met) = w[x] + Sums!Fold(0, w, met \ {x})
    BY <2>1, FiniteSetsHaveSums, Sums!FoldAnyOrder
  <2> QED
    BY <1>1, <1>3, <2>2 DEF Part
<1>4. CASE c \notin met
  <2>1. met \ {c} = met
    BY <1>4
  <2>2. Sums!Fold(0, w, met) = rest /\ Part(w, c, met) = 0
    BY <1>4, <2>1 DEF Part
  <2> HIDE DEF rest
  <2>3. Sums!Fold(0, w, met) = Part(w, c, met) + rest
    BY <1>2, <2>2
  <2> QED
    BY <1>1, <2>3 DEF rest
<1> QED
  BY <1>3, <1>4

\* the five conditions of a strategy, in the order of its code
OfTrend == <<"h1_trend", "m15_structure", "m15_momentum",
             "m15_price_location", "m15_volume">>
OfBreakout == <<"h1_consolidation", "m15_breakout", "m15_volume",
                "m15_momentum", "m15_not_extended">>

Sum5(w, c, met) ==
  Part(w, c[1], met) + (Part(w, c[2], met) + (Part(w, c[3], met)
    + (Part(w, c[4], met) + Part(w, c[5], met))))

(* Five conditions are finitely many.                                      *)
LEMMA FiveAreFinite ==
  ASSUME NEW c1, NEW c2, NEW c3, NEW c4, NEW c5
  PROVE  IsFiniteSet({c1, c2, c3, c4, c5})
<1>1. IsFiniteSet({} \cup {c1}) /\ IsFiniteSet(({} \cup {c1}) \cup {c2})
  BY FS_EmptySet, FS_AddElement
<1>2. IsFiniteSet({c1, c2} \cup {c3}) /\ IsFiniteSet(({c1, c2} \cup {c3}) \cup {c4})
  <2>1. ({} \cup {c1}) \cup {c2} = {c1, c2}
    OBVIOUS
  <2> QED
    BY <1>1, <2>1, FS_AddElement
<1>3. IsFiniteSet((({c1, c2} \cup {c3}) \cup {c4}) \cup {c5})
  BY <1>2, FS_AddElement
<1>4. (({c1, c2} \cup {c3}) \cup {c4}) \cup {c5} = {c1, c2, c3, c4, c5}
  OBVIOUS
<1> QED
  BY <1>3, <1>4

(* A sum over at most five conditions, written out.                        *)
LEMMA FiveParts ==
  ASSUME NEW w, NEW c1, NEW c2, NEW c3, NEW c4, NEW c5,
         {c1, c2, c3, c4, c5} # {c2, c3, c4, c5},
         {c2, c3, c4, c5} # {c3, c4, c5}, {c3, c4, c5} # {c4, c5}, c4 # c5,
         \A x \in {c1, c2, c3, c4, c5} : w[x] \in Int,
         NEW met \in SUBSET {c1, c2, c3, c4, c5}
  PROVE  Sums!Fold(0, w, met) = Sum5(w, <<c1, c2, c3, c4, c5>>, met)
<1> DEFINE m1 == met \ {c1}
           m2 == m1 \ {c2}
           m3 == m2 \ {c3}
           m4 == m3 \ {c4}
           m5 == m4 \ {c5}
<1>1. IsFiniteSet(met)
  <2>1. IsFiniteSet({c1, c2, c3, c4, c5})
    BY FiveAreFinite
  <2> QED
    BY <2>1, FS_Subset
<1>2. \A x \in met : w[x] \in Int
  OBVIOUS
<1>3. Sums!Fold(0, w, met) = Part(w, c1, met) + Sums!Fold(0, w, m1) /\ IsFiniteSet(m1)
  BY <1>1, <1>2, TakeOut
<1>4. Sums!Fold(0, w, m1) = Part(w, c2, m1) + Sums!Fold(0, w, m2) /\ IsFiniteSet(m2)
  BY <1>2, <1>3, TakeOut
<1>5. Sums!Fold(0, w, m2) = Part(w, c3, m2) + Sums!Fold(0, w, m3) /\ IsFiniteSet(m3)
  BY <1>2, <1>4, TakeOut
<1>6. Sums!Fold(0, w, m3) = Part(w, c4, m3) + Sums!Fold(0, w, m4) /\ IsFiniteSet(m4)
  BY <1>2, <1>5, TakeOut
<1>7. Sums!Fold(0, w, m4) = Part(w, c5, m4) + Sums!Fold(0, w, m5) /\ IsFiniteSet(m5)
  BY <1>2, <1>6, TakeOut
<1>8. m5 = {} /\ Sums!Fold(0, w, {}) = 0
  BY <1>1, FiniteSetsHaveSums, Sums!FoldDef
<1>9. /\ Part(w, c2, m1) = Part(w, c2, met) /\ Part(w, c3, m2) = Part(w, c3, met)
      /\ Part(w, c4, m3) = Part(w, c4, met) /\ Part(w, c5, m4) = Part(w, c5, met)
  BY DEF Part
<1>10. \A x \in {c1, c2, c3, c4, c5} : Part(w, x, met) \in Int
  BY DEF Part
<1> HIDE DEF m1, m2, m3, m4, m5
<1>11. Part(w, c5, met) + 0 = Part(w, c5, met)
  BY <1>10
<1> QED
  BY <1>3, <1>4, <1>5, <1>6, <1>7, <1>8, <1>9, <1>11 DEF Sum5

(* The scores of both strategies.                                          *)
LEMMA ScoresAreSums ==
  /\ DOMAIN Weight = Strategy
  /\ DOMAIN Weight[Trend] = {"h1_trend", "m15_structure", "m15_momentum",
                             "m15_price_location", "m15_volume"}
  /\ DOMAIN Weight[Breakout] = {"h1_consolidation", "m15_breakout", "m15_volume",
                                "m15_momentum", "m15_not_extended"}
  /\ \A met \in SUBSET DOMAIN Weight[Trend] :
       Score(Trend, met) = Sum5(TrendWeight, OfTrend, met)
  /\ \A met \in SUBSET DOMAIN Weight[Breakout] :
       Score(Breakout, met) = Sum5(BreakoutWeight, OfBreakout, met)
<1>1. /\ Trend \in Strategy /\ Breakout \in Strategy
      /\ Weight[Trend] = TrendWeight /\ Weight[Breakout] = BreakoutWeight
      /\ DOMAIN Weight = Strategy
  BY DEF Trend, Breakout, Strategy, Weight
<1>2. DOMAIN TrendWeight = {"h1_trend", "m15_structure", "m15_momentum",
                            "m15_price_location", "m15_volume"}
  BY DEF TrendWeight
<1>3. DOMAIN BreakoutWeight = {"h1_consolidation", "m15_breakout", "m15_volume",
                               "m15_momentum", "m15_not_extended"}
  BY DEF BreakoutWeight
<1>4. ASSUME NEW met \in SUBSET DOMAIN TrendWeight
      PROVE  Score(Trend, met) = Sum5(TrendWeight, OfTrend, met)
  <2>1. Score(Trend, met) = Sums!Fold(0, TrendWeight, met)
    BY <1>1, ScoreIsFold
  <2>2. \A x \in DOMAIN TrendWeight : TrendWeight[x] \in Int
    BY DEF TrendWeight
  <2> QED
    BY <1>2, <2>1, <2>2, FiveParts DEF OfTrend
<1>5. ASSUME NEW met \in SUBSET DOMAIN BreakoutWeight
      PROVE  Score(Breakout, met) = Sum5(BreakoutWeight, OfBreakout, met)
  <2>1. Score(Breakout, met) = Sums!Fold(0, BreakoutWeight, met)
    BY <1>1, ScoreIsFold
  <2>2. \A x \in DOMAIN BreakoutWeight : BreakoutWeight[x] \in Int
    BY DEF BreakoutWeight
  <2> QED
    BY <1>3, <2>1, <2>2, FiveParts DEF OfBreakout
<1> QED
  BY <1>1, <1>2, <1>3, <1>4, <1>5

(* A score is between 0 and 100.                                           *)
LEMMA ScoreBounds ==
  ASSUME NEW s \in Strategy, NEW met \in SUBSET DOMAIN Weight[s]
  PROVE  Score(s, met) \in 0..100
<1>1. CASE s = Trend
  BY <1>1, ScoresAreSums DEF Sum5, Part, TrendWeight, OfTrend
<1>2. CASE s = Breakout
  BY <1>2, ScoresAreSums DEF Sum5, Part, BreakoutWeight, OfBreakout
<1> QED
  BY <1>1, <1>2 DEF Strategy, Trend, Breakout

(* A condition more never lowers the score.                                *)
LEMMA MoreNeverScoresLess ==
  ASSUME NEW s \in Strategy, NEW met \in SUBSET DOMAIN Weight[s],
         NEW less \in SUBSET met
  PROVE  Score(s, less) <= Score(s, met)
<1>1. CASE s = Trend
  BY <1>1, ScoresAreSums DEF Sum5, Part, TrendWeight, OfTrend
<1>2. CASE s = Breakout
  BY <1>2, ScoresAreSums DEF Sum5, Part, BreakoutWeight, OfBreakout
<1> QED
  BY <1>1, <1>2 DEF Strategy, Trend, Breakout

(* No condition weighs more than 30.                                       *)
LEMMA OneConditionIsThirty ==
  ASSUME NEW s \in Strategy, NEW met \in SUBSET DOMAIN Weight[s],
         NEW left \in SUBSET DOMAIN Weight[s], NEW c, met \ left \subseteq {c}
  PROVE  Score(s, met) <= Score(s, left) + 30
<1>1. CASE s = Trend
  BY <1>1, ScoresAreSums DEF Sum5, Part, TrendWeight, OfTrend
<1>2. CASE s = Breakout
  BY <1>2, ScoresAreSums DEF Sum5, Part, BreakoutWeight, OfBreakout
<1> QED
  BY <1>1, <1>2 DEF Strategy, Trend, Breakout

(* Where a score falls by more than 30, two conditions have turned.        *)
LEMMA TwoHaveTurned ==
  ASSUME NEW s \in Strategy, NEW met \in SUBSET DOMAIN Weight[s],
         NEW left \in SUBSET DOMAIN Weight[s],
         Score(s, met) > Score(s, left) + 30
  PROVE  Cardinality(met \ left) \in Nat /\ Cardinality(met \ left) >= 2
<1> DEFINE gone == met \ left
<1>1. IsFiniteSet(gone)
  <2>1. IsFiniteSet(DOMAIN Weight[Trend]) /\ IsFiniteSet(DOMAIN Weight[Breakout])
    <3>1. /\ IsFiniteSet({"h1_trend", "m15_structure", "m15_momentum",
                          "m15_price_location", "m15_volume"})
          /\ IsFiniteSet({"h1_consolidation", "m15_breakout", "m15_volume",
                          "m15_momentum", "m15_not_extended"})
      BY FiveAreFinite
    <3> QED
      BY <3>1, ScoresAreSums
  <2> QED
    BY <2>1, FS_Subset DEF Strategy, Trend, Breakout
<1>2. Score(s, met) \in Int /\ Score(s, left) \in Int
  BY ScoreBounds
<1>3. ASSUME NEW c, gone \subseteq {c} PROVE FALSE
  <2>1. Score(s, met) <= Score(s, left) + 30
    BY <1>3, OneConditionIsThirty
  <2> QED
    BY <1>2, <2>1
<1> HIDE DEF gone
<1>4. Cardinality(gone) \in Nat
  BY <1>1, FS_CardinalityType
<1>5. Cardinality(gone) # 0
  BY <1>1, <1>3, FS_EmptySet
<1>6. Cardinality(gone) # 1
  BY <1>1, <1>3, FS_Singleton
<1> QED
  BY <1>4, <1>5, <1>6 DEF gone

-----------------------------------------------------------------------------
(* The selection *)

\* what the strategies found, of whatever features
AllFound == {met \in [Strategy -> SUBSET (UNION {DOMAIN Weight[s] : s \in Strategy})] :
               \A s \in Strategy : met[s] \in SUBSET DOMAIN Weight[s]}

Higher(met) ==
  IF Score(Trend, met[Trend]) >= Score(Breakout, met[Breakout])
  THEN Trend ELSE Breakout

NothingFound(met) == \A s \in Strategy : Score(s, met[s]) = 0

(* Whatever the order of registration, the strategy with the higher score  *)
(* is selected, trend_continuation on a tie, and none if no score is       *)
(* positive; the dashboard's derivation agrees.                            *)
LEMMA SelectedIs ==
  ASSUME NEW o \in Orders, NEW met \in AllFound
  PROVE  /\ Selected(o, met) = IF NothingFound(met) THEN None ELSE Higher(met)
         /\ o = Registered => StrategyShown(o, met) = Selected(o, met)
<1> DEFINE score(i) == Score(o[i], met[o[i]])
           a == Score(Trend, met[Trend])
           b == Score(Breakout, met[Breakout])
           valid == {i \in DOMAIN o : score(i) > 0}
           Beats(i, j) == \/ score(i) > score(j)
                          \/ /\ score(i) = score(j)
                             /\ Priority[o[i]] < Priority[o[j]]
           winners == {i \in valid : \A j \in valid : ~Beats(j, i)}
           highest == {i \in valid : \A j \in valid : score(j) <= score(i)}
<1>1. a \in Nat /\ b \in Nat
  BY ScoreBounds DEF AllFound, Strategy, Trend, Breakout
<1>2. /\ Selected(o, met) = First(o, winners)
      /\ StrategyShown(o, met) = First(o, highest)
  BY DEF Selected, StrategyShown
<1>3. /\ Priority[Trend] = 0 /\ Priority[Breakout] = 1
      /\ Strategy = {Trend, Breakout} /\ Trend # Breakout
  BY DEF Priority, Trend, Breakout, Strategy
<1>4. /\ First(o, {}) = None
      /\ First(o, {1}) = o[1] /\ First(o, {2}) = o[2] /\ First(o, {1, 2}) = o[1]
  <2>1. Min({1}) = 1 /\ Min({2}) = 2 /\ Min({1, 2}) = 1
    BY DEF Min
  <2> QED
    BY <2>1 DEF First
<1>5. /\ NothingFound(met) <=> a = 0 /\ b = 0
      /\ Higher(met) = IF a >= b THEN Trend ELSE Breakout
  BY <1>3 DEF NothingFound, Higher
<1>6. CASE o = <<Trend, Breakout>>
  <2>1. /\ DOMAIN o = {1, 2} /\ o[1] = Trend /\ o[2] = Breakout
        /\ score(1) = a /\ score(2) = b
    BY <1>6
  <2>2. winners = IF a = 0 /\ b = 0 THEN {} ELSE IF a >= b THEN {1} ELSE {2}
    BY <1>1, <1>3, <2>1
  <2>3. highest = IF a = 0 /\ b = 0 THEN {}
                  ELSE IF a > b THEN {1} ELSE IF a = b THEN {1, 2} ELSE {2}
    BY <1>1, <1>3, <2>1
  <2> HIDE DEF winners, highest, valid, Beats, score, a, b
  <2> QED
    BY <1>1, <1>2, <1>4, <1>5, <2>1, <2>2, <2>3
<1>7. CASE o = <<Breakout, Trend>>
  <2>1. /\ DOMAIN o = {1, 2} /\ o[1] = Breakout /\ o[2] = Trend
        /\ score(1) = b /\ score(2) = a
    BY <1>7
  <2>2. winners = IF a = 0 /\ b = 0 THEN {} ELSE IF a >= b THEN {2} ELSE {1}
    BY <1>1, <1>3, <2>1
  <2>3. o # Registered
    BY <1>7, <2>1 DEF Registered, Trend, Breakout
  <2> HIDE DEF winners, highest, valid, Beats, score, a, b
  <2> QED
    BY <1>1, <1>2, <1>4, <1>5, <2>1, <2>2, <2>3
<1>8. o \in {<<Trend, Breakout>>, <<Breakout, Trend>>}
  BY <1>3 DEF Orders
<1> QED
  BY <1>6, <1>7, <1>8

(* The selected score is the higher of the two.                            *)
LEMMA BestIs ==
  ASSUME NEW o \in Orders, NEW met \in AllFound
  PROVE  /\ Best(o, met) \in Nat
         /\ \A s \in Strategy : Score(s, met[s]) <= Best(o, met)
         /\ Best(o, met) > 0 =>
              /\ Selected(o, met) \in Strategy
              /\ Best(o, met) = Score(Selected(o, met), met[Selected(o, met)])
         /\ Best(o, met) = 0 \/ \E s \in Strategy : Best(o, met) = Score(s, met[s])
<1>1. \A s \in Strategy : Score(s, met[s]) \in Nat
  BY ScoreBounds DEF AllFound
<1>2. Strategy = {Trend, Breakout} /\ Trend # None /\ Breakout # None
  BY NoneIsNoStrategy DEF Strategy, Trend, Breakout
<1>3. CASE NothingFound(met)
  <2>1. Best(o, met) = 0
    BY <1>3, SelectedIs DEF Best
  <2> QED
    BY <1>3, <2>1 DEF NothingFound
<1>4. CASE ~NothingFound(met)
  <2>1. Selected(o, met) = Higher(met) /\ Higher(met) \in Strategy
    BY <1>2, <1>4, SelectedIs DEF Higher
  <2>2. Best(o, met) = Score(Higher(met), met[Higher(met)])
    BY <1>2, <2>1 DEF Best
  <2>3. \A s \in Strategy : Score(s, met[s]) <= Score(Higher(met), met[Higher(met)])
    BY <1>1, <1>2 DEF Higher
  <2> QED
    BY <1>1, <2>1, <2>2, <2>3
<1> QED
  BY <1>3, <1>4

-----------------------------------------------------------------------------
(* The conditions *)

(* What the strategies find, condition by condition.                       *)
LEMMA Found ==
  ASSUME NEW m15, NEW h1
  PROVE  LET met == Evaluations(m15, h1) IN
         /\ met \in AllFound
         /\ met[Trend] = {c \in DOMAIN Weight[Trend] : TrendConditions(m15, h1)[c]}
         /\ met[Breakout] =
              {c \in DOMAIN Weight[Breakout] : BreakoutConditions(m15, h1)[c]}
<1> DEFINE met == Evaluations(m15, h1)
<1>1. /\ DOMAIN TrendConditions(m15, h1) = DOMAIN Weight[Trend]
      /\ DOMAIN BreakoutConditions(m15, h1) = DOMAIN Weight[Breakout]
  BY ScoresAreSums DEF TrendConditions, BreakoutConditions
<1>2. /\ met[Trend] = {c \in DOMAIN Weight[Trend] : TrendConditions(m15, h1)[c]}
      /\ met[Breakout] =
           {c \in DOMAIN Weight[Breakout] : BreakoutConditions(m15, h1)[c]}
      /\ met = [s \in Strategy |-> met[s]]
  BY <1>1 DEF Evaluations, Trend, Breakout, Strategy
<1>3. Strategy = {Trend, Breakout}
  BY DEF Strategy, Trend, Breakout
<1> HIDE DEF met
<1>4. met \in AllFound
  <2>1. \A s \in Strategy : met[s] \in SUBSET DOMAIN Weight[s]
    BY <1>2, <1>3
  <2> QED
    BY <1>2, <2>1 DEF AllFound
<1> QED
  BY <1>2, <1>4 DEF met

(* A feature that is None meets no condition, and the others meet what     *)
(* they met.                                                               *)
LEMMA LessIsMet ==
  ASSUME NEW m15, NEW h1, NEW l15, NEW l1,
         \A k \in {"fast", "slow", "rsi", "relVol", "high", "close"} :
           l15[k] \in {None, m15[k]},
         \A k \in {"fast", "slow", "high", "low"} : l1[k] \in {None, h1[k]}
  PROVE  /\ \A c \in DOMAIN Weight[Trend] :
              TrendConditions(l15, l1)[c] => TrendConditions(m15, h1)[c]
         /\ \A c \in DOMAIN Weight[Breakout] :
              BreakoutConditions(l15, l1)[c] => BreakoutConditions(m15, h1)[c]
<1>1. (Above(l1) => Above(h1)) /\ (Above(l15) => Above(m15))
  BY DEF Above
<1>2. \A low, high : InZone(l15.rsi, low, high) => InZone(m15.rsi, low, high)
  BY DEF InZone
<1>3. \A least : Active(l15.relVol, least) => Active(m15.relVol, least)
  BY DEF Active
<1>4. NotExtended(l15) => NotExtended(m15)
  BY DEF NotExtended, HasDistance
<1>5. NotChasing(l15) => NotChasing(m15)
  BY DEF NotChasing, HasDistance
<1>6. Consolidates(l1) => Consolidates(h1)
  BY DEF Consolidates
<1>7. AtBreakout(l15) => AtBreakout(m15)
  BY DEF AtBreakout
<1> QED
  BY <1>1, <1>2, <1>3, <1>4, <1>5, <1>6, <1>7, ScoresAreSums
     DEF TrendConditions, BreakoutConditions

(* With fewer features, each strategy scores less, and so does the signal. *)
LEMMA LessScoresLess ==
  ASSUME NEW o \in Orders, NEW m15, NEW h1, NEW l15, NEW l1,
         \A k \in {"fast", "slow", "rsi", "relVol", "high", "close"} :
           l15[k] \in {None, m15[k]},
         \A k \in {"fast", "slow", "high", "low"} : l1[k] \in {None, h1[k]}
  PROVE  Best(o, Evaluations(l15, l1)) <= Best(o, Evaluations(m15, h1))
<1> DEFINE less == Evaluations(l15, l1)
           more == Evaluations(m15, h1)
<1>1. less \in AllFound /\ more \in AllFound
  BY Found
<1>2. less[Trend] \subseteq more[Trend] /\ less[Breakout] \subseteq more[Breakout]
  BY Found, LessIsMet
<1> HIDE DEF less, more
<1>3. \A s \in Strategy : Score(s, less[s]) <= Score(s, more[s])
  <2>1. \A s \in Strategy : less[s] \in SUBSET more[s]
    BY <1>2 DEF Strategy, Trend, Breakout
  <2> QED
    BY <1>1, <2>1, MoreNeverScoresLess DEF AllFound
<1>4. \A s \in Strategy : /\ Score(s, less[s]) \in Nat
                          /\ Score(s, more[s]) \in Nat
                          /\ Score(s, more[s]) <= Best(o, more)
  BY <1>1, BestIs, ScoreBounds DEF AllFound
<1>5. Best(o, more) \in Nat /\ Best(o, less) \in Nat
  BY <1>1, BestIs
<1>6. Best(o, less) = 0 \/ \E s \in Strategy : Best(o, less) = Score(s, less[s])
  BY <1>1, BestIs
<1>7. Best(o, less) <= Best(o, more)
  BY <1>3, <1>4, <1>5, <1>6
<1> QED
  BY <1>7 DEF less, more

(* No score above 45 without the 15 minute RSI, and none without both the  *)
(* hourly averages and the 20-bar window of the 15 minute bars.            *)
LEMMA WarmUpScores ==
  ASSUME NEW o \in Orders, NEW n15 \in Nat, NEW n1 \in Nat,
         NEW m15 \in M15Features(n15), NEW h1 \in H1Features(n1),
         n15 < 15 \/ (n1 < 21 /\ n15 < 20)
  PROVE  Best(o, Evaluations(m15, h1)) <= 45
<1> DEFINE met == Evaluations(m15, h1)
<1>1. /\ n15 < 15 => m15.rsi = None
      /\ n15 < 20 => m15.relVol = None /\ m15.high = None
      /\ n15 < 21 => m15.slow = None
      /\ n1 < 21 => h1.slow = None
  BY DEF M15Features, H1Features, Known
<1>2. /\ ~Active(m15.relVol, 8) /\ ~Active(m15.relVol, 15)
      /\ ~AtBreakout(m15) /\ ~Above(m15)
      /\ ~Above(h1) \/ ~InZone(m15.rsi, 50, 75)
  BY <1>1 DEF Active, AtBreakout, Above, InZone
<1>3. /\ met \in AllFound
      /\ "m15_volume" \notin met[Trend] /\ "m15_structure" \notin met[Trend]
      /\ "m15_volume" \notin met[Breakout] /\ "m15_breakout" \notin met[Breakout]
      /\ "h1_trend" \notin met[Trend] \/ "m15_momentum" \notin met[Trend]
  <2>1. /\ TrendConditions(m15, h1)["m15_volume"] = Active(m15.relVol, 8)
        /\ TrendConditions(m15, h1)["m15_structure"] = Above(m15)
        /\ TrendConditions(m15, h1)["h1_trend"] = Above(h1)
        /\ TrendConditions(m15, h1)["m15_momentum"] = InZone(m15.rsi, 50, 75)
        /\ BreakoutConditions(m15, h1)["m15_volume"] = Active(m15.relVol, 15)
        /\ BreakoutConditions(m15, h1)["m15_breakout"] = AtBreakout(m15)
    BY DEF TrendConditions, BreakoutConditions
  <2>2. /\ met \in AllFound
        /\ \A c \in met[Trend] : TrendConditions(m15, h1)[c]
        /\ \A c \in met[Breakout] : BreakoutConditions(m15, h1)[c]
    BY Found
  <2> HIDE DEF met
  <2> QED
    BY <1>2, <2>1, <2>2
<1> HIDE DEF met
<1>4. Score(Trend, met[Trend]) <= 45
  <2>1. met[Trend] \in SUBSET DOMAIN Weight[Trend]
    BY <1>3, ScoresAreSums DEF AllFound, Strategy, Trend
  <2> QED
    BY <1>3, <2>1, ScoresAreSums DEF Sum5, Part, TrendWeight, OfTrend
<1>5. Score(Breakout, met[Breakout]) <= 45
  <2>1. met[Breakout] \in SUBSET DOMAIN Weight[Breakout]
    BY <1>3, ScoresAreSums DEF AllFound, Strategy, Breakout
  <2> QED
    BY <1>3, <2>1, ScoresAreSums DEF Sum5, Part, BreakoutWeight, OfBreakout
<1>6. Best(o, met) = 0 \/ \E s \in Strategy : Best(o, met) = Score(s, met[s])
  BY <1>3, BestIs
<1> QED
  BY <1>4, <1>5, <1>6 DEF met, Strategy, Trend, Breakout

(* A condition that is met had the closed bars it asks for.                *)
LEMMA MetHasBars ==
  ASSUME NEW n15 \in Nat, NEW n1 \in Nat,
         NEW m15 \in M15Features(n15), NEW h1 \in H1Features(n1),
         NEW s \in Strategy, NEW c \in Evaluations(m15, h1)[s]
  PROVE  /\ c \in DOMAIN Weight[s]
         /\ (IF c \in {"h1_trend", "h1_consolidation"} THEN n1 ELSE n15)
              >= BarsNeeded[s][c]
<1>1. /\ n15 < 9 => m15.fast = None
      /\ n15 < 15 => m15.rsi = None
      /\ n15 < 20 => m15.relVol = None /\ m15.high = None
      /\ n15 < 21 => m15.slow = None
      /\ n1 < 20 => h1.high = None
      /\ n1 < 21 => h1.slow = None
  BY DEF M15Features, H1Features, Known
<1>2. CASE s = Trend
  <2>1. c \in DOMAIN Weight[Trend] /\ TrendConditions(m15, h1)[c]
    BY <1>2, Found
  <2>2. c \in {"h1_trend", "m15_structure", "m15_momentum",
               "m15_price_location", "m15_volume"}
    BY <2>1, ScoresAreSums DEF TrendWeight
  <2>3. /\ c = "h1_trend" => n1 >= 21
        /\ c = "m15_structure" => n15 >= 21
        /\ c = "m15_momentum" => n15 >= 15
        /\ c = "m15_price_location" => n15 >= 9
        /\ c = "m15_volume" => n15 >= 20
    <3>1. /\ TrendConditions(m15, h1)["h1_trend"] = Above(h1)
          /\ TrendConditions(m15, h1)["m15_structure"] = Above(m15)
          /\ TrendConditions(m15, h1)["m15_momentum"] = InZone(m15.rsi, 50, 75)
          /\ TrendConditions(m15, h1)["m15_price_location"] = NotExtended(m15)
          /\ TrendConditions(m15, h1)["m15_volume"] = Active(m15.relVol, 8)
      BY DEF TrendConditions
    <3>2. /\ n1 < 21 => ~Above(h1)
          /\ n15 < 21 => ~Above(m15)
          /\ n15 < 15 => ~InZone(m15.rsi, 50, 75)
          /\ n15 < 9 => ~NotExtended(m15)
          /\ n15 < 20 => ~Active(m15.relVol, 8)
      BY <1>1 DEF Above, InZone, NotExtended, HasDistance, Active
    <3> QED
      BY <2>1, <3>1, <3>2
  <2>4. BarsNeeded[s] =
          [h1_trend |-> 21, m15_structure |-> 21, m15_momentum |-> 15,
           m15_price_location |-> 9, m15_volume |-> 20]
    BY <1>2 DEF BarsNeeded, Trend
  <2> QED
    BY <1>2, <2>1, <2>2, <2>3, <2>4
<1>3. CASE s = Breakout
  <2>1. c \in DOMAIN Weight[Breakout] /\ BreakoutConditions(m15, h1)[c]
    BY <1>3, Found
  <2>2. c \in {"h1_consolidation", "m15_breakout", "m15_volume",
               "m15_momentum", "m15_not_extended"}
    BY <2>1, ScoresAreSums DEF BreakoutWeight
  <2>3. /\ c = "h1_consolidation" => n1 >= 20
        /\ c = "m15_breakout" => n15 >= 20
        /\ c = "m15_volume" => n15 >= 20
        /\ c = "m15_momentum" => n15 >= 15
        /\ c = "m15_not_extended" => n15 >= 9
    <3>1. /\ BreakoutConditions(m15, h1)["h1_consolidation"] = Consolidates(h1)
          /\ BreakoutConditions(m15, h1)["m15_breakout"] = AtBreakout(m15)
          /\ BreakoutConditions(m15, h1)["m15_volume"] = Active(m15.relVol, 15)
          /\ BreakoutConditions(m15, h1)["m15_momentum"] = InZone(m15.rsi, 55, 80)
          /\ BreakoutConditions(m15, h1)["m15_not_extended"] = NotChasing(m15)
      BY DEF BreakoutConditions
    <3>2. /\ n1 < 20 => ~Consolidates(h1)
          /\ n15 < 20 => ~AtBreakout(m15) /\ ~Active(m15.relVol, 15)
          /\ n15 < 15 => ~InZone(m15.rsi, 55, 80)
          /\ n15 < 9 => ~NotChasing(m15)
      BY <1>1 DEF Consolidates, AtBreakout, InZone, NotChasing, HasDistance,
                  Active
    <3> QED
      BY <2>1, <3>1, <3>2
  <2>4. BarsNeeded[s] =
          [h1_consolidation |-> 20, m15_breakout |-> 20, m15_volume |-> 20,
           m15_momentum |-> 15, m15_not_extended |-> 9]
    BY <1>3 DEF BarsNeeded, Breakout
  <2> QED
    BY <1>3, <2>1, <2>2, <2>3, <2>4
<1> QED
  BY <1>2, <1>3 DEF Strategy, Trend, Breakout

-----------------------------------------------------------------------------
(* The specification *)

(* What a run may find was computed from as many closed bars as there are, *)
(* or from none.                                                           *)
LEMMA OutcomesAreFound ==
  ASSUME TypeOK, NEW n15 \in {0, bars["m15"]}, NEW n1 \in {0, bars["h1"]},
         NEW met \in Outcomes[<<n15, n1>>]
  PROVE  /\ n15 \in Nat /\ n1 \in Nat /\ n15 <= bars["m15"] /\ n1 <= bars["h1"]
         /\ \E m15 \in M15Features(n15), h1 \in H1Features(n1) :
              met = Evaluations(m15, h1)
         /\ met \in AllFound
<1>1. n15 \in Counts /\ n1 \in Counts /\ bars["m15"] \in Nat /\ bars["h1"] \in Nat
  BY CountsAreNat DEF TypeOK
<1>2. Outcomes[<<n15, n1>>] =
        {Evaluations(m15, h1) : m15 \in M15Features(n15), h1 \in H1Features(n1)}
  BY <1>1 DEF Outcomes
<1>3. \E m15 \in M15Features(n15), h1 \in H1Features(n1) : met = Evaluations(m15, h1)
  BY <1>2
<1> QED
  BY <1>1, <1>3, CountsAreNat, Found

(* What the conditions ask for are numbers.                                *)
LEMMA NeedsAreNat ==
  ASSUME NEW s \in Strategy, NEW c \in DOMAIN Weight[s]
  PROVE  BarsNeeded[s][c] \in Nat
BY DEF BarsNeeded, Strategy, Weight, TrendWeight, BreakoutWeight

(* The inductive invariant holds before the first bar.                     *)
LEMMA InitIInv == Init => IInv
BY CountsAreNat DEF Init, IInv, TypeOK, HeldWasWorthIt, EntryIsWarmedUp,
                    ExitTakesTwoConditions

(* An entry has the score, and so the bars.                                *)
LEMMA EnterKeeps ==
  ASSUME IInv, NEW n15 \in {0, bars["m15"]}, NEW n1 \in {0, bars["h1"]},
         NEW met \in Outcomes[<<n15, n1>>], Enter(met)
  PROVE  IInv'
<1> DEFINE s == Selected(order, met)
<1>1. /\ Best(order, met) >= EnterScore
      /\ held' = [by |-> s, met |-> met[s]]
      /\ order' = order /\ bars' = bars /\ turned' = turned
      /\ blind' = blind
  BY DEF Enter
<1>2. PICK m15 \in M15Features(n15), h1 \in H1Features(n1) :
             met = Evaluations(m15, h1)
  BY OutcomesAreFound DEF IInv
<1>3. /\ n15 \in Nat /\ n1 \in Nat /\ n15 <= bars["m15"] /\ n1 <= bars["h1"]
      /\ met \in AllFound /\ order \in Orders
      /\ bars["m15"] \in Nat /\ bars["h1"] \in Nat
  BY OutcomesAreFound, CountsAreNat DEF IInv, TypeOK
<1>4. /\ s \in Strategy /\ met[s] \in SUBSET DOMAIN Weight[s]
      /\ Score(s, met[s]) >= EnterScore
  BY <1>1, <1>3, BestIs, WarmUpScoresLess, ThresholdsApart DEF AllFound
<1>5. n15 >= 15 /\ (n1 >= 21 \/ n15 >= 20)
  <2>1. Best(order, met) \in Nat /\ ~(Best(order, met) <= 45)
    BY <1>1, <1>3, BestIs, WarmUpScoresLess, ThresholdsApart
  <2> QED
    BY <1>2, <1>3, <2>1, WarmUpScores
<1> HIDE DEF s
<1>6. EntryIsWarmedUp'
  <2>1. ASSUME NEW c \in met[s]
        PROVE  bars[IF c \in {"h1_trend", "h1_consolidation"} THEN "h1" ELSE "m15"]
                 >= BarsNeeded[s][c]
    <3>1. /\ (IF c \in {"h1_trend", "h1_consolidation"} THEN n1 ELSE n15)
               >= BarsNeeded[s][c]
          /\ c \in DOMAIN Weight[s]
      BY <1>2, <1>3, <1>4, <2>1, MetHasBars
    <3>2. BarsNeeded[s][c] \in Nat
      BY <1>4, <3>1, NeedsAreNat
    <3> QED
      BY <1>3, <3>1, <3>2
  <2> QED
    BY <1>1, <1>3, <1>5, <2>1 DEF EntryIsWarmedUp, BarsOf
<1>7. HeldWasWorthIt'
  BY <1>1, <1>4 DEF HeldWasWorthIt
<1> QED
  BY <1>1, <1>6, <1>7 DEF IInv, TypeOK, ExitTakesTwoConditions

(* An exit has a score that is two conditions below the entry's.           *)
LEMMA DeteriorateKeeps ==
  ASSUME IInv, NEW n15 \in {0, bars["m15"]}, NEW n1 \in {0, bars["h1"]},
         NEW met \in Outcomes[<<n15, n1>>], NEW lacking \in BOOLEAN,
         Deteriorate(met, lacking)
  PROVE  IInv'
<1> DEFINE was == held.met
           is == met[held.by]
<1>1. /\ held # None /\ Best(order, met) <= ExitScore
      /\ held' = None /\ turned' = Cardinality(was \ is)
      /\ order' = order /\ bars' = bars /\ blind' = lacking
  BY DEF Deteriorate
<1>2. met \in AllFound /\ order \in Orders
  BY OutcomesAreFound DEF IInv, TypeOK
<1>3. /\ held.by \in Strategy
      /\ was \in SUBSET DOMAIN Weight[held.by]
      /\ is \in SUBSET DOMAIN Weight[held.by]
      /\ Score(held.by, was) >= EnterScore
  BY <1>1, <1>2 DEF IInv, HeldWasWorthIt, AllFound
<1>4. Score(held.by, is) <= Best(order, met) /\ Best(order, met) \in Nat
  BY <1>2, <1>3, BestIs
<1>5. Score(held.by, was) \in Int /\ Score(held.by, is) \in Int
  BY <1>3, ScoreBounds
<1> HIDE DEF was, is
<1>6. Score(held.by, was) > Score(held.by, is) + 30
  BY <1>1, <1>3, <1>4, <1>5, ThresholdsApart
<1>7. Cardinality(was \ is) >= 2
  BY <1>3, <1>6, TwoHaveTurned
<1> QED
  BY <1>1, <1>7 DEF IInv, TypeOK, HeldWasWorthIt, EntryIsWarmedUp,
                    ExitTakesTwoConditions

(* Every step keeps the inductive invariant.                               *)
LEMMA StepIInv == IInv /\ [Next]_vars => IInv'
<1> SUFFICES ASSUME IInv, [Next]_vars PROVE IInv'
  OBVIOUS
<1>1. CASE BarCloses
  <2>1. PICK tf \in {"m15", "h1"}, n \in Counts :
          /\ n > bars[tf] /\ bars' = [bars EXCEPT ![tf] = n]
          /\ order' = order /\ held' = held /\ turned' = turned
          /\ blind' = blind
    BY <1>1 DEF BarCloses, BarsClose
  <2>2. /\ bars' \in [{"m15", "h1"} -> Counts]
        /\ \A t \in {"m15", "h1"} :
             bars[t] \in Nat /\ bars'[t] \in Nat /\ bars[t] <= bars'[t]
    <3>1. bars \in [{"m15", "h1"} -> Counts] /\ Counts \subseteq Nat
      BY CountsAreNat DEF IInv, TypeOK
    <3>2. bars' \in [{"m15", "h1"} -> Counts]
      BY <2>1, <3>1
    <3>3. \A t \in {"m15", "h1"} : bars'[t] = IF t = tf THEN n ELSE bars[t]
      BY <2>1, <3>1
    <3>4. n \in Nat /\ \A t \in {"m15", "h1"} : bars[t] \in Nat
      BY <3>1
    <3> QED
      BY <2>1, <3>2, <3>3, <3>4
  <2>3. EntryIsWarmedUp'
    <3>1. ASSUME held # None, NEW c \in held.met
          PROVE  BarsOf(c)' >= BarsNeeded[held.by][c]
      <4>1. BarsOf(c) >= BarsNeeded[held.by][c]
        BY <3>1 DEF IInv, EntryIsWarmedUp
      <4>2. BarsOf(c) \in Nat /\ BarsOf(c)' \in Nat /\ BarsOf(c) <= BarsOf(c)'
        BY <2>2 DEF BarsOf
      <4>3. BarsNeeded[held.by][c] \in Nat
        BY <3>1, NeedsAreNat DEF IInv, HeldWasWorthIt
      <4> QED
        BY <4>1, <4>2, <4>3
    <3> QED
      BY <2>1, <2>2, <3>1 DEF IInv, EntryIsWarmedUp
  <2> QED
    BY <2>1, <2>2, <2>3 DEF IInv, TypeOK, HeldWasWorthIt, ExitTakesTwoConditions
<1>2. CASE Cycle
  <2>1. PICK n15 \in {0, bars["m15"]}, n1 \in {0, bars["h1"]} :
          \E met \in Outcomes[<<n15, n1>>] :
            Enter(met) \/ Deteriorate(met, n15 < bars["m15"] \/ n1 < bars["h1"])
    BY <1>2 DEF Cycle
  <2>2. (n15 < bars["m15"] \/ n1 < bars["h1"]) \in BOOLEAN
    OBVIOUS
  <2> QED
    BY <2>1, <2>2, EnterKeeps, DeteriorateKeeps
<1>3. CASE PriceExit
  BY <1>3 DEF PriceExit, IInv, TypeOK, HeldWasWorthIt, EntryIsWarmedUp,
              ExitTakesTwoConditions
<1>4. CASE UNCHANGED vars
  BY <1>4 DEF vars, IInv, TypeOK, HeldWasWorthIt, EntryIsWarmedUp, BarsOf,
              ExitTakesTwoConditions
<1> QED
  BY <1>1, <1>2, <1>3, <1>4 DEF Next

(* The inductive invariant, in every reachable state.                      *)
THEOREM Inductive == Spec => []IInv
<1> QED BY InitIInv, StepIInv, PTL DEF Spec

(* No position is opened on a warm-up, for any threshold above 0.45        *)
(* (DecisionEngine against the strategies' weights and FeatureEngine's     *)
(* minimum histories).                                                     *)
THEOREM EntriesAreWarmedUp == Spec => []EntryIsWarmedUp
<1>1. IInv => EntryIsWarmedUp BY DEF IInv
<1> QED BY <1>1, Inductive, PTL

(* At an exit for signal deterioration two conditions have turned, for any *)
(* thresholds more than 0.30 apart (ExitEvaluator, DecisionEngine).        *)
THEOREM ExitsTakeTwo == Spec => []ExitTakesTwoConditions
<1>1. IInv => ExitTakesTwoConditions BY DEF IInv
<1> QED BY <1>1, Inductive, PTL

(* A feature less never raises the selected score, for any values of the   *)
(* others (the None handling of the strategies, SignalEngine.evaluate).    *)
THEOREM LessNeverHelps == Spec => []MissingNeverHelps
<1>1. ASSUME TypeOK PROVE MissingNeverHelps
  <2> SUFFICES ASSUME NEW f \in Features
               PROVE  LET best == Best(order, Evaluations(f[1], f[2]))
                      IN  /\ \A m15 \in Weaker(f[1]) :
                               Best(order, Evaluations(m15, f[2])) <= best
                          /\ \A h1 \in Weaker(f[2]) :
                               Best(order, Evaluations(f[1], h1)) <= best
    BY DEF MissingNeverHelps
  <2>1. /\ DOMAIN f[1] = {"fast", "slow", "rsi", "relVol", "high", "close"}
        /\ DOMAIN f[2] = {"fast", "slow", "high", "low"}
    BY DEF Features, M15Features, H1Features
  <2>2. \A m15 \in Weaker(f[1]) :
          \A k \in {"fast", "slow", "rsi", "relVol", "high", "close"} :
            m15[k] \in {None, f[1][k]}
    BY <2>1 DEF Weaker
  <2>3. \A h1 \in Weaker(f[2]) :
          \A k \in {"fast", "slow", "high", "low"} : h1[k] \in {None, f[2][k]}
    BY <2>1 DEF Weaker
  <2> QED
    BY <1>1, <2>2, <2>3, LessScoresLess DEF TypeOK
<1>2. IInv => TypeOK BY DEF IInv
<1> QED BY <1>1, <1>2, Inductive, PTL

(* The order of registration decides nothing, and the dashboard names the  *)
(* strategy that was selected (SignalEngine.evaluate, _build_runner,       *)
(* _entry_to_decision_row).                                                *)
THEOREM OrderIsIgnored == Spec => []SelectionIgnoresOrder
<1>1. ASSUME TypeOK PROVE SelectionIgnoresOrder
  <2>1. \A f \in Features : Evaluations(f[1], f[2]) \in AllFound
    BY Found
  <2> QED
    BY <1>1, <2>1, SelectedIs DEF TypeOK, SelectionIgnoresOrder
<1>2. IInv => TypeOK BY DEF IInv
<1> QED BY <1>1, <1>2, Inductive, PTL

-----------------------------------------------------------------------------
(* Sums *)

LastOf(S) == Max(S)

Added(v, total) == total + v

Adding == INSTANCE Folding WITH op <- Added, choose <- LastOf

(* Max takes the last of any positions.                                    *)
LEMMA LastIsMax == \A T : LastOf(T) = CHOOSE m \in T : \A i \in T : m >= i
BY DEF LastOf, Max

(* sum() is a fold over the positions.                                     *)
LEMMA SumIsFold ==
  ASSUME NEW values
  PROVE  Sum(values) = Adding!Fold(0, values, DOMAIN values)
BY DEF Sum, FoldLeft, MapThenFoldSet, Adding!Fold, Adding!MapThenFoldSet, Added,
       LastOf

(* Nothing adds up to 0.                                                   *)
LEMMA SumOfNone == Sum(<< >>) = 0
<1>1. Adding!TakesLast(0)
  BY LastIsMax, Adding!GreatestTakesLast
<1> QED
  BY <1>1, SumIsFold, Adding!FoldOfNone

(* The sum of one value more is larger by that value.                      *)
LEMMA SumOfAppend ==
  ASSUME NEW values \in Seq(Int), NEW v \in Int
  PROVE  Sum(Append(values, v)) = Sum(values) + v
<1>1. Adding!TakesLast(Len(values) + 1)
  <2>1. Len(values) + 1 \in Nat
    OBVIOUS
  <2> QED
    BY <2>1, LastIsMax, Adding!GreatestTakesLast
<1>2. Adding!Fold(0, Append(values, v), DOMAIN Append(values, v)) =
      Added(v, Adding!Fold(0, values, DOMAIN values))
  BY <1>1, Adding!FoldOfAppend
<1> QED
  BY <1>2, SumIsFold DEF Added

(* A sum of integers is one.                                               *)
LEMMA SumOfInt ==
  ASSUME NEW values \in Seq(Int)
  PROVE  Sum(values) \in Int
<1> DEFINE F == {s \in Seq(Int) : Sum(s) \in Int}
<1>1. << >> \in F
  BY SumOfNone
<1>2. ASSUME NEW s \in Seq(Int), NEW v \in Int, s \in F PROVE Append(s, v) \in F
  BY <1>2, SumOfAppend
<1> HIDE DEF F
<1>3. Seq(Int) \subseteq F
  BY <1>1, <1>2, Adding!InductionOnSeq
<1> QED
  BY <1>3 DEF F

(* What a longer sequence consists of.                                     *)
LEMMA AppendElements ==
  ASSUME NEW X, NEW s \in Seq(X), NEW x \in X
  PROVE  /\ Append(s, x) \in Seq(X) /\ Len(s) \in Nat
         /\ Len(Append(s, x)) = Len(s) + 1
         /\ DOMAIN s = 1..Len(s) /\ DOMAIN Append(s, x) = 1..(Len(s) + 1)
         /\ Append(s, x)[Len(s) + 1] = x
         /\ \A i \in 1..Len(s) : Append(s, x)[i] = s[i]
         /\ \A i \in 1..Len(s) : s[i] \in X
OBVIOUS

(* A function on the first naturals is a sequence.                         *)
LEMMA SeqOfFunction ==
  ASSUME NEW X, NEW m \in Nat, NEW f, f = [i \in 1..m |-> f[i]],
         \A i \in 1..m : f[i] \in X
  PROVE  f \in Seq(X) /\ Len(f) = m
<1> DEFINE g == [i \in 1..m |-> f[i]]
<1>1. g \in Seq(X) /\ Len(g) = m
  OBVIOUS
<1> HIDE DEF g
<1>2. f = g
  BY DEF g
<1> QED
  BY <1>1, <1>2

(* What one more value changes.                                            *)
LEMMA OneMore ==
  ASSUME NEW s \in Seq(Int), NEW v \in Int
  PROVE  /\ Len(s) \in Nat /\ Len(Append(s, v)) = Len(s) + 1
         /\ Append(s, v)[Len(s) + 1] = v /\ Append(s, v) \in Seq(Int)
         /\ Sum(Append(s, v)) = Sum(s) + v /\ Sum(s) \in Int
<1>1. Sum(Append(s, v)) = Sum(s) + v
  BY SumOfAppend
<1>2. Sum(s) \in Int
  BY SumOfInt
<1>3. /\ Len(s) \in Nat /\ Len(Append(s, v)) = Len(s) + 1
      /\ Append(s, v)[Len(s) + 1] = v /\ Append(s, v) \in Seq(Int)
  BY AppendElements
<1> QED
  BY <1>1, <1>2, <1>3

Between(values, lo, hi) ==
  \A i \in DOMAIN values : lo <= values[i] /\ values[i] <= hi

(* What holds between bounds holds between them of a part.                 *)
LEMMA BetweenOfAppend ==
  ASSUME NEW s \in Seq(Int), NEW v \in Int, NEW lo \in Int, NEW hi \in Int,
         Between(Append(s, v), lo, hi)
  PROVE  Between(s, lo, hi) /\ lo <= v /\ v <= hi
<1>1. Len(s) + 1 \in 1..(Len(s) + 1) /\ \A i \in 1..Len(s) : i \in 1..(Len(s) + 1)
  BY AppendElements
<1> QED
  BY <1>1, AppendElements DEF Between

(* A sum is between as many times the least and the greatest value.        *)
LEMMA SumBetween ==
  ASSUME NEW lo \in Int, NEW hi \in Int, NEW values \in Seq(Int),
         Between(values, lo, hi)
  PROVE  lo * Len(values) <= Sum(values) /\ Sum(values) <= hi * Len(values)
<1> DEFINE F == {s \in Seq(Int) :
                   Between(s, lo, hi) =>
                     lo * Len(s) <= Sum(s) /\ Sum(s) <= hi * Len(s)}
<1>1. << >> \in F
  <2>1. Len(<< >>) = 0 /\ lo * 0 = 0 /\ hi * 0 = 0
    OBVIOUS
  <2> QED
    BY <2>1, SumOfNone
<1>2. ASSUME NEW s \in Seq(Int), NEW v \in Int, s \in F PROVE Append(s, v) \in F
  <2>1. SUFFICES ASSUME Between(Append(s, v), lo, hi)
                 PROVE  /\ lo * Len(Append(s, v)) <= Sum(Append(s, v))
                        /\ Sum(Append(s, v)) <= hi * Len(Append(s, v))
    BY AppendElements
  <2>2. lo * Len(s) <= Sum(s) /\ Sum(s) <= hi * Len(s) /\ lo <= v /\ v <= hi
    BY <1>2, <2>1, BetweenOfAppend
  <2>3. Len(Append(s, v)) = Len(s) + 1 /\ Sum(Append(s, v)) = Sum(s) + v
    BY AppendElements, SumOfAppend
  <2>4. Sum(s) \in Int /\ Len(s) \in Nat
    BY SumOfInt
  <2>5. lo * (Len(s) + 1) = lo * Len(s) + lo /\ hi * (Len(s) + 1) = hi * Len(s) + hi
    BY <2>4
  <2> DEFINE l == lo * Len(s)
             h == hi * Len(s)
  <2>6. l \in Int /\ h \in Int
    BY <2>4
  <2> HIDE DEF l, h
  <2>7. l <= Sum(s) /\ Sum(s) <= h
    BY <2>2 DEF l, h
  <2>8. l + lo <= Sum(s) + v /\ Sum(s) + v <= h + hi
    BY <2>2, <2>4, <2>6, <2>7
  <2> QED
    BY <2>3, <2>5, <2>8 DEF l, h
<1> HIDE DEF F
<1>3. Seq(Int) \subseteq F
  BY <1>1, <1>2, Adding!InductionOnSeq
<1> QED
  BY <1>3 DEF F

AllZero(values) == \A i \in DOMAIN values : values[i] = 0

(* All are 0 if the rest and the last are.                                 *)
LEMMA AllZeroOfAppend ==
  ASSUME NEW s \in Seq(Nat), NEW v \in Nat
  PROVE  AllZero(Append(s, v)) <=> AllZero(s) /\ v = 0
<1>1. /\ Len(s) + 1 \in 1..(Len(s) + 1)
      /\ \A i \in 1..Len(s) : i \in 1..(Len(s) + 1)
      /\ \A i \in 1..(Len(s) + 1) : i = Len(s) + 1 \/ i \in 1..Len(s)
  BY AppendElements
<1> QED
  BY <1>1, AppendElements DEF AllZero

(* A sum of naturals is one, and 0 only if all of them are.                *)
LEMMA SumOfNat ==
  ASSUME NEW values \in Seq(Nat)
  PROVE  /\ Sum(values) \in Nat
         /\ Sum(values) = 0 <=> AllZero(values)
<1> DEFINE F == {s \in Seq(Nat) :
                   Sum(s) \in Nat /\ (Sum(s) = 0 <=> AllZero(s))}
<1>1. << >> \in F
  BY SumOfNone DEF AllZero
<1>2. ASSUME NEW s \in Seq(Nat), NEW v \in Nat, s \in F PROVE Append(s, v) \in F
  <2>1. s \in Seq(Int) /\ v \in Int /\ Append(s, v) \in Seq(Nat)
    OBVIOUS
  <2>2. Sum(Append(s, v)) = Sum(s) + v
    BY <2>1, SumOfAppend
  <2>3. Sum(s) \in Nat /\ (Sum(s) = 0 <=> AllZero(s))
    BY <1>2
  <2>4. Sum(s) + v \in Nat /\ (Sum(s) + v = 0 <=> Sum(s) = 0 /\ v = 0)
    BY <2>3
  <2> QED
    BY <2>1, <2>2, <2>3, <2>4, AllZeroOfAppend
<1> HIDE DEF F
<1>3. Seq(Nat) \subseteq F
  BY <1>1, <1>2, Adding!InductionOnSeq
<1> QED
  BY <1>3 DEF F

-----------------------------------------------------------------------------
(* The loops of _ema, _rsi and _atr: one more value, one more turn *)

FastTurn(v, ema) == EmaTurn(Fast, ema, v)
SlowTurn(v, ema) == EmaTurn(Slow, ema, v)
SmoothTurn(v, avg) == WilderTurn(Wilder, avg, v)

FastLoop == INSTANCE Folding WITH op <- FastTurn, choose <- LastOf
SlowLoop == INSTANCE Folding WITH op <- SlowTurn, choose <- LastOf
SmoothLoop == INSTANCE Folding WITH op <- SmoothTurn, choose <- LastOf

(* The seed stays the same when a value comes in, and that value comes last.*)
LEMMA SeedAndRest ==
  ASSUME NEW values \in Seq(Int), NEW p \in Nat, Len(values) >= p
  PROVE  /\ Oldest(values, p) \in Seq(Int) /\ After(values, p) \in Seq(Int)
         /\ Len(Oldest(values, p)) = p
         /\ \A v \in Int :
              /\ Oldest(Append(values, v), p) = Oldest(values, p)
              /\ After(Append(values, v), p) = Append(After(values, p), v)
         /\ Len(values) = p =>
              Oldest(values, p) = values /\ After(values, p) = << >>
<1> DEFINE n == Len(values)
<1>1. /\ n \in Nat /\ p \in 0..n /\ DOMAIN values = 1..n
      /\ \A i \in 1..n : values[i] \in Int
  OBVIOUS
<1>2. /\ Oldest(values, p) \in Seq(Int) /\ Len(Oldest(values, p)) = p
      /\ \A i \in 1..p : Oldest(values, p)[i] = values[i]
  BY <1>1 DEF Oldest
<1>3. /\ After(values, p) \in Seq(Int) /\ Len(After(values, p)) = n - p
      /\ \A i \in 1..(n - p) : After(values, p)[i] = values[p + i]
  <2>1. n - (p + 1) + 1 = n - p /\ n - p \in Nat
    BY <1>1
  <2>2. After(values, p) = [i \in 1..(n - p) |-> values[(p + 1) + i - 1]]
    BY <1>1, <2>1 DEF After
  <2>3. \A i \in 1..(n - p) : (p + 1) + i - 1 = p + i /\ p + i \in 1..n
    BY <1>1
  <2> QED
    BY <1>1, <2>1, <2>2, <2>3
<1>4. ASSUME NEW v \in Int
      PROVE  /\ Oldest(Append(values, v), p) = Oldest(values, p)
             /\ After(Append(values, v), p) = Append(After(values, p), v)
  <2> DEFINE longer == Append(values, v)
  <2>1. /\ longer \in Seq(Int) /\ Len(longer) = n + 1
        /\ longer[n + 1] = v /\ \A i \in 1..n : longer[i] = values[i]
    OBVIOUS
  <2> HIDE DEF longer, n
  <2>2. /\ Oldest(longer, p) \in Seq(Int) /\ Len(Oldest(longer, p)) = p
        /\ \A i \in 1..p : Oldest(longer, p)[i] = longer[i]
    BY <1>1, <2>1 DEF Oldest
  <2>3. \A i \in 1..p : Oldest(longer, p)[i] = Oldest(values, p)[i]
    BY <1>1, <1>2, <2>1, <2>2
  <2>4. Oldest(longer, p) = Oldest(values, p)
    BY <1>2, <2>2, <2>3
  <2>5. /\ After(longer, p) \in Seq(Int) /\ Len(After(longer, p)) = n + 1 - p
        /\ \A i \in 1..(n + 1 - p) : After(longer, p)[i] = longer[p + i]
    BY <1>1, <2>1 DEF After
  <2> DEFINE rest == Append(After(values, p), v)
  <2>6. /\ rest \in Seq(Int) /\ Len(rest) = n + 1 - p
        /\ rest[n + 1 - p] = v
        /\ \A i \in 1..(n - p) : rest[i] = After(values, p)[i]
    BY <1>1, <1>3
  <2> HIDE DEF rest
  <2>7. ASSUME NEW i \in 1..(n + 1 - p) PROVE After(longer, p)[i] = rest[i]
    <3>1. CASE i = n + 1 - p
      BY <1>1, <2>1, <2>5, <2>6, <3>1
    <3>2. CASE i # n + 1 - p
      <4>1. i \in 1..(n - p) /\ p + i \in 1..n
        BY <1>1, <3>2
      <4> QED
        BY <1>3, <2>1, <2>5, <2>6, <4>1
    <3> QED
      BY <3>1, <3>2
  <2>8. After(longer, p) = rest
    BY <2>5, <2>6, <2>7
  <2> QED
    BY <2>4, <2>8 DEF longer, rest
<1>5. ASSUME n = p
      PROVE  Oldest(values, p) = values /\ After(values, p) = << >>
  <2>1. \A i \in 1..p : Oldest(values, p)[i] = values[i]
    BY <1>2
  <2>2. Oldest(values, p) = values
    BY <1>1, <1>2, <1>5, <2>1
  <2>3. After(values, p) = << >>
    BY <1>1, <1>3, <1>5
  <2> QED
    BY <2>2, <2>3
<1> QED
  BY <1>2, <1>3, <1>4, <1>5

(* The three loops are folds over what follows the seed.                   *)
LEMMA LoopsAreFolds ==
  ASSUME NEW values \in Seq(Int)
  PROVE  /\ Len(values) >= Fast =>
              Ema(values, Fast) =
                FastLoop!Fold(Quotient(Sum(Oldest(values, Fast)), Fast),
                              After(values, Fast), DOMAIN After(values, Fast))
         /\ Len(values) >= Slow =>
              Ema(values, Slow) =
                SlowLoop!Fold(Quotient(Sum(Oldest(values, Slow)), Slow),
                              After(values, Slow), DOMAIN After(values, Slow))
         /\ Smoothed(values, Wilder) =
              SmoothLoop!Fold(Quotient(Sum(Oldest(values, Wilder)), Wilder),
                              After(values, Wilder), DOMAIN After(values, Wilder))
<1>1. ASSUME NEW p \in {Fast, Slow}, Len(values) >= p
      PROVE  Ema(values, p) =
               FoldLeft(LAMBDA ema, v : EmaTurn(p, ema, v),
                        Quotient(Sum(Oldest(values, p)), p), After(values, p))
  <2>1. Len(values) \in Nat /\ p \in Nat
    BY PeriodsArePositive
  <2>2. ~(Len(values) < p)
    BY <1>1, <2>1
  <2> QED
    BY <2>2 DEF Ema
<1>2. \A base, s : FoldLeft(LAMBDA ema, v : EmaTurn(Fast, ema, v), base, s) =
                   FastLoop!Fold(base, s, DOMAIN s)
  BY DEF FoldLeft, MapThenFoldSet, FastLoop!Fold, FastLoop!MapThenFoldSet,
         FastTurn, LastOf
<1>3. \A base, s : FoldLeft(LAMBDA ema, v : EmaTurn(Slow, ema, v), base, s) =
                   SlowLoop!Fold(base, s, DOMAIN s)
  BY DEF FoldLeft, MapThenFoldSet, SlowLoop!Fold, SlowLoop!MapThenFoldSet,
         SlowTurn, LastOf
<1>4. Smoothed(values, Wilder) =
        SmoothLoop!Fold(Quotient(Sum(Oldest(values, Wilder)), Wilder),
                        After(values, Wilder), DOMAIN After(values, Wilder))
  BY DEF Smoothed, FoldLeft, MapThenFoldSet, SmoothLoop!Fold,
         SmoothLoop!MapThenFoldSet, SmoothTurn, LastOf
<1>5. Len(values) >= Fast =>
        Ema(values, Fast) =
          FastLoop!Fold(Quotient(Sum(Oldest(values, Fast)), Fast),
                        After(values, Fast), DOMAIN After(values, Fast))
  BY <1>1, <1>2
<1>6. Len(values) >= Slow =>
        Ema(values, Slow) =
          SlowLoop!Fold(Quotient(Sum(Oldest(values, Slow)), Slow),
                        After(values, Slow), DOMAIN After(values, Slow))
  BY <1>1, <1>3
<1> QED
  BY <1>4, <1>5, <1>6

(* The first average is the mean of the first values.                      *)
LEMMA LoopsStart ==
  ASSUME NEW values \in Seq(Int)
  PROVE  /\ \A p \in {Fast, Slow} :
              Len(values) = p => Ema(values, p) = Quotient(Sum(values), p)
         /\ Len(values) = Wilder =>
              Smoothed(values, Wilder) = Quotient(Sum(values), Wilder)
<1>0. Fast \in Nat /\ Slow \in Nat /\ Wilder \in Nat
  BY PeriodsArePositive
<1>1. \A p \in {Fast, Slow, Wilder} :
        Len(values) = p => Oldest(values, p) = values /\ After(values, p) = << >>
  BY <1>0, SeedAndRest
<1>2. FastLoop!TakesLast(0) /\ SlowLoop!TakesLast(0) /\ SmoothLoop!TakesLast(0)
  BY LastIsMax, FastLoop!GreatestTakesLast, SlowLoop!GreatestTakesLast,
     SmoothLoop!GreatestTakesLast
<1>3. \A base : /\ FastLoop!Fold(base, << >>, DOMAIN << >>) = base
                /\ SlowLoop!Fold(base, << >>, DOMAIN << >>) = base
                /\ SmoothLoop!Fold(base, << >>, DOMAIN << >>) = base
  BY <1>2, FastLoop!FoldOfNone, SlowLoop!FoldOfNone, SmoothLoop!FoldOfNone
<1>4. Len(values) = Fast => Ema(values, Fast) = Quotient(Sum(values), Fast)
  BY <1>0, <1>1, <1>3, LoopsAreFolds
<1>5. Len(values) = Slow => Ema(values, Slow) = Quotient(Sum(values), Slow)
  BY <1>0, <1>1, <1>3, LoopsAreFolds
<1>6. Len(values) = Wilder =>
        Smoothed(values, Wilder) = Quotient(Sum(values), Wilder)
  BY <1>1, <1>3, LoopsAreFolds
<1> QED
  BY <1>4, <1>5, <1>6

(* One more value is one more turn of each loop.                           *)
LEMMA LoopsTurn ==
  ASSUME NEW values \in Seq(Int), NEW v \in Int
  PROVE  /\ \A p \in {Fast, Slow} :
              Len(values) >= p =>
                Ema(Append(values, v), p) = EmaTurn(p, Ema(values, p), v)
         /\ Len(values) >= Wilder =>
              Smoothed(Append(values, v), Wilder) =
                WilderTurn(Wilder, Smoothed(values, Wilder), v)
<1> DEFINE longer == Append(values, v)
<1>0. Fast \in Nat /\ Slow \in Nat /\ Wilder \in Nat
  BY PeriodsArePositive
<1>1. Len(values) \in Nat /\ Len(longer) = Len(values) + 1
  OBVIOUS
<1>2. \A p \in {Fast, Slow, Wilder} :
        Len(values) >= p =>
          /\ After(values, p) \in Seq(Int)
          /\ Oldest(longer, p) = Oldest(values, p)
          /\ After(longer, p) = Append(After(values, p), v)
  BY <1>0, SeedAndRest
<1>3. \A n \in Nat : FastLoop!TakesLast(n) /\ SlowLoop!TakesLast(n)
                       /\ SmoothLoop!TakesLast(n)
  BY LastIsMax, FastLoop!GreatestTakesLast, SlowLoop!GreatestTakesLast,
     SmoothLoop!GreatestTakesLast
<1>4. ASSUME NEW base, NEW s \in Seq(Int)
      PROVE  /\ FastLoop!Fold(base, Append(s, v), DOMAIN Append(s, v)) =
                  FastTurn(v, FastLoop!Fold(base, s, DOMAIN s))
             /\ SlowLoop!Fold(base, Append(s, v), DOMAIN Append(s, v)) =
                  SlowTurn(v, SlowLoop!Fold(base, s, DOMAIN s))
             /\ SmoothLoop!Fold(base, Append(s, v), DOMAIN Append(s, v)) =
                  SmoothTurn(v, SmoothLoop!Fold(base, s, DOMAIN s))
  <2>1. Len(s) + 1 \in Nat
    OBVIOUS
  <2> QED
    BY <1>3, <2>1, FastLoop!FoldOfAppend, SlowLoop!FoldOfAppend,
       SmoothLoop!FoldOfAppend
<1> HIDE DEF longer
<1>5. longer \in Seq(Int)
  BY DEF longer
<1>6. \A p \in {Fast, Slow, Wilder} : Len(values) >= p => Len(longer) >= p
  BY <1>0, <1>1
<1>7. ASSUME Len(values) >= Fast
      PROVE  Ema(longer, Fast) = EmaTurn(Fast, Ema(values, Fast), v)
  <2> DEFINE seed == Quotient(Sum(Oldest(values, Fast)), Fast)
             rest == After(values, Fast)
  <2>1. Ema(values, Fast) = FastLoop!Fold(seed, rest, DOMAIN rest)
    BY <1>7, LoopsAreFolds
  <2>2. Ema(longer, Fast) = FastLoop!Fold(seed, Append(rest, v), DOMAIN Append(rest, v))
    <3>1. /\ Oldest(longer, Fast) = Oldest(values, Fast)
          /\ After(longer, Fast) = Append(rest, v)
      BY <1>2, <1>7
    <3>2. Ema(longer, Fast) =
            FastLoop!Fold(Quotient(Sum(Oldest(longer, Fast)), Fast),
                        After(longer, Fast), DOMAIN After(longer, Fast))
      BY <1>5, <1>6, <1>7, LoopsAreFolds
    <3> QED
      BY <3>1, <3>2
  <2>3. rest \in Seq(Int)
    BY <1>2, <1>7
  <2> HIDE DEF seed, rest
  <2> QED
    BY <1>4, <2>1, <2>2, <2>3 DEF FastTurn
<1>8. ASSUME Len(values) >= Slow
      PROVE  Ema(longer, Slow) = EmaTurn(Slow, Ema(values, Slow), v)
  <2> DEFINE seed == Quotient(Sum(Oldest(values, Slow)), Slow)
             rest == After(values, Slow)
  <2>1. Ema(values, Slow) = SlowLoop!Fold(seed, rest, DOMAIN rest)
    BY <1>8, LoopsAreFolds
  <2>2. Ema(longer, Slow) = SlowLoop!Fold(seed, Append(rest, v), DOMAIN Append(rest, v))
    <3>1. /\ Oldest(longer, Slow) = Oldest(values, Slow)
          /\ After(longer, Slow) = Append(rest, v)
      BY <1>2, <1>8
    <3>2. Ema(longer, Slow) =
            SlowLoop!Fold(Quotient(Sum(Oldest(longer, Slow)), Slow),
                        After(longer, Slow), DOMAIN After(longer, Slow))
      BY <1>5, <1>6, <1>8, LoopsAreFolds
    <3> QED
      BY <3>1, <3>2
  <2>3. rest \in Seq(Int)
    BY <1>2, <1>8
  <2> HIDE DEF seed, rest
  <2> QED
    BY <1>4, <2>1, <2>2, <2>3 DEF SlowTurn
<1>9. ASSUME Len(values) >= Wilder
      PROVE  Smoothed(longer, Wilder) = WilderTurn(Wilder, Smoothed(values, Wilder), v)
  <2> DEFINE seed == Quotient(Sum(Oldest(values, Wilder)), Wilder)
             rest == After(values, Wilder)
  <2>1. Smoothed(values, Wilder) = SmoothLoop!Fold(seed, rest, DOMAIN rest)
    BY <1>9, LoopsAreFolds
  <2>2. Smoothed(longer, Wilder) = SmoothLoop!Fold(seed, Append(rest, v), DOMAIN Append(rest, v))
    <3>1. /\ Oldest(longer, Wilder) = Oldest(values, Wilder)
          /\ After(longer, Wilder) = Append(rest, v)
      BY <1>2, <1>9
    <3>2. Smoothed(longer, Wilder) =
            SmoothLoop!Fold(Quotient(Sum(Oldest(longer, Wilder)), Wilder),
                        After(longer, Wilder), DOMAIN After(longer, Wilder))
      BY <1>5, <1>6, <1>9, LoopsAreFolds
    <3> QED
      BY <3>1, <3>2
  <2>3. rest \in Seq(Int)
    BY <1>2, <1>9
  <2> HIDE DEF seed, rest
  <2> QED
    BY <1>4, <2>1, <2>2, <2>3 DEF SmoothTurn
<1> QED
  BY <1>7, <1>8, <1>9 DEF longer

-----------------------------------------------------------------------------
(* Products, for the comparison of quotients *)

(* Products of positive naturals are positive.                             *)
LEMMA ProductOfPositives ==
  ASSUME NEW a \in Nat \ {0}, NEW b \in Nat \ {0}
  PROVE  a * b \in Nat \ {0}
<1>1. a * b \in Int /\ (a - 1) * (b - 1) >= 0
  OBVIOUS
<1>2. a * b = (a - 1) * (b - 1) + (a - 1) + (b - 1) + 1
  OBVIOUS
<1> QED
  BY <1>1, <1>2

(* Products of naturals are naturals.                                      *)
LEMMA ProductOfNat ==
  ASSUME NEW a \in Nat, NEW b \in Nat
  PROVE  a * b \in Nat
<1>1. CASE a = 0 \/ b = 0
  BY <1>1
<1>2. CASE a # 0 /\ b # 0
  BY <1>2, ProductOfPositives
<1> QED
  BY <1>1, <1>2

\* x goes the way of k, which is up (1), down (-1) or nowhere (0)
Goes(k, x) == (k = 1 /\ x > 0) \/ (k = 0 /\ x = 0) \/ (k = -1 /\ x < 0)

\* or nowhere
Leans(k, x) == Goes(k, x) \/ x = 0

(* A positive factor keeps the way.                                        *)
LEMMA GoesTimes ==
  ASSUME NEW k \in {-1, 0, 1}, NEW a \in Nat, NEW x \in Int
  PROVE  /\ a * x \in Int
         /\ Leans(k, x) => Leans(k, a * x)
         /\ a # 0 /\ Goes(k, x) => Goes(k, a * x)
<1>1. a * x \in Int
  OBVIOUS
<1>2. CASE a = 0
  BY <1>2 DEF Leans, Goes
<1>3. CASE a # 0 /\ x = 0
  BY <1>3 DEF Leans, Goes
<1>4. CASE a # 0 /\ x > 0
  <2>1. a * x > 0
    BY <1>4, ProductOfPositives
  <2> QED
    BY <1>1, <1>4, <2>1 DEF Leans, Goes
<1>5. CASE a # 0 /\ x < 0
  <2>1. a * (-x) > 0 /\ a * (-x) = -(a * x)
    BY <1>5, ProductOfPositives
  <2>2. a * x < 0
    BY <1>1, <2>1
  <2> QED
    BY <1>1, <1>5, <2>2 DEF Leans, Goes
<1> QED
  BY <1>1, <1>2, <1>3, <1>4, <1>5

(* What goes the same way adds up that way.                                *)
LEMMA GoesPlus ==
  ASSUME NEW k \in {-1, 0, 1}, NEW x \in Int, NEW y \in Int
  PROVE  /\ Goes(k, x) => Leans(k, x)
         /\ Goes(k, x) /\ Leans(k, y) => Goes(k, x + y)
         /\ Leans(k, x) /\ Leans(k, y) => Leans(k, x + y)
BY DEF Leans, Goes

-----------------------------------------------------------------------------
(* Averages and trends *)

(* An average is a quotient with a positive denominator.                   *)
LEMMA TurnIsQuotient ==
  ASSUME NEW p \in Nat \ {0}, NEW num \in Int, NEW den \in Nat \ {0}, NEW v \in Int
  PROVE  /\ EmaTurn(p, Quotient(num, den), v) =
              Quotient(2 * (v * den) + (p - 1) * num, (p + 1) * den)
         /\ 2 * (v * den) + (p - 1) * num \in Int
         /\ (p + 1) * den \in Nat \ {0}
<1>1. (p + 1) * den \in Nat \ {0}
  BY ProductOfPositives
<1>2. 2 * v * den = 2 * (v * den)
  OBVIOUS
<1> QED
  BY <1>1, <1>2 DEF EmaTurn, Quotient

IsQuotient(q) ==
  q.num \in Int /\ q.den \in Nat \ {0} /\ q = Quotient(q.num, q.den)

(* A pair of an integer and a positive natural is a quotient.              *)
LEMMA QuotientIsQuotient ==
  ASSUME NEW num \in Int, NEW den \in Nat \ {0}
  PROVE  IsQuotient(Quotient(num, den))
BY DEF IsQuotient, Quotient

(* The moving average of integers is a quotient.                           *)
LEMMA EmaIsQuotient ==
  ASSUME NEW p \in {Fast, Slow}, NEW values \in Seq(Int), Len(values) >= p
  PROVE  IsQuotient(Ema(values, p))
<1> DEFINE F == {s \in Seq(Int) : Len(s) >= p => IsQuotient(Ema(s, p))}
<1>0. p \in Nat \ {0}
  BY PeriodsArePositive
<1>1. << >> \in F
  BY <1>0
<1>2. ASSUME NEW s \in Seq(Int), NEW v \in Int, s \in F PROVE Append(s, v) \in F
  <2> SUFFICES ASSUME Len(Append(s, v)) >= p
               PROVE  IsQuotient(Ema(Append(s, v), p))
    OBVIOUS
  <2>1. CASE Len(s) >= p
    <3> DEFINE e == Ema(s, p)
    <3> DEFINE num == e.num
               den == e.den
    <3>1. num \in Int /\ den \in Nat \ {0} /\ e = Quotient(num, den)
      BY <1>2, <2>1 DEF IsQuotient
    <3>2. Ema(Append(s, v), p) = EmaTurn(p, e, v)
      BY <2>1, LoopsTurn
    <3> HIDE DEF e, num, den, F
    <3>3. /\ EmaTurn(p, Quotient(num, den), v) =
               Quotient(2 * (v * den) + (p - 1) * num, (p + 1) * den)
          /\ 2 * (v * den) + (p - 1) * num \in Int
          /\ (p + 1) * den \in Nat \ {0}
      BY <1>0, <3>1, TurnIsQuotient
    <3> QED
      BY <3>1, <3>2, <3>3, QuotientIsQuotient
  <2>2. CASE ~(Len(s) >= p)
    <3>1. Len(Append(s, v)) = p /\ Append(s, v) \in Seq(Int)
      BY <1>0, <2>2, AppendElements
    <3>2. Ema(Append(s, v), p) = Quotient(Sum(Append(s, v)), p)
      BY <3>1, LoopsStart
    <3> QED
      BY <1>0, <3>1, <3>2, SumOfInt, QuotientIsQuotient
  <2> QED
    BY <2>1, <2>2
<1> HIDE DEF F
<1>3. Seq(Int) \subseteq F
  BY <1>1, <1>2, Adding!InductionOnSeq
<1> QED
  BY <1>3 DEF F

(* How the average of one value more compares with that value, and with    *)
(* the mean of all: S is the sum of the n values so far.                   *)
LEMMA TurnAgainstMean ==
  ASSUME NEW p \in Int, NEW num \in Int, NEW den \in Int, NEW v \in Int,
         NEW n \in Int, NEW S \in Int
  PROVE  LET num1 == 2 * (v * den) + (p - 1) * num
             den1 == (p + 1) * den
         IN  /\ v * den1 - num1 = (p - 1) * (v * den - num)
             /\ num1 * (n + 1) - (S + v) * den1 =
                  (p + 1) * (num * n - S * den) + (2 * n + 1 - p) * (v * den - num)
OBVIOUS

(* How two averages of one value more compare.                             *)
LEMMA TurnAgainstTurn ==
  ASSUME NEW p \in Int, NEW num \in Int, NEW den \in Int, NEW v \in Int,
         NEW q \in Int, NEW num2 \in Int, NEW den2 \in Int
  PROVE  (2 * (v * den) + (p - 1) * num) * ((q + 1) * den2)
           - (2 * (v * den2) + (q - 1) * num2) * ((p + 1) * den)
         = ((q - 1) * (p + 1)) * (num * den2 - num2 * den)
             + (2 * (q - p) * den2) * (v * den - num)
OBVIOUS

(* Numerator and denominator after one more value.                         *)
LEMMA EmaOfAppend ==
  ASSUME NEW p \in {Fast, Slow}, NEW s \in Seq(Int), Len(s) >= p, NEW v \in Int
  PROVE  LET old == Ema(s, p)
             new == Ema(Append(s, v), p)
         IN  /\ old.num \in Int /\ old.den \in Nat \ {0}
             /\ new.num = 2 * (v * old.den) + (p - 1) * old.num
             /\ new.den = (p + 1) * old.den
<1> DEFINE old == Ema(s, p)
           num == old.num
           den == old.den
<1>1. num \in Int /\ den \in Nat \ {0} /\ old = Quotient(num, den)
  BY EmaIsQuotient DEF IsQuotient
<1>2. p \in Nat \ {0}
  BY PeriodsArePositive
<1>3. Ema(Append(s, v), p) = EmaTurn(p, old, v)
  BY LoopsTurn
<1> HIDE DEF old, num, den
<1>4. EmaTurn(p, Quotient(num, den), v) =
        Quotient(2 * (v * den) + (p - 1) * num, (p + 1) * den)
  BY <1>1, <1>2, TurnIsQuotient
<1>5. /\ Ema(Append(s, v), p).num = 2 * (v * den) + (p - 1) * num
      /\ Ema(Append(s, v), p).den = (p + 1) * den
  BY <1>1, <1>3, <1>4 DEF Quotient
<1> QED
  BY <1>1, <1>5 DEF num, den, old

\* each value goes the way of k from the one before
Moves(k, s) == \A i \in 1..(Len(s) - 1) : Goes(k, s[i + 1] - s[i])

(* On a trend the new value goes the way of all before.                    *)
LEMMA MovesOfAppend ==
  ASSUME NEW k, NEW s \in Seq(Int), NEW v \in Int, Moves(k, Append(s, v))
  PROVE  Moves(k, s) /\ (Len(s) >= 1 => Goes(k, v - s[Len(s)]))
<1> DEFINE n == Len(s)
           longer == Append(s, v)
<1>1. /\ n \in Nat /\ Len(longer) = n + 1 /\ longer[n + 1] = v
      /\ \A i \in 1..n : longer[i] = s[i]
  BY AppendElements
<1>2. \A i \in 1..n : Goes(k, longer[i + 1] - longer[i])
  BY <1>1 DEF Moves
<1> HIDE DEF n, longer
<1>3. \A i \in 1..(n - 1) : i \in 1..n /\ i + 1 \in 1..n
  BY <1>1
<1>4. \A i \in 1..(n - 1) : Goes(k, s[i + 1] - s[i])
  BY <1>1, <1>2, <1>3
<1>5. n >= 1 => Goes(k, v - s[n])
  <2> SUFFICES ASSUME n >= 1 PROVE Goes(k, v - s[n])
    OBVIOUS
  <2>1. n \in 1..n
    BY <1>1
  <2> QED
    BY <1>1, <1>2, <2>1
<1> QED
  BY <1>4, <1>5 DEF Moves, n

(* On a trend the last value is ahead of the mean of all.                  *)
LEMMA LastLeadsMean ==
  ASSUME NEW k \in {-1, 0, 1}, NEW values \in Seq(Int), Len(values) >= 1,
         Moves(k, values)
  PROVE  Leans(k, values[Len(values)] * Len(values) - Sum(values))
<1> DEFINE F == {s \in Seq(Int) :
                   Len(s) >= 1 /\ Moves(k, s) =>
                     Leans(k, s[Len(s)] * Len(s) - Sum(s))}
<1>1. << >> \in F
  OBVIOUS
<1>2. ASSUME NEW s \in Seq(Int), NEW v \in Int, s \in F PROVE Append(s, v) \in F
  <2> DEFINE n == Len(s)
             longer == Append(s, v)
  <2>1. /\ n \in Nat /\ Len(longer) = n + 1 /\ longer[n + 1] = v
        /\ longer \in Seq(Int) /\ Sum(longer) = Sum(s) + v /\ Sum(s) \in Int
    BY OneMore
  <2> SUFFICES ASSUME Moves(k, longer)
               PROVE  Leans(k, v * (n + 1) - (Sum(s) + v))
    BY <2>1
  <2>2. CASE n = 0
    <3>1. s = << >>
      BY <2>2
    <3>2. v * (n + 1) - (Sum(s) + v) = 0
      BY <2>2, <3>1, SumOfNone
    <3> QED
      BY <3>2 DEF Leans
  <2>3. CASE n # 0
    <3> DEFINE last == s[n]
    <3>1. last \in Int
      BY <2>1, <2>3
    <3>2. Moves(k, s) /\ Goes(k, v - last) /\ Leans(k, last * n - Sum(s))
      BY <1>2, <2>1, <2>3, MovesOfAppend
    <3> HIDE DEF last, n, longer, F
    <3>3. Leans(k, v - last)
      BY <3>1, <3>2, GoesPlus
    <3>4. Leans(k, n * (v - last)) /\ n * (v - last) \in Int
      <4>1. v - last \in Int
        BY <3>1
      <4> QED
        BY <2>1, <3>3, <4>1, GoesTimes
    <3>5. last * n - Sum(s) \in Int
      BY <2>1, <3>1
    <3>6. Leans(k, n * (v - last) + (last * n - Sum(s)))
      BY <3>2, <3>4, <3>5, GoesPlus
    <3>7. n * (v - last) + (last * n - Sum(s)) = v * (n + 1) - (Sum(s) + v)
      BY <2>1, <3>1
    <3> QED
      BY <3>6, <3>7
  <2> QED
    BY <2>2, <2>3
<1> HIDE DEF F
<1>3. Seq(Int) \subseteq F
  BY <1>1, <1>2, Adding!InductionOnSeq
<1> QED
  BY <1>3 DEF F

\* what is known of an average on a trend: the last value is ahead of it, and
\* after its seed it is ahead of the mean of all values
Follows(k, s, p) ==
  LET e == Ema(s, p)
      lead == e.num * Len(s) - Sum(s) * e.den
  IN  /\ Leans(k, s[Len(s)] * e.den - e.num)
      /\ Leans(k, lead)
      /\ Len(s) > p => Goes(k, lead)

(* Seed and every later turn keep the average behind the last value and,   *)
(* past the seed, ahead of the mean.                                       *)
LEMMA EmaFollows ==
  ASSUME NEW k \in {-1, 0, 1}, NEW p \in {Fast, Slow},
         NEW values \in Seq(Int), Len(values) >= p, Moves(k, values)
  PROVE  Follows(k, values, p)
<1> DEFINE F == {s \in Seq(Int) : Len(s) >= p /\ Moves(k, s) => Follows(k, s, p)}
<1>0. p \in Nat \ {0}
  BY PeriodsArePositive
<1>1. << >> \in F
  BY <1>0
<1>2. ASSUME NEW s \in Seq(Int), NEW v \in Int, s \in F PROVE Append(s, v) \in F
  <2> DEFINE n == Len(s)
             longer == Append(s, v)
             S == Sum(s)
  <2>1. /\ n \in Nat /\ Len(longer) = n + 1 /\ longer[n + 1] = v
        /\ longer \in Seq(Int) /\ Sum(longer) = S + v /\ S \in Int
    BY OneMore
  <2> SUFFICES ASSUME Moves(k, longer), n + 1 >= p PROVE Follows(k, longer, p)
    BY <2>1
  <2>2. CASE n + 1 = p
    <3>1. Ema(longer, p) = Quotient(S + v, p)
      BY <2>1, <2>2, LoopsStart
    <3>2. Leans(k, v * p - (S + v))
      <4>1. Leans(k, longer[Len(longer)] * Len(longer) - Sum(longer))
        <5>1. Len(longer) >= 1 /\ longer \in Seq(Int)
          BY <1>0, <2>1, <2>2
        <5> HIDE DEF longer
        <5> QED
          BY <5>1, LastLeadsMean
      <4> QED
        BY <2>1, <2>2, <4>1
    <3>3. (S + v) * (n + 1) - (S + v) * p = 0
      BY <1>0, <2>1, <2>2
    <3> HIDE DEF n, longer, S
    <3>4. Ema(longer, p).num = S + v /\ Ema(longer, p).den = p
      BY <3>1 DEF Quotient
    <3>5. ~(n + 1 > p)
      BY <1>0, <2>1, <2>2
    <3> QED
      BY <2>1, <3>2, <3>3, <3>4, <3>5 DEF Follows, Leans
  <2>3. CASE n + 1 # p
    <3> DEFINE num == Ema(s, p).num
               den == Ema(s, p).den
               last == s[n]
               lead == num * n - S * den
               gap == v * den - num
    <3>1. n >= p
      BY <1>0, <2>1, <2>3
    <3>2. num \in Int /\ den \in Nat \ {0} /\ last \in Int
      BY <1>0, <2>1, <3>1, EmaIsQuotient DEF IsQuotient
    <3>3. /\ Ema(longer, p).num = 2 * (v * den) + (p - 1) * num
          /\ Ema(longer, p).den = (p + 1) * den
      BY <3>1, EmaOfAppend
    <3>4. /\ Goes(k, v - last)
          /\ Leans(k, last * den - num) /\ Leans(k, lead)
      <4>1. Moves(k, s) /\ Goes(k, v - last)
        BY <1>0, <2>1, <3>1, MovesOfAppend
      <4>2. Follows(k, s, p)
        BY <1>2, <3>1, <4>1
      <4> QED
        BY <4>1, <4>2 DEF Follows
    <3> HIDE DEF n, longer, S, num, den, last, F
    <3>5. Goes(k, gap) /\ gap \in Int
      <4>1. Goes(k, den * (v - last)) /\ den * (v - last) \in Int
        <5>1. v - last \in Int /\ den \in Nat /\ den # 0
          BY <3>2
        <5> QED
          BY <3>4, <5>1, GoesTimes
      <4>2. last * den - num \in Int
        BY <3>2
      <4>3. Goes(k, den * (v - last) + (last * den - num))
        BY <3>4, <4>1, <4>2, GoesPlus
      <4>4. den * (v - last) + (last * den - num) = v * den - num
        BY <3>2
      <4> QED
        BY <3>2, <4>3, <4>4
    <3>6. lead \in Int
      BY <2>1, <3>2
    <3> HIDE DEF lead
    <3>7. Leans(k, (p - 1) * gap)
      <4>1. Leans(k, gap) /\ p - 1 \in Nat
        BY <1>0, <3>5, GoesPlus
      <4> QED
        BY <3>5, <4>1, GoesTimes
    <3>8. Goes(k, (2 * n + 1 - p) * gap + (p + 1) * lead)
      <4>1. 2 * n + 1 - p \in Nat \ {0} /\ p + 1 \in Nat
        BY <1>0, <2>1, <3>1
      <4>2. Goes(k, (2 * n + 1 - p) * gap) /\ (2 * n + 1 - p) * gap \in Int
        BY <3>5, <4>1, GoesTimes
      <4>3. Leans(k, (p + 1) * lead) /\ (p + 1) * lead \in Int
        BY <3>4, <3>6, <4>1, GoesTimes
      <4> QED
        BY <4>2, <4>3, GoesPlus
    <3> DEFINE num1 == 2 * (v * den) + (p - 1) * num
               den1 == (p + 1) * den
    <3>9. /\ v * den1 - num1 = (p - 1) * gap
          /\ num1 * (n + 1) - (S + v) * den1 =
               (2 * n + 1 - p) * gap + (p + 1) * lead
      <4>1. /\ v * den1 - num1 = (p - 1) * gap
            /\ num1 * (n + 1) - (S + v) * den1 =
                 (p + 1) * lead + (2 * n + 1 - p) * gap
        BY <1>0, <2>1, <3>2, TurnAgainstMean DEF lead
      <4>2. (p + 1) * lead \in Int /\ (2 * n + 1 - p) * gap \in Int
        BY <1>0, <2>1, <3>5, <3>6
      <4> QED
        BY <4>1, <4>2
    <3> HIDE DEF num1, den1, gap
    <3>10. /\ Leans(k, v * den1 - num1)
           /\ Goes(k, num1 * (n + 1) - (S + v) * den1)
      BY <3>7, <3>8, <3>9
    <3> QED
      BY <2>1, <3>3, <3>10 DEF Follows, num1, den1, Leans
  <2> QED
    BY <2>2, <2>3
<1> HIDE DEF F
<1>3. Seq(Int) \subseteq F
  BY <1>1, <1>2, Adding!InductionOnSeq
<1> QED
  BY <1>3 DEF F

\* the fast average is ahead of the slow one
Leads(k, s) == Goes(k, Compare(Ema(s, Fast), Ema(s, Slow)))

(* Where the slow average starts it is the mean, and the fast one, already *)
(* past its seed, is ahead of that; every later turn takes the fast one    *)
(* further towards the new value.                                          *)
LEMMA FastLeadsSlow ==
  ASSUME NEW k \in {-1, 0, 1}, NEW values \in Seq(Int), Len(values) >= Slow,
         Moves(k, values)
  PROVE  Leads(k, values)
<1> DEFINE F == {s \in Seq(Int) : Len(s) >= Slow /\ Moves(k, s) => Leads(k, s)}
<1>0. Fast \in Nat \ {0} /\ Slow \in Nat \ {0} /\ Fast < Slow
  BY PeriodsArePositive
<1>1. << >> \in F
  BY <1>0
<1>2. ASSUME NEW s \in Seq(Int), NEW v \in Int, s \in F PROVE Append(s, v) \in F
  <2> DEFINE n == Len(s)
             longer == Append(s, v)
  <2>1. /\ n \in Nat /\ Len(longer) = n + 1 /\ longer[n + 1] = v
        /\ longer \in Seq(Int)
    BY AppendElements
  <2> SUFFICES ASSUME Moves(k, longer), n + 1 >= Slow PROVE Leads(k, longer)
    BY <2>1
  <2>2. CASE n + 1 = Slow
    <3> DEFINE num == Ema(longer, Fast).num
               den == Ema(longer, Fast).den
               S == Sum(longer)
    <3>1. Ema(longer, Slow) = Quotient(S, Slow)
      BY <2>1, <2>2, LoopsStart
    <3>2. Len(longer) >= Fast /\ Len(longer) > Fast
      BY <1>0, <2>1, <2>2
    <3> HIDE DEF n, longer
    <3>3. Follows(k, longer, Fast)
      BY <2>1, <3>2, EmaFollows
    <3>4. Goes(k, num * Slow - S * den)
      BY <2>1, <2>2, <3>2, <3>3 DEF Follows
    <3> QED
      BY <3>1, <3>4 DEF Leads, Compare, Quotient
  <2>3. CASE n + 1 # Slow
    <3> DEFINE num == Ema(s, Fast).num
               den == Ema(s, Fast).den
               num2 == Ema(s, Slow).num
               den2 == Ema(s, Slow).den
               last == s[n]
               lead == num * den2 - num2 * den
               gap == v * den - num
    <3>1. n >= Slow /\ n >= Fast /\ n >= 1
      <4> HIDE DEF n
      <4>1. n >= Slow
        BY <1>0, <2>1, <2>3
      <4> QED
        BY <1>0, <2>1, <4>1
    <3>2. /\ num \in Int /\ den \in Nat \ {0} /\ last \in Int
          /\ num2 \in Int /\ den2 \in Nat \ {0}
      BY <2>1, <3>1, EmaIsQuotient DEF IsQuotient
    <3>3. /\ Ema(longer, Fast).num = 2 * (v * den) + (Fast - 1) * num
          /\ Ema(longer, Fast).den = (Fast + 1) * den
          /\ Ema(longer, Slow).num = 2 * (v * den2) + (Slow - 1) * num2
          /\ Ema(longer, Slow).den = (Slow + 1) * den2
      BY <3>1, EmaOfAppend
    <3>4. Moves(k, s) /\ Goes(k, v - last)
      BY <2>1, <3>1, MovesOfAppend
    <3>5. Goes(k, lead)
      BY <1>2, <3>1, <3>4 DEF Leads, Compare
    <3>6. Leans(k, last * den - num)
      BY <3>1, <3>4, EmaFollows DEF Follows
    <3> HIDE DEF n, longer, num, den, num2, den2, last, F
    <3>7. Leans(k, gap) /\ gap \in Int
      <4>1. v - last \in Int /\ den \in Nat /\ den # 0
        BY <3>2
      <4>2. Leans(k, den * (v - last)) /\ den * (v - last) \in Int
        BY <3>4, <4>1, GoesTimes, GoesPlus
      <4>3. last * den - num \in Int
        BY <3>2
      <4>4. Leans(k, den * (v - last) + (last * den - num))
        BY <3>6, <4>2, <4>3, GoesPlus
      <4>5. den * (v - last) + (last * den - num) = v * den - num
        BY <3>2
      <4> QED
        BY <3>2, <4>4, <4>5
    <3>8. lead \in Int
      BY <3>2
    <3> DEFINE a == (Slow - 1) * (Fast + 1)
               b == 2 * (Slow - Fast) * den2
    <3>9. a \in Nat \ {0} /\ b \in Nat
      <4>1. Slow - 1 \in Nat \ {0} /\ Fast + 1 \in Nat \ {0} /\ 2 * (Slow - Fast) \in Nat
        BY <1>0
      <4>2. a \in Nat \ {0}
        BY <4>1, ProductOfPositives
      <4> QED
        BY <3>2, <4>1, <4>2
    <3> HIDE DEF lead, gap
    <3>10. Goes(k, a * lead + b * gap)
      <4> HIDE DEF a, b
      <4>1. Goes(k, a * lead) /\ a * lead \in Int
        BY <3>5, <3>8, <3>9, GoesTimes
      <4>2. Leans(k, b * gap) /\ b * gap \in Int
        BY <3>7, <3>9, GoesTimes
      <4> QED
        BY <4>1, <4>2, GoesPlus
    <3>11. Compare(Ema(longer, Fast), Ema(longer, Slow)) = a * lead + b * gap
      <4>1. (2 * (v * den) + (Fast - 1) * num) * ((Slow + 1) * den2)
              - (2 * (v * den2) + (Slow - 1) * num2) * ((Fast + 1) * den)
            = a * lead + b * gap
        BY <1>0, <3>2, TurnAgainstTurn DEF lead, gap
      <4> QED
        BY <3>3, <4>1 DEF Compare
    <3> QED
      BY <3>10, <3>11 DEF Leads
  <2> QED
    BY <2>2, <2>3
<1> HIDE DEF F
<1>3. Seq(Int) \subseteq F
  BY <1>1, <1>2, Adding!InductionOnSeq
<1> QED
  BY <1>3 DEF F

-----------------------------------------------------------------------------
(* The history of closed bars *)

TypeOfClosed == closed \in Seq(Bars)

(* Bars come in one by one.                                                *)
THEOREM HistoryIsOfBars == ClosedSpec => []TypeOfClosed
<1>1. ClosedInit => TypeOfClosed
  BY DEF ClosedInit, TypeOfClosed
<1>2. TypeOfClosed /\ [CandleCloses]_closed => TypeOfClosed'
  BY DEF TypeOfClosed, CandleCloses
<1> QED
  BY <1>1, <1>2, PTL DEF ClosedSpec

(* The closes of the history are numbers.                                  *)
LEMMA ClosesOfHistory ==
  ASSUME TypeOfClosed
  PROVE  ClosePrices \in Seq(Nat) /\ Len(ClosePrices) = Len(closed)
<1>1. \A i \in DOMAIN closed : closed[i].close \in Nat
  BY BarsAreCandles DEF TypeOfClosed
<1> QED
  BY <1>1 DEF TypeOfClosed, ClosePrices

(* The averages take the order of a trend (_ema at its two periods), for   *)
(* all periods and any history.                                            *)
THEOREM TrendsOrderEmas == ClosedSpec => []TrendOrdersEmas
<1>1. ASSUME TypeOfClosed PROVE TrendOrdersEmas
  <2> DEFINE s == ClosePrices
             n == Len(s)
  <2>1. s \in Seq(Int) /\ n \in Nat
    BY <1>1, ClosesOfHistory
  <2>2. Steps(s) = 1..(n - 1)
    BY DEF Steps
  <2>3. ASSUME NEW i \in 1..(n - 1) PROVE s[i] \in Int /\ s[i + 1] \in Int
    <3>1. i \in 1..n /\ i + 1 \in 1..n
      BY <2>1
    <3> QED
      BY <2>1, <3>1
  <2> SUFFICES ASSUME Ema(s, Slow) # Unknown
               PROVE  LET way == Compare(Ema(s, Fast), Ema(s, Slow))
                      IN  /\ Rises = Steps(s) => way > 0
                          /\ Falls = Steps(s) => way < 0
                          /\ Rises = {} /\ Falls = {} => way = 0
    BY DEF TrendOrdersEmas
  <2>4. n >= Slow
    <3>1. ~(n < Slow)
      BY Zenon DEF Ema
    <3> HIDE DEF n
    <3> QED
      BY <2>1, <3>1, PeriodsArePositive
  <2>5. /\ Rises = {i \in 1..(n - 1) : s[i] < s[i + 1]}
        /\ Falls = {i \in 1..(n - 1) : s[i] > s[i + 1]}
    BY <2>2 DEF Rises, Falls
  <2> HIDE DEF s, n
  <2>6. /\ Rises = 1..(n - 1) => Moves(1, s)
        /\ Falls = 1..(n - 1) => Moves(-1, s)
        /\ Rises = {} /\ Falls = {} => Moves(0, s)
    <3>1. \A i \in 1..(n - 1) :
            /\ Goes(1, s[i + 1] - s[i]) <=> s[i] < s[i + 1]
            /\ Goes(-1, s[i + 1] - s[i]) <=> s[i] > s[i + 1]
            /\ Goes(0, s[i + 1] - s[i]) <=> ~(s[i] < s[i + 1]) /\ ~(s[i] > s[i + 1])
      BY <2>3 DEF Goes
    <3>2. \A k : Moves(k, s) <=> \A i \in 1..(n - 1) : Goes(k, s[i + 1] - s[i])
      BY DEF Moves, n
    <3>3. Rises = 1..(n - 1) => Moves(1, s)
      BY <2>5, <3>1, <3>2
    <3>4. Falls = 1..(n - 1) => Moves(-1, s)
      BY <2>5, <3>1, <3>2
    <3>5. Rises = {} /\ Falls = {} => Moves(0, s)
      BY <2>5, <3>1, <3>2
    <3> QED
      BY <3>3, <3>4, <3>5
  <2>7. \A k \in {-1, 0, 1} : Moves(k, s) => Leads(k, s)
    BY <2>1, <2>4, FastLeadsSlow DEF n
  <2> DEFINE way == Compare(Ema(s, Fast), Ema(s, Slow))
  <2>8. /\ Leads(1, s) => way > 0
        /\ Leads(-1, s) => way < 0
        /\ Leads(0, s) => way = 0
    BY DEF Leads, Goes
  <2> HIDE DEF way
  <2> QED
    BY <2>2, <2>6, <2>7, <2>8 DEF way
<1> QED
  BY <1>1, HistoryIsOfBars, PTL

-----------------------------------------------------------------------------
(* Wilder's smoothing *)

(* The smoothed average of naturals after its seed and after one more turn. *)
LEMMA SmoothedSteps ==
  ASSUME NEW s \in Seq(Nat), NEW v \in Nat
  PROVE  LET old == Smoothed(s, Wilder)
             new == Smoothed(Append(s, v), Wilder)
         IN  /\ Len(s) + 1 = Wilder => new.num = Sum(s) + v /\ new.den = Wilder
             /\ Len(s) >= Wilder => /\ new.num = (Wilder - 1) * old.num + v * old.den
                                    /\ new.den = Wilder * old.den
<1>1. /\ s \in Seq(Int) /\ v \in Int /\ Append(s, v) \in Seq(Int)
      /\ Len(Append(s, v)) = Len(s) + 1
  OBVIOUS
<1>2. Sum(Append(s, v)) = Sum(s) + v
  BY <1>1, SumOfAppend
<1>3. Len(s) + 1 = Wilder =>
        Smoothed(Append(s, v), Wilder) = Quotient(Sum(s) + v, Wilder)
  BY <1>1, <1>2, LoopsStart
<1>4. Len(s) >= Wilder =>
        Smoothed(Append(s, v), Wilder) = WilderTurn(Wilder, Smoothed(s, Wilder), v)
  BY <1>1, LoopsTurn
<1> QED
  BY <1>3, <1>4 DEF WilderTurn, Quotient

\* the average of naturals is 0 only if all of them are: nothing is forgotten
Remembers(s) ==
  LET avg == Smoothed(s, Wilder)
  IN  avg.num \in Nat /\ avg.den \in Nat \ {0} /\ (avg.num = 0 <=> AllZero(s))

(* With a period above 1 the average forgets no value, however old.        *)
LEMMA SmoothedRemembers ==
  ASSUME NEW values \in Seq(Nat), Len(values) >= Wilder
  PROVE  Remembers(values)
<1> DEFINE F == {s \in Seq(Nat) : Len(s) >= Wilder => Remembers(s)}
<1>0. Wilder \in Nat \ {0} /\ Wilder - 1 \in Nat \ {0}
  BY PeriodsArePositive, SmoothingRemembers
<1>1. << >> \in F
  BY <1>0
<1>2. ASSUME NEW s \in Seq(Nat), NEW v \in Nat, s \in F PROVE Append(s, v) \in F
  <2> DEFINE n == Len(s)
             longer == Append(s, v)
  <2>1. longer \in Seq(Nat) /\ n \in Nat /\ Len(longer) = n + 1
    OBVIOUS
  <2>2. AllZero(longer) <=> AllZero(s) /\ v = 0
    BY AllZeroOfAppend
  <2> SUFFICES ASSUME n + 1 >= Wilder PROVE Remembers(longer)
    BY <2>1
  <2>3. CASE n + 1 = Wilder
    <3>1. /\ Smoothed(longer, Wilder).num = Sum(s) + v
          /\ Smoothed(longer, Wilder).den = Wilder
      BY <2>3, SmoothedSteps
    <3>2. Sum(s) \in Nat /\ (Sum(s) = 0 <=> AllZero(s))
      BY SumOfNat
    <3>3. Sum(s) + v \in Nat /\ (Sum(s) + v = 0 <=> AllZero(s) /\ v = 0)
      BY <3>2
    <3> QED
      BY <1>0, <2>2, <3>1, <3>3 DEF Remembers
  <2>4. CASE n + 1 # Wilder
    <3> DEFINE num == Smoothed(s, Wilder).num
               den == Smoothed(s, Wilder).den
    <3>0. n >= Wilder
      <4> HIDE DEF n
      <4> QED
        BY <1>0, <2>1, <2>4
    <3>1. /\ Smoothed(longer, Wilder).num = (Wilder - 1) * num + v * den
          /\ Smoothed(longer, Wilder).den = Wilder * den
      BY <3>0, SmoothedSteps
    <3>2. num \in Nat /\ den \in Nat \ {0} /\ (num = 0 <=> AllZero(s))
      BY <1>2, <3>0 DEF Remembers
    <3> HIDE DEF num, den, longer, n, F
    <3>3. /\ (Wilder - 1) * num \in Nat
          /\ (Wilder - 1) * num = 0 <=> num = 0
      <4>1. CASE num = 0
        BY <1>0, <4>1
      <4>2. CASE num # 0
        <5>1. (Wilder - 1) * num \in Nat \ {0}
          BY <1>0, <3>2, <4>2, ProductOfPositives
        <5> QED
          BY <4>2, <5>1
      <4> QED
        BY <4>1, <4>2
    <3>4. v * den \in Nat /\ (v * den = 0 <=> v = 0)
      <4>1. CASE v = 0
        BY <3>2, <4>1
      <4>2. CASE v # 0
        <5>1. v * den \in Nat \ {0}
          BY <3>2, <4>2, ProductOfPositives
        <5> QED
          BY <4>2, <5>1
      <4> QED
        BY <4>1, <4>2
    <3> DEFINE a == (Wilder - 1) * num
               b == v * den
    <3>5. a + b \in Nat /\ (a + b = 0 <=> a = 0 /\ b = 0)
      <4>1. a \in Nat /\ b \in Nat
        BY <3>3, <3>4
      <4> HIDE DEF a, b
      <4> QED
        BY <4>1
    <3>6. Wilder * den \in Nat \ {0}
      BY <1>0, <3>2, ProductOfPositives
    <3>7. a + b = 0 <=> AllZero(longer)
      BY <2>2, <3>2, <3>3, <3>4, <3>5 DEF longer
    <3> QED
      BY <3>1, <3>5, <3>6, <3>7 DEF Remembers
  <2> QED
    BY <2>3, <2>4
<1> HIDE DEF F
<1>3. Seq(Nat) \subseteq F
  BY <1>1, <1>2, Adding!InductionOnSeq
<1> QED
  BY <1>3 DEF F

(* As many values, the same denominator.                                   *)
LEMMA SmoothedAlike ==
  ASSUME NEW values \in Seq(Nat), NEW others \in Seq(Nat),
         Len(values) = Len(others), Len(values) >= Wilder
  PROVE  Smoothed(values, Wilder).den = Smoothed(others, Wilder).den
<1> DEFINE F == {s \in Seq(Nat) :
                   \A t \in Seq(Nat) :
                     Len(s) = Len(t) /\ Len(s) >= Wilder =>
                       Smoothed(s, Wilder).den = Smoothed(t, Wilder).den}
<1>0. Wilder \in Nat \ {0}
  BY PeriodsArePositive
<1>1. << >> \in F
  BY <1>0
<1>2. ASSUME NEW s \in Seq(Nat), NEW v \in Nat, s \in F PROVE Append(s, v) \in F
  <2>1. Append(s, v) \in Seq(Nat) /\ Len(s) \in Nat /\ Len(Append(s, v)) = Len(s) + 1
    OBVIOUS
  <2> SUFFICES ASSUME NEW t \in Seq(Nat), Len(t) = Len(s) + 1, Len(s) + 1 >= Wilder
               PROVE  Smoothed(Append(s, v), Wilder).den = Smoothed(t, Wilder).den
    BY <2>1
  <2> DEFINE u == SubSeq(t, 1, Len(s))
             w == t[Len(s) + 1]
  <2>2. u \in Seq(Nat) /\ Len(u) = Len(s) /\ w \in Nat /\ t = Append(u, w)
    OBVIOUS
  <2>3. Len(s) >= Wilder => Smoothed(s, Wilder).den = Smoothed(u, Wilder).den
    BY <1>2, <2>2
  <2> HIDE DEF u, w, F
  <2>4. CASE Len(s) + 1 = Wilder
    BY <2>2, <2>4, SmoothedSteps
  <2>5. CASE Len(s) + 1 # Wilder
    <3>1. Len(s) >= Wilder
      BY <1>0, <2>1, <2>5
    <3> QED
      BY <2>2, <2>3, <3>1, SmoothedSteps
  <2> QED
    BY <2>4, <2>5
<1> HIDE DEF F
<1>3. Seq(Nat) \subseteq F
  BY <1>1, <1>2, Adding!InductionOnSeq
<1> QED
  BY <1>3 DEF F

(* The average of values between two bounds is between them.               *)
LEMMA SmoothedBetween ==
  ASSUME NEW lo \in Nat, NEW hi \in Nat, NEW values \in Seq(Nat),
         Len(values) >= Wilder, Between(values, lo, hi)
  PROVE  LET avg == Smoothed(values, Wilder)
         IN  lo * avg.den <= avg.num /\ avg.num <= hi * avg.den
<1> DEFINE Holds(s) ==
             LET avg == Smoothed(s, Wilder)
             IN  lo * avg.den <= avg.num /\ avg.num <= hi * avg.den
           F == {s \in Seq(Nat) : Len(s) >= Wilder /\ Between(s, lo, hi) => Holds(s)}
<1>0. Wilder \in Nat \ {0} /\ Wilder - 1 \in Nat
  BY PeriodsArePositive
<1>1. << >> \in F
  BY <1>0
<1>2. ASSUME NEW s \in Seq(Nat), NEW v \in Nat, s \in F PROVE Append(s, v) \in F
  <2> DEFINE n == Len(s)
             longer == Append(s, v)
  <2>1. longer \in Seq(Nat) /\ n \in Nat /\ Len(longer) = n + 1 /\ s \in Seq(Int)
    OBVIOUS
  <2> SUFFICES ASSUME n + 1 >= Wilder, Between(longer, lo, hi) PROVE Holds(longer)
    BY <2>1
  <2>2. Between(s, lo, hi) /\ lo <= v /\ v <= hi
    BY <2>1, BetweenOfAppend
  <2>3. CASE n + 1 = Wilder
    <3>1. /\ Smoothed(longer, Wilder).num = Sum(s) + v
          /\ Smoothed(longer, Wilder).den = Wilder
      BY <2>3, SmoothedSteps
    <3>2. Sum(longer) = Sum(s) + v
      BY <2>1, SumOfAppend
    <3>3. lo * Len(longer) <= Sum(longer) /\ Sum(longer) <= hi * Len(longer)
      <4>1. longer \in Seq(Int)
        BY <2>1
      <4> HIDE DEF longer
      <4> QED
        BY <4>1, SumBetween
    <3>4. lo * Wilder <= Sum(s) + v /\ Sum(s) + v <= hi * Wilder
      BY <2>1, <2>3, <3>2, <3>3
    <3> HIDE DEF longer
    <3> QED
      BY <3>1, <3>4
  <2>4. CASE n + 1 # Wilder
    <3> DEFINE num == Smoothed(s, Wilder).num
               den == Smoothed(s, Wilder).den
    <3>0. n >= Wilder
      <4> HIDE DEF n
      <4> QED
        BY <1>0, <2>1, <2>4
    <3>1. /\ Smoothed(longer, Wilder).num = (Wilder - 1) * num + v * den
          /\ Smoothed(longer, Wilder).den = Wilder * den
      BY <3>0, SmoothedSteps
    <3>2. num \in Nat /\ den \in Nat \ {0}
      BY <3>0, SmoothedRemembers DEF Remembers
    <3>3. lo * den <= num /\ num <= hi * den
      BY <1>2, <2>2, <3>0
    <3> HIDE DEF num, den, longer, n, F
    <3> DEFINE up == num - lo * den
               down == hi * den - num
    <3>4. up \in Nat /\ down \in Nat
      BY <3>2, <3>3
    <3>5. v - lo \in Nat /\ hi - v \in Nat
      BY <2>2
    <3>6. /\ ((Wilder - 1) * num + v * den) - lo * (Wilder * den) =
               (Wilder - 1) * up + (v - lo) * den
          /\ hi * (Wilder * den) - ((Wilder - 1) * num + v * den) =
               (Wilder - 1) * down + (hi - v) * den
      BY <1>0, <3>2
    <3> HIDE DEF up, down
    <3>7. /\ (Wilder - 1) * up \in Nat /\ (v - lo) * den \in Nat
          /\ (Wilder - 1) * down \in Nat /\ (hi - v) * den \in Nat
      BY <1>0, <3>2, <3>4, <3>5, ProductOfNat
    <3> DEFINE num1 == (Wilder - 1) * num + v * den
               den1 == Wilder * den
    <3>8. num1 - lo * den1 \in Nat /\ hi * den1 - num1 \in Nat
      BY <3>6, <3>7
    <3>9. num1 \in Int /\ lo * den1 \in Int /\ hi * den1 \in Int
      BY <1>0, <3>2
    <3>10. lo * den1 <= num1 /\ num1 <= hi * den1
      <4> DEFINE l == lo * den1
                 h == hi * den1
      <4>1. l \in Int /\ h \in Int /\ num1 - l >= 0 /\ h - num1 >= 0 /\ num1 \in Int
        BY <3>8, <3>9
      <4> HIDE DEF l, h, num1
      <4>2. l <= num1 /\ num1 <= h
        BY <4>1
      <4> QED
        BY <4>2 DEF l, h
    <3> QED
      BY <3>1, <3>10
  <2> QED
    BY <2>3, <2>4
<1> HIDE DEF F
<1>3. Seq(Nat) \subseteq F
  BY <1>1, <1>2, Adding!InductionOnSeq
<1> QED
  BY <1>3 DEF F

-----------------------------------------------------------------------------
(* Greatest and least *)

(* The greatest member is Max, the least is Min.                           *)
LEMMA Extremes ==
  ASSUME NEW S \in SUBSET Int, NEW m \in S
  PROVE  /\ (\A x \in S : m >= x) => Max(S) = m
         /\ (\A x \in S : x >= m) => Min(S) = m
<1>1. ASSUME \A x \in S : m >= x PROVE Max(S) = m
  <2>1. Max(S) \in S /\ \A x \in S : Max(S) >= x
    BY <1>1 DEF Max
  <2>2. Max(S) \in Int /\ m \in Int /\ Max(S) >= m /\ m >= Max(S)
    BY <1>1, <2>1
  <2> QED
    BY <2>2
<1>2. ASSUME \A x \in S : x >= m PROVE Min(S) = m
  <2>1. Min(S) \in S /\ \A x \in S : x >= Min(S)
    BY <1>2 DEF Min
  <2>2. Min(S) \in Int /\ m \in Int /\ Min(S) >= m /\ m >= Min(S)
    BY <1>2, <2>1
  <2> QED
    BY <2>2
<1> QED
  BY <1>1, <1>2

(* The greater and the lesser of two.                                      *)
LEMMA ExtremesOfTwo ==
  ASSUME NEW a \in Int, NEW b \in Int
  PROVE  /\ Max({a, b}) = IF a >= b THEN a ELSE b
         /\ Min({a, b}) = IF a >= b THEN b ELSE a
<1>1. CASE a >= b
  <2>1. \A x \in {a, b} : a >= x /\ x >= b
    BY <1>1
  <2> QED
    BY <1>1, <2>1, Extremes
<1>2. CASE ~(a >= b)
  <2>1. \A x \in {a, b} : b >= x /\ x >= a
    BY <1>2
  <2> QED
    BY <1>2, <2>1, Extremes
<1> QED
  BY <1>1, <1>2

(* A history that is not empty has a greatest and a least value.           *)
LEMMA ExtremesOfSeq ==
  ASSUME NEW values \in Seq(Int), Len(values) >= 1
  PROVE  /\ \A i \in 1..Len(values) : /\ Max(Range(values)) >= values[i]
                                      /\ values[i] >= Min(Range(values))
         /\ Max(Range(values)) \in Int /\ Min(Range(values)) \in Int
         /\ Max(Range(values)) \in Range(values) /\ Min(Range(values)) \in Range(values)
<1> DEFINE F == {s \in Seq(Int) :
                   Len(s) >= 1 =>
                     \E i, j \in 1..Len(s) :
                       \A k \in 1..Len(s) : s[i] >= s[k] /\ s[k] >= s[j]}
<1>1. << >> \in F
  OBVIOUS
<1>2. ASSUME NEW s \in Seq(Int), NEW v \in Int, s \in F PROVE Append(s, v) \in F
  <2> DEFINE n == Len(s)
             longer == Append(s, v)
  <2>1. /\ n \in Nat /\ Len(longer) = n + 1 /\ longer[n + 1] = v
        /\ longer \in Seq(Int) /\ \A i \in 1..n : longer[i] = s[i] /\ s[i] \in Int
    BY AppendElements
  <2> SUFFICES \E i, j \in 1..(n + 1) :
                 \A k \in 1..(n + 1) : longer[i] >= longer[k] /\ longer[k] >= longer[j]
    BY <2>1
  <2>2. /\ n + 1 \in 1..(n + 1) /\ \A k \in 1..n : k \in 1..(n + 1)
        /\ \A k \in 1..(n + 1) : k = n + 1 \/ k \in 1..n
    BY <2>1
  <2>3. CASE n = 0
    <3> HIDE DEF n, longer, F
    <3>1. \A k \in 1..(n + 1) : longer[n + 1] >= longer[k] /\ longer[k] >= longer[n + 1]
      BY <2>1, <2>2, <2>3
    <3> QED
      BY <2>2, <3>1
  <2>4. CASE n # 0
    <3>0. n >= 1
      <4> HIDE DEF n
      <4> QED
        BY <2>1, <2>4
    <3>1. PICK i \in 1..n, j \in 1..n :
            \A k \in 1..n : s[i] >= s[k] /\ s[k] >= s[j]
      BY <1>2, <3>0
    <3> HIDE DEF n, longer, F
    <3> DEFINE top == IF v >= s[i] THEN n + 1 ELSE i
               low == IF s[j] >= v THEN n + 1 ELSE j
    <3>2. top \in 1..(n + 1) /\ low \in 1..(n + 1)
      BY <2>2
    <3>3. /\ longer[top] \in Int /\ longer[top] >= v /\ longer[top] >= s[i]
          /\ longer[low] \in Int /\ v >= longer[low] /\ s[j] >= longer[low]
      BY <2>1
    <3> HIDE DEF top, low
    <3>4. ASSUME NEW k \in 1..(n + 1)
          PROVE  longer[top] >= longer[k] /\ longer[k] >= longer[low]
      <4>1. CASE k = n + 1
        BY <2>1, <3>3, <4>1
      <4>2. CASE k # n + 1
        <5>1. /\ k \in 1..n /\ longer[k] = s[k]
              /\ s[k] \in Int /\ s[i] \in Int /\ s[j] \in Int
              /\ s[i] >= s[k] /\ s[k] >= s[j]
          BY <2>1, <2>2, <3>1, <4>2
        <5> QED
          BY <3>3, <5>1
      <4> QED
        BY <4>1, <4>2
    <3> QED
      BY <3>2, <3>4
  <2> QED
    BY <2>3, <2>4
<1> HIDE DEF F
<1>3. Seq(Int) \subseteq F
  BY <1>1, <1>2, Adding!InductionOnSeq
<1>4. PICK i \in 1..Len(values), j \in 1..Len(values) :
        \A k \in 1..Len(values) : values[i] >= values[k] /\ values[k] >= values[j]
  BY <1>3 DEF F
<1> DEFINE S == Range(values)
<1>5. S \in SUBSET Int /\ S = {values[k] : k \in 1..Len(values)}
  BY DEF Range
<1>6. values[i] \in S /\ values[j] \in S
  BY <1>5
<1>7. \A x \in S : values[i] >= x /\ x >= values[j]
  BY <1>4, <1>5
<1> HIDE DEF S
<1>8. Max(S) = values[i] /\ Min(S) = values[j]
  BY <1>5, <1>6, <1>7, Extremes
<1> QED
  BY <1>4, <1>5, <1>6, <1>8 DEF S

-----------------------------------------------------------------------------
(* RSI *)

(* Gains and losses are what the closes rose and fell by: none of them is  *)
(* left out.                                                               *)
LEMMA ChangesOfCloses ==
  ASSUME NEW c \in Seq(Int), Len(c) >= 1
  PROVE  /\ Gains(c) \in Seq(Nat) /\ Len(Gains(c)) = Len(c) - 1
         /\ Losses(c) \in Seq(Nat) /\ Len(Losses(c)) = Len(c) - 1
         /\ AllZero(Gains(c)) <=> \A i \in Steps(c) : ~(c[i] < c[i + 1])
         /\ AllZero(Losses(c)) <=> \A i \in Steps(c) : ~(c[i] > c[i + 1])
<1> DEFINE n == Len(c)
<1>1. n \in Nat /\ n - 1 \in Nat /\ Steps(c) = 1..(n - 1)
  BY DEF Steps
<1>2. \A i \in 1..(n - 1) : c[i] \in Int /\ c[i + 1] \in Int
  <2> SUFFICES ASSUME NEW i \in 1..(n - 1) PROVE c[i] \in Int /\ c[i + 1] \in Int
    OBVIOUS
  <2>1. i \in 1..n /\ i + 1 \in 1..n
    BY <1>1
  <2> QED
    BY <2>1
<1> HIDE DEF n
<1>3. ASSUME NEW i \in 1..(n - 1)
      PROVE  /\ Gains(c)[i] = IF c[i + 1] - c[i] >= 0 THEN c[i + 1] - c[i] ELSE 0
             /\ Losses(c)[i] = IF c[i] - c[i + 1] >= 0 THEN c[i] - c[i + 1] ELSE 0
  <2>1. c[i + 1] - c[i] \in Int /\ c[i] - c[i + 1] \in Int
    BY <1>2
  <2>2. /\ Gains(c)[i] = Max({c[i + 1] - c[i], 0})
        /\ Losses(c)[i] = Max({c[i] - c[i + 1], 0})
    BY <1>1 DEF Gains, Losses
  <2> QED
    BY <2>1, <2>2, ExtremesOfTwo
<1>4. \A i \in 1..(n - 1) :
        /\ Gains(c)[i] \in Nat /\ (Gains(c)[i] = 0 <=> ~(c[i] < c[i + 1]))
        /\ Losses(c)[i] \in Nat /\ (Losses(c)[i] = 0 <=> ~(c[i] > c[i + 1]))
  BY <1>2, <1>3
<1>5. DOMAIN Gains(c) = 1..(n - 1) /\ DOMAIN Losses(c) = 1..(n - 1)
  BY <1>1 DEF Gains, Losses
<1>6. /\ Gains(c) = [i \in 1..(n - 1) |-> Gains(c)[i]]
      /\ Losses(c) = [i \in 1..(n - 1) |-> Losses(c)[i]]
  BY <1>1 DEF Gains, Losses
<1>7. /\ Gains(c) \in Seq(Nat) /\ Len(Gains(c)) = n - 1
      /\ Losses(c) \in Seq(Nat) /\ Len(Losses(c)) = n - 1
  <2> DEFINE m == n - 1
             gains == Gains(c)
             losses == Losses(c)
  <2>1. /\ m \in Nat
        /\ gains = [i \in 1..m |-> gains[i]] /\ \A i \in 1..m : gains[i] \in Nat
        /\ losses = [i \in 1..m |-> losses[i]] /\ \A i \in 1..m : losses[i] \in Nat
    BY <1>1, <1>4, <1>6
  <2> HIDE DEF m, gains, losses
  <2>2. gains \in Seq(Nat) /\ Len(gains) = m
    BY <2>1, SeqOfFunction
  <2>3. losses \in Seq(Nat) /\ Len(losses) = m
    BY <2>1, SeqOfFunction
  <2> QED
    BY <2>2, <2>3 DEF m, gains, losses
<1> QED
  BY <1>1, <1>4, <1>5, <1>7 DEF AllZero, n

(* The denominators of the average gain and loss are equal, so that _rsi's *)
(* rs is the quotient of the numerators: what Rsi takes for granted.       *)
THEOREM GainsAndLossesAverageAlike ==
  ASSUME NEW c \in Seq(Int), Len(c) >= Wilder + 1
  PROVE  Smoothed(Gains(c), Wilder).den = Smoothed(Losses(c), Wilder).den
<1>1. Wilder \in Nat
  BY PeriodsArePositive
<1>2. Len(c) \in Nat /\ Len(c) >= 1 /\ Len(c) - 1 >= Wilder
  BY <1>1
<1> QED
  BY <1>2, ChangesOfCloses, SmoothedAlike

(* Upside down, every gain is a loss.                                      *)
LEMMA UpsideDown ==
  ASSUME NEW c \in Seq(Int), NEW top \in Int
  PROVE  LET t == [i \in DOMAIN c |-> top + 1 - c[i]]
         IN  /\ t \in Seq(Int) /\ Len(t) = Len(c)
             /\ Gains(t) = Losses(c) /\ Losses(t) = Gains(c)
<1> DEFINE n == Len(c)
           t == [i \in DOMAIN c |-> top + 1 - c[i]]
<1>1. n \in Nat /\ DOMAIN c = 1..n /\ \A i \in 1..n : c[i] \in Int
  OBVIOUS
<1>2. t \in Seq(Int) /\ Len(t) = n
  BY <1>1
<1>3. \A i \in 1..n : t[i] = top + 1 - c[i]
  BY <1>1
<1> HIDE DEF t, n
<1>4. \A i \in 1..(n - 1) : /\ t[i + 1] - t[i] = c[i] - c[i + 1]
                            /\ t[i] - t[i + 1] = c[i + 1] - c[i]
  <2> SUFFICES ASSUME NEW i \in 1..(n - 1)
               PROVE  /\ t[i + 1] - t[i] = c[i] - c[i + 1]
                      /\ t[i] - t[i + 1] = c[i + 1] - c[i]
    OBVIOUS
  <2>1. i \in 1..n /\ i + 1 \in 1..n
    BY <1>1
  <2> QED
    BY <1>1, <1>3, <2>1
<1>5. Steps(t) = 1..(n - 1) /\ Steps(c) = 1..(n - 1)
  BY <1>2 DEF Steps, n
<1>6. Gains(t) = Losses(c) /\ Losses(t) = Gains(c)
  BY <1>4, <1>5 DEF Gains, Losses
<1> QED
  BY <1>2, <1>6 DEF t, n

(* What _rsi returns: gain and loss are the numerators of the averages.    *)
LEMMA RsiOfAverages ==
  ASSUME NEW c \in Seq(Int), Len(c) >= Wilder + 1
  PROVE  LET gain == Smoothed(Gains(c), Wilder).num
             loss == Smoothed(Losses(c), Wilder).num
         IN  /\ gain \in Nat /\ loss \in Nat
             /\ gain = 0 <=> \A i \in Steps(c) : ~(c[i] < c[i + 1])
             /\ loss = 0 <=> \A i \in Steps(c) : ~(c[i] > c[i + 1])
             /\ loss = 0 => Rsi(c, Wilder) = Quotient(100, 1)
             /\ loss # 0 => Rsi(c, Wilder) = Quotient(100 * gain, gain + loss)
<1> DEFINE gain == Smoothed(Gains(c), Wilder).num
           loss == Smoothed(Losses(c), Wilder).num
<1>1. Wilder \in Nat /\ Len(c) \in Nat
  BY PeriodsArePositive
<1>2. Len(c) >= 1 /\ Len(c) - 1 >= Wilder /\ ~(Len(c) < Wilder + 1)
  BY <1>1
<1>3. Remembers(Gains(c)) /\ Remembers(Losses(c))
  BY <1>2, ChangesOfCloses, SmoothedRemembers
<1>4. /\ gain \in Nat /\ (gain = 0 <=> AllZero(Gains(c)))
      /\ loss \in Nat /\ (loss = 0 <=> AllZero(Losses(c)))
  BY <1>3 DEF Remembers
<1>5. Rsi(c, Wilder) = IF loss = 0 THEN Quotient(100, 1)
                       ELSE Quotient(100 * (gain + loss) - 100 * loss, gain + loss)
  BY <1>2 DEF Rsi
<1> HIDE DEF gain, loss
<1>6. 100 * (gain + loss) - 100 * loss = 100 * gain
  BY <1>4
<1>7. /\ gain = 0 <=> \A i \in Steps(c) : ~(c[i] < c[i + 1])
      /\ loss = 0 <=> \A i \in Steps(c) : ~(c[i] > c[i + 1])
  BY <1>2, <1>4, ChangesOfCloses
<1> QED
  BY <1>4, <1>5, <1>6, <1>7 DEF gain, loss

(* RSI and RSI of the history upside down make 100: a and b are what it    *)
(* gained and lost.                                                        *)
LEMMA RsiMirror ==
  ASSUME NEW a \in Nat, NEW b \in Nat
  PROVE  (100 * a) * (b + a) + (100 * b) * (a + b) = 100 * (a + b) * (b + a)
OBVIOUS

(* RSI remembers every change of the history and is symmetric (_rsi with   *)
(* its edge cases), for any period above 1 and any history.                *)
THEOREM RsiRemembers == ClosedSpec => []RsiRemembersEveryChange
<1>1. ASSUME TypeOfClosed PROVE RsiRemembersEveryChange
  <2> DEFINE c == ClosePrices
             top == Max(Range(c))
             t == [i \in DOMAIN c |-> top + 1 - c[i]]
             rsi == Rsi(c, Wilder)
             mirrored == Rsi(t, Wilder)
  <2>1. c \in Seq(Int) /\ Len(c) \in Nat
    BY <1>1, ClosesOfHistory
  <2> SUFFICES ASSUME rsi # Unknown
               PROVE  /\ 0 <= rsi.num /\ rsi.num <= 100 * rsi.den
                      /\ rsi.num = 100 * rsi.den <=> Falls = {}
                      /\ rsi.num = 0 <=> Falls # {} /\ Rises = {}
                      /\ Rises # {} /\ Falls # {} =>
                           rsi.num * mirrored.den + mirrored.num * rsi.den =
                             100 * rsi.den * mirrored.den
    BY DEF RsiRemembersEveryChange
  <2>2. Len(c) >= Wilder + 1 /\ Len(c) >= 1
    <3>1. ~(Len(c) < Wilder + 1)
      BY Zenon DEF Rsi
    <3> DEFINE n == Len(c)
    <3> HIDE DEF c
    <3> HIDE DEF n
    <3>2. n >= Wilder + 1 /\ n >= 1
      BY <2>1, <3>1, PeriodsArePositive DEF n
    <3> QED
      BY <3>2 DEF n
  <2> DEFINE gain == Smoothed(Gains(c), Wilder).num
             loss == Smoothed(Losses(c), Wilder).num
  <2>3. /\ Rises = {i \in Steps(c) : c[i] < c[i + 1]}
        /\ Falls = {i \in Steps(c) : c[i] > c[i + 1]}
    BY DEF Rises, Falls
  <2> HIDE DEF c
  <2>4. /\ gain \in Nat /\ loss \in Nat
        /\ gain = 0 <=> \A i \in Steps(c) : ~(c[i] < c[i + 1])
        /\ loss = 0 <=> \A i \in Steps(c) : ~(c[i] > c[i + 1])
        /\ loss = 0 => rsi = Quotient(100, 1)
        /\ loss # 0 => rsi = Quotient(100 * gain, gain + loss)
    BY <2>1, <2>2, RsiOfAverages
  <2>5. (gain = 0 <=> Rises = {}) /\ (loss = 0 <=> Falls = {})
    <3> HIDE DEF gain, loss
    <3> QED
      BY <2>3, <2>4
  <2>6. /\ t \in Seq(Int) /\ Len(t) = Len(c)
        /\ Gains(t) = Losses(c) /\ Losses(t) = Gains(c)
    <3>1. top \in Int
      BY <2>1, <2>2, ExtremesOfSeq
    <3> HIDE DEF top
    <3> QED
      BY <2>1, <3>1, UpsideDown
  <2>7. gain # 0 => mirrored = Quotient(100 * loss, loss + gain)
    <3> HIDE DEF t
    <3>1. LET gain1 == Smoothed(Gains(t), Wilder).num
              loss1 == Smoothed(Losses(t), Wilder).num
          IN  loss1 # 0 => Rsi(t, Wilder) = Quotient(100 * gain1, gain1 + loss1)
      BY <2>2, <2>6, RsiOfAverages
    <3> QED
      BY <2>6, <3>1
  <2> HIDE DEF gain, loss, rsi, mirrored, t
  <2>8. CASE loss = 0
    <3>1. rsi.num = 100 /\ rsi.den = 1
      BY <2>4, <2>8 DEF Quotient
    <3> QED
      BY <2>5, <2>8, <3>1
  <2>9. CASE loss # 0
    <3>1. rsi.num = 100 * gain /\ rsi.den = gain + loss
      BY <2>4, <2>9 DEF Quotient
    <3>2. gain # 0 => mirrored.num = 100 * loss /\ mirrored.den = loss + gain
      BY <2>7 DEF Quotient
    <3>3. /\ 0 <= rsi.num /\ rsi.num <= 100 * rsi.den
          /\ rsi.num # 100 * rsi.den
          /\ rsi.num = 0 <=> gain = 0
      BY <2>4, <2>9, <3>1
    <3>4. gain # 0 => rsi.num * mirrored.den + mirrored.num * rsi.den =
                        100 * rsi.den * mirrored.den
      BY <2>4, <3>1, <3>2, RsiMirror
    <3> QED
      BY <2>5, <2>9, <3>3, <3>4
  <2> QED
    BY <2>8, <2>9
<1> QED
  BY <1>1, HistoryIsOfBars, PTL

-----------------------------------------------------------------------------
(* Ranges *)

(* The three cases of a true range are one: from the previous close to the *)
(* bar and through it.                                                     *)
LEMMA TrueRangeIsSpan ==
  ASSUME NEW low \in Nat, NEW close \in Nat, NEW high \in Nat, NEW before \in Nat,
         low <= close, close <= high
  PROVE  LET range == Max({high - low, Distance(high, before), Distance(low, before)})
         IN  /\ range = Max({high, before}) - Min({low, before})
             /\ range \in Nat
<1> DEFINE u == Distance(high, before)
           d == Distance(low, before)
           S == {high - low, u, d}
           span == Max({high, before}) - Min({low, before})
<1>1. /\ u = IF high >= before THEN high - before ELSE before - high
      /\ d = IF low >= before THEN low - before ELSE before - low
  <2>1. /\ high - before \in Int /\ before - high \in Int
        /\ low - before \in Int /\ before - low \in Int
    OBVIOUS
  <2>2. /\ u = IF high - before >= before - high THEN high - before ELSE before - high
        /\ d = IF low - before >= before - low THEN low - before ELSE before - low
    BY <2>1, ExtremesOfTwo DEF Distance
  <2> HIDE DEF u, d
  <2> QED
    BY <2>2
<1>2. span = (IF high >= before THEN high ELSE before)
               - (IF low >= before THEN before ELSE low)
  <2>1. high \in Int /\ before \in Int /\ low \in Int
    OBVIOUS
  <2> QED
    BY <2>1, ExtremesOfTwo
<1> HIDE DEF u, d, span
<1>3. S \in SUBSET Int /\ span \in S /\ span \in Nat
  BY <1>1, <1>2
<1>4. \A x \in S : span >= x
  BY <1>1, <1>2
<1> HIDE DEF S
<1>5. Max(S) = span
  BY <1>3, <1>4, Extremes
<1> QED
  BY <1>3, <1>5 DEF S, u, d, span

(* The true ranges of the history are its spans, one after the other.      *)
LEMMA TrueRangesAreSpans ==
  ASSUME TypeOfClosed, Len(closed) >= 2
  PROVE  /\ TrueRanges(closed) \in Seq(Nat)
         /\ Len(TrueRanges(closed)) = Len(closed) - 1
         /\ Spans = Range(TrueRanges(closed))
<1> DEFINE n == Len(closed)
           m == n - 1
           r == TrueRanges(closed)
           span(i) == Max({closed[i + 1].high, closed[i].close})
                        - Min({closed[i + 1].low, closed[i].close})
<1>1. n \in Nat /\ m \in Nat /\ m + 1 = n /\ \A i \in 1..n : closed[i] \in Bars
  BY DEF TypeOfClosed
<1>2. Steps(closed) = 1..m
  BY DEF Steps
<1>3. r = [i \in 1..m |-> r[i]]
  BY <1>2 DEF TrueRanges
<1>4. ASSUME NEW i \in 1..m PROVE r[i] = span(i) /\ r[i] \in Nat
  <2> DEFINE b == closed[i + 1]
             before == closed[i].close
  <2>0. i \in 1..n /\ i + 1 \in 1..n
    <3> HIDE DEF m, n
    <3> QED
      BY <1>1
  <2>1. /\ b.low \in Nat /\ b.close \in Nat /\ b.high \in Nat /\ before \in Nat
        /\ b.low <= b.close /\ b.close <= b.high
    BY <1>1, <2>0, BarsAreCandles
  <2>2. r[i] = Max({b.high - b.low, Distance(b.high, before), Distance(b.low, before)})
    BY <1>2 DEF TrueRanges
  <2> HIDE DEF b, before, r
  <2>3. r[i] = Max({b.high, before}) - Min({b.low, before}) /\ r[i] \in Nat
    <3> DEFINE low == b.low
               close == b.close
               high == b.high
               range == Max({high - low, Distance(high, before), Distance(low, before)})
    <3>1. /\ low \in Nat /\ close \in Nat /\ high \in Nat
          /\ low <= close /\ close <= high
      BY <2>1
    <3> HIDE DEF low, close, high
    <3>2. range = Max({high, before}) - Min({low, before}) /\ range \in Nat
      BY <2>1, <3>1, TrueRangeIsSpan
    <3> QED
      BY <2>2, <3>2 DEF low, high
  <2> QED
    BY <2>3 DEF b, before
<1>5. Spans = {span(i) : i \in 1..m}
  BY <1>2 DEF Spans
<1> HIDE DEF r, span, m
<1>6. r \in Seq(Nat) /\ Len(r) = m
  BY <1>1, <1>3, <1>4, SeqOfFunction
<1>7. Range(r) = {r[i] : i \in 1..m}
  BY <1>6 DEF Range
<1> QED
  BY <1>4, <1>5, <1>6, <1>7 DEF r, m

(* A window ends with the last bar.                                        *)
LEMMA WindowEnds ==
  ASSUME NEW s \in Seq(Nat), NEW p \in Nat \ {0}, Len(s) >= p
  PROVE  /\ Newest(s, p) \in Seq(Nat) /\ Len(Newest(s, p)) = p
         /\ Newest(s, p)[p] = s[Len(s)]
<1> DEFINE n == Len(s)
<1>1. n \in Nat /\ p \in 1..n /\ n - p + 1 \in 1..n
      /\ n - (n - p + 1) + 1 = p /\ (n - p + 1) + p - 1 = n
  OBVIOUS
<1>2. Newest(s, p) = [i \in 1..p |-> s[(n - p + 1) + i - 1]]
  BY <1>1 DEF Newest
<1>3. \A i \in 1..p : (n - p + 1) + i - 1 \in 1..n
  BY <1>1
<1>4. \A i \in 1..p : s[(n - p + 1) + i - 1] \in Nat
  BY <1>3
<1> HIDE DEF n
<1>5. p \in 1..p
  BY <1>1
<1>6. Newest(s, p)[p] = s[n]
  BY <1>1, <1>2, <1>5
<1>7. Newest(s, p) \in Seq(Nat) /\ Len(Newest(s, p)) = p
  BY <1>2, <1>4
<1> QED
  BY <1>6, <1>7 DEF n

(* A sum of naturals is at least the last of them.                         *)
LEMMA SumReachesLast ==
  ASSUME NEW s \in Seq(Nat), Len(s) >= 1
  PROVE  s[Len(s)] <= Sum(s)
<1> DEFINE u == SubSeq(s, 1, Len(s) - 1)
           v == s[Len(s)]
<1>1. u \in Seq(Nat) /\ v \in Nat /\ s = Append(u, v)
  OBVIOUS
<1> HIDE DEF u, v
<1>2. u \in Seq(Int) /\ v \in Int
  BY <1>1
<1>3. Sum(s) = Sum(u) + v /\ Sum(u) \in Nat
  BY <1>1, <1>2, SumOfAppend, SumOfNat
<1>4. v <= Sum(s)
  BY <1>1, <1>3
<1> QED
  BY <1>4 DEF v

(* The average true range lies between the least and the greatest span.    *)
LEMMA AtrAmongSpans ==
  ASSUME TypeOfClosed, Atr(closed, Wilder) # Unknown
  PROVE  LET atr == Atr(closed, Wilder)
         IN  /\ Min(Spans) * atr.den <= atr.num /\ atr.num <= Max(Spans) * atr.den
             /\ atr.num = 0 => Spans = {0}
<1> DEFINE r == TrueRanges(closed)
           atr == Smoothed(r, Wilder)
<1>1. Len(closed) \in Nat /\ Wilder \in Nat /\ Wilder > 1
  BY PeriodsArePositive, SmoothingRemembers DEF TypeOfClosed
<1>2. ~(Len(closed) < Wilder + 1)
  BY Zenon DEF Atr
<1>3. Atr(closed, Wilder) = atr
  BY <1>2 DEF Atr
<1>4. Len(closed) >= 2 /\ Len(closed) - 1 >= Wilder /\ Len(closed) - 1 >= 1
  BY <1>1, <1>2
<1>5. r \in Seq(Nat) /\ Len(r) = Len(closed) - 1 /\ Spans = Range(r)
  BY <1>4, TrueRangesAreSpans
<1> HIDE DEF r
<1>6. r \in Seq(Int) /\ Len(r) >= 1 /\ Len(r) >= Wilder
  BY <1>4, <1>5
<1>7. /\ \A i \in 1..Len(r) : Max(Spans) >= r[i] /\ r[i] >= Min(Spans)
      /\ Max(Spans) \in Int /\ Min(Spans) \in Int
      /\ Max(Spans) \in Spans /\ Min(Spans) \in Spans
  BY <1>5, <1>6, ExtremesOfSeq
<1>8. Spans = {r[i] : i \in 1..Len(r)} /\ \A i \in 1..Len(r) : r[i] \in Nat
  BY <1>5 DEF Range
<1> DEFINE lo == Min(Spans)
           hi == Max(Spans)
<1>9. lo \in Nat /\ hi \in Nat
  BY <1>7, <1>8
<1>10. Between(r, lo, hi)
  <2>1. DOMAIN r = 1..Len(r)
    BY <1>5
  <2>2. ASSUME NEW i \in 1..Len(r) PROVE lo <= r[i] /\ r[i] <= hi
    <3>1. hi >= r[i] /\ r[i] >= lo /\ r[i] \in Nat
      BY <1>7, <1>8
    <3> HIDE DEF lo, hi
    <3> QED
      BY <1>9, <3>1
  <2> QED
    BY <2>1, <2>2 DEF Between
<1>11. lo * atr.den <= atr.num /\ atr.num <= hi * atr.den
  <2> HIDE DEF lo, hi
  <2> QED
    BY <1>5, <1>6, <1>9, <1>10, SmoothedBetween
<1>12. ASSUME atr.num = 0 PROVE Spans = {0}
  <2>1. AllZero(r)
    BY <1>5, <1>6, <1>12, SmoothedRemembers DEF Remembers
  <2>2. \A i \in 1..Len(r) : r[i] = 0
    BY <1>5, <2>1 DEF AllZero
  <2>3. 1 \in 1..Len(r)
    BY <1>6
  <2> QED
    BY <1>8, <2>2, <2>3
<1> QED
  BY <1>3, <1>11, <1>12

(* The window's range and average volume take in the last bar.             *)
LEMMA WindowCoversLastBar ==
  ASSUME TypeOfClosed, Len(closed) >= Window
  PROVE  /\ Min(Range(Newest(Field("low"), Window))) <= Last(ClosePrices)
         /\ Last(ClosePrices) <= Max(Range(Newest(Field("high"), Window)))
         /\ Last(closed).volume <= Sum(Newest(Field("volume"), Window))
         /\ Last(closed).volume \in Nat
         /\ Sum(Newest(Field("volume"), Window)) \in Nat
<1> DEFINE n == Len(closed)
           last == closed[n]
<1>1. Window \in Nat \ {0}
  BY PeriodsArePositive
<1>2. n \in Nat /\ n >= 1 /\ n \in 1..n /\ DOMAIN closed = 1..n
  BY <1>1 DEF TypeOfClosed
<1>3. \A i \in 1..n : closed[i] \in Bars
  BY DEF TypeOfClosed
<1>4. /\ last.low <= last.close /\ last.close <= last.high
      /\ last.low \in Nat /\ last.close \in Nat /\ last.high \in Nat
      /\ last.volume \in Nat
  BY <1>2, <1>3, BarsAreCandles
<1>5. Last(ClosePrices) = last.close /\ Last(closed) = last
  <2>1. Len(ClosePrices) = n /\ ClosePrices[n] = last.close
    BY <1>2, ClosesOfHistory DEF ClosePrices
  <2> QED
    BY <2>1 DEF Last
<1>6. ASSUME NEW f \in {"low", "high", "volume"}
      PROVE  LET window == Newest(Field(f), Window)
             IN  /\ window \in Seq(Nat) /\ Len(window) = Window
                 /\ window[Window] = last[f]
  <2>1. \A i \in 1..n : closed[i][f] \in Nat
    BY <1>3, BarsAreCandles
  <2>2. Field(f) \in Seq(Nat) /\ Len(Field(f)) = n
    <3>1. Field(f) = [i \in 1..n |-> closed[i][f]]
      BY <1>2 DEF Field
    <3> HIDE DEF n
    <3> QED
      BY <1>2, <2>1, <3>1
  <2>3. Field(f)[n] = last[f]
    BY <1>2 DEF Field
  <2> QED
    BY <1>1, <2>2, <2>3, WindowEnds
<1> HIDE DEF n, last
<1>7. ASSUME NEW w \in Seq(Nat), Len(w) = Window
      PROVE  /\ Max(Range(w)) >= w[Window] /\ w[Window] >= Min(Range(w))
             /\ Max(Range(w)) \in Int /\ Min(Range(w)) \in Int
             /\ w[Window] <= Sum(w) /\ Sum(w) \in Nat
  <2>1. w \in Seq(Int) /\ Len(w) >= 1 /\ Window \in 1..Len(w)
    BY <1>1, <1>7
  <2> QED
    BY <1>7, <2>1, ExtremesOfSeq, SumReachesLast, SumOfNat
<1>8. /\ Min(Range(Newest(Field("low"), Window))) <= last.low
      /\ Min(Range(Newest(Field("low"), Window))) \in Int
  <2> DEFINE w == Newest(Field("low"), Window)
             m == Min(Range(w))
  <2>1. w \in Seq(Nat) /\ Len(w) = Window /\ w[Window] = last.low
    BY <1>6
  <2>2. last.low >= m /\ m \in Int
    <3> HIDE DEF w
    <3> QED
      BY <1>7, <2>1
  <2> HIDE DEF m
  <2>3. m <= last.low
    BY <1>4, <2>2
  <2> QED
    BY <2>2, <2>3 DEF m
<1>9. /\ last.high <= Max(Range(Newest(Field("high"), Window)))
      /\ Max(Range(Newest(Field("high"), Window))) \in Int
  <2> DEFINE w == Newest(Field("high"), Window)
             m == Max(Range(w))
  <2>1. w \in Seq(Nat) /\ Len(w) = Window /\ w[Window] = last.high
    BY <1>6
  <2>2. m >= last.high /\ m \in Int
    <3> HIDE DEF w
    <3> QED
      BY <1>7, <2>1
  <2> HIDE DEF m
  <2>3. last.high <= m
    BY <1>4, <2>2
  <2> QED
    BY <2>2, <2>3 DEF m
<1>10. /\ last.volume <= Sum(Newest(Field("volume"), Window))
       /\ Sum(Newest(Field("volume"), Window)) \in Nat
  BY <1>6, <1>7
<1> DEFINE low == Min(Range(Newest(Field("low"), Window)))
           high == Max(Range(Newest(Field("high"), Window)))
<1>11. low <= last.close /\ last.close <= high
  <2>1. low <= last.low /\ low \in Int /\ last.high <= high /\ high \in Int
    BY <1>8, <1>9
  <2> HIDE DEF low, high
  <2> QED
    BY <1>4, <2>1
<1> QED
  BY <1>4, <1>5, <1>10, <1>11

(* Average true range, 20-bar range and relative volume cover what the     *)
(* market did (_atr, high_20, low_20, relative_volume), for all periods    *)
(* and any history of candles.                                             *)
THEOREM RangesCover == ClosedSpec => []RangesCoverTheMarket
<1>1. ASSUME TypeOfClosed PROVE RangesCoverTheMarket
  <2> DEFINE atr == Atr(closed, Wilder)
  <2>1. atr # Unknown =>
          /\ Min(Spans) * atr.den <= atr.num /\ atr.num <= Max(Spans) * atr.den
          /\ atr.num = 0 => Spans = {0}
    BY <1>1, AtrAmongSpans
  <2>2. Len(closed) \in Nat /\ Window \in Nat \ {0}
    BY <1>1, PeriodsArePositive DEF TypeOfClosed
  <2>3. ~(Len(closed) < Window) => Len(closed) >= Window
    BY <2>2
  <2>4. High20 # Unknown => Low20 <= Last(ClosePrices) /\ Last(ClosePrices) <= High20
    <3> SUFFICES ASSUME High20 # Unknown
                 PROVE  Low20 <= Last(ClosePrices) /\ Last(ClosePrices) <= High20
      OBVIOUS
    <3>1. ~(Len(closed) < Window)
      BY Zenon DEF High20
    <3>2. /\ High20 = Max(Range(Newest(Field("high"), Window)))
          /\ Low20 = Min(Range(Newest(Field("low"), Window)))
      BY <3>1, Zenon DEF High20, Low20
    <3> QED
      BY <1>1, <2>3, <3>1, <3>2, WindowCoversLastBar
  <2>5. RelativeVolume # Unknown => RelativeVolume.num <= Window * RelativeVolume.den
    <3> SUFFICES ASSUME RelativeVolume # Unknown
                 PROVE  RelativeVolume.num <= Window * RelativeVolume.den
      OBVIOUS
    <3> DEFINE traded == Sum(Newest(Field("volume"), Window))
               volume == Last(closed).volume
    <3>1. ~(Len(closed) < Window)
      BY Zenon DEF RelativeVolume
    <3>2. traded # 0
      BY Zenon DEF RelativeVolume
    <3>3. RelativeVolume = Quotient(volume * Window, traded)
      BY <3>1, <3>2, Zenon DEF RelativeVolume
    <3>4. volume \in Nat /\ traded \in Nat /\ volume <= traded
      BY <1>1, <2>3, <3>1, WindowCoversLastBar
    <3> HIDE DEF volume, traded
    <3>5. (traded - volume) * Window \in Nat
      <4>1. traded - volume \in Nat /\ Window \in Nat
        BY <2>2, <3>4
      <4> QED
        BY <4>1, ProductOfNat
    <3>6. volume * Window <= Window * traded
      <4> DEFINE a == volume * Window
                 b == Window * traded
                 d == (traded - volume) * Window
      <4>1. a \in Int /\ b \in Int /\ b - a = d
        BY <2>2, <3>4
      <4>2. d \in Nat
        BY <3>5
      <4> HIDE DEF a, b, d
      <4>3. a <= b
        BY <4>1, <4>2
      <4> QED
        BY <4>3 DEF a, b
    <3> QED
      BY <3>3, <3>6 DEF Quotient
  <2> QED
    BY <2>1, <2>4, <2>5 DEF RangesCoverTheMarket
<1> QED
  BY <1>1, HistoryIsOfBars, PTL

-----------------------------------------------------------------------------
(* The weights of the moving average *)

Times(x, power) == power * x

Multiplying == INSTANCE Folding WITH op <- Times, choose <- LastOf

(* A power is a product of as many factors.                                *)
LEMMA PowerTurns ==
  ASSUME NEW b \in Nat
  PROVE  /\ Power(b, 0) = 1
         /\ \A n \in Nat : Power(b, n + 1) = b * Power(b, n)
         /\ \A n \in Nat : Power(b, n) \in Nat
<1> DEFINE factors(n) == [i \in 1..n |-> b]
<1>1. \A n : Power(b, n) = Multiplying!Fold(1, factors(n), DOMAIN factors(n))
  BY DEF Power, FoldLeft, MapThenFoldSet, Multiplying!Fold,
         Multiplying!MapThenFoldSet, Times, LastOf
<1>2. \A n \in Nat : Multiplying!TakesLast(n)
  BY LastIsMax, Multiplying!GreatestTakesLast
<1>3. Power(b, 0) = 1
  <2>1. factors(0) = << >>
    OBVIOUS
  <2>2. Multiplying!Fold(1, << >>, DOMAIN << >>) = 1
    BY <1>2, Multiplying!FoldOfNone
  <2> HIDE DEF factors
  <2> QED
    BY <1>1, <2>1, <2>2
<1>4. ASSUME NEW n \in Nat PROVE Power(b, n + 1) = Power(b, n) * b
  <2>1. /\ factors(n) \in Seq(Nat) /\ Len(factors(n)) + 1 \in Nat
        /\ factors(n + 1) = Append(factors(n), b)
    OBVIOUS
  <2> HIDE DEF factors
  <2>2. Multiplying!Fold(1, Append(factors(n), b), DOMAIN Append(factors(n), b)) =
          Times(b, Multiplying!Fold(1, factors(n), DOMAIN factors(n)))
    BY <1>2, <2>1, Multiplying!FoldOfAppend
  <2> QED
    BY <1>1, <2>1, <2>2 DEF Times
<1> DEFINE F == {n \in Nat : Power(b, n) \in Nat}
<1>5. 0 \in F
  BY <1>3
<1>6. ASSUME NEW n \in Nat, n \in F PROVE n + 1 \in F
  <2>1. Power(b, n) \in Nat /\ Power(b, n + 1) = Power(b, n) * b
    BY <1>4, <1>6
  <2>2. Power(b, n) * b \in Nat
    BY <2>1, ProductOfNat
  <2> QED
    BY <2>1, <2>2
<1> HIDE DEF F
<1>7. Nat \subseteq F
  BY <1>5, <1>6, Multiplying!InductionOnNat
<1>8. \A n \in Nat : Power(b, n) \in Nat
  BY <1>7 DEF F
<1>9. \A n \in Nat : Power(b, n + 1) = b * Power(b, n)
  BY <1>4, <1>8
<1> QED
  BY <1>3, <1>8, <1>9

(* The sum of multiples is the multiple of the sum.                        *)
LEMMA SumOfMultiples ==
  ASSUME NEW k \in Int, NEW values \in Seq(Int)
  PROVE  /\ [i \in 1..Len(values) |-> k * values[i]] \in Seq(Int)
         /\ Sum([i \in 1..Len(values) |-> k * values[i]]) = k * Sum(values)
<1> DEFINE scaled(s) == [i \in 1..Len(s) |-> k * s[i]]
           F == {s \in Seq(Int) :
                   scaled(s) \in Seq(Int) /\ Sum(scaled(s)) = k * Sum(s)}
<1>1. << >> \in F
  <2>1. scaled(<< >>) = << >> /\ << >> \in Seq(Int) /\ k * 0 = 0
    OBVIOUS
  <2> HIDE DEF scaled
  <2> QED
    BY <2>1, SumOfNone
<1>2. ASSUME NEW s \in Seq(Int), NEW v \in Int, s \in F PROVE Append(s, v) \in F
  <2>1. scaled(s) \in Seq(Int) /\ Sum(scaled(s)) = k * Sum(s)
    BY <1>2
  <2>2. scaled(Append(s, v)) = Append(scaled(s), k * v)
    <3>1. /\ Len(s) \in Nat /\ Len(Append(s, v)) = Len(s) + 1
          /\ Append(s, v)[Len(s) + 1] = v
          /\ \A i \in 1..Len(s) : Append(s, v)[i] = s[i]
      BY AppendElements
    <3>2. Len(scaled(s)) = Len(s)
      OBVIOUS
    <3> QED
      BY <3>1, <3>2
  <2>3. k * v \in Int /\ Sum(s) \in Int
    BY SumOfInt
  <2> HIDE DEF scaled
  <2>4. Sum(Append(scaled(s), k * v)) = Sum(scaled(s)) + k * v
    BY <2>1, <2>3, SumOfAppend
  <2>5. Sum(Append(s, v)) = Sum(s) + v
    BY SumOfAppend
  <2>6. k * Sum(s) + k * v = k * (Sum(s) + v)
    BY <2>3
  <2>7. Append(scaled(s), k * v) \in Seq(Int) /\ Append(s, v) \in Seq(Int)
    BY <2>1, <2>3
  <2> QED
    BY <2>1, <2>2, <2>4, <2>5, <2>6, <2>7
<1> HIDE DEF F
<1>3. Seq(Int) \subseteq F
  BY <1>1, <1>2, Adding!InductionOnSeq
<1> QED
  BY <1>3 DEF F

(* One more value takes the same factor off the weight of every other.     *)
LEMMA ShareFades ==
  ASSUME NEW p \in Nat \ {0}, NEW n \in Nat, n >= p
  PROVE  /\ \A i \in 1..n : /\ Share(i, n, p) \in Nat
                            /\ Share(i, n + 1, p) = (p - 1) * Share(i, n, p)
         /\ Share(n + 1, n + 1, p) = 2 * p * Power(p + 1, n - p)
<1>1. p - 1 \in Nat /\ p + 1 \in Nat
  OBVIOUS
<1> DEFINE a(k) == Power(p - 1, k)
           b(k) == Power(p + 1, k)
<1>2. \A k \in Nat : a(k) \in Nat /\ b(k) \in Nat /\ a(k + 1) = (p - 1) * a(k)
  BY <1>1, PowerTurns
<1>3. a(0) = 1
  BY <1>1, PowerTurns
<1>4. \A i, m : Share(i, m, p) = IF i <= p THEN a(m - p)
                                 ELSE 2 * p * a(m - i) * b(i - p - 1)
  BY DEF Share
<1> HIDE DEF a, b
<1>5. ASSUME NEW i \in 1..n
      PROVE  /\ Share(i, n, p) \in Nat
             /\ Share(i, n + 1, p) = (p - 1) * Share(i, n, p)
  <2>1. CASE i <= p
    <3>1. n - p \in Nat /\ n + 1 - p = (n - p) + 1
      OBVIOUS
    <3>2. Share(i, n, p) = a(n - p) /\ Share(i, n + 1, p) = a(n + 1 - p)
      BY <1>4, <2>1
    <3> QED
      BY <1>2, <3>1, <3>2
  <2>2. CASE ~(i <= p)
    <3>1. n - i \in Nat /\ n + 1 - i = (n - i) + 1 /\ i - p - 1 \in Nat
      BY <2>2
    <3> DEFINE x == a(n - i)
               y == b(i - p - 1)
    <3>2. /\ Share(i, n, p) = 2 * p * x * y
          /\ Share(i, n + 1, p) = 2 * p * a(n + 1 - i) * y
      BY <1>4, <2>2
    <3>3. x \in Nat /\ y \in Nat /\ a(n + 1 - i) = (p - 1) * x
      BY <1>2, <3>1
    <3> HIDE DEF x, y
    <3>4. 2 * p * ((p - 1) * x) * y = (p - 1) * (2 * p * x * y)
      BY <1>1, <3>3
    <3>5. 2 * p * x * y \in Nat
      <4>1. 2 * p \in Nat
        OBVIOUS
      <4>2. (2 * p) * x \in Nat
        BY <3>3, <4>1, ProductOfNat
      <4> DEFINE z == (2 * p) * x
      <4>3. z \in Nat
        BY <4>2
      <4> HIDE DEF z
      <4>4. z * y \in Nat
        BY <3>3, <4>3, ProductOfNat
      <4> QED
        BY <4>4 DEF z
    <3> QED
      BY <3>2, <3>3, <3>4, <3>5
  <2> QED
    BY <2>1, <2>2
<1>6. Share(n + 1, n + 1, p) = 2 * p * b(n - p)
  <2>1. ~(n + 1 <= p) /\ (n + 1) - (n + 1) = 0 /\ (n + 1) - p - 1 = n - p /\ n - p \in Nat
    OBVIOUS
  <2>2. Share(n + 1, n + 1, p) = 2 * p * a(0) * b(n - p)
    BY <1>4, <2>1
  <2>3. 2 * p * 1 = 2 * p
    OBVIOUS
  <2> QED
    BY <1>3, <2>2, <2>3
<1> QED
  BY <1>5, <1>6 DEF b

\* the weighted values, as EmaWeighsEveryClose has them
Weighted(s, p) == [i \in 1..Len(s) |-> Share(i, Len(s), p) * s[i]]

(* What one more value adds to the weighted sum.                           *)
LEMMA WeightedOfAppend ==
  ASSUME NEW p \in Nat \ {0}, NEW s \in Seq(Int), NEW v \in Int, Len(s) >= p
  PROVE  /\ Sum(Weighted(s, p)) \in Int
         /\ Sum(Weighted(Append(s, v), p)) =
              (p - 1) * Sum(Weighted(s, p)) + 2 * p * Power(p + 1, Len(s) - p) * v
<1> DEFINE n == Len(s)
           longer == Append(s, v)
           w == Weighted(s, p)
           scaled == [i \in 1..Len(w) |-> (p - 1) * w[i]]
           new == 2 * p * Power(p + 1, n - p) * v
<1>1. /\ n \in Nat /\ Len(longer) = n + 1 /\ longer[n + 1] = v
      /\ \A i \in 1..n : longer[i] = s[i] /\ s[i] \in Int
  BY AppendElements
<1>2. /\ \A i \in 1..n : /\ Share(i, n, p) \in Nat
                         /\ Share(i, n + 1, p) = (p - 1) * Share(i, n, p)
      /\ Share(n + 1, n + 1, p) = 2 * p * Power(p + 1, n - p)
  BY <1>1, ShareFades
<1>3. w \in Seq(Int) /\ Len(w) = n /\ \A i \in 1..n : w[i] = Share(i, n, p) * s[i]
  <2>1. \A i \in 1..n : Share(i, n, p) * s[i] \in Int
    BY <1>1, <1>2
  <2> QED
    BY <1>1, <2>1 DEF Weighted
<1>4. Sum(w) \in Int /\ scaled \in Seq(Int) /\ Sum(scaled) = (p - 1) * Sum(w)
  <2>1. p - 1 \in Int
    OBVIOUS
  <2> HIDE DEF w
  <2> QED
    BY <1>3, <2>1, SumOfInt, SumOfMultiples
<1>5. new \in Int
  <2>1. Power(p + 1, n - p) \in Nat
    <3>1. p + 1 \in Nat /\ n - p \in Nat
      BY <1>1
    <3> QED
      BY <3>1, PowerTurns
  <2> QED
    BY <2>1
<1>6. Weighted(longer, p) = Append(scaled, new)
  <2> DEFINE all == Weighted(longer, p)
  <2>1. all = [i \in 1..(n + 1) |-> Share(i, n + 1, p) * longer[i]]
    BY <1>1 DEF Weighted
  <2>2. all[n + 1] = new
    BY <1>1, <1>2, <2>1
  <2>3. ASSUME NEW i \in 1..n PROVE all[i] = (p - 1) * w[i]
    <3>1. i \in 1..(n + 1)
      BY <1>1
    <3>2. all[i] = ((p - 1) * Share(i, n, p)) * s[i]
      BY <1>1, <1>2, <2>1, <3>1
    <3>3. Share(i, n, p) \in Int /\ s[i] \in Int /\ p - 1 \in Int
      BY <1>1, <1>2
    <3>4. ((p - 1) * Share(i, n, p)) * s[i] = (p - 1) * (Share(i, n, p) * s[i])
      BY <3>3
    <3> QED
      BY <1>3, <3>2, <3>4
  <2>4. scaled = [i \in 1..n |-> (p - 1) * w[i]]
    BY <1>3
  <2> DEFINE other == Append(scaled, new)
  <2>5. /\ other \in Seq(Int) /\ Len(other) = n + 1 /\ other[n + 1] = new
        /\ \A i \in 1..n : other[i] = scaled[i]
    <3>1. Len(scaled) = n
      BY <1>1, <2>4
    <3> HIDE DEF scaled, new
    <3> QED
      BY <1>4, <1>5, <3>1, AppendElements
  <2>6. \A i \in 1..(n + 1) : all[i] = other[i]
    <3>1. \A i \in 1..(n + 1) : i = n + 1 \/ i \in 1..n
      BY <1>1
    <3>2. \A i \in 1..n : scaled[i] = (p - 1) * w[i]
      BY <2>4
    <3> HIDE DEF all, scaled, new, w, longer, n, other
    <3> QED
      BY <2>2, <2>3, <2>5, <3>1, <3>2
  <2> HIDE DEF scaled, new, w, longer, n, other
  <2>7. all = [i \in 1..(n + 1) |-> all[i]] /\ n + 1 \in Nat
    BY <1>1, <2>1
  <2> HIDE DEF all
  <2>8. all \in Seq(Int) /\ Len(all) = n + 1
    <3>1. \A i \in 1..(n + 1) : all[i] \in Int
      BY <2>5, <2>6
    <3> QED
      BY <2>7, <3>1, SeqOfFunction
  <2>9. all = other
    BY <2>5, <2>6, <2>8
  <2> QED
    BY <2>9 DEF all, other
<1>7. Sum(Append(scaled, new)) = Sum(scaled) + new
  <2> HIDE DEF scaled, new
  <2> QED
    BY <1>4, <1>5, SumOfAppend
<1> QED
  BY <1>4, <1>6, <1>7

\* the average is the weighted mean
Weighs(s, p) ==
  LET e == Ema(s, p)
  IN  e.num * p * Power(p + 1, Len(s) - p) = e.den * Sum(Weighted(s, p))

(* One turn keeps it so: W is the weighted sum, P the power.               *)
LEMMA TurnWeighs ==
  ASSUME NEW p \in Int, NEW num \in Int, NEW den \in Int, NEW v \in Int,
         NEW W \in Int, NEW P \in Int
  PROVE  (2 * (v * den) + (p - 1) * num) * p * ((p + 1) * P)
           - ((p + 1) * den) * ((p - 1) * W + 2 * p * P * v) =
         ((p + 1) * (p - 1)) * (num * p * P - den * W)
OBVIOUS

(* The moving average is the weighted mean of all values.                  *)
LEMMA EmaWeighs ==
  ASSUME NEW p \in {Fast, Slow}, NEW values \in Seq(Int), Len(values) >= p
  PROVE  Weighs(values, p)
<1> DEFINE F == {s \in Seq(Int) : Len(s) >= p => Weighs(s, p)}
<1>0. p \in Nat \ {0} /\ p - 1 \in Nat /\ p + 1 \in Nat
  BY PeriodsArePositive
<1>1. << >> \in F
  BY <1>0
<1>2. ASSUME NEW s \in Seq(Int), NEW v \in Int, s \in F PROVE Append(s, v) \in F
  <2> DEFINE n == Len(s)
             longer == Append(s, v)
  <2>1. longer \in Seq(Int) /\ n \in Nat /\ Len(longer) = n + 1
    BY AppendElements
  <2> SUFFICES ASSUME n + 1 >= p PROVE Weighs(longer, p)
    BY <2>1
  <2>2. CASE n + 1 = p
    <3>1. Ema(longer, p) = Quotient(Sum(longer), p)
      BY <2>1, <2>2, LoopsStart
    <3> HIDE DEF longer, n
    <3>2. Power(p - 1, 0) = 1 /\ Power(p + 1, 0) = 1
      BY <1>0, PowerTurns
    <3>3. \A i \in 1..p : Share(i, p, p) = 1
      <4>1. \A i \in 1..p : i <= p
        OBVIOUS
      <4>2. p - p = 0
        BY <1>0
      <4> QED
        BY <3>2, <4>1, <4>2 DEF Share
    <3>4. Weighted(longer, p) = longer
      <4>1. Len(longer) = p /\ longer = [i \in 1..p |-> longer[i]]
        BY <2>1, <2>2
      <4>2. \A i \in 1..p : longer[i] \in Int
        <5>1. longer \in Seq(Int) /\ Len(longer) = p
          BY <2>1, <4>1
        <5> QED
          BY <5>1
      <4>3. \A i \in 1..p : Share(i, p, p) * longer[i] = longer[i]
        BY <3>3, <4>2
      <4>4. Weighted(longer, p) = [i \in 1..p |-> Share(i, p, p) * longer[i]]
        BY <4>1 DEF Weighted
      <4> HIDE DEF Weighted
      <4>5. [i \in 1..p |-> Share(i, p, p) * longer[i]] = [i \in 1..p |-> longer[i]]
        BY <4>3
      <4> QED
        BY <4>1, <4>4, <4>5
    <3>5. Sum(longer) \in Int /\ Len(longer) - p = 0
      BY <1>0, <2>1, <2>2, SumOfInt
    <3>6. Ema(longer, p).num = Sum(longer) /\ Ema(longer, p).den = p
      BY <3>1 DEF Quotient
    <3>7. Sum(longer) * p * 1 = p * Sum(longer)
      BY <1>0, <3>5
    <3> QED
      BY <3>2, <3>4, <3>5, <3>6, <3>7 DEF Weighs
  <2>3. CASE n + 1 # p
    <3> DEFINE num == Ema(s, p).num
               den == Ema(s, p).den
               P == Power(p + 1, n - p)
               W == Sum(Weighted(s, p))
    <3>0. n >= p /\ n - p \in Nat /\ (n + 1) - p = (n - p) + 1
      <4> HIDE DEF n
      <4> QED
        BY <1>0, <2>1, <2>3
    <3>1. num \in Int /\ den \in Int
      BY <3>0, EmaIsQuotient DEF IsQuotient
    <3>2. num * p * P = den * W
      BY <1>2, <3>0 DEF Weighs
    <3>3. /\ Ema(longer, p).num = 2 * (v * den) + (p - 1) * num
          /\ Ema(longer, p).den = (p + 1) * den
      BY <3>0, EmaOfAppend
    <3>4. /\ W \in Int
          /\ Sum(Weighted(longer, p)) = (p - 1) * W + 2 * p * P * v
      BY <1>0, <3>0, WeightedOfAppend
    <3>5. P \in Nat /\ Power(p + 1, Len(longer) - p) = (p + 1) * P
      <4> DEFINE k == n - p
      <4>1. k \in Nat /\ Len(longer) - p = k + 1
        BY <2>1, <3>0
      <4> HIDE DEF k, longer
      <4>2. Power(p + 1, k) \in Nat /\ Power(p + 1, k + 1) = (p + 1) * Power(p + 1, k)
        BY <1>0, <4>1, PowerTurns
      <4> QED
        BY <4>1, <4>2 DEF k
    <3> HIDE DEF num, den, P, W, longer, n, F
    <3>6. (2 * (v * den) + (p - 1) * num) * p * ((p + 1) * P) =
          ((p + 1) * den) * ((p - 1) * W + 2 * p * P * v)
      <4> DEFINE left == (2 * (v * den) + (p - 1) * num) * p * ((p + 1) * P)
                 right == ((p + 1) * den) * ((p - 1) * W + 2 * p * P * v)
                 x == num * p * P
                 y == den * W
                 f == (p + 1) * (p - 1)
      <4>1. p \in Int /\ P \in Int /\ W \in Int
        BY <1>0, <3>4, <3>5
      <4>2. left - right = f * (x - y)
        BY <3>1, <4>1, TurnWeighs
      <4>3. /\ left \in Int /\ right \in Int
            /\ x \in Int /\ y \in Int /\ f \in Int /\ x = y
        BY <3>1, <3>2, <4>1
      <4> HIDE DEF left, right, x, y, f
      <4>4. left = right
        BY <4>2, <4>3
      <4> QED
        BY <4>4 DEF left, right
    <3> QED
      BY <3>3, <3>4, <3>5, <3>6 DEF Weighs
  <2> QED
    BY <2>2, <2>3
<1> HIDE DEF F
<1>3. Seq(Int) \subseteq F
  BY <1>1, <1>2, Adding!InductionOnSeq
<1> QED
  BY <1>3 DEF F

(* The moving average is the mean of all closes there are, with the        *)
(* weights that seed and loop of _ema give them, for both periods and any  *)
(* history.                                                                *)
THEOREM EmaIsWeightedMean == ClosedSpec => []EmaWeighsEveryClose
<1>1. ASSUME TypeOfClosed PROVE EmaWeighsEveryClose
  <2> SUFFICES ASSUME NEW period \in {Fast, Slow},
                      Ema(ClosePrices, period) # Unknown
               PROVE  LET ema == Ema(ClosePrices, period)
                          n == Len(closed)
                      IN  ema.num * period * Power(period + 1, n - period) =
                          ema.den * Sum([i \in 1..n |->
                                           Share(i, n, period) * ClosePrices[i]])
    BY DEF EmaWeighsEveryClose
  <2>1. ClosePrices \in Seq(Int) /\ Len(ClosePrices) = Len(closed)
    BY <1>1, ClosesOfHistory
  <2>2. ~(Len(ClosePrices) < period)
    BY Zenon DEF Ema
  <2> DEFINE s == ClosePrices
  <2> HIDE DEF s
  <2>3. Len(s) >= period
    <3>1. s \in Seq(Int) /\ ~(Len(s) < period) /\ period \in Nat
      BY <2>1, <2>2, PeriodsArePositive DEF s
    <3> QED
      BY <3>1
  <2>4. Weighs(s, period)
    BY <2>1, <2>3, EmaWeighs DEF s
  <2>5. Weighs(ClosePrices, period)
    BY <2>4 DEF s
  <2> QED
    BY <2>1, <2>5 DEF Weighs, Weighted
<1> QED
  BY <1>1, HistoryIsOfBars, PTL
=============================================================================
