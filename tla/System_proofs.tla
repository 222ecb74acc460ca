---------------------------- MODULE System_proofs ----------------------------
(***************************************************************************)
(* Pipeline.run, then the whole process, then a dashboard beside it, for   *)
(* any symbols, rates, prices, scores and number of runs.                  *)
(*                                                                         *)
(* The pipeline: position limit, keys, books and the order of journal and  *)
(* portfolio file hold in every reachable state, in memory and on disk; an *)
(* approved entry fits the cash and is not undone at its own price; and    *)
(* account, saves and restarts implement the durable value.                *)
(* The process: every step is a step of the pipeline and one of the runner,*)
(* so what is proved of them holds of it; what the runner's books say of a *)
(* cycle stands in the journal; a crash loses no fill but the current one  *)
(* and those whose own write failed.                                       *)
(* The dashboard: it only reads; what it calls persisted it shows; and its *)
(* sections, read one after the other, fit together.                       *)
(***************************************************************************)
EXTENDS Dashboard, Books_proofs, SequenceTheorems

-----------------------------------------------------------------------------
(* Orders and their fills *)

(* Products of positive naturals are positive.                             *)
LEMMA ProductPositive ==
  ASSUME NEW m \in Nat \ {0}, NEW n \in Nat \ {0}
  PROVE  m * n \in Nat \ {0}
OBVIOUS

(* Products of naturals are naturals.                                     *)
LEMMA ProductNat ==
  ASSUME NEW m \in Nat, NEW n \in Nat
  PROVE  m * n \in Nat
OBVIOUS

(* Multiplication by a natural is monotone.                                *)
LEMMA ProductMonotone ==
  ASSUME NEW k \in Nat, NEW m \in Nat, NEW n \in Nat, m <= n
  PROVE  k * m <= k * n
OBVIOUS

(* A price in account units is positive.                                   *)
LEMMA QuotePositive ==
  ASSUME NEW t \in Ticks
  PROVE  /\ Quote(t) \in Nat \ {0}
         /\ Quote(t) * Scale \in Nat \ {0}
<1>1. t \in Nat \ {0} BY MarketBounds
<1>2. Scale * Scale \in Nat \ {0} BY ScalePositive, ProductPositive
<1>3. Quote(t) \in Nat \ {0} BY <1>1, <1>2, ProductPositive DEF Quote
<1> QED BY <1>3, ScalePositive, ProductPositive

(* The order is a whole number of lots that together cost no more than the *)
(* share of the cash it was sized from, and one lot more would cost more   *)
(* than that (RiskEngine.approve rule 2).                                  *)
LEMMA SizedQtyFacts ==
  ASSUME NEW a \in Accounts, NEW t \in Ticks
  PROVE  /\ MaxNotional(a) \in Nat
         /\ SizedQty(a, t) \in Nat
         /\ (Quote(t) * Scale) * SizedQty(a, t) <= MaxNotional(a)
         /\ MaxNotional(a) < (Quote(t) * Scale) * SizedQty(a, t) + Quote(t) * Scale
<1>1. MaxNotional(a) \in Nat
  BY RatesAreRates, ScalePositive, ProductNat DEF MaxNotional, Accounts
<1>2. Quote(t) * Scale \in Nat \ {0} BY QuotePositive
<1> QED BY <1>1, <1>2, DivBounds DEF SizedQty

(* The fill of an approved entry (ExecutionEngine._paper_execute).         *)
LEMMA EntryFillIsProper ==
  ASSUME NEW a \in Accounts, NEW s \in Symbols, NEW t \in Ticks,
         Approved(a, s, t)
  PROVE  ProperFill(EntryFill(s, SizedQty(a, t), t))
<1> DEFINE q == SizedQty(a, t)
           p == t * ((Scale + Slippage) * Scale)
           u == t * ((Scale + Slippage) * FeeRate)
<1>1. q \in Nat \ {0}
  <2>1. q \in Nat BY SizedQtyFacts
  <2>2. q >= MinOrderQty BY DEF Approved
  <2> HIDE DEF q
  <2> QED BY <2>1, <2>2, FilterIsPositive
<1>2. t \in Nat \ {0} /\ Scale + Slippage \in Nat \ {0} /\ FeeRate \in Nat
      /\ FeeRate <= Scale /\ Scale \in Nat \ {0}
  BY MarketBounds, RatesAreRates, ScalePositive
<1>3. p \in Nat \ {0}
  <2>1. (Scale + Slippage) * Scale \in Nat \ {0} BY <1>2, ProductPositive
  <2> QED BY <2>1, <1>2, ProductPositive
<1>4. u \in Nat /\ u <= p
  <2> DEFINE k == Scale + Slippage
  <2>1. k \in Nat BY <1>2
  <2> HIDE DEF k
  <2>2. k * FeeRate \in Nat /\ k * Scale \in Nat /\ k * FeeRate <= k * Scale
    BY <2>1, <1>2, ProductNat, ProductMonotone
  <2>3. t * (k * FeeRate) \in Nat /\ t * (k * FeeRate) <= t * (k * Scale)
    BY <2>2, <1>2, ProductNat, ProductMonotone
  <2> QED BY <2>3 DEF k
<1> HIDE DEF q, p, u
<1>5. q * u \in Nat /\ q * u <= q * p
  BY <1>1, <1>3, <1>4, ProductNat, ProductMonotone
<1>6. EntryFill(s, q, t) = [symbol |-> s, side |-> "Buy", qty |-> q,
                            price |-> p, fee |-> q * u]
  BY DEF EntryFill, p, u
<1>7. ProperFill(EntryFill(s, q, t))
  BY <1>1, <1>3, <1>5, <1>6 DEF ProperFill
<1> QED BY <1>7 DEF q

(* The fill that closes a position (execute_exit_paper).                   *)
LEMMA ExitFillIsProper ==
  ASSUME NEW q \in Nat \ {0}, NEW s \in Symbols, NEW t \in Ticks
  PROVE  ProperFill(ExitFill(s, q, t))
<1> DEFINE k == Scale - Slippage
           p == t * (k * Scale)
           u == t * (k * FeeRate)
<1>1. t \in Nat \ {0} /\ k \in Nat \ {0} /\ FeeRate \in Nat
      /\ FeeRate <= Scale /\ Scale \in Nat \ {0}
  BY MarketBounds, RatesAreRates, ScalePositive
<1>2. ExitFill(s, q, t) = [symbol |-> s, side |-> "Sell", qty |-> q,
                           price |-> p, fee |-> q * u]
  BY DEF ExitFill
<1> HIDE DEF k
<1>3. p \in Nat \ {0}
  <2>1. k * Scale \in Nat \ {0} BY <1>1, ProductPositive
  <2> QED BY <2>1, <1>1, ProductPositive
<1>4. u \in Nat /\ u <= p
  <2>1. k * FeeRate \in Nat /\ k * Scale \in Nat /\ k * FeeRate <= k * Scale
    BY <1>1, ProductNat, ProductMonotone
  <2> QED BY <2>1, <1>1, ProductNat, ProductMonotone
<1> HIDE DEF p, u
<1>5. q * u \in Nat /\ q * u <= q * p
  BY <1>3, <1>4, ProductNat, ProductMonotone
<1> QED BY <1>2, <1>3, <1>5 DEF ProperFill

(* A positive factor can be cancelled from an inequality.                 *)
LEMMA ProductCancel ==
  ASSUME NEW d \in Nat \ {0}, NEW m \in Nat, NEW n \in Nat, d * m <= d * n
  PROVE  m <= n
<1>1. CASE n < m
  <2>1. n + 1 <= m BY <1>1
  <2>2. d * (n + 1) <= d * m BY <2>1, ProductMonotone
  <2>3. d * (n + 1) = d * n + d OBVIOUS
  <2>4. d * n \in Nat /\ d * m \in Nat BY ProductNat
  <2> QED BY <2>2, <2>3, <2>4
<1> QED BY <1>1

(* Factors can be regrouped.                                              *)
LEMMA ProductShuffle ==
  ASSUME NEW d \in Nat, NEW x \in Nat, NEW y \in Nat
  PROVE  x * (d * y) = d * (x * y) /\ x * y = y * x
OBVIOUS

(* A full position with its slippage and its fee costs no more than the    *)
(* cash it was sized from: the largest outlay is the approved share of the *)
(* cash times (1 + slippage) times (1 + fee), and                          *)
(* PositionLeavesRoomForCosts bounds that (approve, _paper_execute).       *)
LEMMA ApprovedFits ==
  ASSUME NEW a \in Accounts, NEW s \in Symbols, NEW t \in Ticks,
         Approved(a, s, t)
  PROVE  BuyFits(a, EntryFill(s, SizedQty(a, t), t))
<1> DEFINE q == SizedQty(a, t)
           d == Scale * (Scale * Scale)
           k == (Scale + Slippage) * (Scale + FeeRate)
           x == q * t
<1>1. /\ t \in Nat /\ Scale \in Nat \ {0} /\ MaxPositionPct \in Nat
      /\ Scale + Slippage \in Nat /\ Scale + FeeRate \in Nat
      /\ FeeRate \in Nat
  BY MarketBounds, RatesAreRates, ScalePositive
<1>2. a.cash \in Nat BY DEF Accounts
<1>3. q \in Nat BY SizedQtyFacts
<1> HIDE DEF q
<1>4. d \in Nat \ {0} /\ k \in Nat /\ x \in Nat
  BY <1>1, <1>3, ProductPositive, ProductNat
<1>5. d * x <= a.cash * MaxPositionPct
  <2>1. (Quote(t) * Scale) * q <= a.cash * MaxPositionPct
    BY SizedQtyFacts DEF MaxNotional, q
  <2>2. (Quote(t) * Scale) * q = d * x
    <3>1. (t * (Scale * Scale)) * Scale = d * t
      BY <1>1
    <3>2. (d * t) * q = d * (q * t)
      <4> HIDE DEF d
      <4> QED BY <1>1, <1>3, <1>4
    <3> QED BY <3>1, <3>2 DEF Quote
  <2> QED BY <2>1, <2>2
<1>6. MaxPositionPct * k <= d
  BY PositionLeavesRoomForCosts
<1>7. Outlay(EntryFill(s, q, t)) = k * x
  <2> DEFINE v == Scale + Slippage
             f == FeeRate
             g == Scale
  <2>1. Outlay(EntryFill(s, q, t)) = q * (t * (v * g)) + q * (t * (v * f))
    BY DEF Outlay, EntryFill
  <2>2. v \in Nat /\ f \in Nat /\ g \in Nat /\ k = v * (g + f)
    BY <1>1
  <2> HIDE DEF v, f, g, k, x
  <2>3. q * (t * (v * g)) + q * (t * (v * f)) = (v * (g + f)) * (q * t)
    BY <2>2, <1>1, <1>3
  <2> QED BY <2>1, <2>2, <2>3 DEF x
<1> HIDE DEF d, k, x
<1>8. d * (k * x) <= d * a.cash
  <2>1. k * (d * x) <= k * (a.cash * MaxPositionPct)
    BY <1>1, <1>2, <1>4, <1>5, ProductNat, ProductMonotone
  <2>2. a.cash * (MaxPositionPct * k) <= a.cash * d
    BY <1>1, <1>2, <1>4, <1>6, ProductNat, ProductMonotone
  <2>3. /\ k * (d * x) = d * (k * x)
        /\ k * (a.cash * MaxPositionPct) = a.cash * (k * MaxPositionPct)
        /\ k * MaxPositionPct = MaxPositionPct * k
        /\ a.cash * d = d * a.cash
    BY <1>1, <1>2, <1>4, ProductShuffle
  <2>4. /\ d * (k * x) \in Nat /\ d * a.cash \in Nat
        /\ a.cash * (MaxPositionPct * k) \in Nat
    BY <1>1, <1>2, <1>4, ProductNat
  <2> QED BY <2>1, <2>2, <2>3, <2>4
<1>9. k * x <= a.cash
  BY <1>2, <1>4, <1>8, ProductNat, ProductCancel
<1> QED BY <1>7, <1>9 DEF BuyFits, q

(* Snapping down to whole lots brings an approved order below the minimum  *)
(* value by less than the price of one (approve's min_order_usdt test).    *)
LEMMA ShortByLessThanALot ==
  ASSUME NEW a \in Accounts, NEW s \in Symbols, NEW t \in Ticks,
         Approved(a, s, t)
  PROVE  MinOrderValue < (SizedQty(a, t) + 1) * Quote(t)
<1> DEFINE q == SizedQty(a, t)
           p == Quote(t)
           n == MaxNotional(a)
<1>1. q \in Nat /\ p \in Nat /\ n \in Nat /\ n < (p * Scale) * q + p * Scale
  BY SizedQtyFacts, QuotePositive
<1>2. MinOrderValue * Scale <= n /\ MinOrderValue \in Nat
  BY FilterIsPositive DEF Approved
<1> HIDE DEF q, p, n
<1>3. (p * Scale) * q + p * Scale = Scale * ((q + 1) * p)
  BY <1>1, ScalePositive
<1>4. CASE (q + 1) * p <= MinOrderValue
  <2>1. (q + 1) * p \in Nat BY <1>1, ProductNat
  <2>2. Scale * ((q + 1) * p) <= Scale * MinOrderValue
    BY <1>2, <1>4, <2>1, ScalePositive, ProductMonotone
  <2>3. Scale * MinOrderValue = MinOrderValue * Scale
    BY <1>2, ScalePositive
  <2>4. Scale * MinOrderValue \in Nat /\ Scale * ((q + 1) * p) \in Nat
    BY <1>2, <2>1, ScalePositive, ProductNat
  <2> QED BY <1>1, <1>2, <1>3, <2>2, <2>3, <2>4
<1>5. (q + 1) * p \in Nat BY <1>1, ProductNat
<1> QED BY <1>2, <1>4, <1>5 DEF q, p

(* An entry is bought above the market price and compared with the market  *)
(* price: by a slippage within its own stop-loss, and below its own        *)
(* take-profit (_paper_execute against ExitEvaluator.evaluate).            *)
LEMMA EntryHolds ==
  ASSUME NEW a \in Accounts, KeysHeld(a), NEW s \in Symbols, NEW t \in Ticks,
         Approved(a, s, t)
  PROVE  ExitReason(Applied(a, EntryFill(s, SizedQty(a, t), t)), s, t, EnterScore)
           = "none"
<1> DEFINE f == EntryFill(s, SizedQty(a, t), t)
           after == Applied(a, f)
           m == t * Scale
           w == Scale * Scale
           low == (Scale + Slippage) * (Scale - StopLoss)
           high == (Scale + Slippage) * (Scale + TakeProfit)
<1>1. /\ t \in Nat \ {0} /\ Scale \in Nat \ {0} /\ Slippage \in Nat
      /\ Scale - StopLoss \in Nat /\ Scale + TakeProfit \in Nat
      /\ Scale + Slippage \in Nat
  BY MarketBounds, RatesAreRates, ScalePositive
<1>2. after.avg[s] = t * ((Scale + Slippage) * Scale)
  <2>1. /\ f.symbol = s /\ f.side = "Buy"
        /\ f.price = t * ((Scale + Slippage) * Scale)
    BY DEF EntryFill
  <2>2. ProperFill(f) /\ BuyFits(a, f) /\ s \notin a.open
    BY EntryFillIsProper, ApprovedFits DEF Approved
  <2> HIDE DEF f
  <2>3. after = Bought(a, f) BY <2>1, <2>2 DEF Applied, Applies
  <2> HIDE DEF after
  <2> QED BY <2>1, <2>2, <2>3, FirstBuyBalances
<1>3. /\ Quote(t) * Scale = m * w
      /\ after.avg[s] * (Scale - StopLoss) = m * low
      /\ after.avg[s] * (Scale + TakeProfit) = m * high
  <2> DEFINE v == Scale + Slippage
             d == Scale - StopLoss
             u == Scale + TakeProfit
  <2>1. v \in Nat /\ d \in Nat /\ u \in Nat BY <1>1
  <2> HIDE DEF after
  <2>2. after.avg[s] = t * (v * Scale) BY <1>2
  <2>3. low = v * d /\ high = v * u OBVIOUS
  <2> HIDE DEF v, d, u, low, high
  <2>4. /\ after.avg[s] * d = m * low
        /\ after.avg[s] * u = m * high
    BY <1>1, <2>1, <2>2, <2>3
  <2>5. Quote(t) * Scale = m * w BY <1>1 DEF Quote
  <2> QED BY <2>4, <2>5 DEF d, u
<1>4. m \in Nat \ {0} /\ w \in Nat /\ low \in Nat /\ high \in Nat
  BY <1>1, ProductPositive, ProductNat
<1>5. low < w /\ w < high
  BY EntryIsBetweenExits
<1> HIDE DEF m, w, low, high, after
<1>6. m * low < m * w /\ m * w < m * high
  <2>1. \A x, y \in Nat : x < y => m * x < m * y
    <3> SUFFICES ASSUME NEW x \in Nat, NEW y \in Nat, x < y, m * y <= m * x
                 PROVE  FALSE
      BY <1>4, ProductNat
    <3>1. y <= x BY <1>4, ProductCancel
    <3> QED BY <3>1
  <2> QED BY <2>1, <1>4, <1>5
<1>7. m * low \in Nat /\ m * w \in Nat /\ m * high \in Nat
  BY <1>4, ProductNat
<1>8. ExitScore < EnterScore /\ ExitScore \in Nat /\ EnterScore \in Nat
  BY ExitScoreBelowEntry, ScoresAreNat
<1>9. ExitReason(after, s, t, EnterScore) = "none"
  <2>1. ~(Quote(t) * Scale <= after.avg[s] * (Scale - StopLoss))
    BY <1>3, <1>6, <1>7
  <2>2. ~(Quote(t) * Scale >= after.avg[s] * (Scale + TakeProfit))
    BY <1>3, <1>6, <1>7
  <2>3. ~(EnterScore <= ExitScore) BY <1>8
  <2> QED BY <2>1, <2>2, <2>3 DEF ExitReason
<1> QED BY <1>9 DEF after

(* What a take-profit exit is paid, less slippage and fee, is more than    *)
(* the position cost with the fee of its entry (evaluate against           *)
(* execute_exit_paper and _paper_execute).                                 *)
LEMMA TakeProfitGains ==
  ASSUME NEW a \in Accounts, KeysHeld(a), NEW s \in a.open, NEW t \in Ticks,
         Quote(t) * Scale >= a.avg[s] * (Scale + TakeProfit)
  PROVE  LET after == Applied(a, ExitFill(s, a.qty[s], t))
         IN  EntryFee(a, s) < Scale * (after.realized - a.realized)
<1> DEFINE f == ExitFill(s, a.qty[s], t)
           q == a.qty[s]
           avg == a.avg[s]
           v == Scale - Slippage
           g == Scale - FeeRate
           u == Scale + TakeProfit
           c == Scale + FeeRate
           w == Scale * Scale
           net == t * (v * g)
           sold == t * Scale
           gain == ((t * (v * Scale)) - avg) * q - q * (t * (v * FeeRate))
<1>1. /\ t \in Nat \ {0} /\ Scale \in Nat \ {0} /\ FeeRate \in Nat
      /\ v \in Nat \ {0} /\ g \in Nat /\ u \in Nat /\ s \in Symbols /\ c \in Nat
  BY MarketBounds, RatesAreRates, ScalePositive DEF Accounts
<1>2. q \in Nat \ {0} /\ avg \in Nat /\ a.realized \in Int
  BY <1>1 DEF Accounts, KeysHeld
<1>3. /\ w \in Nat /\ sold \in Nat \ {0} /\ v * g \in Nat /\ net \in Nat
      /\ g * u \in Nat /\ v * (g * u) \in Nat /\ w * c \in Nat /\ avg * u \in Nat
  <2> HIDE DEF v, g, u, c, avg
  <2>1. w \in Nat /\ sold \in Nat \ {0} /\ v * g \in Nat /\ g * u \in Nat
        /\ avg * u \in Nat
    BY <1>1, <1>2, ProductNat, ProductPositive
  <2> HIDE DEF w
  <2> QED BY <1>1, <2>1, ProductNat
<1>4. w * c < v * (g * u)
  BY MarginCoversCosts
<1>5. avg * u <= sold * w
  <2>1. Quote(t) * Scale = sold * w BY <1>1 DEF Quote
  <2> QED BY <2>1
<1>6. c * avg < Scale * net
  <2> HIDE DEF q, avg, v, g, u, c, w, sold
  <2> SUFFICES ASSUME Scale * net <= c * avg PROVE FALSE
    BY <1>1, <1>2, <1>3, ProductNat
  <2>1. u * (Scale * net) <= u * (c * avg)
    BY <1>1, <1>2, <1>3, ProductNat, ProductMonotone
  <2>2. u * (c * avg) = c * (avg * u)
    BY <1>1, <1>2
  <2>3. c * (avg * u) <= c * (sold * w)
    BY <1>1, <1>3, <1>5, ProductNat, ProductMonotone
  <2>4. c * (sold * w) = sold * (w * c)
    BY <1>1, <1>3
  <2>5. sold * (w * c) < sold * (v * (g * u))
    <3> SUFFICES ASSUME sold * (v * (g * u)) <= sold * (w * c) PROVE FALSE
      BY <1>3, ProductNat
    <3>1. v * (g * u) <= w * c BY <1>3, ProductCancel
    <3> QED BY <1>3, <1>4, <3>1
  <2>6. sold * (v * (g * u)) = u * (Scale * net)
    BY <1>1, <1>3 DEF sold
  <2>7. /\ u * (Scale * net) \in Nat /\ u * (c * avg) \in Nat
        /\ c * (sold * w) \in Nat /\ sold * (v * (g * u)) \in Nat
        /\ sold * (w * c) \in Nat
    BY <1>1, <1>2, <1>3, ProductNat
  <2> HIDE DEF net
  <2> QED BY <2>1, <2>2, <2>3, <2>4, <2>5, <2>6, <2>7
<1>7. Applied(a, f).realized = a.realized + gain
  <2>1. /\ f.symbol = s /\ f.side = "Sell" /\ f.qty = q
        /\ f.price = t * (v * Scale) /\ f.fee = q * (t * (v * FeeRate))
    BY DEF ExitFill
  <2> HIDE DEF f
  <2>2. SellFits(a, f) BY <1>2, <2>1 DEF SellFits
  <2>3. Applied(a, f) = Sold(a, f) BY <2>1, <2>2 DEF Applied, Applies
  <2> HIDE DEF v
  <2> QED BY <1>1, <1>2, <2>1, <2>3 DEF Sold
<1>8. gain = q * (net - avg)
  <2>1. Scale = g + FeeRate BY <1>1, ScalePositive
  <2> DEFINE h == FeeRate
  <2>2. h \in Nat /\ Scale = g + h BY <1>1, <2>1
  <2> HIDE DEF v, g, q, avg, u, w, c, sold, h
  <2>3. ((t * (v * (g + h))) - avg) * q - q * (t * (v * h))
          = q * (t * (v * g) - avg)
    BY <1>1, <1>2, <2>2
  <2> QED BY <2>2, <2>3 DEF h
<1>9. Scale * gain - FeeRate * (q * avg) = q * (Scale * net - c * avg)
  <2> HIDE DEF q, avg, v, g, net, gain
  <2> QED BY <1>1, <1>2, <1>3, <1>8
<1>10. q * (Scale * net - c * avg) \in Nat \ {0}
  <2> HIDE DEF q, avg, v, g, net, c
  <2>1. Scale * net \in Nat /\ c * avg \in Nat
    BY <1>1, <1>2, <1>3, ProductNat
  <2>2. Scale * net - c * avg \in Nat \ {0}
    BY <1>6, <2>1
  <2> QED BY <1>2, <2>2, ProductPositive
<1>11. gain \in Int /\ FeeRate * (q * avg) \in Int
  <2> HIDE DEF q, avg, v, g, net, gain
  <2> QED BY <1>1, <1>2, <1>3, <1>8
<1>12. EntryFee(a, s) = FeeRate * (q * avg)
  BY DEF EntryFee, Basis
<1> HIDE DEF gain, q, avg, net, c
<1>13. FeeRate * (q * avg) < Scale * gain
  BY <1>1, <1>9, <1>10, <1>11
<1>14. Applied(a, f).realized - a.realized = gain
  BY <1>2, <1>7, <1>11
<1> QED BY <1>12, <1>13, <1>14

-----------------------------------------------------------------------------
(* The account in memory and the account on disk, and what each step does  *)
(* to them.                                                                *)

Good(a) ==
  /\ a \in Accounts /\ KeysHeld(a)
  /\ Cardinality(a.open) <= MaxOpenPositions

AccountsGood ==
  /\ account # Absent => Good(account)
  /\ saved # Absent => Good(saved.account)

(* The inductive invariant makes the account in memory and the one on     *)
(* file good accounts.                                                    *)
LEMMA IInvIsGood == IInv => AccountsGood
<1> SUFFICES ASSUME IInv PROVE AccountsGood
  OBVIOUS
<1>1. ASSUME account # Absent PROVE Good(account)
  <2> DEFINE k == [account |-> account, audit |-> audit]
  <2>1. k \in Kept BY <1>1 DEF Kept
  <2>2. k.account = account OBVIOUS
  <2> QED BY <2>1, <2>2, <1>1
          DEF IInv, TypeOK, PositionsWithinLimit, KeysAreHoldings, Good, KeysHeld
<1>2. ASSUME saved # Absent PROVE Good(saved.account)
  <2>1. saved \in Kept BY <1>2 DEF Kept
  <2>2. saved.account \in Accounts BY <1>2 DEF IInv, TypeOK, Saves
  <2> QED BY <2>1, <2>2
          DEF IInv, PositionsWithinLimit, KeysAreHoldings, Good, KeysHeld
<1> QED BY <1>1, <1>2 DEF AccountsGood

(* Good accounts are within the position limit and have their holdings as *)
(* keys.                                                                  *)
LEMMA GoodIsEnough ==
  AccountsGood' => PositionsWithinLimit' /\ KeysAreHoldings'
<1> SUFFICES ASSUME AccountsGood', NEW k \in Kept'
             PROVE  /\ Cardinality(k.account.open) <= MaxOpenPositions
                    /\ KeysHeld(k.account)
  BY DEF PositionsWithinLimit, KeysAreHoldings, KeysHeld
<1>1. CASE k = [account |-> account', audit |-> audit'] /\ account' # Absent
  BY <1>1 DEF AccountsGood, Good
<1>2. CASE k = saved' /\ saved' # Absent
  BY <1>2 DEF AccountsGood, Good
<1> QED BY <1>1, <1>2 DEF Kept

(* The starting account is good.                                           *)
LEMMA NewAccountGood == Good(NewAccount(Capital)) /\ NewAccount(Capital) # Absent
<1>1. NewAccount(Capital) \in Accounts /\ KeysHeld(NewAccount(Capital))
  BY CapitalPositive, NewAccountIsAccount
<1>2. NewAccount(Capital).open = {} BY DEF NewAccount
<1>3. Cardinality({}) = 0 BY FS_EmptySet
<1> QED BY <1>1, <1>2, <1>3, AbsentIsNothing, RatesAreRates DEF Good

(* One more position than an account below the limit has is within it.     *)
LEMMA BoughtGood ==
  ASSUME NEW a, Good(a), NEW f, ProperFill(f), BuyFits(a, f),
         Cardinality(a.open) < MaxOpenPositions
  PROVE  Good(Bought(a, f))
<1>1. Bought(a, f) \in Accounts /\ KeysHeld(Bought(a, f))
  BY BoughtIsAccount DEF Good
<1>2. Bought(a, f).open = a.open \cup {f.symbol}
  BY DEF Bought
<1>3. IsFiniteSet(a.open)
  BY SymbolsFinite, FS_Subset DEF Good, Accounts
<1>4. Cardinality(a.open) \in Nat
  BY <1>3, FS_CardinalityType
<1>5. /\ Cardinality(a.open \cup {f.symbol}) = Cardinality(a.open)
      \/ Cardinality(a.open \cup {f.symbol}) = Cardinality(a.open) + 1
  BY <1>3, FS_AddElement
<1> QED BY <1>1, <1>2, <1>4, <1>5, RatesAreRates DEF Good

(* A sell keeps an account good.                                          *)
LEMMA SoldGood ==
  ASSUME NEW a, Good(a), NEW f, ProperFill(f), SellFits(a, f)
  PROVE  Good(Sold(a, f))
<1>1. Sold(a, f) \in Accounts /\ KeysHeld(Sold(a, f))
  BY SoldIsAccount DEF Good
<1>2. Sold(a, f).open \subseteq a.open
  BY DEF Sold
<1>3. IsFiniteSet(a.open)
  BY SymbolsFinite, FS_Subset DEF Good, Accounts
<1>4. /\ Cardinality(Sold(a, f).open) <= Cardinality(a.open)
      /\ Cardinality(a.open) \in Nat /\ Cardinality(Sold(a, f).open) \in Nat
  BY <1>2, <1>3, FS_Subset, FS_CardinalityType
<1> QED BY <1>1, <1>4, RatesAreRates DEF Good

(* What an exit leaves: the whole holding is sold (Pipeline.run step 3.5). *)
LEMMA ExitFacts ==
  ASSUME IInv, NEW t \in Ticks, NEW score \in Scores, Exit(t, score)
  PROVE  /\ Good(account') /\ sym \in Symbols
         /\ LET f == ExitFill(sym, account.qty[sym], t)
            IN  /\ ProperFill(f) /\ SellFits(account, f)
                /\ f.symbol = sym /\ f.qty = account.qty[sym]
                /\ account' = Sold(account, f)
<1> DEFINE f == ExitFill(sym, account.qty[sym], t)
<1>1. /\ ppc = "fetching" /\ sym \in account.open
      /\ account' = Applied(account, f)
  BY DEF Exit, Exiting
<1>2. account # Absent /\ sym \in Symbols
  BY <1>1 DEF IInv, TypeOK
<1>3. Good(account) BY <1>2, IInvIsGood DEF AccountsGood
<1>4. account.qty[sym] \in Nat \ {0}
  BY <1>1, <1>2, <1>3 DEF Good, KeysHeld, Accounts
<1>5. ProperFill(f) BY <1>2, <1>4, ExitFillIsProper
<1>6. /\ f.symbol = sym /\ f.side = "Sell" /\ f.qty = account.qty[sym]
  BY DEF ExitFill
<1> HIDE DEF f
<1>7. SellFits(account, f)
  BY <1>1, <1>4, <1>6 DEF SellFits
<1>8. account' = Sold(account, f)
  BY <1>1, <1>6, <1>7 DEF Applied, Applies
<1>9. Good(account') BY <1>3, <1>5, <1>7, <1>8, SoldGood
<1> QED BY <1>2, <1>5, <1>6, <1>7, <1>8, <1>9 DEF f

(* What an entry leaves; it never raises (Pipeline.run steps 5 and 6).     *)
LEMMA EnterFacts ==
  ASSUME IInv, NEW t \in Ticks, NEW score \in Scores, Enter(t, score)
  PROVE  /\ Good(account') /\ sym \in Symbols
         /\ BuyFits(account, EntryFill(sym, SizedQty(account, t), t))
         /\ EntryFill(sym, SizedQty(account, t), t).fee \in Nat
         /\ LET f == EntryFill(sym, SizedQty(account, t), t)
            IN  /\ ProperFill(f) /\ f.symbol = sym /\ sym \notin account.open
                /\ account' = Bought(account, f)
<1> DEFINE f == EntryFill(sym, SizedQty(account, t), t)
<1>1. /\ ppc = "fetching" /\ Approved(account, sym, t)
      /\ account' = Applied(account, f)
  BY DEF Enter, Entering
<1>2. account # Absent /\ sym \in Symbols
  BY <1>1 DEF IInv, TypeOK
<1>3. Good(account) BY <1>2, IInvIsGood DEF AccountsGood
<1>4. ProperFill(f) /\ BuyFits(account, f)
  BY <1>1, <1>2, <1>3, EntryFillIsProper, ApprovedFits DEF Good
<1>5. f.side = "Buy" /\ f.symbol = sym BY DEF EntryFill
<1> HIDE DEF f
<1>6. account' = Bought(account, f)
  BY <1>1, <1>4, <1>5 DEF Applied, Applies
<1>7. Good(account')
  BY <1>1, <1>3, <1>4, <1>6, BoughtGood DEF Approved
<1>8. f.fee \in Nat /\ sym \notin account.open
  BY <1>1, <1>4 DEF ProperFill, Approved
<1> QED BY <1>2, <1>4, <1>5, <1>6, <1>7, <1>8 DEF f

-----------------------------------------------------------------------------
(* Init and every step keep the invariant.                                 *)

\* no entry of the journal is taken for what a failed record() leaves
LEMMA EntriesApart == MarkersApart(Entries)
BY MarkersAreNoEntries DEF MarkersApart

(* The inductive invariant holds of a process that has not loaded         *)
(* anything.                                                              *)
LEMMA InitIInv == Init => IInv
<1> SUFFICES ASSUME Init PROVE IInv
  OBVIOUS
<1>1. TypeOK
  BY MarketBounds
     DEF Init, TypeOK, EmptyJournal, JournalFiles, NoAudit, Audits, RunIds
<1>2. Kept = {}
  BY DEF Init, Kept
<1>3. JournalAheadOfFile /\ MemoryAheadByOneFill
  BY MarkersAreNoEntries
     DEF Init, JournalAheadOfFile, MemoryAheadByOneFill, NoAudit, EmptyJournal
<1> QED BY <1>1, <1>2, <1>3 DEF IInv, PositionsWithinLimit, KeysAreHoldings

(* Each record() leaves a journal file again (services/journal.py).        *)
LEMMA JournalKeepsType ==
  ASSUME NEW j \in JournalFiles(Entries), NEW e \in Entries
  PROVE  /\ Recorded(j, e) \in JournalFiles(Entries)
         /\ FailedRecords(j, e) \subseteq JournalFiles(Entries)
BY EntriesApart, RecordedFacts, FailedFacts

(* Every step of the pipeline keeps the types.                            *)
LEMMA StepTypeOK == IInv /\ [Next]_vars => TypeOK'
<1> SUFFICES ASSUME IInv, [Next]_vars PROVE TypeOK'
  OBVIOUS
<1> USE MarketBounds DEF IInv
<1>1. CASE Boot
  <2>1. account' \in Accounts
    BY <1>1, NewAccountGood DEF Boot, TypeOK, Saves, Good
  <2>2. account' # Absent BY <2>1, AbsentIsNothing
  <2>3. audit' \in Audits
    BY <1>1 DEF Boot, TypeOK, Saves, NoAudit, Audits
  <2> QED BY <1>1, <2>1, <2>2, <2>3 DEF Boot, TypeOK
<1>2. CASE Crash
  BY <1>2 DEF Crash, TypeOK, NoAudit, Audits
<1>3. ASSUME NEW s \in Symbols, Call(s) PROVE TypeOK'
  BY <1>3, AbsentIsNoSymbol DEF Call, TypeOK
<1>4. CASE FetchFails
  BY <1>4 DEF FetchFails, Return, TypeOK
<1>5. ASSUME NEW t \in Ticks, NEW score \in Scores, Exit(t, score)
      PROVE  TypeOK'
  <2>1. Good(account') /\ sym \in Symbols BY <1>5, ExitFacts
  <2>2. account' \in Accounts /\ account' # Absent
    BY <2>1, AbsentIsNothing DEF Good
  <2>3. runs' \in RunIds /\ runs' \in 0..MaxRuns
    BY <1>5 DEF Exit, TypeOK, RunIds
  <2>4. audit' \in Audits BY <1>5, <2>3 DEF Exit, TypeOK, Audits
  <2>5. entry' \in Entries /\ ppc' = "recording" /\ sym' = sym
    BY <1>5, <2>1, <2>3 DEF Exit, Report, Entries
  <2>6. entry' # Absent BY <2>5, AbsentIsNoEntry
  <2> QED BY <1>5, <2>1, <2>2, <2>3, <2>4, <2>5, <2>6 DEF Exit, TypeOK
<1>6. ASSUME NEW t \in Ticks, NEW score \in Scores, Enter(t, score)
      PROVE  TypeOK'
  <2> DEFINE f == EntryFill(sym, SizedQty(account, t), t)
  <2>1. Good(account') /\ sym \in Symbols /\ BuyFits(account, f) /\ f.fee \in Nat
    BY <1>6, EnterFacts
  <2>2. account' \in Accounts /\ account' # Absent
    BY <2>1, AbsentIsNothing DEF Good
  <2>3. runs' \in RunIds /\ runs' \in 0..MaxRuns
    BY <1>6 DEF Enter, TypeOK, RunIds
  <2>4. /\ audit' = [fills |-> audit.fills \cup {runs'},
                     fees |-> audit.fees + f.fee]
        /\ Report("ENTER", runs')
    BY <1>6, <2>1 DEF Enter
  <2> HIDE DEF f
  <2>5. audit' \in Audits BY <2>1, <2>3, <2>4 DEF TypeOK, Audits
  <2>6. entry' \in Entries /\ ppc' = "recording" /\ sym' = sym
    BY <2>1, <2>3, <2>4 DEF Report, Entries
  <2>7. entry' # Absent BY <2>6, AbsentIsNoEntry
  <2>8. UNCHANGED <<saved, journal, dropped>> /\ ppc = "fetching"
    BY <1>6 DEF Enter
  <2> QED BY <2>1, <2>2, <2>3, <2>5, <2>6, <2>7, <2>8 DEF TypeOK
<1>7. ASSUME NEW t \in Ticks, NEW score \in Scores, Pass(t, score)
      PROVE  TypeOK'
  <2>1. sym \in Symbols /\ runs' \in 0..MaxRuns
    BY <1>7 DEF Pass, TypeOK
  <2>2. Decide(score) \in {"ENTER", "MONITOR", "REJECT"}
    BY ScoresAreNat DEF Decide
  <2>3. entry' \in Entries /\ ppc' = "recording" /\ sym' = sym
    BY <1>7, <2>1, <2>2 DEF Pass, Report, Entries
  <2>4. entry' # Absent BY <2>3, AbsentIsNoEntry
  <2> QED BY <1>7, <2>1, <2>3, <2>4 DEF Pass, TypeOK
<1>8. CASE Record \/ RecordFails
  <2>1. journal \in JournalFiles(Entries) /\ entry \in Entries
    BY <1>8 DEF Record, RecordFails, TypeOK
  <2>2. journal' \in JournalFiles(Entries)
    BY <1>8, <2>1, JournalKeepsType DEF Record, RecordFails
  <2>3. entry.fill \in RunIds \cup {0}
    BY <2>1 DEF Entries
  <2>4. dropped' \subseteq RunIds
    BY <1>8, <2>3 DEF Record, RecordFails, Drop, TypeOK
  <2> QED BY <1>8, <2>2, <2>4 DEF Record, RecordFails, Return, TypeOK
<1>9. CASE Save
  <2>1. account \in Accounts BY <1>9 DEF Save, TypeOK
  <2>2. saved' \in Saves BY <1>9, <2>1 DEF Save, TypeOK, Saves
  <2> QED BY <1>9, <2>2 DEF Save, TypeOK
<1>10. CASE UNCHANGED vars
  BY <1>10 DEF vars, TypeOK
<1> QED BY <1>1, <1>2, <1>3, <1>4, <1>5, <1>6, <1>7, <1>8, <1>9, <1>10
        DEF Next, Evaluate

(* Every step of the pipeline keeps the accounts good.                    *)
LEMMA StepAccountsGood == IInv /\ [Next]_vars => AccountsGood'
<1> SUFFICES ASSUME IInv, [Next]_vars PROVE AccountsGood'
  OBVIOUS
<1>0. AccountsGood BY IInvIsGood
<1>1. CASE Boot
  BY <1>0, <1>1, NewAccountGood DEF Boot, AccountsGood
<1>2. CASE Crash
  BY <1>0, <1>2 DEF Crash, AccountsGood
<1>3. ASSUME NEW t \in Ticks, NEW score \in Scores, Exit(t, score)
      PROVE  AccountsGood'
  BY <1>0, <1>3, ExitFacts DEF Exit, AccountsGood
<1>4. ASSUME NEW t \in Ticks, NEW score \in Scores, Enter(t, score)
      PROVE  AccountsGood'
  BY <1>0, <1>4, EnterFacts DEF Enter, AccountsGood
<1>5. CASE Save
  <2>1. account # Absent BY <1>5 DEF Save, IInv, TypeOK
  <2> QED BY <1>0, <1>5, <2>1 DEF Save, AccountsGood
<1>6. CASE UNCHANGED <<account, saved>>
  BY <1>0, <1>6 DEF AccountsGood
<1>7. CASE FetchFails \/ Record \/ RecordFails \/ UNCHANGED vars
  BY <1>6, <1>7 DEF FetchFails, Record, RecordFails, vars
<1>8. ASSUME NEW s \in Symbols, Call(s) PROVE AccountsGood'
  BY <1>6, <1>8 DEF Call
<1>9. ASSUME NEW t \in Ticks, NEW score \in Scores, Pass(t, score)
      PROVE  AccountsGood'
  BY <1>6, <1>9 DEF Pass
<1> QED BY <1>1, <1>2, <1>3, <1>4, <1>5, <1>7, <1>8, <1>9
        DEF Next, Evaluate

(* The fill of a last line without its newline, which the next record()    *)
(* takes its line away from.                                               *)
TailFill(j) == IF j.tail \in Entries THEN {j.tail.fill} ELSE {}

(* A record() that returns keeps every other intact entry, and adds its    *)
(* own unless it continued a torn line (services/journal.py).              *)
LEMMA RecordedFills ==
  ASSUME NEW j \in JournalFiles(Entries), NEW e \in Entries
  PROVE  /\ FillsIn(j) \subseteq FillsIn(Recorded(j, e)) \cup TailFill(j)
         /\ j.tail = Clean /\ e.fill # 0 => e.fill \in FillsIn(Recorded(j, e))
         /\ Recorded(j, e).tail = Clean
<1> DEFINE r == Recorded(j, e)
           n == Len(j.lines)
<1>1. /\ j.lines \in Seq(Entries \cup {Garbage, Mangled})
      /\ j.tail \in Entries \cup {Clean, Partial, Cut}
  BY DEF JournalFiles
<1>2. /\ r.tail = Clean
      /\ r.lines = Append(j.lines, Completed(j.tail, e))
  BY DEF Recorded
<1> HIDE DEF r
<1>3. /\ \A i \in DOMAIN j.lines : i \in DOMAIN r.lines /\ r.lines[i] = j.lines[i]
      /\ n + 1 \in DOMAIN r.lines
      /\ r.lines[n + 1] = Completed(j.tail, e)
  BY <1>1, <1>2
<1>4. \A i \in DOMAIN j.lines :
        j.lines[i] \in Entries \cup {Garbage, Mangled}
  BY <1>1
<1>5. ASSUME NEW x \in Intact(j) PROVE x \in Intact(r) \/ x = j.tail
  BY <1>3, <1>5 DEF Intact
<1>6. ASSUME NEW f \in FillsIn(j) PROVE f \in FillsIn(r) \cup TailFill(j)
  <2>1. PICK x \in Intact(j) : f = x.fill /\ f # 0
    BY <1>6 DEF FillsIn
  <2>2. CASE x \in Intact(r)
    BY <2>1, <2>2 DEF FillsIn
  <2>3. CASE x = j.tail
    <3>1. x \in Entries BY <1>1, <2>1, <2>3 DEF Intact
    <3> QED BY <2>1, <2>3, <3>1 DEF TailFill
  <2> QED BY <1>5, <2>2, <2>3
<1>7. ASSUME j.tail = Clean, e.fill # 0 PROVE e.fill \in FillsIn(r)
  <2>1. Completed(j.tail, e) = e
    BY <1>7, TailsDiffer DEF Completed
  <2>2. e \notin {Garbage, Mangled, Clean, Partial, Cut}
    BY MarkersAreNoEntries
  <2>3. e \in Intact(r)
    <3>1. n + 1 \in DOMAIN r.lines /\ r.lines[n + 1] = e
      BY <1>3, <2>1
    <3> QED BY <2>2, <3>1 DEF Intact
  <2> QED BY <1>7, <2>3 DEF FillsIn
<1> QED BY <1>2, <1>6, <1>7 DEF r

(* A record() that fails keeps every other intact entry; the line it may   *)
(* leave without a newline is its own.                                     *)
LEMMA FailedFills ==
  ASSUME NEW j \in JournalFiles(Entries), NEW e \in Entries,
         NEW g \in FailedRecords(j, e)
  PROVE  /\ FillsIn(j) \subseteq FillsIn(g) \cup TailFill(j)
         /\ g.tail \in Entries => g.tail \in {j.tail, e}
<1>1. \/ g = Recorded(j, e)
      \/ /\ g.lines = j.lines
         /\ g.tail \in Entries => g.tail \in {j.tail, e}
  BY EntriesApart, FailedFacts
<1>2. CASE g = Recorded(j, e)
  BY <1>2, RecordedFills, MarkersAreNoEntries
<1>3. CASE /\ g.lines = j.lines
           /\ g.tail \in Entries => g.tail \in {j.tail, e}
  <2>1. ASSUME NEW f \in FillsIn(j) PROVE f \in FillsIn(g) \cup TailFill(j)
    <3>1. PICK x \in Intact(j) : f = x.fill /\ f # 0
      BY <2>1 DEF FillsIn
    <3>2. x \in Intact(g) \/ x = j.tail
      BY <1>3, <3>1 DEF Intact
    <3>3. CASE x \in Intact(g)
      BY <3>1, <3>3 DEF FillsIn
    <3>4. CASE x = j.tail
      <4>1. x \in Entries BY <3>1, <3>4 DEF Intact, JournalFiles
      <4> QED BY <3>1, <3>4, <4>1 DEF TailFill
    <3> QED BY <3>2, <3>3, <3>4
  <2> QED BY <1>3, <2>1
<1> QED BY <1>1, <1>2, <1>3

(* No step takes a fill out of the journal, unless it is dropped.          *)
LEMMA StepKeepsFills ==
  IInv /\ [Next]_vars =>
    /\ dropped \subseteq dropped'
    /\ FillsIn(journal) \ dropped' \subseteq FillsIn(journal')
<1> SUFFICES ASSUME IInv, [Next]_vars
             PROVE  /\ dropped \subseteq dropped'
                    /\ FillsIn(journal) \ dropped' \subseteq FillsIn(journal')
  OBVIOUS
<1>1. CASE Record \/ RecordFails
  <2>1. journal \in JournalFiles(Entries) /\ entry \in Entries
    BY <1>1 DEF Record, RecordFails, IInv, TypeOK
  <2>2. FillsIn(journal) \subseteq FillsIn(journal') \cup TailFill(journal)
    BY <1>1, <2>1, RecordedFills, FailedFills DEF Record, RecordFails
  <2>3. TailFill(journal) \subseteq dropped \cup {0}
    BY DEF TailFill, IInv, MemoryAheadByOneFill
  <2>4. dropped \subseteq dropped'
    BY <1>1 DEF Record, RecordFails, Drop
  <2>5. 0 \notin FillsIn(journal)
    BY DEF FillsIn
  <2> QED
    BY <2>2, <2>3, <2>4, <2>5
<1>2. CASE ~(Record \/ RecordFails)
  <2>1. UNCHANGED <<journal, dropped>>
    BY <1>2 DEF Next, Boot, Crash, Call, FetchFails, Evaluate, Exit, Enter,
                Pass, Save, vars
  <2> QED
    BY <2>1
<1> QED
  BY <1>1, <1>2

JournalFacts == JournalAheadOfFile /\ MemoryAheadByOneFill

(* Every step of the pipeline keeps the journal ahead of the file.        *)
LEMMA StepJournal == IInv /\ [Next]_vars => JournalFacts'
<1> SUFFICES ASSUME IInv, [Next]_vars PROVE JournalFacts'
  OBVIOUS
<1> USE DEF JournalFacts, JournalAheadOfFile, MemoryAheadByOneFill, IInv
<1>1. CASE Boot
  BY <1>1, AbsentIsNothing DEF Boot, TypeOK, NoAudit, Saves
<1>2. CASE Crash
  BY <1>2 DEF Crash, NoAudit
<1>3. ASSUME NEW s \in Symbols, Call(s) PROVE JournalFacts'
  BY <1>3 DEF Call
<1>4. CASE FetchFails
  BY <1>4 DEF FetchFails, Return
<1>5. ASSUME NEW t \in Ticks, NEW score \in Scores, Exit(t, score)
      PROVE  JournalFacts'
  <2>1. entry'.fill = runs' /\ ppc' = "recording"
    BY <1>5 DEF Exit, Report
  <2>2. audit'.fills = audit.fills \cup {runs'}
    BY <1>5 DEF Exit, TypeOK, Audits
  <2> QED BY <1>5, <2>1, <2>2 DEF Exit
<1>6. ASSUME NEW t \in Ticks, NEW score \in Scores, Enter(t, score)
      PROVE  JournalFacts'
  <2>1. BuyFits(account, EntryFill(sym, SizedQty(account, t), t))
    BY <1>6, EnterFacts
  <2>2. Report("ENTER", runs') /\ audit'.fills = audit.fills \cup {runs'}
    BY <1>6, <2>1 DEF Enter
  <2>3. entry'.fill = runs' /\ ppc' = "recording"
    BY <2>2 DEF Report
  <2> QED BY <1>6, <2>2, <2>3 DEF Enter
<1>7. ASSUME NEW t \in Ticks, NEW score \in Scores, Pass(t, score)
      PROVE  JournalFacts'
  BY <1>7 DEF Pass, Report
<1>8. CASE Record \/ RecordFails
  <2>1. /\ journal \in JournalFiles(Entries) /\ entry \in Entries
        /\ entry.fill \in RunIds \cup {0}
    BY <1>8 DEF Record, RecordFails, TypeOK, Entries
  <2>2. /\ dropped \subseteq dropped'
        /\ FillsIn(journal) \ dropped' \subseteq FillsIn(journal')
    BY StepKeepsFills
  <2>7. entry.fill \in FillsIn(journal') \cup dropped' \cup {0}
    <3>1. CASE Record /\ journal.tail = Clean
      BY <3>1, <2>1, RecordedFills DEF Record
    <3>2. CASE Record /\ journal.tail # Clean
      BY <3>2 DEF Record, Drop
    <3>3. CASE RecordFails
      BY <3>3 DEF RecordFails, Drop
    <3> QED BY <1>8, <3>1, <3>2, <3>3
  <2>8. journal'.tail \in Entries => journal'.tail.fill \in dropped' \cup {0}
    <3>1. CASE Record
      <4>1. journal'.tail = Clean BY <3>1, <2>1, RecordedFills DEF Record
      <4> QED BY <4>1, MarkersAreNoEntries
    <3>2. CASE RecordFails
      <4>1. journal'.tail \in Entries => journal'.tail \in {journal.tail, entry}
        BY <3>2, <2>1, FailedFills DEF RecordFails
      <4>2. entry.fill \in dropped' \cup {0}
        BY <3>2 DEF RecordFails, Drop
      <4> QED BY <4>1, <4>2, <2>2
    <3> QED BY <1>8, <3>1, <3>2
  <2>9. /\ ppc = "recording" /\ ppc' = "idle"
        /\ UNCHANGED <<saved, audit>>
    BY <1>8 DEF Record, RecordFails, Return
  <2>10. 0 \notin audit.fills /\ (saved # Absent => 0 \notin saved.audit.fills)
    BY DEF TypeOK, Audits, Saves, RunIds
  <2> QED BY <2>2, <2>7, <2>8, <2>9, <2>10
<1>9. CASE Save
  BY <1>9 DEF Save
<1>10. CASE UNCHANGED vars
  BY <1>10 DEF vars
<1> QED BY <1>1, <1>2, <1>3, <1>4, <1>5, <1>6, <1>7, <1>8, <1>9, <1>10
        DEF Next, Evaluate

(* Every step of the pipeline keeps the inductive invariant.              *)
LEMMA StepIInv == IInv /\ [Next]_vars => IInv'
BY StepTypeOK, StepAccountsGood, GoodIsEnough, StepJournal
   DEF IInv, JournalFacts

(* The inductive invariant holds in every state of the pipeline, with     *)
(* failures, crashes and restarts.                                        *)
THEOREM Inductive == Spec => []IInv
<1>1. Init => IInv BY InitIInv
<1>2. IInv /\ [Next]_vars => IInv' BY StepIInv
<1> QED BY <1>1, <1>2, PTL DEF Spec

-----------------------------------------------------------------------------
(* Cash is never negative, no holding is short, and run() is always where  *)
(* its locals say it is.                                                   *)
THEOREM TypeCorrect == Spec => []TypeOK
<1>1. IInv => TypeOK BY DEF IInv
<1> QED BY <1>1, Inductive, PTL

(* No sequence of runs, failures, crashes and restarts opens more          *)
(* positions than max_open_positions (RiskEngine.approve rule 1).          *)
THEOREM PositionLimit == Spec => []PositionsWithinLimit
<1>1. IInv => PositionsWithinLimit BY DEF IInv
<1> QED BY <1>1, Inductive, PTL

(* In memory and on disk, a symbol is a key exactly when it is held.       *)
THEOREM HoldingsAreKeys == Spec => []KeysAreHoldings
<1>1. IInv => KeysAreHoldings BY DEF IInv
<1> QED BY <1>1, Inductive, PTL

(* Every fill a restart would restore is in the journal, unless its own    *)
(* record() failed or continued a torn line.                               *)
THEOREM JournalFirst == Spec => []JournalAheadOfFile
<1>1. IInv => JournalAheadOfFile BY DEF IInv
<1> QED BY <1>1, Inductive, PTL

(* apply_fill never raises on an entry the risk engine approved: sizing    *)
(* leaves room for slippage and fee, for every price and every cash; and   *)
(* the order is at most a fraction of a lot short of the minimum value.    *)
THEOREM EntriesFit == Spec => []ApprovedEntryFits
<1>1. IInv => ApprovedEntryFits
  BY ApprovedFits, ShortByLessThanALot DEF IInv, TypeOK, ApprovedEntryFits
<1> QED BY <1>1, Inductive, PTL

(* No entry is undone by the price and the score it was made at.           *)
THEOREM EntriesHold == Spec => []FreshEntryHolds
<1>1. ASSUME IInv, account # Absent PROVE account \in Accounts /\ KeysHeld(account)
  BY <1>1, IInvIsGood DEF AccountsGood, Good
<1>2. IInv => FreshEntryHolds
  BY <1>1, EntryHolds DEF FreshEntryHolds
<1> QED BY <1>2, Inductive, PTL

(* Every take-profit exit leaves the trade with a profit after the fees of *)
(* both its sides, whatever average it is measured from: TakeProfitPays.   *)
THEOREM TakeProfitsPay == Spec => []TakeProfitPays
<1>1. ASSUME IInv, account # Absent PROVE account \in Accounts /\ KeysHeld(account)
  BY <1>1, IInvIsGood DEF AccountsGood, Good
<1>2. ASSUME IInv PROVE TakeProfitPays
  <2> SUFFICES ASSUME account # Absent, NEW s \in account.open, NEW t \in Ticks,
                      NEW score \in Scores,
                      ExitReason(account, s, t, score) = "take_profit"
               PROVE  LET after == Applied(account, ExitFill(s, account.qty[s], t))
                      IN  EntryFee(account, s)
                            < Scale * (after.realized - account.realized)
    BY DEF TakeProfitPays
  <2>1. Quote(t) * Scale >= account.avg[s] * (Scale + TakeProfit)
    BY DEF ExitReason
  <2> QED BY <1>1, <1>2, <2>1, TakeProfitGains
<1> QED BY <1>2, Inductive, PTL

-----------------------------------------------------------------------------
(* The books of the account in memory and of the one on disk. *)

Balanced(a, au) == a.cash + CostBasis(a) = Capital + a.realized - au.fees

BooksKept ==
  /\ account # Absent => Balanced(account, audit)
  /\ saved # Absent => Balanced(saved.account, saved.audit)

(* The books balance exactly when memory's and the file's do.             *)
LEMMA BooksAreOfBoth == BooksBalance <=> BooksKept
<1>1. BooksBalance <=> \A k \in Kept : Balanced(k.account, k.audit)
  BY DEF BooksBalance, Balanced
<1> DEFINE live == [account |-> account, audit |-> audit]
<1>2. live.account = account /\ live.audit = audit
  OBVIOUS
<1>3. Kept = (IF account = Absent THEN {} ELSE {live})
               \cup (IF saved = Absent THEN {} ELSE {saved})
  BY DEF Kept
<1> HIDE DEF live
<1> QED BY <1>1, <1>2, <1>3 DEF BooksKept

(* The books of a fresh account balance.                                  *)
LEMMA FreshBooksBalance == Balanced(NewAccount(Capital), NoAudit)
<1>1. CostBasis(NewAccount(Capital)) = 0
  BY NothingHeldCostsNothing DEF NewAccount
<1> QED BY <1>1, CapitalPositive DEF Balanced, NewAccount, NoAudit

(* An entry only opens positions that were not held and pays its fee from  *)
(* the cash, an exit sells the whole holding, and whatever a failure or a  *)
(* restart does to the account it does to the history of its fees.         *)
LEMMA StepBooks == IInv /\ BooksKept /\ [Next]_vars => BooksKept'
<1> SUFFICES ASSUME IInv, BooksKept, [Next]_vars PROVE BooksKept'
  OBVIOUS
<1>1. CASE Boot
  BY <1>1, FreshBooksBalance DEF Boot, BooksKept
<1>2. CASE Crash
  BY <1>2 DEF Crash, BooksKept
<1>3. ASSUME NEW t \in Ticks, NEW score \in Scores, Exit(t, score)
      PROVE  BooksKept'
  <2> DEFINE f == ExitFill(sym, account.qty[sym], t)
  <2>1. account # Absent /\ audit \in Audits
    BY <1>3 DEF Exit, IInv, TypeOK
  <2>2. Good(account) /\ Good(account')
    BY <1>3, <2>1, IInvIsGood, ExitFacts DEF AccountsGood
  <2>3. /\ ProperFill(f) /\ SellFits(account, f) /\ f.qty = account.qty[f.symbol]
        /\ account' = Sold(account, f)
    BY <1>3, ExitFacts
  <2>4. audit'.fees = audit.fees /\ audit.fees \in Nat /\ saved' = saved
    BY <1>3, <2>1 DEF Exit, Audits
  <2> HIDE DEF f
  <2>5. (account'.cash + CostBasis(account')) - account'.realized
          = (account.cash + CostBasis(account)) - account.realized
    BY <2>2, <2>3, WholeSaleBalances DEF Good
  <2>6. /\ account.cash \in Int /\ account.realized \in Int
        /\ account'.cash \in Int /\ account'.realized \in Int
        /\ CostBasis(account) \in Int /\ CostBasis(account') \in Int
        /\ Capital \in Int
    BY <2>2, CostIsInt, CapitalPositive DEF Good, Accounts
  <2>7. Balanced(account, audit) BY <2>1 DEF BooksKept
  <2> DEFINE c == account.cash + CostBasis(account)
             c1 == account'.cash + CostBasis(account')
  <2>8. /\ c \in Int /\ c1 \in Int /\ audit.fees \in Int
        /\ account.realized \in Int /\ account'.realized \in Int
        /\ c = Capital + account.realized - audit.fees
        /\ c1 - account'.realized = c - account.realized
    BY <2>4, <2>5, <2>6, <2>7 DEF Balanced
  <2>9. c1 = Capital + account'.realized - audit'.fees
    <3> HIDE DEF c, c1
    <3>1. /\ Capital \in Int /\ audit'.fees = audit.fees
          /\ c1 = (c - account.realized) + account'.realized
      BY <2>4, <2>6, <2>8
    <3> QED BY <3>1, <2>8
  <2>10. Balanced(account', audit') BY <2>9 DEF Balanced
  <2> QED BY <2>4, <2>10 DEF BooksKept
<1>4. ASSUME NEW t \in Ticks, NEW score \in Scores, Enter(t, score)
      PROVE  BooksKept'
  <2> DEFINE f == EntryFill(sym, SizedQty(account, t), t)
  <2>1. account # Absent /\ audit \in Audits
    BY <1>4 DEF Enter, IInv, TypeOK
  <2>2. Good(account) /\ Good(account')
    BY <1>4, <2>1, IInvIsGood, EnterFacts DEF AccountsGood
  <2>3. /\ ProperFill(f) /\ BuyFits(account, f) /\ f.symbol \notin account.open
        /\ account' = Bought(account, f)
    BY <1>4, EnterFacts
  <2>4. audit'.fees = audit.fees + f.fee /\ saved' = saved
    BY <1>4, <2>3 DEF Enter
  <2>5. audit.fees \in Nat /\ f.fee \in Nat
    BY <2>1, <2>3 DEF Audits, ProperFill
  <2> HIDE DEF f
  <2>6. account'.cash + CostBasis(account')
          = (account.cash + CostBasis(account)) - f.fee
    BY <2>2, <2>3, FirstBuyBalances DEF Good
  <2>7. account'.realized = account.realized
    BY <2>3 DEF Bought
  <2>8. /\ account.cash \in Int /\ account.realized \in Int
        /\ account'.cash \in Int
        /\ CostBasis(account) \in Int /\ CostBasis(account') \in Int
        /\ Capital \in Int
    BY <2>2, CostIsInt, CapitalPositive DEF Good, Accounts
  <2>9. Balanced(account, audit) BY <2>1 DEF BooksKept
  <2>10. Balanced(account', audit')
    BY <2>4, <2>5, <2>6, <2>7, <2>8, <2>9 DEF Balanced
  <2> QED BY <2>4, <2>10 DEF BooksKept
<1>5. CASE Save
  <2>1. account # Absent BY <1>5 DEF Save, IInv, TypeOK
  <2> QED BY <1>5, <2>1 DEF Save, BooksKept
<1>6. CASE UNCHANGED <<account, saved, audit>>
  BY <1>6 DEF BooksKept
<1>7. CASE FetchFails \/ Record \/ RecordFails \/ UNCHANGED vars
  BY <1>6, <1>7 DEF FetchFails, Record, RecordFails, vars
<1>8. ASSUME NEW s \in Symbols, Call(s) PROVE BooksKept'
  BY <1>6, <1>8 DEF Call
<1>9. ASSUME NEW t \in Ticks, NEW score \in Scores, Pass(t, score)
      PROVE  BooksKept'
  BY <1>6, <1>9 DEF Pass
<1> QED BY <1>1, <1>2, <1>3, <1>4, <1>5, <1>7, <1>8, <1>9
        DEF Next, Evaluate

(* In memory and on disk, for any set of symbols: cash and the positions   *)
(* at cost are the capital, the realized profit and the buy fees, to the   *)
(* unit, through every sequence of runs, failures, crashes and restarts.   *)
THEOREM BooksAreExact == Spec => []BooksBalance
<1>1. Init => BooksKept BY DEF Init, BooksKept
<1>2. IInv /\ BooksKept /\ [Next]_vars => BooksKept' BY StepBooks
<1>3. BooksKept => BooksBalance BY BooksAreOfBoth
<1> QED BY <1>1, <1>2, <1>3, Inductive, PTL DEF Spec

-----------------------------------------------------------------------------
(* A run is a mutation, a save a commit, a restart a recovery of the       *)
(* durable account.                                                        *)
LEMMA StepRefines == IInv /\ [Next]_vars => [Account!Next]_(Account!vars)
<1> SUFFICES ASSUME IInv, [Next]_vars PROVE [Account!Next]_(Account!vars)
  OBVIOUS
<1> USE AbsentIsNothing DEF IInv, TypeOK, Account!vars, Saves
<1>1. CASE Boot
  <2>1. Account!Recover BY <1>1 DEF Boot, Account!Recover
  <2> QED BY <2>1 DEF Account!Next
<1>2. CASE Crash
  <2>1. Account!Crash BY <1>2 DEF Crash, Account!Crash
  <2> QED BY <2>1 DEF Account!Next
<1>3. ASSUME NEW t \in Ticks, NEW score \in Scores,
             Exit(t, score) \/ Enter(t, score)
      PROVE  Account!Next
  <2>1. account' \in Accounts
    BY <1>3, ExitFacts, EnterFacts DEF Good
  <2>2. account # Absent /\ saved' = saved
    BY <1>3 DEF Exit, Enter
  <2>3. Account!Mutate BY <2>1, <2>2 DEF Account!Mutate
  <2> QED BY <2>3 DEF Account!Next
<1>4. CASE Save
  <2>1. account # Absent /\ saved' # Absent
    BY <1>4 DEF Save
  <2>2. Account!Commit BY <1>4, <2>1 DEF Save, Account!Commit
  <2> QED BY <2>2 DEF Account!Next
<1>5. CASE UNCHANGED <<account, saved>>
  BY <1>5
<1>6. CASE FetchFails \/ Record \/ RecordFails \/ UNCHANGED vars
  BY <1>5, <1>6 DEF FetchFails, Record, RecordFails, vars
<1>7. ASSUME NEW s \in Symbols, Call(s) PROVE UNCHANGED Account!vars
  BY <1>7 DEF Call
<1>8. ASSUME NEW t \in Ticks, NEW score \in Scores, Pass(t, score)
      PROVE  UNCHANGED Account!vars
  BY <1>8 DEF Pass
<1> QED BY <1>1, <1>2, <1>3, <1>4, <1>6, <1>7, <1>8 DEF Next, Evaluate

(* The account's life across runs, saves, crashes and restarts implements  *)
(* the abstract durable value.                                             *)
THEOREM Refinement == Spec => ImplementsDurableAccount
<1>1. Init => Account!Init
  BY DEF Init, Account!Init
<1>2. IInv /\ [Next]_vars => [Account!Next]_(Account!vars)
  BY StepRefines
<1> QED
  BY <1>1, <1>2, Inductive, PTL
     DEF Spec, ImplementsDurableAccount, Account!Spec

-----------------------------------------------------------------------------
(* The process *)

(* UnsavedIsCurrent with the reason why record() saves it from being lost. *)
Covered ==
  \A f \in Unsaved \ slipped :
    f = runs /\ ((ppc = "recording" /\ entry.fill = f) \/ pc = "saveFill")

(* Every step of the process is one of the pipeline, or leaves it alone.   *)
LEMMA SystemStepIsPipelineStep ==
  Lockstep /\ [SystemNext]_allVars => [Next]_vars
<1> SUFFICES ASSUME Lockstep, [SystemNext]_allVars PROVE [Next]_vars
  OBVIOUS
<1> USE DEF Next
<1>1. CASE Build \/ Die
  BY <1>1 DEF Build, Die
<1>2. CASE RunnerAlone
  BY <1>2 DEF RunnerAlone
<1>3. CASE CallRun
  <2>1. Head(todo) \in Symbols
    BY <1>3, HeadTailProperties DEF CallRun, R!CallPipeline, Lockstep
  <2> QED
    BY <1>3, <2>1 DEF CallRun
<1>4. CASE RunGetsNoData
  BY <1>4 DEF RunGetsNoData
<1>5. CASE RunEvaluates
  BY <1>5 DEF RunEvaluates
<1>6. CASE RunReturns \/ RunCannotRecord
  BY <1>6 DEF RunReturns, RunCannotRecord
<1>7. CASE FillSaved \/ CycleSaved
  BY <1>7 DEF FillSaved, CycleSaved, SaveAttempt
<1>8. CASE UNCHANGED allVars
  BY <1>8 DEF allVars
<1> QED
  BY <1>1, <1>2, <1>3, <1>4, <1>5, <1>6, <1>7, <1>8 DEF SystemNext

(* Neither of the two moves without the other where they meet.             *)
LEMMA StepLockstep == Lockstep /\ [SystemNext]_allVars => Lockstep'
<1> SUFFICES ASSUME Lockstep, [SystemNext]_allVars PROVE Lockstep'
  OBVIOUS
<1> USE DEF Lockstep, R!Go
<1>1. SymbolSeq \in Seq(Symbols) /\ << >> \in Seq(Symbols)
  BY SequenceOfSymbols, EmptySeq
<1>2. todo # << >> => Tail(todo) \in Seq(Symbols)
  BY HeadTailProperties
<1>3. CASE Build
  BY <1>3 DEF Build, R!Build, Boot
<1>4. CASE Die
  BY <1>1, <1>4 DEF Die, R!Die, Crash
<1>5. CASE RunnerAlone
  <2>1. ppc' = ppc
    BY <1>5 DEF RunnerAlone, vars
  <2>2. \/ pc' = pc /\ todo' = todo
        \/ /\ pc \notin {"down", "pipeline"} /\ pc' \notin {"down", "pipeline"}
           /\ todo' = todo \/ todo' = SymbolSeq
    BY <1>5 DEF RunnerAlone, R!StartWrites, R!Start, R!ConfigRejected,
                R!CredentialsRejected, R!ValidationPasses, R!CycleBegins,
                R!CycleEnds, R!Finally, R!LoopRaises, R!ConfigAccepted,
                R!LoopEnds, R!Wakes, R!Stop, R!Cancel, R!Awaits
  <2> QED
    BY <1>1, <2>1, <2>2
<1>6. CASE CallRun
  BY <1>6 DEF CallRun, R!CallPipeline, Call
<1>7. CASE RunGetsNoData
  BY <1>2, <1>7
     DEF RunGetsNoData, R!PipelineRaises, R!Cancel, FetchFails, Return
<1>8. CASE RunEvaluates
  <2>1. ppc = "fetching" /\ ppc' \in {"idle", "recording"}
    BY <1>8 DEF RunEvaluates, Evaluate, Exit, Enter, Pass, Report, Return
  <2> QED
    BY <1>2, <1>8, <2>1 DEF RunEvaluates, runner, R!PipelineRaises
<1>9. CASE RunReturns \/ RunCannotRecord
  BY <1>2, <1>9
     DEF RunReturns, RunCannotRecord, Record, RecordFails, Return,
         R!PipelineReturns, R!PipelineRaises
<1>10. CASE FillSaved \/ CycleSaved
  BY <1>10 DEF FillSaved, CycleSaved, SaveAttempt, Save, vars, R!FillSaved,
               R!CycleSaved
<1>11. CASE UNCHANGED allVars
  BY <1>11 DEF allVars, vars, runner
<1> QED
  BY <1>3, <1>4, <1>5, <1>6, <1>7, <1>8, <1>9, <1>10, <1>11 DEF SystemNext

(* Runner and pipeline begin in step.                                     *)
LEMMA InitLockstep == SystemInit => Lockstep
BY EmptySeq DEF SystemInit, Init, R!Init, Lockstep

(* Runner and pipeline are in step in every state of the process.         *)
LEMMA SystemInStep == SystemSpec => []Lockstep
BY InitLockstep, StepLockstep, PTL DEF SystemSpec

(* The process implements the pipeline: no order in which the runner calls *)
(* it, saves after it or is stopped is one the pipeline does not know.     *)
THEOREM SystemImplementsPipeline == SystemSpec => Spec
<1>1. SystemInit => Init
  BY DEF SystemInit
<1> QED
  BY <1>1, SystemInStep, SystemStepIsPipelineStep, PTL DEF SystemSpec, Spec

(* The process implements the runner: what a pipeline run does is always   *)
(* one of the two things Runner leaves open, it returns or it raises.      *)
THEOREM SystemImplementsRunner == SystemSpec => R!Spec
<1>1. SystemInit => R!Init
  BY DEF SystemInit
<1>2. [SystemNext]_allVars => [R!Next]_(R!vars)
  <2> SUFFICES ASSUME [SystemNext]_allVars PROVE R!Next \/ UNCHANGED runner
    BY DEF runner, R!vars
  <2> USE DEF R!Next, R!Coroutine, R!StartIsQuiet
  <2>1. CASE Build \/ Die
    BY <2>1 DEF Build, Die
  <2>2. CASE RunnerAlone
    <3>1. Written \in BOOLEAN
      BY DEF Written
    <3> QED
      BY <2>2, <3>1 DEF RunnerAlone
  <2>3. CASE CallRun \/ RunGetsNoData \/ RunEvaluates
    BY <2>3 DEF CallRun, RunGetsNoData, RunEvaluates
  <2>4. CASE RunReturns
    <3>1. (entry.fill # 0) \in BOOLEAN
      OBVIOUS
    <3> QED
      BY <2>4, <3>1 DEF RunReturns
  <2>5. CASE RunCannotRecord
    BY <2>5 DEF RunCannotRecord
  <2>6. CASE FillSaved \/ CycleSaved
    BY <2>6 DEF FillSaved, CycleSaved
  <2>7. CASE UNCHANGED allVars
    BY <2>7 DEF allVars
  <2> QED
    BY <2>1, <2>2, <2>3, <2>4, <2>5, <2>6, <2>7 DEF SystemNext
<1> QED
  BY <1>1, <1>2, PTL DEF SystemSpec, R!Spec

-----------------------------------------------------------------------------
(* The journal and the runner's file *)

(* The line a run adds ends the journal, behind those of the runs of its   *)
(* cycle that returned before it.                                          *)
LEMMA NextLineEnds ==
  ASSUME NEW j \in JournalFiles(Entries), NEW e \in Entries,
         NEW done \in Seq(Symbols), done # << >> => EndsWith(j, done)
  PROVE  EndsWith(Recorded(j, e), Append(done, e.symbol))
<1> DEFINE r == Recorded(j, e)
           more == Append(done, e.symbol)
           n == Len(j.lines)
           m == Len(done)
<1>1. /\ r.tail = Clean /\ n \in Nat /\ DOMAIN r.lines = 1..(n + 1)
      /\ \A i \in 1..n : r.lines[i] = j.lines[i]
      /\ r.lines[n + 1] \in {e, Garbage, Mangled}
      /\ j.tail = Clean => r.lines[n + 1] = e
      /\ r.lines \in Seq(Entries \cup {Garbage, Mangled})
  <2>1. MarkersApart(Entries)
    BY MarkersAreNoEntries DEF MarkersApart
  <2>2. r \in JournalFiles(Entries)
    BY <2>1, RecordedFacts
  <2> QED
    BY <2>1, <2>2, RecordedFacts DEF JournalFiles
<1>2. /\ m \in Nat /\ DOMAIN done = 1..m /\ DOMAIN more = 1..(m + 1)
      /\ Len(more) = m + 1 /\ more[m + 1] = e.symbol
      /\ \A i \in 1..m : more[i] = done[i]
  BY DEF Entries
<1>3. Len(r.lines) = n + 1
  BY <1>1
<1>4. e \notin {Garbage, Mangled}
  BY MarkersAreNoEntries
<1>5. m # 0 => /\ n - m >= 0 /\ j.tail = Clean
               /\ \A i \in 1..m :
                    LET line == j.lines[n - m + i]
                    IN  \/ line \notin {Garbage, Mangled} /\ line.symbol = done[i]
                        \/ line \in {Garbage, Mangled} /\ i = 1
  BY <1>2 DEF EndsWith
<1> HIDE DEF r, more, n, m
<1>6. n + 1 - (m + 1) = n - m /\ n - m >= 0 /\ n - m + (m + 1) = n + 1
  BY <1>1, <1>2, <1>5
<1>7. ASSUME NEW i \in DOMAIN more
      PROVE  LET line == r.lines[n - m + i]
             IN  \/ line \notin {Garbage, Mangled} /\ line.symbol = more[i]
                 \/ line \in {Garbage, Mangled} /\ i = 1
  <2>1. CASE i = m + 1
    <3>1. m # 0 => r.lines[n + 1] = e
      BY <1>1, <1>5
    <3>2. m = 0 => i = 1
      BY <2>1
    <3> QED
      BY <1>1, <1>2, <1>4, <1>6, <2>1, <3>1, <3>2
  <2>2. CASE i # m + 1
    <3>1. i \in 1..m /\ m # 0 /\ n - m + i \in 1..n
      BY <1>1, <1>2, <1>6, <2>2
    <3> QED
      BY <1>1, <1>2, <1>5, <3>1
  <2> QED
    BY <2>1, <2>2
<1>8. EndsWith(r, more)
  BY <1>1, <1>2, <1>3, <1>6, <1>7 DEF EndsWith
<1> QED
  BY <1>8 DEF r, more

(* The inductive invariant of the composed system holds at the start.     *)
LEMMA InitSystemIInv == SystemInit => SystemIInv
<1> SUFFICES ASSUME SystemInit PROVE SystemIInv
  OBVIOUS
<1>1. /\ pc = "down" /\ ppc = "down" /\ file = Absent
      /\ processed = << >> /\ cycleError = FALSE
  BY DEF SystemInit, R!Init, Init
<1>2. Lockstep /\ processed \in Seq(Symbols)
  BY <1>1, InitLockstep
<1>3. FileIsMemory
  BY <1>1 DEF FileIsMemory, R!InCycle
<1> QED
  BY <1>1, <1>2, <1>3
     DEF SystemIInv, RunIsOfNextSymbol, CycleIsJournaled, FileTellsJournal

(* The run that returns or raises is the one that was called.              *)
LEMMA StepNextSymbol ==
  Lockstep /\ RunIsOfNextSymbol /\ [SystemNext]_allVars => RunIsOfNextSymbol'
<1> SUFFICES ASSUME Lockstep, RunIsOfNextSymbol, [SystemNext]_allVars
             PROVE  RunIsOfNextSymbol'
  OBVIOUS
<1> USE DEF RunIsOfNextSymbol, Lockstep, R!Go
<1>1. CASE Build \/ Die
  BY <1>1 DEF Build, R!Build, Boot, Die, R!Die, Crash
<1>2. CASE RunnerAlone
  <2>1. UNCHANGED <<sym, entry, ppc>>
    BY <1>2 DEF RunnerAlone, vars
  <2>2. pc' = "pipeline" => pc = "pipeline" /\ todo' = todo
    BY <1>2 DEF RunnerAlone, R!StartWrites, R!Start, R!ConfigRejected,
                R!CredentialsRejected, R!ValidationPasses, R!CycleBegins,
                R!CycleEnds, R!Finally, R!LoopRaises, R!ConfigAccepted,
                R!LoopEnds, R!Wakes, R!Stop, R!Cancel, R!Awaits
  <2> QED
    BY <2>1, <2>2
<1>3. CASE CallRun
  BY <1>3 DEF CallRun, R!CallPipeline, Call
<1>4. CASE RunGetsNoData
  BY <1>4 DEF RunGetsNoData, R!PipelineRaises, R!Cancel, FetchFails, Return
<1>5. CASE RunEvaluates
  <2>1. PICK t \in Ticks, score \in Scores : Evaluate(t, score)
    BY <1>5 DEF RunEvaluates
  <2>2. \/ ppc' = "idle"
        \/ ppc' = "recording" /\ sym' = sym /\ entry'.symbol = sym
    BY <2>1 DEF Evaluate, Exit, Enter, Pass, Report, Return
  <2> QED
    BY <1>5, <2>2 DEF RunEvaluates, runner, R!PipelineRaises
<1>6. CASE RunReturns \/ RunCannotRecord
  BY <1>6 DEF RunReturns, RunCannotRecord, Record, RecordFails, Return,
              R!PipelineReturns, R!PipelineRaises
<1>7. CASE FillSaved \/ CycleSaved
  BY <1>7 DEF FillSaved, CycleSaved, SaveAttempt, Save, vars, R!FillSaved,
              R!CycleSaved
<1>8. CASE UNCHANGED allVars
  BY <1>8 DEF allVars, vars, runner
<1> QED
  BY <1>1, <1>2, <1>3, <1>4, <1>5, <1>6, <1>7, <1>8 DEF SystemNext

(* Nothing but a run that returns writes a whole line, and nothing but one *)
(* that raises writes part of one.                                         *)
LEMMA StepJournaled ==
  TypeOK /\ SystemIInv /\ [SystemNext]_allVars
    => /\ processed' \in Seq(Symbols) /\ cycleError' \in BOOLEAN
       /\ CycleIsJournaled'
<1> SUFFICES ASSUME TypeOK, SystemIInv, [SystemNext]_allVars
             PROVE  /\ processed' \in Seq(Symbols) /\ cycleError' \in BOOLEAN
                    /\ CycleIsJournaled'
  OBVIOUS
<1> USE DEF CycleIsJournaled, R!Go
<1>1. /\ processed \in Seq(Symbols) /\ cycleError \in BOOLEAN
      /\ CycleIsJournaled /\ << >> \in Seq(Symbols)
  BY EmptySeq DEF SystemIInv
<1>2. CASE Build \/ Die
  BY <1>1, <1>2 DEF Build, R!Build, Boot, Die, R!Die, Crash
<1>3. CASE RunnerAlone
  <2>1. journal' = journal
    BY <1>3 DEF RunnerAlone, vars
  <2>2. \/ processed' = << >> /\ cycleError' = FALSE
        \/ UNCHANGED <<processed, cycleError>>
    BY <1>3 DEF RunnerAlone, R!StartWrites, R!Start, R!ConfigRejected,
                R!CredentialsRejected, R!ValidationPasses, R!CycleBegins,
                R!CycleEnds, R!Finally, R!LoopRaises, R!ConfigAccepted,
                R!LoopEnds, R!Wakes, R!Stop, R!Cancel
  <2> QED
    BY <1>1, <2>1, <2>2
<1>4. CASE CallRun
  BY <1>1, <1>4 DEF CallRun, R!CallPipeline, Call
<1>5. CASE RunGetsNoData
  BY <1>1, <1>5
     DEF RunGetsNoData, R!PipelineRaises, R!Cancel, FetchFails, Return
<1>6. CASE RunEvaluates
  <2>1. journal' = journal
    BY <1>6 DEF RunEvaluates, Evaluate, Exit, Enter, Pass
  <2>2. processed' = processed /\ cycleError' \in {TRUE, cycleError}
    BY <1>6 DEF RunEvaluates, runner, R!PipelineRaises
  <2> QED
    BY <1>1, <2>1, <2>2
<1>7. CASE RunReturns
  <2>1. /\ journal \in JournalFiles(Entries) /\ entry \in Entries
        /\ journal' = Recorded(journal, entry)
    BY <1>7 DEF RunReturns, Record, TypeOK
  <2>2. /\ processed' = Append(processed, entry.symbol)
        /\ cycleError' = cycleError
    BY <1>7 DEF RunReturns, Record, R!PipelineReturns, SystemIInv,
                RunIsOfNextSymbol
  <2>3. entry.symbol \in Symbols
    BY <2>1 DEF Entries
  <2>4. processed' \in Seq(Symbols)
    BY <1>1, <2>2, <2>3
  <2>5. ~cycleError => EndsWith(journal', processed')
    BY <1>1, <2>1, <2>2, NextLineEnds
  <2> QED
    BY <1>1, <2>2, <2>4, <2>5
<1>8. CASE RunCannotRecord
  BY <1>1, <1>8 DEF RunCannotRecord, R!PipelineRaises
<1>9. CASE FillSaved \/ CycleSaved
  BY <1>1, <1>9 DEF FillSaved, CycleSaved, SaveAttempt, Save, vars,
                    R!FillSaved, R!CycleSaved
<1>10. CASE UNCHANGED allVars
  BY <1>1, <1>10 DEF allVars, vars, runner
<1> QED
  BY <1>2, <1>3, <1>4, <1>5, <1>6, <1>7, <1>8, <1>9, <1>10 DEF SystemNext

(* Whatever start() writes, the file says the same as memory, and what     *)
(* either says of the last cycle is only ever said at the end of one.      *)
LEMMA StepFile ==
  TypeOK /\ SystemIInv /\ [SystemNext]_allVars
    => FileIsMemory' /\ FileTellsJournal'
<1> SUFFICES ASSUME TypeOK, SystemIInv, [SystemNext]_allVars
             PROVE  FileIsMemory' /\ FileTellsJournal'
  OBVIOUS
<1> USE DEF R!Go, FileIsMemory, FileTellsJournal, R!InCycle
<1>1. FileIsMemory /\ FileTellsJournal
  BY DEF SystemIInv
<1>2. CASE Build
  <2>1. << >> \in Seq(Range(SymbolSeq))
    BY EmptySeq
  <2>2. R!NewState \in R!RunnerStates
    BY <2>1 DEF R!NewState, R!RunnerStates, R!Statuses
  <2>3. ~R!NewState.lastOk
    BY DEF R!NewState
  <2> QED
    BY <1>1, <1>2, <2>2, <2>3 DEF Build, R!Build, Boot
<1>3. CASE Die
  BY <1>1, <1>3 DEF Die, R!Die, Crash
<1>4. CASE RunnerAlone
  <2>1. journal' = journal
    BY <1>4 DEF RunnerAlone, vars
  \* a write that leaves alone what the file says of cycles
  <2>2. ASSUME NEW state \in R!RunnerStates, R!Write(state, Written),
               pc # "down", pc' \notin {"down", "dispatch", "saveFill"},
               pc' \in {"built", "pipeline"} => pc' = pc,
               state.lastOk = mem.lastOk, state.inCycle = mem.inCycle,
               state.processed = mem.processed
        PROVE  FileIsMemory' /\ FileTellsJournal'
    <3>1. mem' = state /\ file' = state
      BY <2>2 DEF R!Write, Written
    <3>2. CASE pc = "built"
      BY <1>1, <2>1, <2>2, <3>1, <3>2
    <3>3. CASE pc # "built"
      <4>1. mem = file /\ file # Absent
        BY <1>1, <2>2, <3>3, AbsentIsNoState
      <4> QED
        BY <1>1, <2>1, <2>2, <3>1, <3>3, <4>1
    <3> QED
      BY <3>2, <3>3
  <2>3. CASE R!Start(Written)
    <3> DEFINE state == [mem EXCEPT !.status = "starting"]
    <3>1. state \in R!RunnerStates /\ R!Write(state, Written)
      BY <1>1, <2>3 DEF R!Start, R!RunnerStates, R!Statuses
    <3>2. ~state.lastOk
      BY <1>1, <2>3 DEF R!Start, R!NewState
    <3> HIDE DEF state
    <3> QED
      BY <2>3, <3>1, <3>2 DEF R!Start, R!Write, Written
  <2>4. CASE R!ConfigRejected(Written) \/ R!CredentialsRejected(Written)
    <3>1. PICK why \in {"config", "credentials"} :
            R!Write([mem EXCEPT !.status = "error", !.startupError = why,
                                !.validated = FALSE], Written)
      BY <2>4 DEF R!ConfigRejected, R!CredentialsRejected, R!Rejected
    <3> DEFINE state == [mem EXCEPT !.status = "error", !.startupError = why,
                                    !.validated = FALSE]
    <3>2. pc \notin {"down", "built"} /\ pc' = "exited"
      BY <2>4 DEF R!ConfigRejected, R!CredentialsRejected
    <3>3. /\ state \in R!RunnerStates
          /\ state.lastOk = mem.lastOk /\ state.inCycle = mem.inCycle
          /\ state.processed = mem.processed
      BY <1>1, <3>2 DEF R!RunnerStates, R!Statuses
    <3> HIDE DEF FileIsMemory, FileTellsJournal
    <3> QED
      BY <2>2, <3>1, <3>2, <3>3
  <2>5. CASE R!ValidationPasses(Written)
    <3>1. PICK cred \in Credentials :
            R!Write([mem EXCEPT !.status = "running", !.validated = TRUE,
                                !.credentialCheck = cred], Written)
      BY <2>5 DEF R!ValidationPasses
    <3> DEFINE state == [mem EXCEPT !.status = "running", !.validated = TRUE,
                                    !.credentialCheck = cred]
    <3>2. pc \notin {"down", "built"} /\ pc' = "loop"
      BY <2>5 DEF R!ValidationPasses
    <3>3. /\ state \in R!RunnerStates
          /\ state.lastOk = mem.lastOk /\ state.inCycle = mem.inCycle
          /\ state.processed = mem.processed
      BY <1>1, <3>2, CredentialsAreChecks DEF R!RunnerStates, R!Statuses
    <3> HIDE DEF FileIsMemory, FileTellsJournal
    <3> QED
      BY <2>2, <3>1, <3>2, <3>3
  <2>6. CASE R!CycleBegins(Written)
    <3> DEFINE state == [mem EXCEPT !.status = "running", !.inCycle = TRUE,
                                    !.processed = << >>]
    <3>1. state \in R!RunnerStates /\ R!Write(state, Written) /\ state.inCycle
      BY <1>1, <2>6, EmptySeq DEF R!CycleBegins, R!RunnerStates, R!Statuses
    <3> HIDE DEF state
    <3> QED
      BY <2>6, <3>1 DEF R!CycleBegins, R!Write, Written
  <2>7. CASE R!CycleEnds(Written)
    <3> DEFINE state == [mem EXCEPT !.inCycle = FALSE, !.processed = processed,
                                    !.lastOk = ~cycleError,
                                    !.lastError = @ \/ cycleError]
    <3>1. /\ mem \in R!RunnerStates /\ cycleError \in BOOLEAN
          /\ processed \in Seq(R!Range(SymbolSeq))
      BY <1>1, <2>7, SequenceOfSymbols
         DEF R!CycleEnds, SystemIInv, R!Range, Range
    <3>2. state \in R!RunnerStates /\ R!Write(state, Written)
      BY <2>7, <3>1 DEF R!CycleEnds, R!RunnerStates
    <3>3. state.processed = processed /\ (state.lastOk => ~cycleError)
      BY <3>1 DEF R!RunnerStates
    <3>4. state.lastOk /\ processed # << >> => EndsWith(journal, processed)
      BY <3>3 DEF SystemIInv, CycleIsJournaled
    <3> HIDE DEF state
    <3> QED
      BY <2>1, <2>7, <3>2, <3>3, <3>4 DEF R!CycleEnds, R!Write, Written
  <2>8. CASE R!Finally(Written) \/ R!LoopRaises(Written) \/ R!Stop(Written)
    <3>1. PICK status \in R!Statuses, lastError \in {mem.lastError, TRUE} :
            R!Write([mem EXCEPT !.status = status, !.lastError = lastError],
                    Written)
      <4>1. pc # "down"
        BY <2>8 DEF R!Finally, R!LoopRaises, R!Stop, R!Awaits
      <4>2. \/ R!Write([mem EXCEPT !.status = "stopped"], Written)
            \/ R!Write([mem EXCEPT !.status = "error", !.lastError = TRUE], Written)
            \/ R!Write([mem EXCEPT !.status = "stopping"], Written)
        BY <2>8 DEF R!Finally, R!LoopRaises, R!Stop
      <4>3. \A status : [mem EXCEPT !.status = status] =
                          [mem EXCEPT !.status = status, !.lastError = mem.lastError]
        BY <1>1, <4>1 DEF R!RunnerStates
      <4>4. {"stopped", "error", "stopping"} \subseteq R!Statuses
        BY DEF R!Statuses
      <4> QED
        BY <4>2, <4>3, <4>4
    <3> DEFINE state == [mem EXCEPT !.status = status, !.lastError = lastError]
    <3>2. /\ pc # "down" /\ pc' \notin {"down", "dispatch", "saveFill"}
          /\ pc' \in {"built", "pipeline"} => pc' = pc
      BY <2>8 DEF R!Finally, R!LoopRaises, R!Stop, R!Awaits
    <3>3. /\ state \in R!RunnerStates
          /\ state.lastOk = mem.lastOk /\ state.inCycle = mem.inCycle
          /\ state.processed = mem.processed
      BY <1>1, <3>2 DEF R!RunnerStates
    <3> HIDE DEF FileIsMemory, FileTellsJournal
    <3> QED
      BY <2>2, <3>1, <3>2, <3>3
  <2>9. CASE R!ConfigAccepted \/ R!LoopEnds \/ R!Wakes \/ R!Cancel
    <3>1. /\ UNCHANGED <<mem, file>> /\ pc \notin {"down", "built"}
          /\ pc' \notin {"down", "built", "dispatch", "pipeline", "saveFill"}
      BY <2>9 DEF R!ConfigAccepted, R!LoopEnds, R!Wakes, R!Cancel, R!Awaits
    <3> QED
      BY <1>1, <2>1, <3>1
  <2> QED
    BY <1>4, <2>3, <2>4, <2>5, <2>6, <2>7, <2>8, <2>9
       DEF RunnerAlone, R!StartWrites
<1>5. CASE CallRun \/ RunGetsNoData \/ FillSaved \/ CycleSaved
  <2>1. UNCHANGED <<mem, file, journal>>
    BY <1>5 DEF CallRun, R!CallPipeline, Call, RunGetsNoData, R!PipelineRaises,
                R!Cancel, FetchFails, FillSaved, R!FillSaved, CycleSaved,
                R!CycleSaved, SaveAttempt, Save, vars
  <2>2. /\ pc \notin {"down", "built"} /\ pc' \notin {"down", "built"}
        /\ pc' \in R!InCycle => pc \in R!InCycle
    BY <1>5 DEF CallRun, R!CallPipeline, RunGetsNoData, R!PipelineRaises,
                R!Cancel, FillSaved, R!FillSaved, CycleSaved, R!CycleSaved
  <2> QED
    BY <1>1, <2>1, <2>2
<1>6. CASE RunEvaluates \/ RunReturns \/ RunCannotRecord
  <2>1. pc = "pipeline" /\ pc' \in R!InCycle /\ UNCHANGED <<mem, file>>
    BY <1>6 DEF RunEvaluates, RunReturns, RunCannotRecord, R!PipelineReturns,
                R!PipelineRaises, runner
  <2> QED
    BY <1>1, <2>1
<1>7. CASE UNCHANGED allVars
  BY <1>1, <1>7 DEF allVars, vars, runner
<1> QED
  BY <1>2, <1>3, <1>4, <1>5, <1>6, <1>7 DEF SystemNext

(* The runner's books about its cycle and the journal's lines agree,       *)
(* whatever fails and wherever the process dies.                           *)
THEOREM SystemInductive == SystemSpec => []SystemIInv
<1>1. TypeOK /\ SystemIInv /\ [SystemNext]_allVars => SystemIInv'
  BY StepLockstep, StepNextSymbol, StepJournaled, StepFile DEF SystemIInv
<1>2. SystemSpec => []TypeOK
  BY SystemImplementsPipeline, TypeCorrect
<1> QED
  BY <1>1, <1>2, InitSystemIInv, PTL DEF SystemSpec

(* In a cycle without error every run that returned has its line, in the   *)
(* order of the symbols: CycleIsJournaled.                                 *)
THEOREM CyclesAreJournaled == SystemSpec => []CycleIsJournaled
<1>1. SystemIInv => CycleIsJournaled
  BY DEF SystemIInv
<1> QED
  BY <1>1, SystemInductive, PTL

-----------------------------------------------------------------------------
(* What is in memory and not on disk is the current fill, or its own       *)
(* record() or save() failed (UnsavedIsCurrent).                           *)
LEMMA StepCovered ==
  TypeOK /\ Lockstep /\ Covered /\ [SystemNext]_allVars => Covered'
<1> SUFFICES ASSUME TypeOK, Lockstep, Covered, [SystemNext]_allVars
             PROVE  Covered'
  OBVIOUS
<1> USE DEF Covered, Unsaved, SavedFills, R!Go
<1>1. audit.fills \subseteq RunIds /\ 0 \notin RunIds /\ audit \in Audits
  BY DEF TypeOK, Audits, RunIds
<1>2. CASE Build
  BY <1>2 DEF Build, Boot, NoAudit
<1>3. CASE Die
  BY <1>3 DEF Die, Crash, NoAudit
<1>4. CASE RunnerAlone
  <2>1. UNCHANGED <<vars, slipped>> /\ (pc = "saveFill" => pc' = "saveFill")
    BY <1>4 DEF RunnerAlone, R!StartWrites, R!Start, R!ConfigRejected,
                R!CredentialsRejected, R!ValidationPasses, R!CycleBegins,
                R!CycleEnds, R!Finally, R!LoopRaises, R!ConfigAccepted,
                R!LoopEnds, R!Wakes, R!Stop, R!Cancel, R!Awaits
  <2> QED
    BY <2>1 DEF vars
<1>5. CASE CallRun
  BY <1>5 DEF CallRun, R!CallPipeline, Call
<1>6. CASE RunGetsNoData
  BY <1>6 DEF RunGetsNoData, FetchFails
<1>7. CASE RunEvaluates
  <2>1. Unsaved \ slipped = {} /\ UNCHANGED <<saved, slipped>>
    BY <1>7 DEF RunEvaluates, Evaluate, Exit, Enter, Pass
  <2>2. \/ UNCHANGED audit
        \/ /\ audit'.fills = audit.fills \cup {runs'}
           /\ ppc' = "recording" /\ entry'.fill = runs'
    <3>1. PICK t \in Ticks, score \in Scores : Evaluate(t, score)
      BY <1>7 DEF RunEvaluates
    <3>2. CASE Exit(t, score)
      BY <1>1, <3>2 DEF Exit, Report, Audits
    <3>3. CASE Enter(t, score)
      BY <3>3 DEF Enter, Report
    <3>4. CASE Pass(t, score)
      BY <3>4 DEF Pass
    <3> QED
      BY <3>1, <3>2, <3>3, <3>4 DEF Evaluate
  <2> QED
    BY <2>1, <2>2
<1>8. CASE RunReturns
  BY <1>1, <1>8 DEF RunReturns, Record, Return, R!PipelineReturns, Lockstep
<1>9. CASE RunCannotRecord
  BY <1>1, <1>9 DEF RunCannotRecord, RecordFails, Lockstep
<1>10. CASE FillSaved \/ CycleSaved
  <2>1. CASE Save
    BY <1>10, <2>1, AbsentIsNothing
       DEF Save, FillSaved, CycleSaved, TypeOK, Saves
  <2>2. CASE ~Save
    <3>1. ppc # "recording"
      BY <1>10 DEF FillSaved, CycleSaved, R!FillSaved, R!CycleSaved, Lockstep
    <3>2. pc = "saveFill" => slipped' = slipped \cup {runs}
      BY <1>10, <2>2 DEF FillSaved, CycleSaved, SaveAttempt
    <3>3. UNCHANGED vars /\ slipped \subseteq slipped'
      BY <1>10, <2>2 DEF FillSaved, CycleSaved, SaveAttempt
    <3> QED
      BY <3>1, <3>2, <3>3 DEF vars
  <2> QED
    BY <2>1, <2>2
<1>11. CASE UNCHANGED allVars
  BY <1>11 DEF allVars, vars, runner
<1> QED
  BY <1>2, <1>3, <1>4, <1>5, <1>6, <1>7, <1>8, <1>9, <1>10, <1>11
     DEF SystemNext

(* A crash at any moment loses only the fill of the run being recorded or  *)
(* saved, and fills whose own record() or save() failed: UnsavedIsCurrent. *)
THEOREM CrashLosesLittle == SystemSpec => []UnsavedIsCurrent
<1>1. SystemInit => Covered
  BY DEF SystemInit, Init, NoAudit, Covered, Unsaved
<1>2. SystemSpec => []TypeOK
  BY SystemImplementsPipeline, TypeCorrect
<1>3. SystemSpec => []Covered
  BY <1>1, <1>2, SystemInStep, StepCovered, PTL DEF SystemSpec
<1>4. Covered => UnsavedIsCurrent
  BY DEF Covered, UnsavedIsCurrent
<1> QED
  BY <1>3, <1>4, PTL

-----------------------------------------------------------------------------
(* The dashboard changes nothing, so the process beside it is the process. *)
THEOREM DashboardOnlyReads == DashboardSpec => SystemSpec
<1>1. DashboardInit => SystemInit
  BY DEF DashboardInit
<1>2. [DashboardNext]_<<allVars, seen>> => [SystemNext]_allVars
  BY DEF DashboardNext
<1> QED
  BY <1>1, <1>2, PTL DEF DashboardSpec, SystemSpec

(* The portfolio file, once there, stays: no step takes it away.           *)
LEMMA FileStays == TypeOK /\ [Next]_vars /\ saved # Absent => saved' # Absent
<1> SUFFICES ASSUME TypeOK, [Next]_vars, saved # Absent PROVE saved' # Absent
  OBVIOUS
<1>1. CASE Save
  BY <1>1, AbsentIsNothing DEF Save, TypeOK, Saves
<1>2. CASE ~Save
  BY <1>2 DEF Next, Boot, Crash, Call, FetchFails, Evaluate, Exit, Enter, Pass,
              Record, RecordFails, vars
<1> QED
  BY <1>1, <1>2

\* between the two looks the dashboard takes at the file; and a view has the
\* fields of a view
FileWasSeen ==
  /\ dpc \in {"status", "loaded"} /\ PersistenceReady => saved # Absent
  /\ PersistedIsShown
  /\ view = [k \in DOMAIN NoView |-> view[k]]

(* Every step of the dashboard or of the bot keeps what a snapshot saw of *)
(* the file true of it.                                                   *)
LEMMA StepFileWasSeen ==
  TypeOK /\ Lockstep /\ FileWasSeen /\ [DashboardNext]_<<allVars, seen>>
    => FileWasSeen'
<1> SUFFICES ASSUME TypeOK, Lockstep, FileWasSeen,
                    [DashboardNext]_<<allVars, seen>>
             PROVE  FileWasSeen'
  OBVIOUS
<1> USE DEF FileWasSeen, PersistenceReady, PersistedIsShown, NoView
<1>1. CASE SystemNext /\ UNCHANGED seen
  <2>1. [Next]_vars
    BY <1>1, SystemStepIsPipelineStep
  <2> QED
    BY <1>1, <2>1, FileStays DEF seen
<1>2. CASE ReadJournal /\ UNCHANGED allVars
  BY <1>2 DEF ReadJournal
<1>3. CASE ReadStatus /\ UNCHANGED allVars
  BY <1>3 DEF ReadStatus, allVars, vars
<1>4. CASE LoadPortfolio /\ UNCHANGED allVars
  <2>1. saved # Absent => saved.audit.fills # Absent
    BY AbsentIsNoSetOfFills DEF TypeOK, Saves, Audits
  <2> QED
    BY <1>4, <2>1 DEF LoadPortfolio, allVars, vars
<1>5. CASE ReadRunner /\ UNCHANGED allVars
  BY <1>5 DEF ReadRunner
<1>6. CASE UNCHANGED <<allVars, seen>>
  BY <1>6 DEF allVars, vars, seen
<1> QED
  BY <1>1, <1>2, <1>3, <1>4, <1>5, <1>6 DEF DashboardNext, Read

(* What a snapshot saw of the portfolio file stays true of it while it is *)
(* built.                                                                 *)
LEMMA FileSeen == DashboardSpec => []FileWasSeen
<1>1. DashboardInit => FileWasSeen
  BY DEF DashboardInit, FileWasSeen, NoView, PersistedIsShown, PersistenceReady
<1>2. DashboardSpec => []TypeOK /\ []Lockstep
  BY DashboardOnlyReads, SystemImplementsPipeline, TypeCorrect, SystemInStep
<1> QED
  BY <1>1, <1>2, StepFileWasSeen, PTL DEF DashboardSpec

(* The dashboard never calls persisted what it cannot show:                *)
(* PersistedIsShown.                                                       *)
THEOREM PersistedShown == DashboardSpec => []PersistedIsShown
<1>1. FileWasSeen => PersistedIsShown
  BY DEF FileWasSeen
<1> QED
  BY <1>1, FileSeen, PTL

-----------------------------------------------------------------------------
(* The rows *)

(* _MAX_RECENT rows at most, the last first.                               *)
LEMMA NewestFacts ==
  ASSUME NEW X, NEW rows \in Seq(X)
  PROVE  LET n == Len(rows)
             c == Len(Newest(rows))
         IN  /\ Newest(rows) \in Seq(X)
             /\ c = IF n > MaxRecent THEN MaxRecent ELSE n
             /\ \A i \in 1..c : Newest(rows)[i] = rows[n - i + 1]
<1> DEFINE n == Len(rows)
           m == IF n > MaxRecent THEN n - MaxRecent + 1 ELSE 1
           part == SubSeq(rows, m, n)
           c == n - m + 1
<1>1. n \in Nat /\ rows \in [1..n -> X] /\ MaxRecent \in Nat \ {0}
  BY SomeRows
<1>2. /\ m \in 1..(n + 1) /\ m \in Nat /\ c \in 0..n
      /\ c = IF n > MaxRecent THEN MaxRecent ELSE n
  BY <1>1
<1> HIDE DEF n, m
<1>3. /\ part \in Seq(X) /\ Len(part) = c
      /\ \A i \in 1..c : part[i] = rows[m + i - 1]
  <2>1. \A i \in m..n : rows[i] \in X
    BY <1>1, <1>2
  <2>2. part = [i \in 1..c |-> rows[i + m - 1]]
    BY <1>1, <1>2
  <2>3. \A i \in 1..c : i + m - 1 = m + i - 1 /\ i + m - 1 \in m..n
    BY <1>1, <1>2
  <2>4. c \in Nat
    BY <1>2
  <2> HIDE DEF c, part
  <2>5. part \in [1..c -> X]
    BY <2>1, <2>2, <2>3
  <2>6. part \in Seq(X) /\ Len(part) = c
    BY <2>4, <2>5
  <2> QED
    BY <2>2, <2>3, <2>6
<1> HIDE DEF part
<1>4. Newest(rows) = Reverse(part)
  BY DEF Newest, part, m, n
<1>5. Reverse(part) = [i \in 1..c |-> part[c - i + 1]]
  BY <1>3 DEF Reverse
<1>6. c \in Nat /\ \A i \in 1..c : c - i + 1 \in 1..c /\ m + (c - i + 1) - 1 = n - i + 1
  BY <1>1, <1>2
<1> HIDE DEF c
<1>7. \A i \in 1..c : Reverse(part)[i] = rows[n - i + 1]
  <2> SUFFICES ASSUME NEW i \in 1..c PROVE Reverse(part)[i] = rows[n - i + 1]
    OBVIOUS
  <2>1. part[c - i + 1] = rows[m + (c - i + 1) - 1]
    BY <1>3, <1>6
  <2>2. Reverse(part)[i] = part[c - i + 1]
    BY <1>5
  <2> QED
    BY <1>6, <2>1, <2>2
<1>8. Reverse(part) \in Seq(X) /\ Len(Reverse(part)) = c
  <2>1. \A i \in 1..c : part[i] \in X
    BY <1>3
  <2>2. Reverse(part) \in [1..c -> X]
    BY <1>5, <1>6, <2>1
  <2> QED
    BY <1>6, <2>2
<1> QED
  BY <1>2, <1>4, <1>7, <1>8 DEF n

(* Rows in order end up newest first, and each of them is among the newest *)
(* or was pushed out by newer ones.                                        *)
LEMMA NewestShows ==
  ASSUME NEW X, NEW rows \in Seq(X),
         \A i \in DOMAIN rows : rows[i].fill \in Nat,
         \A i, j \in DOMAIN rows : i < j => rows[i].fill < rows[j].fill
  PROVE  /\ Descending(Newest(rows))
         /\ \A i \in DOMAIN rows : HasRow(Newest(rows), rows[i].fill)
<1> DEFINE n == Len(rows)
           new == Newest(rows)
           c == Len(new)
<1>1. /\ n \in Nat /\ DOMAIN rows = 1..n /\ MaxRecent \in Nat \ {0}
      /\ c = IF n > MaxRecent THEN MaxRecent ELSE n
      /\ DOMAIN new = 1..c
      /\ \A i \in 1..c : new[i] = rows[n - i + 1]
  BY NewestFacts, SomeRows
<1> HIDE DEF n, new, c
<1>2. c \in 0..n
  BY <1>1
<1>3. \A i \in 2..c : new[i].fill < new[i - 1].fill
  <2> SUFFICES ASSUME NEW i \in 2..c PROVE new[i].fill < new[i - 1].fill
    OBVIOUS
  <2>1. /\ i \in 1..c /\ i - 1 \in 1..c
        /\ n - i + 1 \in 1..n /\ n - (i - 1) + 1 \in 1..n
        /\ n - i + 1 < n - (i - 1) + 1
    BY <1>1, <1>2
  <2> QED
    BY <1>1, <2>1
<1>4. ASSUME NEW i \in DOMAIN rows PROVE HasRow(new, rows[i].fill)
  <2>1. CASE n - i + 1 <= c
    <3>1. n - i + 1 \in 1..c /\ n - (n - i + 1) + 1 = i
      BY <1>1, <1>2, <2>1
    <3>2. n - i + 1 \in DOMAIN new /\ new[n - i + 1] = rows[i]
      BY <1>1, <3>1
    <3> QED
      BY <3>2 DEF HasRow
  <2>2. CASE n - i + 1 > c
    <3>1. c = MaxRecent /\ n > MaxRecent
      BY <1>1, <2>2
    <3>2. MaxRecent \in 1..c /\ n - MaxRecent + 1 \in 1..n /\ i < n - MaxRecent + 1
      BY <1>1, <2>2, <3>1
    <3>3. rows[i].fill < new[MaxRecent].fill
      BY <1>1, <3>2
    <3>4. rows[i].fill \in Nat /\ new[MaxRecent].fill \in Nat
      BY <1>1, <3>2
    <3> QED
      BY <3>1, <3>3, <3>4 DEF HasRow, c
  <2> QED
    BY <1>1, <1>2, <2>1, <2>2
<1> QED
  BY <1>3, <1>4 DEF Descending, c, new

AddLast(e, rows) == AddFillRow(rows, e)

FillLoop == INSTANCE Folding
              WITH op <- AddLast, choose <- LastOf

(* Every entry with a fill has a row, in the order of the entries.         *)
LEMMA RowsOfFills ==
  ASSUME NEW s \in Seq(Entries)
  PROVE  LET rows == CollectFills(s)
         IN  /\ rows \in Seq({FillRow(e) : e \in Entries})
             /\ \A i \in DOMAIN s :
                  s[i].fill # 0 => \E j \in DOMAIN rows : rows[j].fill = s[i].fill
             /\ \A i, j \in DOMAIN rows :
                  i < j => \E k, l \in DOMAIN s :
                             /\ k < l /\ s[l].fill # 0
                             /\ rows[i].fill = s[k].fill
                             /\ rows[j].fill = s[l].fill
<1> DEFINE rows == CollectFills(s)
           Y == {FillRow(e) : e \in Entries}
           filled == {e \in Entries : e.fill # 0}
           img == [e \in Entries |-> FillRow(e)]
<1>1. FillLoop!Picks(Entries, Y, filled, img)
  <2>1. \A T : LastOf(T) = CHOOSE m \in T : \A i \in T : m >= i
    BY DEF LastOf, Max
  <2>2. \A n \in Nat : FillLoop!TakesLast(n)
    BY <2>1, FillLoop!GreatestTakesLast
  <2>3. img \in [Entries -> Y]
    OBVIOUS
  <2>4. \A e \in Entries, r \in Seq(Y) :
          AddLast(e, r) = IF e \in filled THEN Append(r, img[e]) ELSE r
    BY DEF AddLast, AddFillRow
  <2> HIDE DEF Y, filled, img
  <2> QED
    BY <2>2, <2>3, <2>4 DEF FillLoop!Picks
<1>2. rows = FillLoop!Fold(<< >>, s, DOMAIN s)
  BY DEF CollectFills, FoldLeft, MapThenFoldSet, FillLoop!Fold,
         FillLoop!MapThenFoldSet, AddLast, LastOf
<1>3. \A e \in Entries : img[e].fill = e.fill /\ (e \in filled <=> e.fill # 0)
  BY DEF FillRow
<1> HIDE DEF rows, Y, filled, img
<1>4. rows \in Seq(Y) /\ FillLoop!Filters(s, rows, filled, img)
  BY <1>1, <1>2, FillLoop!FoldFilters
<1>5. \A i \in DOMAIN s : s[i] \in Entries
  OBVIOUS
<1>6. ASSUME NEW i \in DOMAIN s, s[i].fill # 0
      PROVE  \E j \in DOMAIN rows : rows[j].fill = s[i].fill
  <2>1. PICK j \in DOMAIN rows : rows[j] = img[s[i]]
    BY <1>3, <1>4, <1>5, <1>6 DEF FillLoop!Filters
  <2> QED
    BY <1>3, <1>5, <2>1
<1>7. ASSUME NEW i \in DOMAIN rows, NEW j \in DOMAIN rows, i < j
      PROVE  \E k, l \in DOMAIN s :
               /\ k < l /\ s[l].fill # 0
               /\ rows[i].fill = s[k].fill /\ rows[j].fill = s[l].fill
  <2>1. PICK k \in DOMAIN s, l \in DOMAIN s :
          /\ k < l /\ s[l] \in filled
          /\ rows[i] = img[s[k]] /\ rows[j] = img[s[l]]
    BY <1>4, <1>7 DEF FillLoop!Filters
  <2> QED
    BY <1>3, <1>5, <2>1
<1> QED
  BY <1>4, <1>6, <1>7 DEF rows, Y

(* Fills are numbered by their runs, and a row keeps its fill's number.   *)
LEMMA FillsAreNat == \A e \in Entries : e.fill \in Nat /\ FillRow(e).fill = e.fill
BY MarketBounds DEF Entries, RunIds, FillRow

(* What is shown of a journal whose fills ascend: they descend, and each   *)
(* of them has its row or was pushed out.                                  *)
LEMMA ReadShows ==
  ASSUME NEW j \in JournalFiles(Entries), Decodes(j), NEW n, FillsGrow(j, n)
  PROVE  /\ Descending(FillRows(ReadAll(j)))
         /\ \A f \in FillsIn(j) : HasRow(FillRows(ReadAll(j)), f)
<1> DEFINE r == ReadAll(j)
           rows == CollectFills(r)
           Y == {FillRow(e) : e \in Entries}
<1>1. /\ r \in Seq(Entries)
      /\ {r[i] : i \in DOMAIN r} = Intact(j)
      /\ \A a, b \in DOMAIN r :
           a < b =>
             \/ \E k, l \in DOMAIN j.lines :
                  k < l /\ j.lines[k] = r[a] /\ j.lines[l] = r[b]
             \/ /\ \E k \in DOMAIN j.lines : j.lines[k] = r[a]
                /\ r[b] = j.tail
  BY EntriesApart, ReadFacts
<1> HIDE DEF r
<1>2. \A a \in DOMAIN r : r[a] \in Entries
  BY <1>1
<1>3. ASSUME NEW a \in DOMAIN r, NEW b \in DOMAIN r, a < b, r[b].fill # 0
      PROVE  r[a].fill < r[b].fill
  <2>1. ASSUME NEW k \in DOMAIN j.lines, NEW l \in DOMAIN j.lines,
               k < l, j.lines[k] = r[a], j.lines[l] = r[b]
        PROVE  r[a].fill < r[b].fill
    BY <1>2, <1>3, <2>1 DEF FillsGrow
  <2>2. ASSUME NEW k \in DOMAIN j.lines, j.lines[k] = r[a], r[b] = j.tail
        PROVE  r[a].fill < r[b].fill
    BY <1>2, <1>3, <2>2 DEF FillsGrow
  <2> QED
    BY <1>1, <1>3, <2>1, <2>2
<1>4. /\ rows \in Seq(Y)
      /\ \A i \in DOMAIN r :
           r[i].fill # 0 => \E k \in DOMAIN rows : rows[k].fill = r[i].fill
      /\ \A i, k \in DOMAIN rows :
           i < k => \E a, b \in DOMAIN r :
                      /\ a < b /\ r[b].fill # 0
                      /\ rows[i].fill = r[a].fill /\ rows[k].fill = r[b].fill
  BY <1>1, RowsOfFills
<1> HIDE DEF rows, Y
<1>5. \A i \in DOMAIN rows : rows[i].fill \in Nat
  <2>1. \A i \in DOMAIN rows : rows[i] \in Y
    BY <1>4
  <2> QED
    BY <2>1, FillsAreNat DEF Y
<1>6. \A i, k \in DOMAIN rows : i < k => rows[i].fill < rows[k].fill
  <2> SUFFICES ASSUME NEW i \in DOMAIN rows, NEW k \in DOMAIN rows, i < k
               PROVE  rows[i].fill < rows[k].fill
    OBVIOUS
  <2>1. PICK a \in DOMAIN r, b \in DOMAIN r :
          /\ a < b /\ r[b].fill # 0
          /\ rows[i].fill = r[a].fill /\ rows[k].fill = r[b].fill
    BY <1>4
  <2> QED
    BY <1>3, <2>1
<1>7. /\ Descending(Newest(rows))
      /\ \A i \in DOMAIN rows : HasRow(Newest(rows), rows[i].fill)
  BY <1>4, <1>5, <1>6, NewestShows
<1>8. FillRows(ReadAll(j)) = Newest(rows)
  BY DEF FillRows, rows, r
<1>9. ASSUME NEW f \in FillsIn(j) PROVE HasRow(Newest(rows), f)
  <2>1. PICK e \in Intact(j) : f = e.fill /\ f # 0
    BY DEF FillsIn
  <2>2. PICK i \in DOMAIN r : r[i] = e
    BY <1>1, <2>1
  <2>3. PICK k \in DOMAIN rows : rows[k].fill = f
    BY <1>4, <2>1, <2>2
  <2> QED
    BY <1>7, <2>3
<1> QED
  BY <1>7, <1>8, <1>9

-----------------------------------------------------------------------------
(* The fills in the journal *)

(* A record() of the next fill, or of an entry without one, keeps the      *)
(* order, whether it returns or leaves any part of its line.               *)
LEMMA FillsGoOn ==
  ASSUME NEW j \in JournalFiles(Entries), NEW e \in Entries, NEW n \in Nat,
         FillsGrow(j, n), e.fill \in {0, n + 1},
         NEW g, g = Recorded(j, e) \/ g \in FailedRecords(j, e)
  PROVE  /\ g \in JournalFiles(Entries) /\ FillsGrow(g, n + 1)
         /\ FillsIn(g) \subseteq FillsIn(j) \cup {e.fill}
<1>1. e.fill \in Nat /\ \A x \in Intact(j) : x \in Entries /\ x.fill \in Nat /\ x.fill <= n
  BY EntriesApart, IntactIsEntries, FillsAreNat DEF FillsGrow
<1>2. /\ g \in JournalFiles(Entries)
      /\ \A i \in DOMAIN g.lines :
           \/ i \in DOMAIN j.lines /\ g.lines[i] = j.lines[i]
           \/ /\ \A k \in DOMAIN j.lines : k < i
              /\ \A k \in DOMAIN g.lines : k <= i
              /\ g.lines[i] \in Entries => g.lines[i] = e
              /\ g.tail \notin Entries
      /\ g.tail \in Entries =>
           /\ g.lines = j.lines
           /\ g.tail = j.tail \/ g.tail = e
  <2>1. CASE g = Recorded(j, e)
    <3> DEFINE m == Len(j.lines)
    <3>1. /\ g \in JournalFiles(Entries) /\ g.tail = Clean
          /\ m \in Nat /\ DOMAIN j.lines = 1..m /\ DOMAIN g.lines = 1..(m + 1)
          /\ \A i \in 1..m : g.lines[i] = j.lines[i]
          /\ g.lines[m + 1] \in {e, Garbage, Mangled}
      BY <2>1, EntriesApart, RecordedFacts
    <3> HIDE DEF m
    <3>2. g.tail \notin Entries /\ (g.lines[m + 1] \in Entries => g.lines[m + 1] = e)
      BY <3>1, EntriesApart DEF MarkersApart
    <3>3. ASSUME NEW i \in DOMAIN g.lines, i \notin DOMAIN j.lines
          PROVE  i = m + 1
      BY <3>1, <3>3
    <3>4. /\ \A k \in DOMAIN j.lines : k < m + 1
          /\ \A k \in DOMAIN g.lines : k <= m + 1
      BY <3>1
    <3> QED
      BY <3>1, <3>2, <3>3, <3>4
  <2>2. CASE g \in FailedRecords(j, e)
    BY <2>1, <2>2, EntriesApart, FailedFacts
  <2> QED
    BY <2>1, <2>2
<1>3. ASSUME NEW x \in Intact(g) PROVE x \in Intact(j) \/ x = e
  <2>1. /\ x \in Entries /\ x \in LineValues(g) \cup {g.tail}
        /\ Intact(j) = (LineValues(j) \cup {j.tail}) \cap Entries
    BY <1>2, EntriesApart, IntactIsEntries
  <2> QED
    BY <1>2, <2>1 DEF LineValues
<1>4. \A x \in Intact(g) : x.fill <= n + 1
  BY <1>1, <1>3
<1>5. FillsIn(g) \subseteq FillsIn(j) \cup {e.fill}
  BY <1>3 DEF FillsIn
<1>6. \A i \in DOMAIN j.lines : j.lines[i] \in Entries => j.lines[i] \in Intact(j)
  BY EntriesApart, IntactIsEntries DEF LineValues
<1>7. ASSUME NEW i \in DOMAIN g.lines, NEW k \in DOMAIN g.lines, i < k,
             g.lines[i] \in Entries, g.lines[k] \in Entries, g.lines[k].fill # 0
      PROVE  g.lines[i].fill < g.lines[k].fill
  <2>1. i \in DOMAIN j.lines /\ g.lines[i] = j.lines[i]
    <3>1. i \in Nat /\ k \in Nat
      BY <1>2 DEF JournalFiles
    <3> QED
      BY <1>2, <1>7, <3>1
  <2>2. CASE k \in DOMAIN j.lines /\ g.lines[k] = j.lines[k]
    BY <1>7, <2>1, <2>2 DEF FillsGrow
  <2>3. CASE g.lines[k] = e
    BY <1>1, <1>6, <1>7, <2>1, <2>3
  <2> QED
    BY <1>2, <1>7, <2>2, <2>3
<1>8. ASSUME g.tail \in Entries, g.tail.fill # 0, NEW i \in DOMAIN g.lines,
             g.lines[i] \in Entries
      PROVE  g.lines[i].fill < g.tail.fill
  <2>1. i \in DOMAIN j.lines /\ g.lines[i] = j.lines[i]
    BY <1>2, <1>8
  <2>2. CASE g.tail = j.tail
    BY <1>8, <2>1, <2>2 DEF FillsGrow
  <2>3. CASE g.tail = e
    BY <1>1, <1>6, <1>8, <2>1, <2>3
  <2> QED
    BY <1>2, <1>8, <2>2, <2>3
<1>9. FillsGrow(g, n + 1)
  BY <1>4, <1>7, <1>8 DEF FillsGrow
<1> QED
  BY <1>2, <1>5, <1>9

\* what one step does to the journal, seen from outside: whatever is new in it
\* is of a run that had not ended
JournalGoesOn ==
  /\ RunsRecorded' \in Nat /\ RunsRecorded <= RunsRecorded'
  /\ runs' \in Nat /\ runs <= runs'
  /\ \/ journal' = journal
     \/ /\ RunsRecorded < runs /\ runs' = runs
        /\ FillsIn(journal') \subseteq FillsIn(journal) \cup {runs}

(* Every step of the pipeline keeps the journal's fills in order and      *)
(* below the current run.                                                 *)
LEMMA StepFills ==
  TypeOK /\ FillsAreInOrder /\ [Next]_vars => FillsAreInOrder' /\ JournalGoesOn
<1> SUFFICES ASSUME TypeOK, FillsAreInOrder, [Next]_vars
             PROVE  FillsAreInOrder' /\ JournalGoesOn
  OBVIOUS
<1>1. /\ journal \in JournalFiles(Entries) /\ runs \in Nat
      /\ ppc = "recording" => runs > 0
      /\ FillsGrow(journal, RunsRecorded)
  BY MarketBounds DEF TypeOK, FillsAreInOrder
<1>2. RunsRecorded \in Nat /\ RunsRecorded <= runs
  BY <1>1 DEF RunsRecorded
<1>3. ASSUME journal' = journal, RunsRecorded' \in Nat, runs' \in Nat,
             RunsRecorded <= RunsRecorded', runs <= runs',
             ppc' = "recording" => runs' > 0 /\ entry'.fill \in {0, runs'}
      PROVE  FillsAreInOrder' /\ JournalGoesOn
  <2>1. \A x \in Intact(journal) : x.fill \in Nat /\ x.fill <= RunsRecorded
    BY <1>1, EntriesApart, IntactIsEntries, FillsAreNat DEF FillsGrow
  <2>2. \A x \in Intact(journal) : x.fill <= RunsRecorded'
    BY <1>2, <1>3, <2>1
  <2>3. FillsGrow(journal, RunsRecorded')
    BY <1>1, <2>2 DEF FillsGrow
  <2> QED
    BY <1>3, <2>3 DEF FillsAreInOrder, JournalGoesOn
<1>4. CASE Boot \/ Crash \/ FetchFails \/ Save
             \/ (\E s \in Symbols : Call(s)) \/ UNCHANGED vars
  <2>1. /\ journal' = journal /\ runs' = runs
        /\ ppc' = "recording" => ppc = "recording" /\ entry' = entry
    BY <1>4 DEF Boot, Crash, FetchFails, Return, Save, Call, vars
  <2>2. RunsRecorded' \in Nat /\ RunsRecorded <= RunsRecorded'
    BY <1>1, <2>1 DEF RunsRecorded
  <2> QED
    BY <1>1, <1>3, <2>1, <2>2 DEF FillsAreInOrder
<1>5. ASSUME NEW t \in Ticks, NEW score \in Scores, Evaluate(t, score)
      PROVE  FillsAreInOrder' /\ JournalGoesOn
  <2>1. /\ ppc = "fetching" /\ journal' = journal /\ runs' = runs + 1
        /\ ppc' = "recording" => entry'.fill \in {0, runs'}
    BY <1>5 DEF Evaluate, Exit, Enter, Pass, Report, Return
  <2>2. RunsRecorded' \in Nat /\ RunsRecorded <= RunsRecorded'
    BY <1>1, <2>1 DEF RunsRecorded
  <2> QED
    BY <1>1, <1>3, <2>1, <2>2
<1>6. CASE Record \/ RecordFails
  <2> DEFINE n == RunsRecorded
  <2>1. /\ entry \in Entries /\ ppc = "recording" /\ ppc' = "idle"
        /\ runs' = runs
        /\ \/ journal' = Recorded(journal, entry)
           \/ journal' \in FailedRecords(journal, entry)
    BY <1>6 DEF Record, RecordFails, Return, TypeOK
  <2>2. n = runs - 1 /\ RunsRecorded' = runs /\ n \in Nat
    BY <1>1, <2>1 DEF RunsRecorded
  <2>3. n + 1 = runs /\ entry.fill \in {0, n + 1}
    BY <1>1, <2>1, <2>2 DEF FillsAreInOrder
  <2> HIDE DEF n
  <2>4. /\ FillsGrow(journal', n + 1)
        /\ FillsIn(journal') \subseteq FillsIn(journal) \cup {entry.fill}
    <3>1. FillsGrow(journal, n)
      BY <1>1 DEF n
    <3> QED
      BY <1>1, <2>1, <2>2, <2>3, <3>1, FillsGoOn
  <2>5. FillsAreInOrder'
    BY <2>1, <2>2, <2>3, <2>4 DEF FillsAreInOrder
  <2>6. FillsIn(journal') \subseteq FillsIn(journal) \cup {runs}
    <3>1. 0 \notin FillsIn(journal')
      BY DEF FillsIn
    <3> QED
      BY <2>3, <2>4, <3>1
  <2>7. JournalGoesOn
    BY <1>1, <1>2, <2>1, <2>2, <2>6 DEF JournalGoesOn, n
  <2> QED
    BY <2>5, <2>7
<1> QED
  BY <1>4, <1>5, <1>6 DEF Next

-----------------------------------------------------------------------------
(* The view *)

LEMMA StepView ==
  IInv /\ FillsAreInOrder /\ Lockstep /\ FileWasSeen /\ ViewIsOfItsTime
    /\ [DashboardNext]_<<allVars, seen>> => ViewIsOfItsTime'
<1> SUFFICES ASSUME IInv, FillsAreInOrder, Lockstep, FileWasSeen,
                    ViewIsOfItsTime, [DashboardNext]_<<allVars, seen>>
             PROVE  ViewIsOfItsTime'
  OBVIOUS
<1> USE DEF NoView
<1>1. /\ TypeOK /\ journal \in JournalFiles(Entries) /\ runs \in Nat
      /\ ppc = "recording" => runs > 0
  BY MarketBounds DEF IInv, TypeOK, FillsAreInOrder
<1>2. RunsRecorded \in Nat /\ RunsRecorded <= runs
  BY <1>1 DEF RunsRecorded
<1>3. CASE [SystemNext]_allVars /\ UNCHANGED seen
  <2>1. [Next]_vars
    BY <1>3, SystemStepIsPipelineStep
  <2>2. JournalGoesOn
    BY <1>1, <2>1, StepFills
  <2>3. /\ dropped \subseteq dropped'
        /\ FillsIn(journal) \ dropped' \subseteq FillsIn(journal')
    BY <2>1, StepKeepsFills
  <2>4. view' = view /\ dpc' = dpc
    BY <1>3 DEF seen
  <2>5. ASSUME dpc # "none" PROVE ViewIsOfItsTime'
    <3>1. /\ view.asOf \in Nat /\ view.asOf <= RunsRecorded
          /\ view.asOf = runs =>
               Decodes(journal) /\ view.decisions = DecisionRows(ReadAll(journal))
          /\ Descending(view.fills)
          /\ \A f \in FillsIn(journal) \ dropped :
               f > view.asOf \/ HasRow(view.fills, f)
          /\ dpc = "loaded" /\ view.portfolio # Absent =>
               view.portfolio \ dropped \subseteq FillsIn(journal)
      BY <2>5 DEF ViewIsOfItsTime
    <3>2. view.asOf <= RunsRecorded'
      BY <1>2, <2>2, <3>1 DEF JournalGoesOn
    <3>3. ASSUME view.asOf = runs'
          PROVE  /\ Decodes(journal')
                 /\ view.decisions = DecisionRows(ReadAll(journal'))
      <4>1. journal' = journal /\ runs = view.asOf
        BY <1>1, <1>2, <2>2, <3>1, <3>3 DEF JournalGoesOn
      <4> QED
        BY <3>1, <4>1
    <3>4. ASSUME NEW f \in FillsIn(journal') \ dropped'
          PROVE  f > view.asOf \/ HasRow(view.fills, f)
      <4>1. CASE f \in FillsIn(journal)
        BY <2>3, <3>1, <3>4, <4>1
      <4>2. CASE f \notin FillsIn(journal)
        <5>1. f = runs /\ RunsRecorded < runs
          BY <2>2, <3>4, <4>2 DEF JournalGoesOn
        <5> QED
          BY <1>1, <1>2, <3>1, <5>1
      <4> QED
        BY <4>1, <4>2
    <3>5. dpc = "loaded" /\ view.portfolio # Absent =>
            view.portfolio \ dropped' \subseteq FillsIn(journal')
      BY <2>3, <3>1
    <3> QED
      BY <2>4, <3>1, <3>2, <3>3, <3>4, <3>5 DEF ViewIsOfItsTime
  <2> QED
    BY <2>4, <2>5 DEF ViewIsOfItsTime
<1>4. CASE ReadJournal /\ UNCHANGED allVars
  <2>1. PICK f \in JournalSeen :
          /\ Decodes(f)
          /\ view' = [view EXCEPT !.decisions = DecisionRows(ReadAll(f)),
                                  !.fills = FillRows(ReadAll(f)),
                                  !.asOf = RunsRecorded]
    BY <1>4 DEF ReadJournal
  <2>2. /\ view'.decisions = DecisionRows(ReadAll(f))
        /\ view'.fills = FillRows(ReadAll(f))
        /\ view'.asOf = RunsRecorded
    BY <2>1 DEF FileWasSeen
  <2>3. /\ dpc' = "journal" /\ journal' = journal /\ runs' = runs
        /\ dropped' = dropped /\ RunsRecorded' = RunsRecorded
    BY <1>4 DEF ReadJournal, allVars, vars, RunsRecorded
  <2>4. RunsRecorded = runs => f = journal
    BY <1>1 DEF RunsRecorded, JournalSeen
  <2>5. f = journal \/ (ppc = "recording" /\ f \in FailedRecords(journal, entry))
    BY DEF JournalSeen
  <2>6. \E n : f \in JournalFiles(Entries) /\ FillsGrow(f, n)
    <3>1. CASE f = journal
      BY <1>1, <3>1 DEF FillsAreInOrder
    <3>2. CASE ppc = "recording" /\ f \in FailedRecords(journal, entry)
      <4>1. entry \in Entries
        BY <1>1, <3>2 DEF TypeOK
      <4>2. RunsRecorded + 1 = runs
        BY <1>1, <3>2 DEF RunsRecorded
      <4>3. FillsGrow(journal, RunsRecorded) /\ entry.fill \in {0, RunsRecorded + 1}
        BY <3>2, <4>2 DEF FillsAreInOrder
      <4> QED
        BY <1>1, <1>2, <3>2, <4>1, <4>3, FillsGoOn
    <3> QED
      BY <2>5, <3>1, <3>2
  <2>7. /\ Descending(view'.fills)
        /\ \A g \in FillsIn(f) : HasRow(view'.fills, g)
    BY <2>1, <2>2, <2>6, ReadShows
  <2>8. FillsIn(journal) \ dropped \subseteq FillsIn(f)
    <3>1. CASE f \in FailedRecords(journal, entry) /\ ppc = "recording"
      <4>1. entry \in Entries
        BY <1>1, <3>1 DEF TypeOK
      <4>2. FillsIn(journal) \subseteq FillsIn(f) \cup TailFill(journal)
        BY <1>1, <3>1, <4>1, FailedFills
      <4>3. TailFill(journal) \subseteq dropped \cup {0}
        BY DEF TailFill, IInv, MemoryAheadByOneFill
      <4>4. 0 \notin FillsIn(journal)
        BY DEF FillsIn
      <4> QED
        BY <4>2, <4>3, <4>4
    <3> QED
      BY <2>5, <3>1
  <2>9. view'.asOf = runs' =>
          Decodes(journal') /\ view'.decisions = DecisionRows(ReadAll(journal'))
    BY <2>1, <2>2, <2>3, <2>4
  <2>10. /\ view'.asOf \in Nat /\ view'.asOf <= RunsRecorded'
         /\ \A g \in FillsIn(journal') \ dropped' : HasRow(view'.fills, g)
    BY <1>2, <2>2, <2>3, <2>7, <2>8
  <2> QED
    BY <2>3, <2>7, <2>9, <2>10 DEF ViewIsOfItsTime
<1>5. CASE (ReadStatus \/ LoadPortfolio) /\ UNCHANGED allVars
  <2>1. /\ view'.decisions = view.decisions /\ view'.fills = view.fills
        /\ view'.asOf = view.asOf /\ dpc # "none"
    BY <1>5 DEF ReadStatus, LoadPortfolio, FileWasSeen
  <2>2. /\ journal' = journal /\ runs' = runs /\ dropped' = dropped
        /\ RunsRecorded' = RunsRecorded
    BY <1>5 DEF allVars, vars, RunsRecorded
  <2>3. dpc' = "loaded" /\ view'.portfolio # Absent =>
          view'.portfolio \ dropped \subseteq FillsIn(journal)
    <3>1. CASE LoadPortfolio
      <4>1. view'.portfolio = IF saved = Absent THEN Absent ELSE saved.audit.fills
        BY <3>1 DEF LoadPortfolio, FileWasSeen
      <4> QED
        BY <4>1 DEF IInv, JournalAheadOfFile
    <3>2. CASE ReadStatus
      BY <3>2 DEF ReadStatus
    <3> QED
      BY <1>5, <3>1, <3>2
  <2> QED
    BY <2>1, <2>2, <2>3 DEF ViewIsOfItsTime
<1>7. CASE ReadRunner /\ UNCHANGED allVars
  BY <1>7 DEF ReadRunner, ViewIsOfItsTime
<1> QED
  BY <1>3, <1>4, <1>5, <1>7 DEF DashboardNext, Read, allVars, seen
(* What a view in the making rests on holds whatever the bot does between  *)
(* its reads.                                                              *)
THEOREM RowsInductive ==
  DashboardSpec => [](IInv /\ FillsAreInOrder /\ ViewIsOfItsTime)
<1>1. DashboardInit => FillsAreInOrder /\ ViewIsOfItsTime
  <2> SUFFICES ASSUME DashboardInit PROVE FillsAreInOrder /\ ViewIsOfItsTime
    OBVIOUS
  <2>1. journal = EmptyJournal /\ ppc = "down" /\ dpc = "none"
    BY DEF DashboardInit, SystemInit, Init
  <2>2. DOMAIN journal.lines = {} /\ journal.tail = Clean /\ Clean \notin Entries
    BY <2>1, EntriesApart DEF EmptyJournal, MarkersApart
  <2>3. Intact(journal) = {}
    BY <2>2 DEF Intact
  <2> QED
    BY <2>1, <2>2, <2>3 DEF FillsAreInOrder, FillsGrow, ViewIsOfItsTime
<1>2. DashboardSpec => []IInv /\ []Lockstep
  BY DashboardOnlyReads, SystemImplementsPipeline, Inductive, SystemInStep
<1>3. IInv /\ Lockstep /\ FillsAreInOrder /\ [DashboardNext]_<<allVars, seen>>
        => FillsAreInOrder'
  <2>1. [DashboardNext]_<<allVars, seen>> => [SystemNext]_allVars
    BY DEF DashboardNext
  <2> QED
    BY <2>1, SystemStepIsPipelineStep, StepFills DEF IInv
<1> QED
  BY <1>1, <1>2, <1>3, FileSeen, StepView, PTL DEF DashboardSpec

(* Every fill the portfolio section rests on has its row, or it happened   *)
(* after the journal was read, or newer rows pushed it out, or the write of*)
(* its entry failed; and the newest rows come first: PortfolioHasItsRows.  *)
THEOREM RowsOfThePortfolio == DashboardSpec => []PortfolioHasItsRows
<1>1. IInv /\ FillsAreInOrder /\ ViewIsOfItsTime => PortfolioHasItsRows
  <2> SUFFICES ASSUME IInv, FillsAreInOrder, ViewIsOfItsTime,
                      NEW shot \in Snapshots
               PROVE  /\ Descending(shot.fills)
                      /\ shot.portfolio # Absent =>
                           \A f \in shot.portfolio \ dropped :
                             f > shot.asOf \/ HasRow(shot.fills, f)
    BY DEF PortfolioHasItsRows
  <2>1. CASE dpc = "loaded" /\ shot = view
    BY <2>1 DEF ViewIsOfItsTime
  <2>2. CASE /\ Decodes(journal)
             /\ shot.fills = FillRows(ReadAll(journal))
             /\ shot.asOf = RunsRecorded /\ shot.portfolio = audit.fills
    <3>1. journal \in JournalFiles(Entries) /\ FillsGrow(journal, RunsRecorded)
      BY DEF IInv, TypeOK, FillsAreInOrder
    <3>2. /\ Descending(shot.fills)
          /\ \A f \in FillsIn(journal) : HasRow(shot.fills, f)
      BY <2>2, <3>1, ReadShows
    <3>3. ASSUME NEW f \in audit.fills \ dropped, f \notin FillsIn(journal)
          PROVE  f > shot.asOf
      <4>1. ppc = "recording" /\ f = entry.fill /\ f # 0
        BY <3>3 DEF IInv, TypeOK, Audits, RunIds, MemoryAheadByOneFill
      <4>2. f = runs /\ runs \in Nat
        BY <4>1, MarketBounds DEF FillsAreInOrder, IInv, TypeOK
      <4> QED
        BY <2>2, <4>1, <4>2 DEF RunsRecorded
    <3> QED
      BY <2>2, <3>2, <3>3
  <2> QED
    BY <2>1, <2>2 DEF Snapshots
<1> QED
  BY <1>1, RowsInductive, PTL
(* The i-th decision from the top is that of the i-th symbol from the end, *)
(* unless a tear took the line of the first.                               *)
LEMMA NewestOfTheCycle ==
  ASSUME NEW j \in JournalFiles(Entries), Decodes(j),
         NEW done \in Seq(Symbols), done # << >> => EndsWith(j, done),
         NEW i \in DOMAIN done, i <= MaxRecent,
         i # Len(done) \/ Garbage \notin Range(j.lines)
  PROVE  LET rows == DecisionRows(ReadAll(j))
         IN  i <= Len(rows) /\ rows[i].symbol = Reverse(done)[i]
<1> DEFINE r == ReadAll(j)
           n == Len(j.lines)
           m == Len(done)
           rows == DecisionRows(r)
<1>1. /\ n \in Nat /\ m \in Nat /\ i \in 1..m /\ DOMAIN done = 1..m
      /\ DOMAIN j.lines = 1..n /\ MaxRecent \in Nat \ {0}
  BY SomeRows DEF JournalFiles
<1>2. /\ n - m >= 0 /\ j.tail = Clean
      /\ \A q \in 1..m :
           LET line == j.lines[n - m + q]
           IN  \/ line \notin {Garbage, Mangled} /\ line.symbol = done[q]
               \/ line \in {Garbage, Mangled} /\ q = 1
  <2>1. done # << >>
    BY <1>1
  <2> QED
    BY <1>1, <2>1 DEF EndsWith
<1>3. Reverse(done)[i] = done[m - i + 1]
  BY <1>1 DEF Reverse
<1>4. r \in Seq(Entries)
  BY EntriesApart, ReadFacts
<1> HIDE DEF n, m, r
<1>5. ASSUME NEW l \in 1..i PROVE j.lines[n - l + 1] # Garbage
  <2>1. /\ m - l + 1 \in 1..m /\ n - m + (m - l + 1) = n - l + 1
        /\ n - l + 1 \in 1..n /\ (m - l + 1 = 1 => i = m)
    BY <1>1, <1>2
  <2>2. CASE i = m
    <3>1. Garbage \notin {j.lines[q] : q \in DOMAIN j.lines}
      BY <2>2 DEF Range, m
    <3> QED
      BY <1>1, <2>1, <3>1
  <2>3. CASE i # m
    BY <1>2, <2>1, <2>3
  <2> QED
    BY <2>2, <2>3
<1>6. i \in 0..n
  BY <1>1, <1>2
<1>7. /\ Len(r) >= i
      /\ \A l \in 1..i : r[Len(r) - l + 1] = j.lines[n - l + 1]
  BY <1>2, <1>5, <1>6, ReadEnd DEF r, n
<1>8. /\ Len(rows) = IF Len(r) > MaxRecent THEN MaxRecent ELSE Len(r)
      /\ \A l \in 1..Len(rows) : rows[l] = r[Len(r) - l + 1]
  BY <1>4, NewestFacts DEF DecisionRows
<1> HIDE DEF rows
<1>9. Len(r) \in Nat
  BY <1>4
<1>10. i \in 1..Len(rows) /\ i \in 1..i
  BY <1>1, <1>7, <1>8, <1>9
<1>11. rows[i] = j.lines[n - i + 1]
  BY <1>7, <1>8, <1>10
<1>12. /\ m - i + 1 \in 1..m /\ n - m + (m - i + 1) = n - i + 1
       /\ n - i + 1 \in 1..n
  BY <1>1, <1>2
<1>13. j.lines[n - i + 1].symbol = done[m - i + 1]
  <2>1. j.lines[n - i + 1] \notin {Garbage, Mangled}
    BY <1>1, <1>5, <1>10, <1>12 DEF Decodes
  <2> QED
    BY <1>2, <1>12, <2>1
<1> QED
  BY <1>3, <1>10, <1>11, <1>13 DEF rows, r

(* If no run ended since the journal was read and the runner's file tells  *)
(* of a successful cycle, the newest decisions are those of its symbols:   *)
(* RunnerAgreesWithRows.                                                   *)
THEOREM RowsOfTheCycle == DashboardSpec => []RunnerAgreesWithRows
<1>1. IInv /\ ViewIsOfItsTime /\ SystemIInv => RunnerAgreesWithRows
  <2> SUFFICES ASSUME IInv, ViewIsOfItsTime, SystemIInv, NEW shot \in Snapshots,
                      file # Absent, file.lastOk, ~file.inCycle,
                      shot.asOf = runs,
                      NEW i \in DOMAIN Reverse(file.processed),
                      i <= MaxRecent,
                      i # Len(Reverse(file.processed))
                        \/ Garbage \notin Range(journal.lines)
               PROVE  /\ i <= Len(shot.decisions)
                      /\ shot.decisions[i].symbol = Reverse(file.processed)[i]
    <3>1. MaxRecent \in Nat
      BY SomeRows
    <3>2. \A i \in DOMAIN Reverse(file.processed) : i \in Nat
      BY DEF Reverse
    <3>3. \A i \in Nat : i > MaxRecent \/ i <= MaxRecent
      BY <3>1
    <3> QED
      BY <3>2, <3>3 DEF RunnerAgreesWithRows
  <2>1. journal \in JournalFiles(Entries)
    BY DEF IInv, TypeOK
  <2>2. /\ Decodes(journal)
        /\ shot.decisions = DecisionRows(ReadAll(journal))
    BY DEF Snapshots, ViewIsOfItsTime
  <2>3. file.processed \in Seq(Symbols)
    BY SequenceOfSymbols
       DEF SystemIInv, FileIsMemory, R!RunnerStates, R!Range, Range
  <2>4. file.processed # << >> => EndsWith(journal, file.processed)
    BY DEF SystemIInv, FileTellsJournal
  <2>5. /\ DOMAIN Reverse(file.processed) = DOMAIN file.processed
        /\ Len(Reverse(file.processed)) = Len(file.processed)
    BY <2>3 DEF Reverse
  <2> QED
    BY <2>1, <2>2, <2>3, <2>4, <2>5, NewestOfTheCycle
<1> QED
  BY <1>1, RowsInductive, DashboardOnlyReads, SystemInductive, PTL
==============================================================================
