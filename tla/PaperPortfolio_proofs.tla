----------------------- MODULE PaperPortfolio_proofs -----------------------
(***************************************************************************)
(* The tracker for every starting cash and every set of fills: the account *)
(* stays well formed, its keys are its holdings, and no fill creates or    *)
(* destroys value beyond the rounding of a weighted average.               *)
(***************************************************************************)
EXTENDS PaperPortfolio, Books_proofs

IInv == TypeOK /\ OpenMeansHeld

(* What is known of one fill of the model's fill set.                      *)
LEMMA FillFacts ==
  ASSUME NEW f \in Fills(Qtys, Prices, Fees)
  PROVE  ProperFill(f) /\ f.side \in {"Buy", "Sell"}
BY FillBounds DEF Fills, ProperFill

(* Init and every apply_fill keep the invariant.                           *)
LEMMA InitIInv == Init => IInv
BY StartingCashPositive, FillBounds
   DEF Init, IInv, TypeOK, OpenMeansHeld, NewAccount, Accounts

(* Every step of the account keeps the inductive invariant.               *)
LEMMA StepIInv == IInv /\ [Next]_vars => IInv'
<1> SUFFICES ASSUME IInv, [Next]_vars PROVE IInv'
  OBVIOUS
<1> USE FillBounds
<1>0. account \in Accounts /\ KeysHeld(account)
  BY DEF IInv, TypeOK, OpenMeansHeld, KeysHeld
<1>1. ASSUME NEW f \in Fills(Qtys, Prices, Fees), Buy(f) PROVE IInv'
  <2>1. account' \in Accounts /\ OpenMeansHeld'
    BY <1>0, <1>1, FillFacts, BoughtIsAccount DEF Buy, OpenMeansHeld, KeysHeld
  <2>2. f.symbol \in Symbols /\ f.fee \in Nat /\ f.qty \in Nat
    BY FillFacts DEF ProperFill
  <2>3. account.qty[f.symbol] \in Nat
    BY <2>2, <1>0 DEF Accounts
  <2>4. slack' \in Nat /\ buyFees' \in Nat /\ buys' \in 0..MaxBuys
    BY <1>1, <2>2, <2>3 DEF Buy, IInv, TypeOK
  <2> QED BY <1>1, <2>1, <2>4 DEF Buy, IInv, TypeOK
<1>2. ASSUME NEW f \in Fills(Qtys, Prices, Fees), Sell(f) PROVE IInv'
  <2>1. account' \in Accounts /\ OpenMeansHeld'
    BY <1>0, <1>2, FillFacts, SoldIsAccount DEF Sell, OpenMeansHeld, KeysHeld
  <2> QED BY <1>2, <2>1 DEF Sell, IInv, TypeOK
<1>3. ASSUME NEW f \in Fills(Qtys, Prices, Fees), Raise(f) PROVE IInv'
  BY <1>3 DEF Raise, IInv, TypeOK, OpenMeansHeld
<1>4. CASE UNCHANGED vars
  BY <1>4 DEF vars, IInv, TypeOK, OpenMeansHeld
<1> QED BY <1>1, <1>2, <1>3, <1>4 DEF Next

(* The account is well formed in every reachable state: cash is never      *)
(* negative and no holding is short, whatever fills are applied.           *)
THEOREM TypeCorrect == Spec => []TypeOK
<1>1. Init => IInv BY InitIInv
<1>2. IInv /\ [Next]_vars => IInv' BY StepIInv
<1>3. IInv => TypeOK BY DEF IInv
<1> QED BY <1>1, <1>2, <1>3, PTL DEF Spec

(* The keys of the positions dict are exactly the symbols held.            *)
THEOREM KeysAreHoldings == Spec => []OpenMeansHeld
<1>1. Init => IInv BY InitIInv
<1>2. IInv /\ [Next]_vars => IInv' BY StepIInv
<1>3. IInv => OpenMeansHeld BY DEF IInv
<1> QED BY <1>1, <1>2, <1>3, PTL DEF Spec

-----------------------------------------------------------------------------
(* What an apply_fill for symbol s does to the books: the other positions  *)
(* stay, and the worth of this one and the cash together changes by no     *)
(* more than the rounding allows.                                          *)
MovesOnly(s) ==
  /\ s \in Symbols
  /\ account'.open \ {s} = account.open \ {s}
  /\ \A o \in Symbols \ {s} : Basis(account', o) = Basis(account, o)
  /\ 2 * Abs(Worth(account', buyFees', s) - Worth(account, buyFees, s))
       <= slack' - slack

(* A fill that moves the worth of its own symbol only, within the slack   *)
(* it adds, conserves value.                                              *)
LEMMA MovesOnlyConserves ==
  ASSUME NEW s, MovesOnly(s)
  PROVE  StepConserves
BY DEF MovesOnly, StepConserves

(* A buy turns cash into cost basis and fee, within its average's rounding.*)
LEMMA BuyConserves ==
  ASSUME IInv, NEW f \in Fills(Qtys, Prices, Fees), Buy(f)
  PROVE  MovesOnly(f.symbol)
<1> DEFINE s == f.symbol
           a == account
           q == a.qty[s] + f.qty
           old == a.qty[s] * a.avg[s]
           paid == f.qty * f.price
           r == RoundDiv(old + paid, q)
<1>1. /\ s \in Symbols /\ f.qty \in Nat \ {0} /\ f.price \in Nat \ {0}
      /\ f.fee \in Nat
  BY FillFacts DEF ProperFill
<1>2. /\ a.qty[s] \in Nat /\ a.avg[s] \in Nat /\ a.cash \in Nat
      /\ a.realized \in Int /\ buyFees \in Nat /\ slack \in Nat
      /\ DOMAIN a.qty = Symbols /\ DOMAIN a.avg = Symbols
  BY <1>1 DEF IInv, TypeOK, Accounts
<1>3. old \in Nat /\ paid \in Nat /\ q \in Nat \ {0}
  BY <1>1, <1>2
<1>4. account' = [cash |-> a.cash - (paid + f.fee), realized |-> a.realized,
                  open |-> a.open \cup {s},
                  qty |-> [a.qty EXCEPT ![s] = q],
                  avg |-> [a.avg EXCEPT ![s] = r]]
  BY DEF Buy, Bought, Basis, Outlay
<1>5. /\ r \in Nat
      /\ 2 * (q * r) - 2 * (old + paid) <= q
      /\ 2 * (old + paid) - 2 * (q * r) <= q
  <2>1. old + paid \in Nat BY <1>3
  <2> HIDE DEF old, paid, q
  <2> QED BY <2>1, <1>3, RoundDivError
<1>6. ASSUME s \notin a.open PROVE q * r = old + paid
  <2>1. a.qty[s] = 0
    BY <1>1, <1>2, <1>6 DEF IInv, OpenMeansHeld
  <2>2. old = 0 /\ q = f.qty
    BY <2>1, <1>1, <1>2
  <2>3. r = f.price
    <3>1. r = RoundDiv(f.qty * f.price, f.qty)
      BY <2>2, <1>3
    <3> QED BY <3>1, <1>1, RoundDivExact
  <2> QED BY <2>2, <2>3, <1>3
<1>7. q * r \in Nat
  BY <1>3, <1>5
<1> DEFINE qr == q * r
<1>8. /\ Basis(account', s) = qr
      /\ Basis(a, s) = old
      /\ \A o \in Symbols \ {s} : Basis(account', o) = Basis(a, o)
  BY <1>1, <1>2, <1>4 DEF Basis
<1>9. /\ Worth(account', buyFees', s) - Worth(a, buyFees, s)
            = qr - (old + paid)
      /\ slack' - slack = IF s \in a.open THEN q ELSE 0
  <2>1. account'.cash = a.cash - (paid + f.fee) /\ account'.realized = a.realized
    BY <1>4
  <2>2. buyFees' = buyFees + f.fee
        /\ slack' = slack + IF s \in a.open THEN q ELSE 0
    BY DEF Buy
  <2> HIDE DEF qr, old, paid, q
  <2> QED BY <2>1, <2>2, <1>1, <1>2, <1>3, <1>7, <1>8 DEF Worth, qr
<1>10. 2 * Abs(Worth(account', buyFees', s) - Worth(a, buyFees, s))
         <= slack' - slack
  <2>1. qr \in Nat BY <1>7
  <2>2. 2 * qr - 2 * (old + paid) <= q /\ 2 * (old + paid) - 2 * qr <= q
    BY <1>5
  <2>3. s \notin a.open => qr = old + paid
    BY <1>6
  <2> HIDE DEF qr, old, paid, q, r
  <2> QED BY <2>1, <2>2, <2>3, <1>3, <1>9 DEF Abs
<1>11. account'.open \ {s} = a.open \ {s}
  BY <1>4
<1> QED BY <1>1, <1>8, <1>10, <1>11 DEF MovesOnly

(* A sell turns cost basis into cash, fee and realized profit, exactly.    *)
LEMMA SellConserves ==
  ASSUME IInv, NEW f \in Fills(Qtys, Prices, Fees), Sell(f)
  PROVE  MovesOnly(f.symbol)
<1> DEFINE s == f.symbol
           a == account
           left == a.qty[s] - f.qty
           v == a.avg[s]
           w == IF left = 0 THEN 0 ELSE v
<1>1. /\ s \in Symbols /\ f.qty \in Nat \ {0} /\ f.price \in Nat \ {0}
      /\ f.fee \in Nat
  BY FillFacts DEF ProperFill
<1>2. /\ a.qty[s] \in Nat /\ v \in Nat /\ a.cash \in Nat
      /\ a.realized \in Int /\ buyFees \in Nat /\ slack \in Nat
      /\ DOMAIN a.qty = Symbols /\ DOMAIN a.avg = Symbols
  BY <1>1 DEF IInv, TypeOK, Accounts
<1>3. account' = [cash |-> a.cash + f.qty * f.price - f.fee,
                  realized |-> a.realized + (f.price - v) * f.qty - f.fee,
                  open |-> IF left = 0 THEN a.open \ {s} ELSE a.open,
                  qty |-> [a.qty EXCEPT ![s] = left],
                  avg |-> [a.avg EXCEPT ![s] = w]]
  BY <1>1, <1>2 DEF Sell, Sold
<1>4. /\ Basis(account', s) = left * w
      /\ Basis(a, s) = a.qty[s] * v
      /\ \A o \in Symbols \ {s} : Basis(account', o) = Basis(a, o)
  BY <1>1, <1>2, <1>3 DEF Basis
<1>5. left * w = left * v
  BY <1>1, <1>2
<1>6. left * v = a.qty[s] * v - f.qty * v
  BY <1>1, <1>2
<1>7. (f.price - v) * f.qty = f.qty * f.price - f.qty * v
  BY <1>1, <1>2
<1>8. f.qty * f.price \in Int /\ f.qty * v \in Int /\ a.qty[s] * v \in Int
  BY <1>1, <1>2
<1>9. /\ account'.cash = a.cash + f.qty * f.price - f.fee
      /\ account'.realized = a.realized + (f.price - v) * f.qty - f.fee
      /\ buyFees' = buyFees /\ slack' = slack
  BY <1>3 DEF Sell
<1>10. Worth(account', buyFees', s) = Worth(a, buyFees, s)
  <2> DEFINE fp == f.qty * f.price
             fv == f.qty * v
             qv == a.qty[s] * v
  <2>1. Basis(account', s) = qv - fv /\ Basis(a, s) = qv
    BY <1>4, <1>5, <1>6
  <2>2. account'.realized = a.realized + (fp - fv) - f.fee
    BY <1>7, <1>9
  <2>3. account'.cash = a.cash + fp - f.fee
    BY <1>9
  <2>4. fp \in Int /\ fv \in Int /\ qv \in Int
    BY <1>8
  <2> HIDE DEF fp, fv, qv
  <2> QED BY <2>1, <2>2, <2>3, <2>4, <1>1, <1>2, <1>9 DEF Worth
<1>11. Worth(a, buyFees, s) \in Int
  BY <1>2, <1>4, <1>8 DEF Worth
<1>12. 2 * Abs(Worth(account', buyFees', s) - Worth(a, buyFees, s))
         <= slack' - slack
  BY <1>2, <1>9, <1>10, <1>11 DEF Abs
<1>13. account'.open \ {s} = a.open \ {s}
  BY <1>3
<1> QED BY <1>1, <1>4, <1>12, <1>13 DEF MovesOnly

(* A fill that does not fit moves nothing.                                 *)
LEMMA RaiseConserves ==
  ASSUME IInv, NEW f \in Fills(Qtys, Prices, Fees), UNCHANGED <<account, buyFees, slack>>
  PROVE  MovesOnly(f.symbol)
<1>1. f.symbol \in Symbols BY FillFacts DEF ProperFill
<1>2. Worth(account, buyFees, f.symbol) \in Int /\ slack \in Nat
  <2>1. /\ account.cash \in Nat /\ account.realized \in Int
        /\ buyFees \in Nat /\ slack \in Nat
        /\ account.qty[f.symbol] \in Nat /\ account.avg[f.symbol] \in Nat
    BY <1>1 DEF IInv, TypeOK, Accounts
  <2>2. Basis(account, f.symbol) \in Nat
    BY <2>1 DEF Basis
  <2> QED BY <2>1, <2>2 DEF Worth
<1> QED BY <1>1, <1>2 DEF MovesOnly, Abs

(* Every apply_fill moves one position only.                               *)
LEMMA StepMovesOnly ==
  ASSUME IInv, Next
  PROVE  \E s \in Symbols : MovesOnly(s)
<1>1. PICK f \in Fills(Qtys, Prices, Fees) : Buy(f) \/ Sell(f) \/ Raise(f)
  BY DEF Next
<1>2. f.symbol \in Symbols BY FillFacts DEF ProperFill
<1>3. CASE Buy(f) BY <1>2, <1>3, BuyConserves
<1>4. CASE Sell(f) BY <1>2, <1>4, SellConserves
<1>5. CASE Raise(f)
  BY <1>2, <1>5, RaiseConserves DEF Raise
<1> QED BY <1>1, <1>3, <1>4, <1>5

(* No apply_fill creates or destroys value, beyond the rounding of one     *)
(* weighted average (PaperPortfolioTracker.apply_fill).                    *)
THEOREM Conservation == Spec => ValueConserved
<1>1. Init => IInv BY InitIInv
<1>2. IInv /\ [Next]_vars => IInv' BY StepIInv
<1>3. IInv /\ [Next]_vars => [StepConserves]_vars
  BY StepMovesOnly, MovesOnlyConserves
<1> QED BY <1>1, <1>2, <1>3, PTL DEF Spec, ValueConserved

-----------------------------------------------------------------------------
(* How far the books are from balancing, with every position at cost.      *)
Imbalance == (account.cash + CostBasis(account))
               - (StartingCash + account.realized - buyFees)

WithinSlack == 2 * Abs(Imbalance) <= slack

(* An imbalance within its slack that moves by no more than the slack     *)
(* grows stays within it.                                                 *)
LEMMA SlackAdds ==
  ASSUME NEW i \in Int, NEW j \in Int, NEW d \in Int,
         NEW room \in Nat, NEW more \in Nat,
         j - i = d, 2 * Abs(i) <= room, 2 * Abs(d) <= more - room
  PROVE  2 * Abs(j) <= more
BY DEF Abs

(* A step that moves one position keeps the imbalance within the slack.    *)
LEMMA MoveWithinSlack ==
  ASSUME IInv, IInv', WithinSlack, NEW s, MovesOnly(s)
  PROVE  WithinSlack'
<1> DEFINE moved == Worth(account', buyFees', s) - Worth(account, buyFees, s)
<1>1. /\ account \in Accounts /\ KeysHeld(account) /\ buyFees \in Nat
      /\ account' \in Accounts /\ KeysHeld(account') /\ buyFees' \in Nat
  BY DEF IInv, TypeOK, OpenMeansHeld, KeysHeld
<1>2. /\ CostBasis(account) \in Int /\ CostBasis(account') \in Int
      /\ CostBasis(account') - CostBasis(account)
           = Basis(account', s) - Basis(account, s)
  BY <1>1, CostMovesWithOne DEF MovesOnly
<1>3. Basis(account, s) \in Int /\ Basis(account', s) \in Int
  BY <1>1, CostOfOneAndOthers DEF MovesOnly
<1>4. /\ account.cash \in Int /\ account'.cash \in Int
      /\ account.realized \in Int /\ account'.realized \in Int
  BY <1>1 DEF Accounts
<1>5. Imbalance' - Imbalance = moved
  <2>1. Imbalance' = (account'.cash + CostBasis(account'))
                       - (StartingCash + account'.realized - buyFees')
    BY DEF Imbalance
  <2>2. Imbalance = (account.cash + CostBasis(account))
                      - (StartingCash + account.realized - buyFees)
    BY DEF Imbalance
  <2>3. moved = (account'.cash + Basis(account', s) - account'.realized + buyFees')
                  - (account.cash + Basis(account, s) - account.realized + buyFees)
    BY DEF Worth
  <2> HIDE DEF moved
  <2> QED BY <2>1, <2>2, <2>3, <1>1, <1>2, <1>3, <1>4, StartingCashPositive
<1>6. moved \in Int /\ 2 * Abs(moved) <= slack' - slack
  BY <1>1, <1>3, <1>4 DEF MovesOnly, Worth
<1>7. /\ Imbalance \in Int /\ Imbalance' \in Int
      /\ slack \in Nat /\ slack' \in Nat
  BY <1>1, <1>2, <1>4, StartingCashPositive DEF IInv, TypeOK, Imbalance
<1> HIDE DEF moved
<1> QED
  BY <1>5, <1>6, <1>7, SlackAdds DEF WithinSlack

(* At any marks the positions are worth what they cost and their           *)
(* unrealized profit (snapshot).                                           *)
LEMMA MarksSplit ==
  ASSUME NEW a \in Accounts, NEW marked \in SUBSET Symbols,
         NEW marks \in [marked -> Prices]
  PROVE  /\ TotalEquity(a, marks)
              = a.cash + (CostBasis(a) + Unrealized(a, marks))
         /\ CostBasis(a) \in Int /\ Unrealized(a, marks) \in Int
<1> DEFINE cost == [s \in a.open |-> Basis(a, s)]
           gain == [s \in a.open |-> (Mark(a, marks, s) - a.avg[s]) * a.qty[s]]
<1>1. IsFiniteSet(a.open) /\ a.open \subseteq Symbols
  BY SymbolsFinite, FS_Subset DEF Accounts
<1>2. \A s \in a.open : /\ a.qty[s] \in Int /\ a.avg[s] \in Int
                        /\ Mark(a, marks, s) \in Int
  <2>1. ASSUME NEW s \in a.open
        PROVE  a.qty[s] \in Int /\ a.avg[s] \in Int
    BY <1>1 DEF Accounts
  <2>2. ASSUME NEW s \in DOMAIN marks PROVE marks[s] \in Int
    <3>1. marks[s] \in Prices
      OBVIOUS
    <3>2. Prices \subseteq Int
      BY FillBounds
    <3> HIDE DEF cost, gain
    <3> QED BY <3>1, <3>2
  <2> QED BY <2>1, <2>2 DEF Mark
<1>3. cost \in [a.open -> Int] /\ gain \in [a.open -> Int]
  BY <1>2 DEF Basis
<1>4. [s \in a.open |-> a.qty[s] * Mark(a, marks, s)]
        = [s \in a.open |-> cost[s] + gain[s]]
  <2>1. ASSUME NEW q \in Int, NEW v \in Int, NEW m \in Int
        PROVE  q * m = q * v + (m - v) * q
    OBVIOUS
  <2> QED BY <1>2, <2>1 DEF Basis
<1>5. /\ CostBasis(a) = SumFunction(cost)
      /\ Unrealized(a, marks) = SumFunction(gain)
  BY DEF CostBasis, Unrealized
<1> HIDE DEF cost, gain
<1>6. /\ SumFunction([s \in a.open |-> cost[s] + gain[s]])
           = SumFunction(cost) + SumFunction(gain)
      /\ SumFunction(cost) \in Int /\ SumFunction(gain) \in Int
  BY <1>1, <1>3, SumsAdd, SumIsInt
<1> QED
  BY <1>4, <1>5, <1>6 DEF TotalEquity

(* The books balance to within the rounding of the averages, over all      *)
(* symbols, fills and marks (PaperPortfolioTracker.apply_fill, snapshot).     *)
THEOREM BooksAreBalanced == Spec => []BooksBalance
<1>1. Init => WithinSlack
  <2> SUFFICES ASSUME Init PROVE WithinSlack
    OBVIOUS
  <2>1. CostBasis(account) = 0
    BY NothingHeldCostsNothing DEF Init, NewAccount
  <2> QED BY <2>1, StartingCashPositive
          DEF Init, NewAccount, WithinSlack, Imbalance, Abs
<1>2. IInv /\ WithinSlack /\ [Next]_vars => WithinSlack'
  <2>1. CASE Next
    BY <2>1, StepIInv, StepMovesOnly, MoveWithinSlack
  <2>2. CASE UNCHANGED vars
    BY <2>2 DEF vars, WithinSlack, Imbalance
  <2> QED BY <2>1, <2>2
<1>3. IInv /\ WithinSlack => BooksBalance
  <2> SUFFICES ASSUME IInv, WithinSlack PROVE BooksBalance
    OBVIOUS
  <2>1. ASSUME NEW marked \in SUBSET Symbols, NEW marks \in [marked -> Prices]
        PROVE  2 * Abs(TotalEquity(account, marks)
                         - (StartingCash + account.realized
                              + Unrealized(account, marks) - buyFees)) <= slack
    <3>1. /\ TotalEquity(account, marks)
               = account.cash + (CostBasis(account) + Unrealized(account, marks))
          /\ CostBasis(account) \in Int /\ Unrealized(account, marks) \in Int
      BY MarksSplit DEF IInv, TypeOK
    <3>2. /\ account.cash \in Int /\ account.realized \in Int
          /\ buyFees \in Int /\ StartingCash \in Int
      BY StartingCashPositive DEF IInv, TypeOK, Accounts
    <3>3. TotalEquity(account, marks)
            - (StartingCash + account.realized + Unrealized(account, marks)
                 - buyFees) = Imbalance
      BY <3>1, <3>2 DEF Imbalance
    <3> QED BY <3>3 DEF WithinSlack
  <2> QED BY <2>1 DEF BooksBalance
<1>4. Init => IInv BY InitIInv
<1>5. IInv /\ [Next]_vars => IInv' BY StepIInv
<1> QED BY <1>1, <1>2, <1>3, <1>4, <1>5, PTL DEF Spec
=============================================================================
