----------------------------- MODULE Portfolio -----------------------------
(***************************************************************************)
(* The account arithmetic of PaperPortfolioTracker                         *)
(* (services/paper_portfolio.py), as operators on an account record.       *)
(* Money and prices are integers in one smallest unit; sums, differences   *)
(* and products of Decimals are exact, and the one division, the weighted  *)
(* average, is rounded to the nearest unit as Decimal rounds to its last   *)
(* digit.                                                                  *)
(***************************************************************************)
EXTENDS Integers, FiniteSets, Functions

CONSTANT Symbols

ASSUME SymbolsFinite == IsFiniteSet(Symbols)

\* open is the key set of the tracker's dict; a closed symbol has qty and avg 0
Accounts ==
  [cash : Nat, realized : Int, open : SUBSET Symbols,
   qty : [Symbols -> Nat], avg : [Symbols -> Nat]]

\* fee < the traded value: a rate below 1 applied to the notional
Fills(Qtys, Prices, Fees) ==
  {f \in [symbol : Symbols, side : {"Buy", "Sell"},
          qty : Qtys, price : Prices, fee : Fees] : f.fee <= f.qty * f.price}

NewAccount(capital) ==
  [cash |-> capital, realized |-> 0, open |-> {},
   qty |-> [s \in Symbols |-> 0], avg |-> [s \in Symbols |-> 0]]

RoundDiv(c, q) == (2 * c + q) \div (2 * q)

-----------------------------------------------------------------------------
Outlay(f) == f.qty * f.price + f.fee

Basis(a, s) == a.qty[s] * a.avg[s]

\* what all the positions cost
CostBasis(a) == SumFunction([s \in a.open |-> Basis(a, s)])

\* mutant: the fee is not part of what must be affordable
BuyFitsWithoutFee(a, f) == f.qty * f.price <= a.cash

\* _apply_buy and _apply_sell raise ValueError exactly when these fail
BuyFits(a, f) == Outlay(f) <= a.cash

SellFits(a, f) ==
  /\ f.symbol \in a.open /\ a.qty[f.symbol] # 0
  /\ f.qty <= a.qty[f.symbol]

\* mutant: the average entry is the last price paid
BoughtAtLastPrice(a, f) ==
  [cash |-> a.cash - Outlay(f), realized |-> a.realized,
   open |-> a.open \cup {f.symbol},
   qty |-> [a.qty EXCEPT ![f.symbol] = @ + f.qty],
   avg |-> [a.avg EXCEPT ![f.symbol] = f.price]]

Bought(a, f) ==
  LET qty == a.qty[f.symbol] + f.qty
      cost == Basis(a, f.symbol) + f.qty * f.price
  IN  [cash |-> a.cash - Outlay(f),
       realized |-> a.realized,
       open |-> a.open \cup {f.symbol},
       qty |-> [a.qty EXCEPT ![f.symbol] = qty],
       avg |-> [a.avg EXCEPT ![f.symbol] = RoundDiv(cost, qty)]]

\* mutant: an emptied position keeps its key
SoldKeepsKey(a, f) ==
  [cash |-> a.cash + f.qty * f.price - f.fee,
   realized |-> a.realized + (f.price - a.avg[f.symbol]) * f.qty - f.fee,
   open |-> a.open,
   qty |-> [a.qty EXCEPT ![f.symbol] = @ - f.qty],
   avg |-> a.avg]

\* mutant: the sell fee is missing from the realized profit
SoldForgetsFee(a, f) ==
  LET left == a.qty[f.symbol] - f.qty
  IN  [cash |-> a.cash + f.qty * f.price - f.fee,
       realized |-> a.realized + (f.price - a.avg[f.symbol]) * f.qty,
       open |-> IF left = 0 THEN a.open \ {f.symbol} ELSE a.open,
       qty |-> [a.qty EXCEPT ![f.symbol] = left],
       avg |-> [a.avg EXCEPT ![f.symbol] = IF left = 0 THEN 0 ELSE @]]

\* the position is deleted when nothing of it is left
Sold(a, f) ==
  LET left == a.qty[f.symbol] - f.qty
  IN  [cash |-> a.cash + f.qty * f.price - f.fee,
       realized |-> a.realized + (f.price - a.avg[f.symbol]) * f.qty - f.fee,
       open |-> IF left = 0 THEN a.open \ {f.symbol} ELSE a.open,
       qty |-> [a.qty EXCEPT ![f.symbol] = left],
       avg |-> [a.avg EXCEPT ![f.symbol] = IF left = 0 THEN 0 ELSE @]]

Applies(a, f) == IF f.side = "Buy" THEN BuyFits(a, f) ELSE SellFits(a, f)

\* apply_fill; a fill that does not fit raises and changes nothing
Applied(a, f) ==
  IF ~Applies(a, f) THEN a
  ELSE IF f.side = "Buy" THEN Bought(a, f) ELSE Sold(a, f)
=============================================================================
