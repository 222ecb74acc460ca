--------------------------- MODULE PaperPortfolio ---------------------------
(***************************************************************************)
(* PaperPortfolioTracker under any sequence of apply_fill calls its        *)
(* interface admits: repeated buys of one symbol, partial sells, sells of  *)
(* what is not held, buys beyond the cash.  Two history variables keep     *)
(* what the tracker does not: the buy-side fees it has paid, and a bound   *)
(* on the rounding its weighted averages have accumulated.                 *)
(***************************************************************************)
EXTENDS Portfolio

CONSTANTS StartingCash, Qtys, Prices, Fees,
          MaxBuys       \* bound of the model: buys in one behaviour

ASSUME StartingCashPositive == StartingCash \in Nat \ {0}
ASSUME FillBounds == /\ Qtys \subseteq Nat \ {0}
                     /\ Prices \subseteq Nat \ {0}
                     /\ Fees \subseteq Nat
                     /\ MaxBuys \in Nat

VARIABLES account,    \* the tracker
          outcome,    \* how the last apply_fill ended
          buyFees,    \* history: fees paid on buys
          slack,      \* history: units that averages may have rounded away
          buys        \* buys applied so far

vars == <<account, outcome, buyFees, slack, buys>>

TypeOK ==
  /\ account \in Accounts
  /\ outcome \in {"none", "applied", "raised"}
  /\ buyFees \in Nat /\ slack \in Nat
  /\ buys \in 0..MaxBuys

Init ==
  /\ account = NewAccount(StartingCash)
  /\ outcome = "none"
  /\ buyFees = 0 /\ slack = 0 /\ buys = 0

Buy(f) ==
  /\ f.side = "Buy" /\ buys < MaxBuys
  /\ BuyFits(account, f)
  /\ account' = Bought(account, f)
  /\ outcome' = "applied" /\ buys' = buys + 1
  /\ buyFees' = buyFees + f.fee
  /\ slack' = slack + IF f.symbol \in account.open
                      THEN account.qty[f.symbol] + f.qty ELSE 0

Sell(f) ==
  /\ f.side = "Sell"
  /\ SellFits(account, f)
  /\ account' = Sold(account, f)
  /\ outcome' = "applied"
  /\ UNCHANGED <<buyFees, slack, buys>>

Raise(f) ==
  /\ ~Applies(account, f)
  /\ outcome' = "raised"
  /\ UNCHANGED <<account, buyFees, slack, buys>>

Next == \E f \in Fills(Qtys, Prices, Fees) : Buy(f) \/ Sell(f) \/ Raise(f)

Spec == Init /\ [][Next]_vars

-----------------------------------------------------------------------------
Abs(n) == IF n < 0 THEN -n ELSE n

\* snapshot() with the marks it is given; an unmarked position is at cost
Mark(a, marks, s) ==
  IF s \in DOMAIN marks THEN marks[s] ELSE a.avg[s]

TotalEquity(a, marks) ==
  a.cash + SumFunction([s \in a.open |-> a.qty[s] * Mark(a, marks, s)])

\* unrealized_pnl_usdt, over all positions
Unrealized(a, marks) ==
  SumFunction([s \in a.open |-> (Mark(a, marks, s) - a.avg[s]) * a.qty[s]])

(* The books balance, whichever symbols a snapshot is given marks for:     *)
(* equity is what the account started with, plus the realized and the      *)
(* unrealized profit, minus the buy fees that realized_pnl leaves out - to *)
(* within the rounding of the averages, and to the unit as long as no      *)
(* symbol was bought twice (PaperPortfolioTracker.apply_fill and           *)
(* snapshot).                                                              *)
BooksBalance ==
  \A marked \in SUBSET Symbols : \A marks \in [marked -> Prices] :
    2 * Abs(TotalEquity(account, marks)
              - (StartingCash + account.realized + Unrealized(account, marks)
                   - buyFees)) <= slack

(* The same fact for one step, symbol by symbol, which the proof adds up:  *)
(* an apply_fill moves value between cash, realized profit, fees and the   *)
(* cost basis of the one symbol it names, and loses at most what the new   *)
(* average rounds away (_apply_buy, _apply_sell).                          *)
Worth(a, fees, s) == a.cash + Basis(a, s) - a.realized + fees

StepConserves ==
  \E s \in Symbols :
    /\ \A o \in Symbols \ {s} : Basis(account', o) = Basis(account, o)
    /\ 2 * Abs(Worth(account', buyFees', s) - Worth(account, buyFees, s))
         <= slack' - slack

ValueConserved == [][StepConserves]_vars

(* The dict's keys are the holdings: no symbol stays in open_positions     *)
(* with nothing held, none is held without its key, so RiskEngine's        *)
(* "already open" and "max open" rules count real positions                *)
(* (_apply_sell's delete, both functions' guards).                         *)
OpenMeansHeld ==
  \A s \in Symbols : s \in account.open <=> account.qty[s] > 0
=============================================================================
