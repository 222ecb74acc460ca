------------------------------ MODULE Pipeline ------------------------------
(***************************************************************************)
(* Pipeline.run (pipeline.py) with everything it changes: the tracker in   *)
(* memory, the journal, and the portfolio file its caller saves.  A run    *)
(* awaits the market data; then snapshot, features, signals, exit check,   *)
(* decision, risk, execution and apply_fill happen in one coroutine step,  *)
(* and then the entry is recorded.  Requests and writes may fail, and the  *)
(* process may die between any two steps and be started again.             *)
(*                                                                         *)
(* What the market and the strategies produce, the last price and the      *)
(* score of the selected signal, is chosen freely.  Saving is one step:    *)
(* AtomicFile shows that write-then-rename implements it.                  *)
(***************************************************************************)
EXTENDS Engines, JournalFile

CONSTANTS Capital,      \* config.capital_usdt, in money units
          Ticks,        \* last prices the market may show
          Scores,       \* scores the signal engine may select
          Absent,       \* no account in memory, no file on disk
          MaxRuns       \* bound of the model: runs that get their data

ASSUME CapitalPositive == Capital \in Nat \ {0}
ASSUME MarketBounds ==
  Ticks \subseteq Nat \ {0} /\ Scores \subseteq Nat /\ MaxRuns \in Nat
VARIABLES
  account,    \* the tracker of this process
  saved,      \* data/portfolio_state.json
  journal,    \* data/journal.jsonl
  ppc,        \* where run() is
  sym,        \* the symbol it runs for; run()'s locals end with it
  entry,      \* the JournalEntry it is about to record
  runs,       \* runs that got their market data so far
  audit,      \* history: the fills in account, and the fees of its buys
  dropped     \* history: fills whose record() raised or continued a torn line

vars == <<account, saved, journal, ppc, sym, entry, runs, audit, dropped>>

RunIds == 1..MaxRuns

Audits == [fills : SUBSET RunIds, fees : Nat]

Saves == [account : Accounts, audit : Audits]

ASSUME AbsentIsNothing == Absent \notin Accounts \cup Saves

NoAudit == [fills |-> {}, fees |-> 0]

\* fill names the run whose fill the entry reports, 0 when it reports none
Entries == [symbol : Symbols, fill : RunIds \cup {0},
            state : {"ENTER", "MONITOR", "REJECT", "EXIT"}]

ASSUME MarkersAreNoEntries ==
  {Garbage, Mangled, Clean, Partial, Cut} \cap Entries = {}
ASSUME AbsentIsNoSymbol == Absent \notin Symbols
ASSUME AbsentIsNoEntry == Absent \notin Entries

TypeOK ==
  /\ account \in Accounts \cup {Absent}
  /\ saved \in Saves \cup {Absent}
  /\ journal \in JournalFiles(Entries)
  /\ ppc \in {"down", "idle", "fetching", "recording"}
  /\ sym \in Symbols \cup {Absent}
  /\ entry \in Entries \cup {Absent}
  /\ runs \in 0..MaxRuns
  /\ audit \in Audits
  /\ dropped \subseteq RunIds
  /\ account = Absent <=> ppc = "down"
  /\ sym # Absent <=> ppc \in {"fetching", "recording"}
  /\ entry # Absent <=> ppc = "recording"
  /\ ppc = "fetching" => runs < MaxRuns

Init ==
  /\ account = Absent /\ saved = Absent /\ journal = EmptyJournal
  /\ ppc = "down" /\ runs = 0
  /\ sym = Absent /\ entry = Absent
  /\ audit = NoAudit /\ dropped = {}

-----------------------------------------------------------------------------
(* __main__._build_portfolio: restored from the file, or fresh *)

\* mutant: the realized profit is not restored
BootForgetsProfit ==
  /\ ppc = "down" /\ ppc' = "idle"
  /\ account' = IF saved = Absent THEN NewAccount(Capital)
                ELSE [saved.account EXCEPT !.realized = 0]
  /\ audit' = IF saved = Absent THEN NoAudit ELSE saved.audit
  /\ UNCHANGED <<saved, journal, sym, entry, runs, dropped>>

Boot ==
  /\ ppc = "down" /\ ppc' = "idle"
  /\ account' = IF saved = Absent THEN NewAccount(Capital) ELSE saved.account
  /\ audit' = IF saved = Absent THEN NoAudit ELSE saved.audit
  /\ UNCHANGED <<saved, journal, sym, entry, runs, dropped>>

Return == ppc' = "idle" /\ sym' = Absent /\ entry' = Absent

Crash ==
  /\ ppc # "down" /\ ppc' = "down"
  /\ account' = Absent /\ audit' = NoAudit
  /\ sym' = Absent /\ entry' = Absent
  /\ UNCHANGED <<saved, journal, runs, dropped>>

-----------------------------------------------------------------------------
(* run(symbol) *)

Call(s) ==
  /\ ppc = "idle" /\ ppc' = "fetching"
  /\ runs < MaxRuns
  /\ sym' = s
  /\ UNCHANGED <<account, saved, journal, entry, runs, audit, dropped>>

\* a request fails or its answer does not parse, or the task is cancelled
FetchFails ==
  /\ ppc = "fetching" /\ Return
  /\ UNCHANGED <<account, saved, journal, runs, audit, dropped>>

\* the exit check applies to an open position only, and comes first
Exiting(t, score) ==
  sym \in account.open /\ ExitReason(account, sym, t, score) # "none"

Entering(t, score) ==
  /\ ~Exiting(t, score)
  /\ Decide(score) = "ENTER" /\ Approved(account, sym, t)

Report(state, fill) ==
  /\ entry' = [symbol |-> sym, fill |-> fill, state |-> state]
  /\ ppc' = "recording" /\ UNCHANGED sym

\* execute_exit_paper for the whole holding, apply_fill
Exit(t, score) ==
  LET f == ExitFill(sym, account.qty[sym], t)
  IN  /\ ppc = "fetching" /\ Exiting(t, score)
      /\ runs' = runs + 1
      /\ account' = Applied(account, f)
      /\ audit' = [audit EXCEPT !.fills = @ \cup {runs'}]
      /\ Report("EXIT", runs')
      /\ UNCHANGED <<saved, journal, dropped>>

\* execute, apply_fill; a fill that does not fit raises out of run()
Enter(t, score) ==
  LET f == EntryFill(sym, SizedQty(account, t), t)
      fits == BuyFits(account, f)
  IN  /\ ppc = "fetching" /\ Entering(t, score)
      /\ runs' = runs + 1
      /\ account' = Applied(account, f)
      /\ audit' = IF fits THEN [fills |-> audit.fills \cup {runs'},
                                fees |-> audit.fees + f.fee]
                          ELSE audit
      /\ IF fits THEN Report("ENTER", runs') ELSE Return
      /\ UNCHANGED <<saved, journal, dropped>>

\* MONITOR, REJECT, or an ENTER that the risk engine refuses
Pass(t, score) ==
  /\ ppc = "fetching" /\ ~Exiting(t, score) /\ ~Entering(t, score)
  /\ runs' = runs + 1
  /\ Report(Decide(score), 0)
  /\ UNCHANGED <<account, saved, journal, audit, dropped>>

Drop(swallowed) ==
  dropped' = IF entry.fill # 0 /\ swallowed
             THEN dropped \cup {entry.fill} ELSE dropped

\* journal.record; the run returns its entry
Record ==
  /\ ppc = "recording" /\ Return
  /\ journal' = Recorded(journal, entry)
  /\ Drop(journal.tail # Clean)
  /\ UNCHANGED <<account, saved, runs, audit>>

\* journal.record raises out of run(): the fill stays applied
RecordFails ==
  /\ ppc = "recording" /\ Return
  /\ journal' \in FailedRecords(journal, entry)
  /\ Drop(TRUE)
  /\ UNCHANGED <<account, saved, runs, audit>>

-----------------------------------------------------------------------------
(* BotRunner._save_portfolio, between two runs; a save that fails changes  *)
(* nothing                                                                 *)

\* mutant: the save comes right after apply_fill
SaveBeforeRecord ==
  /\ ppc \in {"idle", "recording"}
  /\ saved' = [account |-> account, audit |-> audit]
  /\ UNCHANGED <<account, journal, ppc, sym, entry, runs, audit, dropped>>

\* mutant: the old file is removed before the new one takes its place
SaveRemovesFirst ==
  /\ ppc = "idle"
  /\ saved' \in {Absent, [account |-> account, audit |-> audit]}
  /\ UNCHANGED <<account, journal, ppc, sym, entry, runs, audit, dropped>>

Save ==
  /\ ppc = "idle"
  /\ saved' = [account |-> account, audit |-> audit]
  /\ UNCHANGED <<account, journal, ppc, sym, entry, runs, audit, dropped>>

Evaluate(t, score) == Exit(t, score) \/ Enter(t, score) \/ Pass(t, score)

Next ==
  \/ Boot \/ Crash
  \/ \E s \in Symbols : Call(s)
  \/ FetchFails
  \/ \E t \in Ticks, score \in Scores : Evaluate(t, score)
  \/ Record \/ RecordFails
  \/ Save

Spec == Init /\ [][Next]_vars

-----------------------------------------------------------------------------
(* Properties.  Kept is every account a property speaks of: the one in     *)
(* memory and the one on disk, each with the history of its fills.         *)

Kept ==
  (IF account = Absent THEN {} ELSE {[account |-> account, audit |-> audit]})
    \cup (IF saved = Absent THEN {} ELSE {saved})

(* Neither the running account nor the one a restart would restore ever    *)
(* has more open positions than max_open_positions, whatever runs were cut *)
(* short by failures and crashes (RiskEngine.approve rules 1 and 1b,       *)
(* PortfolioStateStore.load).                                              *)
PositionsWithinLimit ==
  \A k \in Kept : Cardinality(k.account.open) <= MaxOpenPositions

(* The dict's keys are the holdings, in memory and in the file.            *)
KeysAreHoldings ==
  \A k \in Kept, s \in Symbols :
    s \in k.account.open <=> k.account.qty[s] > 0

(* Cash plus the positions at cost is the starting capital plus the        *)
(* realized profit minus the buy fees, to the unit: re-entry is refused    *)
(* and exits are whole, so no average is ever rounded, and neither a run   *)
(* that failed after its fill nor a restart double counts or forgets one   *)
(* half of a trade (PaperPortfolioTracker, PortfolioStateStore).           *)
BooksBalance ==
  \A k \in Kept :
    k.account.cash + CostBasis(k.account)
      = Capital + k.account.realized - k.audit.fees

FillsIn(file) == {e.fill : e \in Intact(file)} \ {0}

(* The journal is written ahead of the portfolio file: every fill that a   *)
(* restart would restore has an intact journal entry, unless the write of  *)
(* that entry failed or continued a torn line (Pipeline.run records before *)
(* it returns, BotRunner saves after it returned).                         *)
JournalAheadOfFile ==
  saved # Absent => saved.audit.fills \ dropped \subseteq FillsIn(journal)

(* What makes JournalAheadOfFile inductive: the account in memory may be    *)
(* ahead of the journal by the fill being recorded, and an entry whose     *)
(* line lacks its newline is one whose record() failed (record's append    *)
(* without rollback).                                                      *)
MemoryAheadByOneFill ==
  /\ audit.fills \ dropped \subseteq
       FillsIn(journal) \cup IF ppc = "recording" THEN {entry.fill} ELSE {}
  /\ journal.tail \in Entries => journal.tail.fill \in dropped \cup {0}

(* An entry the risk engine approves fits the cash once slippage and fee   *)
(* are added, so apply_fill does not raise half way through a run, and     *)
(* misses the minimum order value, which is tested before the quantity is  *)
(* snapped down, by less than the price of one lot (RiskEngine.approve,    *)
(* ExecutionEngine._paper_execute, _apply_buy).                            *)
ApprovedEntryFits ==
  account # Absent =>
    \A s \in Symbols, t \in Ticks :
      Approved(account, s, t) =>
        LET q == SizedQty(account, t)
        IN  /\ BuyFits(account, EntryFill(s, q, t))
            /\ MinOrderValue < (q + 1) * Quote(t)

(* An entry is not closed again at the price it was made at: slippage does *)
(* not by itself reach the stop-loss or the take-profit, and a score that  *)
(* enters is above the score that exits (ExitEvaluator against             *)
(* ExecutionEngine and DecisionEngine).                                    *)
FreshEntryHolds ==
  account # Absent =>
    \A s \in Symbols, t \in Ticks :
      Approved(account, s, t) =>
        LET after == Applied(account, EntryFill(s, SizedQty(account, t), t))
        IN  ExitReason(after, s, t, EnterScore) = "none"

\* Scale times the fee the entry of a position was charged: the rate on its
\* notional, which is its cost basis, for an entry finds its symbol empty
EntryFee(a, s) == FeeRate * Basis(a, s)

(* A take-profit exit closes a trade with a profit: what it adds to        *)
(* realized_pnl, which is net of the exit's slippage and fee, is more than *)
(* the fee of the entry, which realized_pnl leaves out                     *)
(* (ExitEvaluator.evaluate, execute_exit_paper, _apply_buy, _apply_sell).  *)
TakeProfitPays ==
  account # Absent =>
    \A s \in account.open, t \in Ticks, score \in Scores :
      ExitReason(account, s, t, score) = "take_profit" =>
        LET after == Applied(account, ExitFill(s, account.qty[s], t))
        IN  EntryFee(account, s) < Scale * (after.realized - account.realized)

IInv ==
  /\ TypeOK /\ PositionsWithinLimit /\ KeysAreHoldings
  /\ JournalAheadOfFile /\ MemoryAheadByOneFill

(* The account outlives the process that keeps it: a run changes it in     *)
(* memory, a save commits the whole of it, a restart restores the last     *)
(* commit and nothing else (tracker, PortfolioStateStore, __main__).       *)
Account == INSTANCE DurableValue
             WITH Value <- Accounts, Initial <- NewAccount(Capital),
                  live <- account,
                  saved <- IF saved = Absent THEN Absent ELSE saved.account
ImplementsDurableAccount == Account!Spec
=============================================================================
