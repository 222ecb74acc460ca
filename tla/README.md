# A TLA+ verification of BIT, the paper-trading bot

BIT (`src/src/bit/`) evaluates a few symbols every five minutes: it fetches
candles from Bybit, computes indicators, scores two strategies, decides, sizes
and simulates an order, books it in a paper account, appends a line to a
journal and saves two state files that a dashboard and a container health check
read. This directory holds TLA+ models of that program, TLC configurations that
check them on small instances, and proofs, checked by TLAPS, of what matters
most for every value of the constants. Source paths below are relative to
`src/src/bit/`, documents to `src/docs/`.

## 1. Inventory

| Part | State it keeps | Operations | What is hard, and what makes it correct |
|---|---|---|---|
| `BotRunner` (`runner.py`) | `_state` (RunnerState), `_stop_event`; per cycle `processed`, `cycle_error` | `start`, `stop`, `_validate_startup`, `_run_cycle`, `_save_portfolio`, `_write` | `stop()` and cancellation arrive at any await; state writes fail silently; a run raises in the middle of a cycle. A stop request must hold and end the process, a cycle must end, "successful" must mean every symbol |
| `Pipeline` (`pipeline.py`) | none of its own; changes the account and the journal | `run(symbol)` | five awaits, then a chain of synchronous steps of which the last, the journal, may fail after the account has changed |
| `PaperPortfolioTracker` | `_cash`, `_realized_pnl`, `_positions` | `apply_fill`, `snapshot` | weighted averages round; partial sells; a key must vanish with its quantity. Money is conserved |
| `PortfolioStateStore`, `RunnerStateStore` | `data/portfolio_state.json`, `data/runner_state.json` | `save`/`write`, `load`/`read`, `status` | death between any two steps of a save; a reader in another process. The file is always one whole earlier state |
| `JournalLearningStore` | `data/journal.jsonl` | `record`, `read_all`, `entry_count` | appends are not atomic and not rolled back. No intact entry is lost, duplicated or reordered |
| `DecisionEngine`, `RiskEngine`, `ExitEvaluator`, `ExecutionEngine` | none (configuration) | `decide`, `approve`, `evaluate`, `execute`, `execute_exit_paper` | thresholds, slippage, fee and rounding-down interact |
| strategies, `SignalEngine`, `FeatureEngine` | none | `evaluate`, `compute` | missing data, warm-up lengths, ten weighted conditions, ties |
| `MarketDataService`, `BybitRestClient`, parsers | `_instrument_cache`, an HTTP session | `get_klines`, `get_ticker`, `get_instrument_filter`, `get`, `get_signed` | candles close while requests travel; failures at three layers; newest-first answers |
| `check_credentials` | none | one signed request at start-up | any doubt must count as failure |
| `healthcheck.main` | none; reads the runner's file | exit 0 or 1 | a window of three intervals: no false alarm, no false calm |
| `__main__` | - | `_build_portfolio`, `_build_runner` | restores the account, refuses a corrupt one |
| dashboard (`dashboard/`) | none; reads all three files | `build_snapshot`, probes, routes | a snapshot of three files written at different moments |
| `config.py`, `domain/`, `bybit/auth.py` | - | records, defaults, an HMAC | - |

**How the parts interact.** One process, one event loop. `BotRunner.start`
awaits `Pipeline.run` once per symbol and cycle. `run` awaits five requests of
`MarketDataService` and then calls the services, the tracker and the journal
without suspending (`ExecutionEngine.execute` is a coroutine but awaits
nothing in paper mode). The runner saves the portfolio after a run with a fill
and at the end of each cycle; it writes the runner's state at every
transition. The dashboard and the health check are other processes that share
nothing with the bot but the three files. The container restarts a process
that ends (`restart: unless-stopped`), and the new one starts from the files.

**Which behaviours are hard.** Between two awaits the coroutine is alone, so
there are no data races in memory. What remains is: what `stop()`, Ctrl-C or the
death of the process does at each await and between each pair of disk writes;
what a single failing step leaves behind (`apply_fill` done, `record` failed;
`record` done, `save` failed; half a line appended); three files that are
never written together; integer-step and rate arithmetic at its boundaries;
histories that are too short; answers that are empty. `PROJECT.json` lists each
of these at its line with the properties that would catch it.

## 2. The modules

Modules in the order in which they build on each other:

| Module | Models | State and actions against the code |
|---|---|---|
| `DurableValue` | abstract: what a persisted object promises | `live`, `saved`; `Mutate`, `Commit`, `Crash`, `Recover` |
| `AtomicFile` | both state stores | `path`, `tmp` are the two files, `wpc` the line of `save` (open, write, rename, exception, unlink), `rpc` the line of `read` in another process (stat, which may fail, then text); `Load` is `_build_portfolio` with its three outcomes |
| `Portfolio` | the tracker's arithmetic, as operators | `Bought`, `Sold` are the assignments of `_apply_buy`, `_apply_sell`; `BuyFits`, `SellFits` the conditions under which they do not raise; `Applied` is `apply_fill` |
| `PaperPortfolio` | the tracker under every sequence of fills | `Buy`, `Sell`, `Raise`; `TotalEquity` and `Unrealized` are what `snapshot` makes of marks for some of the symbols |
| `JournalFile` | the journal's bytes, as operators | whole lines and a tail; `Recorded`, `FailedRecords` are the two ways `record` ends, `ReadAll` is `read_all`, `Decodes` whether iterating over the file raises |
| `Journal` | the journal under failing writes, with a reader | `Record`, `RecordFails`, `Read`, `ReadRaises`; `Visible` is what a reader may find, an append that is under way included |
| `Engines` | decision, risk, exit and execution | `Decide`, `Approved`/`SizedQty`, `ExitReason`, `EntryFill`/`ExitFill` |
| `Pipeline` | `Pipeline.run`, with account, journal and portfolio file | `Call`, `FetchFails`, `Exit`/`Enter`/`Pass` (everything between the last await and the journal), `Record`/`RecordFails`, `Save`, `Crash`, `Boot` |
| `Runner` | `BotRunner` and its state file | one action per stretch of `start` between two points where something else can happen; `Stop`, `Cancel`, `Die`, `Build` |
| `Health` | `Runner` with a clock, and two readers of its file: `healthcheck.main` and the dashboard | `Tick` lets time pass at the awaits only; `SleepOver` is the end of `wait_for`; `Healthy` is exit 0, `LoopRunning` the snapshot's `loop_running`, `Scheduler` the readiness item of that name |
| `BotSystem` | the process: `Runner` and `Pipeline` composed | each step of the loop that calls, awaits or ends a run is one step of both |
| `Dashboard` | `DashboardService.build_snapshot` beside `BotSystem` | `dpc` is the file read last, `view` what the snapshot has so far; `ReadJournal`, `ReadStatus`, `LoadPortfolio`, `ReadRunner` are its four reads in order; `DecisionRows`, `FillRows` the rows |
| `Strategies` | features' availability, both strategies, `SignalEngine` | operators; `Known` is "needs at least n closed bars", `StrategyShown` the dashboard's `strategy_selected` |
| `Signals` | one symbol from its first candles on | `BarsClose`, `Cycle` (`Enter` or `Deteriorate`), `PriceExit` |
| `Indicators` | the arithmetic of `FeatureEngine` | `CandleCloses`: bars close one by one; `Ema`, `Rsi`, `Atr`, `High20`, `Low20`, `RelativeVolume` are the helpers, over the bars so far |
| `MarketData` | start-up check and a run's five requests | `Serve` the exchange, `Klines`, `Ticker`, `InstrumentFilter`, `FilterCached`, `Fail` the layers above it, `CheckResults` what `check_credentials` makes of an answer |

The theorems are in modules of their own:

| Module | Proves about |
|---|---|
| `Folding` | folds over finite sets and over sequences, for any operation: the induction the others rest on |
| `Files_proofs` | `AtomicFile` and `Journal` |
| `Books_proofs` | the operators of `Portfolio` and `JournalFile` (lemmas; the two below and `Files_proofs` use them) |
| `PaperPortfolio_proofs` | `PaperPortfolio` |
| `System_proofs` | `Pipeline`, `BotSystem` and `Dashboard`, and the engines within them |
| `Health_proofs` | `Runner` and `Health` |
| `MarketData_proofs` | `MarketData` |
| `Signals_proofs` | `Strategies` and `Signals`, and `Indicators` |

`MC*` modules give the constants of the TLC runs. An operator marked "mutant" in a comment is not part of any
specification: it is a plausible bug in the definition it precedes, and
`PROJECT.json` pairs it with the property that finds it.

**Abstractions that need a word.**

- Money is an integer. `Engines` chooses the unit (1/Scale² of a price tick)
  so that every product of price, slippage and fee is exact, as Python's
  `Decimal` is at these sizes; rates are integers out of `Scale`. The one
  division the account makes, the weighted average, is rounded to the nearest
  unit. Decimal's 28 significant digits are far from being used up and are not
  modelled as a limit.
- Timestamps of `RunnerState` are kept as what is compared of them: whether a
  cycle is under way and whether the last one was successful.
- A journal line is an entry, garbage, or garbage that is not even text; a
  character of the rationale (`≥`, `—`) takes several bytes, so an append may be
  cut inside one.
- In `Pipeline` the market and the signals are free: any tick, any score. In
  `Signals` the prices are free but the conditions are the code's.
- `BotSystem` lets every write of the runner's state file succeed, since
  `Health` has its failures; saves and journal writes do fail there.
- `Credentials` is the set of results with which a passing credential check
  may come back. `Health` has both of them. `Dashboard` has one: which of them
  it was changes one readiness item and nothing the properties there read.
- A dashboard in its own process is the sequence of four reads; only what it
  will show of each is kept. A read of the journal may fall into an append and
  see any part of it. A dashboard given the tracker (`create_app` with a
  portfolio) runs in the bot's event loop and so never between two awaits:
  `Snapshots` adds, in every state in which the coroutine waits, the snapshot
  it would build there.
- Indicator values are quotients of integers and are never rounded: at these
  lengths 28 digits leave no visible error. Periods are constants. A turn of
  `_ema`'s loop is `EmaTurn`, one of `_rsi`'s and `_atr`'s `WilderTurn`.
- The death of the process includes SIGTERM: `docker stop` sends it and the
  program installs no handler. The death of the machine is not included
  (nothing is fsynced).

## 3. What each run checks

| Run | Instance | What it shows |
|---|---|---|
| `AtomicFile` | 2 values, 4 renames | The file is never torn, an age never flatters, and save/load implement `DurableValue`. Two values tell "old" from "new"; a save has five steps, so four renames let a death in one save meet the leftovers of two others and the reader span several |
| `PaperPortfolio` | 2 symbols, quantities 1-2, 3 prices, fee 0 or 1, 3 buys | Cash, keys and books under any sequence of fills, and at every set of marks. Prices 2, 5, 7 make averages with remainder; three buys let one symbol be averaged twice or be re-opened after a full sell |
| `Journal` | 5 `record()` calls | Each may succeed, fail or be cut anywhere, also after its last byte, with a reader between any two of them or in the middle of one; a tear, its victim, and what follows take three |
| `Pipeline` | 3 symbols, 2 slots, 2 price ticks, scores 0 and 3, 4 runs, symmetry over symbols | Entries, stop-losses, take-profits, deteriorations, refusals, failing requests, journal writes and saves, crashes and restarts. Three symbols against two slots make the limit bite; the ticks are a factor 2 apart, so both price exits occur; four runs fill both slots, empty one and refill it |
| `Health` | 3 symbols; interval 2, run 1, check 1, grace 2 ticks | The state file's claims against every interleaving of stop, cancel, death and failed write; that a stop ends the process, and within a cycle; that a cycle ends; and what the health check and the dashboard make of the file. A cycle takes up to 3 ticks, longer than the interval and one tick short of the dashboard's window of 4; the health check's window is 6. All clocks stop one tick beyond it, past which nothing distinguishes two values. The number of cycles, processes and failures is unbounded |
| `Dashboard` | 2 symbols, 3 runs, 2 rows, a snapshot overtaken by at most 1 run | What can be lost, that journal and cycle agree, and which moments a snapshot may mix. Three runs make one whole cycle and the first run of the next, and one fill more than there are rows; a run that ends between the first read and the last is what makes a snapshot mixed |
| `Signals` | feature values on both sides of each threshold; 0, 8, 9, 14, 15, 19, 20, 21 bars | Warm-up, flapping, missing features, ties. The counts are both sides of each minimum history (9, 15, 20, 21); a run is given the klines there are or none; the closes are both sides of each distance |
| `Indicators` | periods 2, 4, 3, window 4; 8 bars; 6 of them in any order | The averages and ranges against what they mean. Six bars give each recurrence two or more steps after its seed and let every window slide twice; five flat bars at different prices make gaps without ranges, three have a range |
| `MarketData` | candle lengths 1, 2, 4; 3 klines per answer; time to 5 | Closed candles only, at most one behind, no price older than them, no data without accepted keys. Five ticks close several candles of the short timeframes and one of the long |
| `JournalAborts` | as `Journal` | violated: finding 1 |
| `FillSide` | as `Dashboard`, 2 runs | violated: finding 2 |
| `SignalsBlind` | as `Signals` | violated: finding 3 |

`CHECK_DEADLOCK FALSE` stands in `Signals` (a symbol whose bars have all
closed and whose run changes nothing), `Indicators` (all bars have closed) and
`MarketData` (a start-up that failed, at the last tick).

**Bounds.** `MaxCommits` renames, `MaxBuys` buys, `MaxEntries` records,
`MaxRuns` runs that get their data, `MaxNow` ticks, `MaxBars` bars,
`MaxOvertake` runs that end while a snapshot is built, and `Ceiling` for the
clocks of `Health`. Each is a guard of the action it bounds and a constant of
the module; the theorems hold for every value of it.

**Fairness.** `FairHealthSpec` assumes weak fairness of the process going on:
either `start()` takes its next step or, while it waits, time passes. Every await
it makes ends by itself, a request by the HTTP client's timeouts, the sleep by
`wait_for`'s, which is what `Patience` bounds. (An httpx timeout bounds each
phase of a request, and each wait for bytes in it, not the whole: an exchange
that trickles an answer for ever is excluded by this assumption.) Nothing is assumed of `Stop`, `Cancel`,
`Die`, `Build` or of the restart policy. `CycleFitsTwoIntervals` and
`CycleFitsTheGrace` state what the default 300-second interval, its 60-second
grace and 10-second timeouts are meant to satisfy: three symbols of five requests
take 150 seconds if each is answered or given up after ten. As the timeout is per
phase, a request can take longer and 150 seconds are not a strict bound;
`LiveBotIsHealthy` is conditional on the two assumptions. They do not hold for every interval an operator may configure: at
30 seconds a slow exchange makes a live bot look dead to both readers.

## 4. What the properties say

*Nothing is torn, nothing is forgotten.* `NeverTorn`, `MtimeNeverFlatters` and
the refinement `ImplementsDurableValue` are about the mechanism;
`ImplementsDurableAccount` says that the account in `Pipeline`, through runs,
failures and restarts, is such a durable value. `JournalAheadOfFile` relates the two files: a fill that
a restart restores has its journal line, unless that very line's write failed
or continued a torn one. `UnsavedIsCurrent` bounds, in the composed process, what
a crash can lose: the fill of the run in progress, and fills whose own record
or save failed. `OnlyANeighbourIsLost`, `ReadsInOrder`, `SeenStaysIntact` bound
what a torn append can do to a reader.

*The money adds up.* `ValueConserved` says of every single fill, and
`BooksBalance` of every reachable account, that cash, positions at cost,
realized profit and fees balance: to half a unit per lot of a position that was
averaged, and exactly in the pipeline, which never adds to a position and always exits
whole. `OpenMeansHeld` and `PositionsWithinLimit` say the risk rules
count what is there. `ApprovedEntryFits`, `FreshEntryHolds` and `TakeProfitPays`
relate engines that never see each other: what risk approves the account can
pay, and is short of the minimum order value by less than one lot; an entry is
not undone by its own slippage; what a take-profit realizes, after the slippage
and the fee of the sell, is more than the fee of the buy, which `realized_pnl`
leaves out. `BooksBalance` of `PaperPortfolio` is stated of a snapshot at any
marks: its equity is the capital, realized and unrealized profit, less the fees
of the buys.

*The runner tells the truth and obeys.* `SuccessMeansAllSymbols`,
`ExitStatusTellsWhy`, `StopHolds`, `StopTerminates`, `StopIsPrompt`, `CyclesFinish`;
`StopIsPrompt` is about time, which `StopTerminates` leaves open: `asked` counts
the ticks since `stop()`, and they never exceed one cycle or one credential
check, so no stop sits out a sleep;
in the composition `CycleIsJournaled`. `LiveBotIsHealthy` and
`VerdictsMeanRecentLoop` are the two sides of watching the file's age: no
false alarm on a slow cycle or a single failed write, no false calm on a file a
dead process left.

*The dashboard shows one history.* Its three files are read one after the other
while the bot goes on, so a snapshot mixes moments. `PortfolioHasItsRows` bounds
what that can do to the fills under the account it shows, `RunnerAgreesWithRows`
what it can do to the cycle it reports; `PersistedIsShown` covers the two looks
it takes at the same file. `SelectionIgnoresOrder` includes the strategy it
works out again from the scores of a journal line.

*Signals rest on data.* `UsedBarsAreClosed`, `PriceIsNoOlderThanBars`,
`RejectedKeysNeverTrade`; `EntryIsWarmedUp`, `MissingNeverHelps`,
`ExitTakesTwoConditions`, `SelectionIgnoresOrder`. `EntryIsWarmedUp` holds each
condition that carried an entry to the closed bars its own rationale asks for
(`BarsNeeded`, the "need ≥N closed bars" of the strategies), so a window that is
one bar short anywhere violates it.

*Indicators mean what the strategies read into them.* `EmaWeighsEveryClose`
gives the moving average in closed form, which the loop does not show;
`TrendOrdersEmas` ties two of them to the trend that `h1_trend` and
`m15_structure` test; `RsiRemembersEveryChange` has its edge cases and its
symmetry; `RangesCoverTheMarket` relates ATR, the 20-bar range and the relative
volume to the way the price went.

## 5. Findings

1. **`read_all` may abort for good** (`services/journal.py:45`, run
   `JournalAborts`). Lines are decoded by the iteration, outside the `try` whose
   comment says malformed lines are skipped rather than aborting. An append cut inside a character
   therefore makes every later `read_all` raise, and with it the dashboard.
2. **The fill of an exit is shown as a buy** (`dashboard/service.py:81`, run
   `FillSide`). `_entry_to_fill_row` sets the side to "BUY" for every journal
   entry with a fill, and says all of them are entry orders; `Pipeline.run` records the
   sells of exits in the same fields.
3. **Missing data sells** (`services/exit_evaluator.py:93`, run `SignalsBlind`).
   An unknown feature is a condition not met, an answer without klines scores
   low, and a low score is an exit; both strategies say of this handling that
   missing data means not to trade (`trend_continuation.py:18`,
   `breakout_confirmation.py:27`). `MissingNeverHelps` is the half of it that holds.

Further places where the code and its texts differ, seen in the models but not
kept as runs:

- There is no drawdown guard: `max_drawdown_pct` is never read by the bot
  (`RiskEngine.approve` has no such rule, and nothing else runs before an entry),
  though `paper-trading-runbook.md:450` tells the operator that the risk engine
  begins to reject entries below it.
- `trend_continuation.py:87` says a bearish hourly cross disqualifies the setup;
  it only withholds 0.30 of the score, and the other four conditions make
  0.70, above the entry threshold. (In `Signals`, entries by
  `trend_continuation` with `h1_trend` unmet are reachable.)
- `risk_engine.py:69` tests the minimum order value before the quantity is
  rounded down, so an approved order may be below it, which
  `domain/market.py:68` says is respected. By less than one lot: that much is
  proved (`EntriesFit`).
- `runner.py:76` says a fatal error leaves the status ERROR; `start` writes it,
  and its `finally` (`runner.py:121`) writes STOPPED over it. `tests/test_runner.py:18`
  agrees with the code, and so does `ExitStatusTellsWhy`.
- `healthcheck.py:57` skips the check of the age if the file's stat failed, so a
  "running" file of any age is healthy to that one call; the dashboard shows the
  loop as not running in that case. `VerdictsMeanRecentLoop` has the stat as its
  condition for the first, not for the second.
- `pipeline.py:12` says the journal is written always; a `record` that fails
  leaves the fill applied without a line. And since the journal is written
  before the portfolio file, the runbook's end-of-run criterion (section 7) that
  the two match can fail after a crash between the two writes.
- `dashboard.md:205` says a crash may lose the last fill; a failed save is
  only logged, and the fills after it are lost with it.
- `runner_state.py:113` documents `credential_check = "failed"`; no write ever
  sets it, only `startup_error` tells. The readiness list, which has a case for
  it, shows "not yet verified" instead.
- `dashboard.md:193` and `:224` say the runner's state is stale after 120 seconds;
  `loop_running` uses the interval and 60 seconds more. `_check_scheduler` looks
  at no age at all: a bot killed while "running" stays READY there, next to a
  `loop_running` that is false.
- `dashboard.md:93`, `:117` and `app.py:13` say a dashboard in its own process shows no
  portfolio; it loads the file. `dashboard.md:182` explains "no file yet" by "no
  fills"; every cycle saves, with or without one. `dashboard.md:167` and `:216`
  say the last mark prices are in the file; `_save_portfolio` passes none.
- `service.py:256` says `build_snapshot` never raises; finding 1 makes it.
- `runner.py:10` gives the lifecycle RUNNING → STOPPING → STOPPED; a `stop()`
  during the credential check is overwritten by RUNNING before the loop ends.
- `client.py:101` raises `KeyError` for an envelope without `result`, and a null
  field raises `TypeError` through the parsers; neither is documented, both are
  caught per symbol by the runner.

## 6. What is proved

All theorems hold for every value of the constants under the named assumptions
of the modules; there are no other assumptions.

- **`Folding`** - the induction over data that the rest needs. The library's
  induction theorems take an operator as a parameter, which the provers cannot
  instantiate; but a *set* of subsets can stand for a predicate, and that is what
  `InductionOnSubsets`, `InductionOnNat` and `InductionOnSeq` (a set of sequences
  that has the empty one and is closed under `Append`) use. `FoldDef` shows that
  the recursion behind the community modules' folds has a solution and only one;
  from it, `FoldType`, `FoldCongruence`, and: an element may be taken out of a sum
  first, whatever `CHOOSE` takes (`FoldAnyOrder`); what a loop's turns preserve
  holds at its end (`FoldInduction`); a loop that appends the images of some of
  the elements keeps their order (`FoldFilters`). The sums over positions and over
  conditions, and the loops of `read_all`, `_collect_fills`,
  `_compute_timeframe_features`, `_ema`, `_rsi` and `_atr`, are instances; where a
  fold starts is an operand, since those averages start from their seed.
- **`Files_proofs`**, state files - `Inductive`, `FileNeverTorn`,
  `MtimeIsConservative`, `Refinement`. `NeverTorn` alone is not inductive: a
  rename copies the temporary file, so one must know what is in it. The
  strengthening `CompleteTmpIsCurrent` says that a complete temporary file is
  the object as it is now; this rests on `save` not being interrupted by the
  object's owner, and is also what makes `Rename` a `Commit`. Every other
  step of the writer maps to a stutter.
- **`Files_proofs`**, journal - `JournalInductive`, `OnlyNeighboursAreLost`,
  `SeenIsKept`, `ReadsAreOrdered`, for any number of entries. `LinesInOrder`
  and `PastIsPast` say where entries can be, `TailIsOfAFailure` that what
  follows the last newline is left of a `record` that did not return: the one
  fact from which it follows that a tear costs only its neighbour.
- **`Books_proofs`** - lemmas about the operators: the error of rounded
  division (`RoundDivError`, `RoundDivExact`), that `Bought` and `Sold` keep an
  account an account, that a fill moves the cost of one position only
  (`CostMovesWithOne`), what `record` does to the lines, and that `read_all`
  returns what is intact, in order.
- **`PaperPortfolio_proofs`** - `TypeCorrect` (cash never goes negative),
  `KeysAreHoldings`, `Conservation`, `BooksAreBalanced`. Type correctness and
  "keys are holdings" are inductive together: a sell needs the key to imply a
  positive quantity, and a natural quantity needs the sell's guard.
  `Conservation` is per step and per symbol, from the rounding lemmas;
  `BooksAreBalanced` adds the steps up, over however many symbols are held, and
  splits what the marks are worth into cost and unrealized profit (`MarksSplit`).
- **`System_proofs`**, the pipeline - `Inductive`, `TypeCorrect`,
  `PositionLimit`, `HoldingsAreKeys`, `JournalFirst`, `EntriesFit`,
  `EntriesHold`, `TakeProfitsPay`, `BooksAreExact`, `Refinement`. The invariant
  `IInv` adds to the checked properties `MemoryAheadByOneFill`: memory is ahead
  of the journal by at most the fill being recorded, and a line that still
  lacks its newline belongs to a failed `record`. Without the first, a save
  could put an unrecorded fill on disk; without the second, completing
  a torn line could destroy the only trace of a recorded one. The three theorems
  about the engines are arithmetic over assumptions that the defaults satisfy
  with a wide margin and that say how far a configuration may go:
  `PositionLeavesRoomForCosts` (position share × (1 + slippage) × (1 + fee) ≤ 1;
  it makes the raising branch of `Enter` dead: `Enter` keeps it, as the code
  does, and `EntriesFit` says it is never taken), `EntryIsBetweenExits` (the
  slipped price is between the stop-loss and the take-profit it implies),
  `ExitScoreBelowEntry`, and `MarginCoversCosts` ((1 - slippage) × (1 - fee) ×
  (1 + take-profit) > 1 + fee: the fees of both sides). The second half of `ApprovedEntryFits`, that an
  order is short of the minimum value by less than a lot, is what rounding down
  after the test leaves of that test (`ShortByLessThanALot`). `BooksAreExact`
  holds to the unit, because every entry finds its symbol empty
  (`RoundDivExact`) and every exit sells all of it.
- **`System_proofs`**, the process - `SystemImplementsPipeline` and
  `SystemImplementsRunner`: whatever the composed process does, its halves are the
  pipeline and the runner, so the theorems about either hold of it; this needs
  `Lockstep`, that both are in the same run. `CrashLosesLittle` is
  `UnsavedIsCurrent`, strengthened by why the fill being recorded is not yet
  lost (`Covered`). `CyclesAreJournaled` rests on `SystemIInv`, whose parts are
  `RunIsOfNextSymbol` (the entry being written is of the symbol whose turn it is),
  `FileIsMemory` and `FileTellsJournal` (the same of the cycle the file tells of).
- **`System_proofs`**, the dashboard - `DashboardOnlyReads` carries all that to
  the process with a dashboard beside it. `PersistedShown` follows from the
  file, once there, staying there. `RowsOfThePortfolio` and `RowsOfTheCycle`
  rest on `FillsAreInOrder` (fills are numbered upwards in the journal, and the
  one being recorded is above all) and `ViewIsOfItsTime`: what a view half read
  has to do with a journal that has gone on growing since (`RowsInductive`).
  They hold for every length of the journal, every number of rows and every
  number of runs that overtake a snapshot.
- **`Health_proofs`**, the runner - `Inductive`, `TypeCorrect`,
  `SuccessIsComplete`, `ExitIsTold`, `StopIsKept`. Two facts make it inductive:
  `CycleCoversSymbols`, that the runs which returned and those to come are
  together the configured list as long as nothing raised, and
  `StartupFitsPlace`, what memory says of the start-up at each place of
  `start()`. That writes may fail costs nothing: the file is memory as it was at
  some write (`WriteIsSafe`).
- **`Health_proofs`**, its clock - `HealthImplementsRunner`: the runner with a
  clock is the runner, so the theorems above hold of it. `NoFalseCalm` rests on
  `RunningFileIsRecent`: a write that leaves "running" in the file leaves the
  process in the loop, so the file is never younger than the process.
  `NoFalseAlarm` rests on `WritesAreClose`: at every place of the loop, how
  long ago the last write was tried, and the one before it, in terms of the
  runs of this cycle so far. It holds for every interval, grace and list of
  symbols with `CycleFitsTwoIntervals` and `CycleFitsTheGrace`. `StopIsAnswered`
  is `StopIsPrompt`, from `StopTakesTheCycle`: how long ago `stop()` was called, in
  terms of where `start()` is by now.
- **`MarketData_proofs`** - `Inductive`, `BarsAreClosed`, `PriceIsFresh`,
  `RejectedKeysStop`, for every bar length and size of an answer.
  `AnswersAreListings` says that an answer on its way is the exchange's list of
  the time it was served, and a view such an answer turned around and flagged;
  what `_compute_timeframe_features` keeps of it is then worked out bar by bar
  from the arithmetic of "closed before" (`t div length`). `PriceComesLast` is
  the order of the requests, and `RejectedKeysFail` that no result of the check
  but "failed" follows a rejection.
- **`Signals_proofs`** - `Inductive`, `EntriesAreWarmedUp`, `ExitsTakeTwo`,
  `LessNeverHelps`, `OrderIsIgnored`, for every set of feature values. A score is
  taken apart into the five weights it may hold (`FiveParts`, with
  `FoldAnyOrder`), and the selection into "the higher score, the trend on a tie"
  (`SelectedIs`). A condition that is met had its features, and they their bars
  (`MetHasBars`). `HeldWasWorthIt` is the strengthening: a position remembers an
  entry with the score to be one. `WarmUpScoresLess` assumes a threshold above
  0.45 and `ThresholdsApart` thresholds more than 0.30 apart. Both are as weak as
  they can be: at 0.45 exactly, TLC finds an entry on nine 15 minute bars
  (`h1_trend` and `m15_price_location`, 30 + 15).
- **`Signals_proofs`**, the indicators - `TrendsOrderEmas`, `EmaIsWeightedMean`,
  `RsiRemembers`, `RangesCover`, for every period, window and history of candles.
  That the history consists of bars (`HistoryIsOfBars`) is the whole invariant of
  the state; what the four say is about loops over that history, and is proved
  by induction on it. `LoopsStart` and `LoopsTurn` say what the loops of `_ema`,
  `_rsi` and `_atr` return at their seed, and that one more value is one more
  turn; every induction uses these two and never the loops themselves.
  - `TrendsOrderEmas`: in place of "above" and "below" the proof has one
    direction `k` (`Goes`, `Leans`), so that rising, falling and still markets
    are one argument. The last value is ahead of the mean of all
    (`LastLeadsMean`); so an average stays behind the last value and, once past
    its seed, gets ahead of the mean (`EmaFollows`). Where the slow average
    starts it *is* the mean, so the fast one is ahead of it, and every later
    turn adds to the lead (`FastLeadsSlow`, from the identity
    `TurnAgainstTurn`). The strengthening is the second fact about the mean:
    without it there is nothing to say about the two where the slow one begins.
  - `EmaIsWeightedMean`: one more value takes the same factor off all other
    weights (`ShareFades`), hence off the weighted sum (`WeightedOfAppend`), as
    the turn does with the average (`TurnWeighs`).
  - `RsiRemembers`: a smoothed average of naturals is 0 only if all of them are
    (`SmoothedRemembers`). Turned upside down, a history swaps its gains and
    losses (`UpsideDown`). `GainsAndLossesAverageAlike` is why `Rsi` may divide
    numerators.
  - `RangesCover`: a smoothed average stays between the bounds of its values
    (`SmoothedBetween`), and the three cases of a true range are one span
    (`TrueRangeIsSpan`).

  Two assumptions beyond positive periods: the fast period is the shorter one,
  and `SmoothingRemembers`, that Wilder's period is above 1 (the code uses 14).
  With 1 each turn replaces the average by the last value, and RSI forgets.

Invariants that are only steps of a proof (`IInv` and its parts,
`KeysAreHoldings`, `SystemIInv`, `FillsAreInOrder`, `ViewIsOfItsTime`), and
`ValueConserved`, which `BooksBalance` adds up, were model-checked before they were
proved and have no run of their own.

**Only model-checked**: the liveness of `Health` (`StopTerminates`,
`CyclesFinish`), since liveness and `ENABLED` are beyond the prover. Every
invariant and every action property that a passing run checks is also a theorem. No
module that is proved about, nor any it uses, declares a `RECURSIVE` operator.

## 7. What is not modelled

- The join of `Indicators` and `Strategies`: the conditions of a strategy see
  any combination of feature values, also such as no series of closes has. That
  is more than the program can do, so what holds there holds of it.
  `recent_return_pct` and `spread_pct` feed no condition.
- Of the dashboard: texts and labels, the network probes (`dashboard/health.py`:
  one request each, kept nowhere), the routes of the web application, and the
  readiness items other than `portfolio_persistence` and `scheduler`: each tests a
  configuration value, the credential status or whether the journal has entries.
- `_main`'s `KeyboardInterrupt` handler: since `asyncio.run` cancels the task on
  the first Ctrl-C, the coroutine sees `CancelledError` instead (`Cancel`); the
  handler is reached only by a second one, at which the process ends.
- `stop()` after `start()` has returned: nothing in the program calls it there.
  (Before `start()`, at any await of it, and repeatedly: `Stop`.)
- Live trading (`NotImplementedError`), the stubs of `MarketDataService`, the
  HMAC of `bybit/auth.py`.
- A configuration that changes between two processes: one behaviour has one
  configuration. A lower `max_open_positions` after a restart leaves the old
  positions open, which is what the code does too.
- A minimum order quantity of 0, for which `approve` could size an order of no
  lots: the exchange's filters are positive (`FilterIsPositive`).

## 8. Plan

Done in this order: the durable file, the account, the journal, the pipeline
with its proofs, the runner, the health check, the composition, the signals,
the market data, the dashboard, the indicators; then the proofs of the runner,
its clock and the composition, of the sums and the loops (`Folding`), the
books, the journal, the dashboard's rows, the market data, the signals and the
indicators. That the composed process recovers its account needs no proof of its
own: `SystemImplementsPipeline` and `Refinement` together say so.

Of modelling, joining `Indicators` to `Strategies` in place of the free feature
values would be next. It needs 21 bars of three timeframes, more than TLC can
enumerate, so it would have to be by chosen series; the theorems about the
indicators, which hold for any number of bars, are what it could start from.
