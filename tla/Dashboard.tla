----------------------------- MODULE Dashboard -----------------------------
(***************************************************************************)
(* DashboardService.build_snapshot (dashboard/service.py) beside the bot.  *)
(* In a process of its own it reads the journal, then asks for the status  *)
(* of the portfolio file, loads it, and reads the runner's state file,     *)
(* while the bot goes on writing all three; it may read the journal in the *)
(* middle of an append.  Given the tracker itself (create_app with a       *)
(* portfolio) it runs in the bot's event loop, where nothing moves between *)
(* its reads.  It changes nothing.  A snapshot is stated as it would be if *)
(* its last read took place now.                                           *)
(***************************************************************************)
EXTENDS BotSystem

CONSTANTS MaxRecent,    \* rows shown, _MAX_RECENT
          MaxOvertake   \* bound of the model: runs that end while a snapshot
                        \* is built

ASSUME SomeRows == MaxRecent \in Nat \ {0}
ASSUME OvertakeIsNat == MaxOvertake \in Nat
ASSUME AbsentIsNoSetOfFills == \A fills \in SUBSET RunIds : fills # Absent

VARIABLES dpc,          \* the file read last
          view          \* what was read so far, as far as it will be shown

seen == <<dpc, view>>

-----------------------------------------------------------------------------
(* The rows *)

Newest(rows) ==
  Reverse(SubSeq(rows, IF Len(rows) > MaxRecent THEN Len(rows) - MaxRecent + 1
                       ELSE 1, Len(rows)))

DecisionRows(entries) == Newest(entries)

\* the side is a constant of _entry_to_fill_row
FillRow(e) == [fill |-> e.fill, side |-> "Buy", state |-> e.state]

\* one turn of _collect_fills' loop
AddFillRow(rows, e) == IF e.fill = 0 THEN rows ELSE Append(rows, FillRow(e))

CollectFills(entries) == FoldLeft(AddFillRow, << >>, entries)

\* mutant: the fills of the recent entries only
FillRowsOfRecent(entries) == Newest(CollectFills(Reverse(Newest(entries))))

FillRows(entries) == Newest(CollectFills(entries))

-----------------------------------------------------------------------------
(* The reads *)

\* asOf is the last run that can have an entry; portfolio is the set of fills
\* behind the account in the file
NoView == [decisions |-> << >>, fills |-> << >>, asOf |-> 0,
           status |-> "none", portfolio |-> Absent]

DashboardInit == SystemInit /\ dpc = "none" /\ view = NoView

\* the journal as another process may find it, an append half done included
JournalSeen ==
  {journal} \cup IF ppc = "recording" THEN FailedRecords(journal, entry) ELSE {}

\* runs that have ended, as far as their entries go
RunsRecorded == IF ppc = "recording" THEN runs - 1 ELSE runs

\* read_all; of a file that is no text it raises, and there is no snapshot
ReadJournal ==
  /\ dpc = "none" /\ dpc' = "journal"
  /\ \E f \in JournalSeen :
       /\ Decodes(f)
       /\ view' = [view EXCEPT !.decisions = DecisionRows(ReadAll(f)),
                               !.fills = FillRows(ReadAll(f)),
                               !.asOf = RunsRecorded]

\* PortfolioStateStore.status; AtomicFile excludes a torn file
ReadStatus ==
  /\ dpc = "journal" /\ dpc' = "status"
  /\ view' = [view EXCEPT !.status = IF saved = Absent THEN "not_found" ELSE "ok"]

\* PortfolioStateStore.load
LoadPortfolio ==
  /\ dpc = "status" /\ dpc' = "loaded"
  /\ view' = [view EXCEPT !.portfolio =
                            IF saved = Absent THEN Absent ELSE saved.audit.fills]

\* RunnerStateStore.read, and the snapshot is complete
ReadRunner ==
  /\ dpc = "loaded" /\ dpc' = "none"
  /\ view' = NoView

Read == ReadJournal \/ ReadStatus \/ LoadPortfolio \/ ReadRunner

InTime == dpc # "none" => runs' <= view.asOf + MaxOvertake

DashboardNext ==
  \/ SystemNext /\ InTime /\ UNCHANGED seen
  \/ Read /\ UNCHANGED allVars

DashboardSpec == DashboardInit /\ [][DashboardNext]_<<allVars, seen>>

-----------------------------------------------------------------------------
\* ReadinessEvaluator._check_portfolio_persistence
PersistenceReady == view.status = "ok"

\* what a dashboard on its own shows, and what one inside the bot, which gets
\* its turn while start() awaits
Snapshots ==
  (IF dpc = "loaded" THEN {view} ELSE {})
  \cup
  (IF pc \in R!Awaits /\ Decodes(journal)
   THEN {[decisions |-> DecisionRows(ReadAll(journal)),
          fills |-> FillRows(ReadAll(journal)), asOf |-> RunsRecorded,
          status |-> IF saved = Absent THEN "not_found" ELSE "ok",
          portfolio |-> audit.fills]}
   ELSE {})

-----------------------------------------------------------------------------
\* f has its row, or newer rows pushed it out
HasRow(rows, f) ==
  \/ \E i \in DOMAIN rows : rows[i].fill = f
  \/ Len(rows) = MaxRecent /\ rows[MaxRecent].fill > f

Descending(rows) == \A i \in 2..Len(rows) : rows[i].fill < rows[i - 1].fill

(* Every fill the portfolio section rests on has its row, unless it        *)
(* happened after the journal was read, or newer rows pushed it out, or    *)
(* the write of its entry failed; and the rows are in order, newest first, *)
(* across failures and restarts (build_snapshot's reads, _collect_fills,   *)
(* the runner's save after record).                                        *)
PortfolioHasItsRows ==
  \A shot \in Snapshots :
    /\ Descending(shot.fills)
    /\ shot.portfolio # Absent =>
         \A f \in shot.portfolio \ dropped :
           f > shot.asOf \/ HasRow(shot.fills, f)

(* When the readiness list says that the portfolio is persisted, its       *)
(* section is there: between the two looks at the file, the bot may save   *)
(* but never takes the file away (status and load in build_snapshot, save).*)
PersistedIsShown ==
  dpc = "loaded" /\ PersistenceReady => view.portfolio # Absent

(* If the runner's section tells of a successful cycle and no run ended    *)
(* since the journal was read, the newest decisions are those of the       *)
(* cycle's symbols, last symbol first; only the first of them may be       *)
(* missing, on a line torn earlier (processed_symbols and                  *)
(* last_successful_cycle against recent_decisions).                        *)
RunnerAgreesWithRows ==
  \A shot \in Snapshots :
    LET rows == shot.decisions
        cycle == Reverse(file.processed)
    IN  file # Absent /\ file.lastOk /\ ~file.inCycle /\ shot.asOf = runs =>
          \A i \in DOMAIN cycle :
            \/ i > MaxRecent
            \/ i = Len(cycle) /\ Garbage \in Range(journal.lines)
            \/ i <= Len(rows) /\ rows[i].symbol = cycle[i]

\* the entries of j that report a fill name runs in ascending order, none after n
FillsGrow(j, n) ==
  /\ \A x \in Intact(j) : x.fill <= n
  /\ \A i, k \in DOMAIN j.lines :
       i < k /\ {j.lines[i], j.lines[k]} \subseteq Entries /\ j.lines[k].fill # 0
         => j.lines[i].fill < j.lines[k].fill
  /\ j.tail \in Entries /\ j.tail.fill # 0 =>
       \A i \in DOMAIN j.lines :
         j.lines[i] \in Entries => j.lines[i].fill < j.tail.fill

(* What puts the rows in order: run() numbers its fills upwards, and       *)
(* records each before the next begins (Pipeline.run).                     *)
FillsAreInOrder ==
  /\ FillsGrow(journal, RunsRecorded)
  /\ ppc = "recording" => runs > 0 /\ entry.fill \in {0, runs}

(* What a view half read still has to do with the journal, which goes on   *)
(* growing: no run up to asOf adds to it any more (build_snapshot's order  *)
(* of reads).                                                              *)
ViewIsOfItsTime ==
  dpc # "none" =>
    /\ view.asOf \in Nat /\ view.asOf <= RunsRecorded
    /\ view.asOf = runs =>
         Decodes(journal) /\ view.decisions = DecisionRows(ReadAll(journal))
    /\ Descending(view.fills)
    /\ \A f \in FillsIn(journal) \ dropped : f > view.asOf \/ HasRow(view.fills, f)
    /\ dpc = "loaded" /\ view.portfolio # Absent =>
         view.portfolio \ dropped \subseteq FillsIn(journal)

(* A fill row names the side of the order that was filled: "all pipeline   *)
(* fills are BUY entries" (dashboard/models.py, FillRow.side).             *)
FillRowsNameTheSide ==
  \A shot \in Snapshots : \A i \in DOMAIN shot.fills :
    LET row == shot.fills[i]
    IN  row.side = "Sell" <=> row.state = "EXIT"
=============================================================================
