----------------------------- MODULE BotSystem -----------------------------
(***************************************************************************)
(* The whole process: BotRunner (Runner) driving Pipeline.run (Pipeline)   *)
(* over the same account, journal and files.  A step of the run loop that  *)
(* calls, awaits or ends a pipeline run is one step of both modules; every *)
(* other step belongs to one of them and leaves the other's state alone.   *)
(***************************************************************************)
EXTENDS Pipeline, SequencesExt

CONSTANTS SymbolSeq,    \* config.symbols in its order
          Credentials   \* of Runner

ASSUME SequenceOfSymbols ==
  SymbolSeq \in Seq(Symbols) /\ Symbols = Range(SymbolSeq)

ASSUME CredentialsAreChecks == Credentials \subseteq {"ok", "skipped"}

VARIABLES pc, stopEvent, mem, file, todo, processed, cycleError,
          slipped   \* history: unsaved fills whose record() or save() failed

runner == <<pc, stopEvent, mem, file, todo, processed, cycleError>>

allVars == <<vars, runner, slipped>>

R == INSTANCE Runner WITH Symbols <- SymbolSeq, Nothing <- Absent

ASSUME AbsentIsNoState == Absent \notin R!RunnerStates

SystemInit == Init /\ R!Init /\ slipped = {}

\* runner_state.json is only written here; Runner has its write failures
Written == TRUE

-----------------------------------------------------------------------------
\* _build_portfolio and _build_runner
Build == R!Build /\ Boot /\ UNCHANGED slipped

Die == R!Die /\ Crash /\ slipped' = {}

\* steps of the run loop outside a pipeline run
RunnerAlone ==
  /\ \/ R!StartWrites(Written) \/ R!LoopRaises(Written)
     \/ R!ConfigAccepted \/ R!LoopEnds \/ R!Wakes
     \/ /\ R!Stop(Written)
        /\ pc = "pipeline" => ppc = "fetching"
     \/ /\ R!Cancel
        /\ pc # "pipeline"
  /\ UNCHANGED <<vars, slipped>>

CallRun == R!CallPipeline /\ Call(Head(todo)) /\ UNCHANGED slipped

\* a failed request, or a cancellation, which the per-symbol handler does
\* not catch
RunGetsNoData ==
  /\ pc = "pipeline"
  /\ R!PipelineRaises \/ R!Cancel
  /\ FetchFails
  /\ UNCHANGED slipped

RunEvaluates ==
  /\ pc = "pipeline"
  /\ \E t \in Ticks, score \in Scores : Evaluate(t, score)
  /\ IF ppc' = "recording" THEN UNCHANGED runner ELSE R!PipelineRaises
  /\ UNCHANGED slipped

\* the runner saves if the entry has a fill price and a fill quantity
RunReturns ==
  /\ Record /\ R!PipelineReturns(entry.fill # 0)
  /\ UNCHANGED slipped

\* mutant: a failed record() is logged and forgotten
RecordErrorSwallowed ==
  /\ RecordFails /\ R!PipelineReturns(entry.fill # 0)
  /\ slipped' = slipped \cup ({entry.fill} \ {0})

RunCannotRecord ==
  /\ RecordFails /\ R!PipelineRaises
  /\ slipped' = slipped \cup ({entry.fill} \ {0})

\* _save_portfolio: after a fill, and at the end of every cycle
SaveAttempt ==
  \/ Save /\ slipped' = {}
  \/ /\ UNCHANGED vars
     /\ slipped' = slipped \cup
          IF pc = "saveFill" THEN {runs} ELSE {}

\* mutant: fills wait for the save at the end of the cycle
FillWaits == R!FillSaved /\ UNCHANGED <<vars, slipped>>

FillSaved == R!FillSaved /\ SaveAttempt

CycleSaved == R!CycleSaved /\ SaveAttempt

SystemNext ==
  \/ Build \/ Die \/ RunnerAlone
  \/ CallRun \/ RunGetsNoData \/ RunEvaluates \/ RunReturns \/ RunCannotRecord
  \/ FillSaved \/ CycleSaved

SystemSpec == SystemInit /\ [][SystemNext]_allVars

-----------------------------------------------------------------------------
SavedFills == IF saved = Absent THEN {} ELSE saved.audit.fills

Unsaved == audit.fills \ SavedFills

(* What a crash can lose: only the fill of the very run that is being      *)
(* recorded or saved, and fills whose own record() or save() failed since  *)
(* the last save that worked; in particular a process that leaves start(), *)
(* however it was stopped or cancelled, has lost no other                  *)
(* (Pipeline.run, BotRunner._run_cycle and _save_portfolio).               *)
UnsavedIsCurrent ==
  \A f \in Unsaved \ slipped :
    f = runs /\ (ppc = "recording" \/ pc = "saveFill")

\* the last lines of j are those of these symbols, with nothing else in between;
\* at most the first continued a line that an earlier failure tore
EndsWith(j, symbols) ==
  LET n == Len(j.lines) - Len(symbols)
  IN  /\ n >= 0 /\ j.tail = Clean
      /\ \A i \in DOMAIN symbols :
           LET line == j.lines[n + i]
           IN  \/ line \notin {Garbage, Mangled} /\ line.symbol = symbols[i]
               \/ line \in {Garbage, Mangled} /\ i = 1

(* As long as a cycle is without error, every run of it that returned has  *)
(* its journal line, in the order of config.symbols, with nothing else in  *)
(* between; at most the first of them continued a line an earlier failure  *)
(* tore (_run_cycle's processed list against record).                      *)
CycleIsJournaled ==
  ~cycleError /\ processed # << >> => EndsWith(journal, processed)

(* Runner and pipeline are in the same run or in none.                     *)
Lockstep ==
  /\ pc = "down" <=> ppc = "down"
  /\ pc = "pipeline" <=> ppc \in {"fetching", "recording"}
  /\ pc = "pipeline" => todo # << >>
  /\ todo \in Seq(Symbols)

(* What makes it inductive: run() is called for the next symbol of the     *)
(* cycle and writes its entry for that symbol (_run_cycle, Pipeline.run).  *)
RunIsOfNextSymbol ==
  /\ pc = "pipeline" => sym = Head(todo)
  /\ ppc = "recording" => entry.symbol = sym

(* As long as the state file calls the last cycle successful, the journal  *)
(* ends with the lines of the symbols it names: the next run comes only    *)
(* after the file says that a cycle is under way (_run_cycle's writes).    *)
FileTellsJournal ==
  file # Absent /\ file.lastOk /\ ~file.inCycle /\ file.processed # << >> =>
    EndsWith(journal, file.processed)

\* start() writes its memory down before it awaits anything, and every write
\* of this model succeeds
FileIsMemory ==
  /\ pc # "down" => mem \in R!RunnerStates
  /\ pc = "built" => ~mem.lastOk
  /\ pc \notin {"down", "built"} => file = mem
  /\ pc \in R!InCycle => mem.inCycle
  /\ file \in R!RunnerStates \cup {Absent}

SystemIInv ==
  /\ Lockstep /\ processed \in Seq(Symbols) /\ cycleError \in BOOLEAN
  /\ RunIsOfNextSymbol /\ CycleIsJournaled
  /\ FileIsMemory /\ FileTellsJournal
=============================================================================
