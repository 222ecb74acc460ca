------------------------------- MODULE Runner -------------------------------
(***************************************************************************)
(* BotRunner (runner.py): the life of one process from construction to     *)
(* exit, the RunnerState it keeps in memory and writes to                  *)
(* data/runner_state.json, and the restart policy that starts the next     *)
(* process.  Between two awaits the coroutine start() runs alone; before   *)
(* it begins and at an await (the credential check, a pipeline run, the    *)
(* sleep between cycles) another coroutine may call stop(), and may do so  *)
(* again; at an await SIGINT may cancel the task.  The process may die     *)
(* anywhere.  A failed write of the state file is logged and ignored:      *)
(* every writing action takes ok, whether its write succeeds.              *)
(*                                                                         *)
(* What a pipeline run does is left open here: it returns, with or without *)
(* a fill, or raises.  BotSystem supplies the pipeline, Health the time    *)
(* that awaits take, and with it the fairness of start().                  *)
(***************************************************************************)
EXTENDS Sequences, SequencesExt

CONSTANTS Symbols,      \* config.symbols, as a sequence
          Credentials,  \* what a check that passes reports: ok with keys,
                        \* skipped without
          Nothing       \* no state file, no state in memory

ASSUME SymbolsIsSeq == Symbols \in Seq(Range(Symbols))
ASSUME CredentialsAreResults == Credentials \subseteq {"ok", "skipped"}

VARIABLES
  pc,           \* where start() is
  stopEvent,    \* self._stop_event
  mem,          \* self._state
  file,         \* the content of data/runner_state.json
  todo,         \* symbols of this cycle still to run
  processed,    \* symbols of this cycle whose run returned
  cycleError    \* a run of this cycle raised

vars == <<pc, stopEvent, mem, file, todo, processed, cycleError>>

Statuses == {"starting", "running", "stopping", "stopped", "error"}

\* timestamps are kept as what is compared of them: inCycle is
\* last_cycle_start > last_cycle_end, lastOk is
\* last_successful_cycle = last_cycle_end
RunnerStates ==
  [status : Statuses, validated : BOOLEAN,
   startupError : {"none", "config", "credentials"},
   credentialCheck : {"none", "ok", "skipped"}, inCycle : BOOLEAN,
   lastOk : BOOLEAN, lastError : BOOLEAN, processed : Seq(Range(Symbols))]

ASSUME NothingIsNoState == Nothing \notin RunnerStates

NewState ==
  [status |-> "starting", validated |-> FALSE, startupError |-> "none",
   credentialCheck |-> "none", inCycle |-> FALSE,
   lastOk |-> FALSE, lastError |-> FALSE, processed |-> << >>]

Awaits == {"validating", "pipeline", "sleeping"}
InLoop == {"loop", "dispatch", "pipeline", "saveFill", "saveEnd", "sleeping"}

TypeOK ==
  /\ pc \in {"down", "built", "configured", "validating", "finally", "exited"}
              \cup InLoop
  /\ stopEvent \in BOOLEAN /\ cycleError \in BOOLEAN
  /\ mem \in RunnerStates \cup {Nothing}
  /\ file \in RunnerStates \cup {Nothing}
  /\ todo \in Seq(Range(Symbols)) /\ processed \in Seq(Range(Symbols))
  /\ mem = Nothing <=> pc = "down"

Init ==
  /\ pc = "down" /\ mem = Nothing /\ file = Nothing
  /\ stopEvent = FALSE /\ cycleError = FALSE
  /\ todo = << >> /\ processed = << >>

-----------------------------------------------------------------------------
\* _write: memory always follows, the file only if the write succeeds
Write(state, ok) ==
  /\ mem' = state
  /\ file' = IF ok THEN state ELSE file

Go(from, to) == pc = from /\ pc' = to

-----------------------------------------------------------------------------
(* Process start, death and exit *)

\* __main__._build_runner in a new process
Build ==
  /\ Go("down", "built")
  /\ mem' = NewState /\ stopEvent' = FALSE
  /\ UNCHANGED <<file, todo, processed, cycleError>>

Die ==
  /\ pc # "down" /\ pc' = "down" /\ mem' = Nothing
  /\ stopEvent' = FALSE /\ cycleError' = FALSE
  /\ todo' = << >> /\ processed' = << >>
  /\ UNCHANGED file

-----------------------------------------------------------------------------
(* start() up to the loop *)

Start(ok) ==
  /\ Go("built", "configured")
  /\ Write([mem EXCEPT !.status = "starting"], ok)
  /\ UNCHANGED <<stopEvent, todo, processed, cycleError>>

Rejected(why, ok) ==
  Write([mem EXCEPT !.status = "error", !.startupError = why,
                    !.validated = FALSE], ok)

\* live trading, or no symbols: raised before anything is awaited
ConfigRejected(ok) ==
  /\ Go("configured", "exited")
  /\ Rejected("config", ok)
  /\ UNCHANGED <<stopEvent, todo, processed, cycleError>>

ConfigAccepted ==
  /\ Symbols # << >> /\ Go("configured", "validating")
  /\ UNCHANGED <<stopEvent, mem, file, todo, processed, cycleError>>

CredentialsRejected(ok) ==
  /\ Go("validating", "exited")
  /\ Rejected("credentials", ok)
  /\ UNCHANGED <<stopEvent, todo, processed, cycleError>>

ValidationPasses(ok) ==
  /\ Go("validating", "loop")
  /\ \E cred \in Credentials :
       Write([mem EXCEPT !.status = "running", !.validated = TRUE,
                         !.credentialCheck = cred], ok)
  /\ UNCHANGED <<stopEvent, todo, processed, cycleError>>

-----------------------------------------------------------------------------
(* The loop *)

\* mutant: the loop does not test the event
CycleBeginsAnyway(ok) ==
  /\ Go("loop", "dispatch")
  /\ Write([mem EXCEPT !.status = "running", !.inCycle = TRUE,
                       !.processed = << >>], ok)
  /\ todo' = Symbols /\ processed' = << >> /\ cycleError' = FALSE
  /\ UNCHANGED stopEvent

\* while not stop_event: the first write of _run_cycle
CycleBegins(ok) ==
  /\ ~stopEvent /\ Go("loop", "dispatch")
  /\ Write([mem EXCEPT !.status = "running", !.inCycle = TRUE,
                       !.processed = << >>], ok)
  /\ todo' = Symbols /\ processed' = << >> /\ cycleError' = FALSE
  /\ UNCHANGED stopEvent

\* mutant: no finally clause
LoopEndsAtOnce ==
  /\ stopEvent /\ Go("loop", "exited")
  /\ UNCHANGED <<stopEvent, mem, file, todo, processed, cycleError>>

LoopEnds ==
  /\ stopEvent /\ Go("loop", "finally")
  /\ UNCHANGED <<stopEvent, mem, file, todo, processed, cycleError>>

CallPipeline ==
  /\ todo # << >> /\ Go("dispatch", "pipeline")
  /\ UNCHANGED <<stopEvent, mem, file, todo, processed, cycleError>>

\* a fill is saved before the next symbol
PipelineReturns(filled) ==
  /\ Go("pipeline", IF filled THEN "saveFill" ELSE "dispatch")
  /\ processed' = Append(processed, Head(todo)) /\ todo' = Tail(todo)
  /\ UNCHANGED <<stopEvent, mem, file, cycleError>>

\* mutants of PipelineRaises: the error is not kept; the symbol is retried
PipelineRaisesUnseen ==
  /\ Go("pipeline", "dispatch")
  /\ todo' = Tail(todo)
  /\ UNCHANGED <<stopEvent, mem, file, processed, cycleError>>

PipelineRetries ==
  /\ Go("pipeline", "dispatch")
  /\ cycleError' = TRUE
  /\ UNCHANGED <<stopEvent, mem, file, todo, processed>>

PipelineRaises ==
  /\ Go("pipeline", "dispatch")
  /\ todo' = Tail(todo) /\ cycleError' = TRUE
  /\ UNCHANGED <<stopEvent, mem, file, processed>>

\* _save_portfolio never raises
FillSaved ==
  /\ Go("saveFill", "dispatch")
  /\ UNCHANGED <<stopEvent, mem, file, todo, processed, cycleError>>

\* the last write of _run_cycle; last_error is never cleared
CycleEnds(ok) ==
  /\ todo = << >> /\ Go("dispatch", "saveEnd")
  /\ Write([mem EXCEPT !.inCycle = FALSE, !.processed = processed,
                       !.lastOk = ~cycleError,
                       !.lastError = @ \/ cycleError], ok)
  /\ UNCHANGED <<stopEvent, todo, processed, cycleError>>

CycleSaved ==
  /\ Go("saveEnd", "sleeping")
  /\ UNCHANGED <<stopEvent, mem, file, todo, processed, cycleError>>

\* wait_for(stop_event.wait(), interval): an answer or the timeout
Wakes ==
  /\ Go("sleeping", "loop")
  /\ UNCHANGED <<stopEvent, mem, file, todo, processed, cycleError>>

-----------------------------------------------------------------------------
(* Ways out *)

\* an exception that neither the per-symbol handler nor _save_portfolio
\* catches: ERROR, then the finally clause
LoopRaises(ok) ==
  /\ pc \in {"loop", "dispatch", "sleeping"}
  /\ pc = "loop" => ~stopEvent
  /\ pc' = "finally"
  /\ Write([mem EXCEPT !.status = "error", !.lastError = TRUE], ok)
  /\ UNCHANGED <<stopEvent, todo, processed, cycleError>>

Finally(ok) ==
  /\ Go("finally", "exited")
  /\ Write([mem EXCEPT !.status = "stopped"], ok)
  /\ UNCHANGED <<stopEvent, todo, processed, cycleError>>

\* SIGINT cancels the task at its await; CancelledError is no Exception, so
\* only the finally clause of the loop sees it
Cancel ==
  /\ pc \in Awaits
  /\ pc' = IF pc = "validating" THEN "exited" ELSE "finally"
  /\ UNCHANGED <<stopEvent, mem, file, todo, processed, cycleError>>

\* stop(), called by another coroutine before start() or while it awaits
Stop(ok) ==
  /\ pc \in Awaits \cup {"built"}
  /\ Write([mem EXCEPT !.status = "stopping"], ok)
  /\ stopEvent' = TRUE
  /\ UNCHANGED <<pc, todo, processed, cycleError>>

-----------------------------------------------------------------------------
StartWrites(ok) ==
  \/ Start(ok) \/ ConfigRejected(ok)
  \/ CredentialsRejected(ok) \/ ValidationPasses(ok)
  \/ CycleBegins(ok) \/ CycleEnds(ok) \/ Finally(ok)

\* steps of start() that write nothing
StartIsQuiet ==
  \/ ConfigAccepted \/ LoopEnds \/ CallPipeline
  \/ \E filled \in BOOLEAN : PipelineReturns(filled)
  \/ PipelineRaises \/ FillSaved \/ CycleSaved \/ Wakes

Coroutine == StartIsQuiet \/ \E ok \in BOOLEAN : StartWrites(ok)

Next ==
  \/ Coroutine
  \/ \E ok \in BOOLEAN : LoopRaises(ok) \/ Stop(ok)
  \/ Build \/ Die \/ Cancel

Spec == Init /\ [][Next]_vars

-----------------------------------------------------------------------------
(* "The last cycle was successful" means that a run of every symbol        *)
(* returned in it, in memory and in the file, however many writes of the   *)
(* file failed in between (_run_cycle's last_successful_cycle and          *)
(* processed_symbols).                                                     *)
SuccessMeansAllSymbols ==
  \A state \in {mem, file} \ {Nothing} :
    state.lastOk /\ ~state.inCycle => state.processed = Symbols

(* Once start() is over, the status says how: stopped if and only if the   *)
(* loop was ever entered, error if and only if the start-up was refused;   *)
(* what remains is a cancelled credential check (start's except and        *)
(* finally clauses).                                                       *)
ExitStatusTellsWhy ==
  pc = "exited" =>
    /\ mem.status = "stopped" <=> mem.validated
    /\ mem.status = "error" <=> mem.startupError # "none"

InCycle == {"dispatch", "pipeline", "saveFill"}

BeforeLoop == {"built", "configured", "validating"}

(* A cycle without error has split its symbols into those whose run        *)
(* returned and those still to run (the for loop of _run_cycle).           *)
CycleCoversSymbols ==
  /\ pc \in InCycle /\ ~cycleError => processed \o todo = Symbols
  /\ pc = "pipeline" => todo # << >>

(* What memory says of the start-up fits where start() is                  *)
(* (_validate_startup and the writes around it).                           *)
StartupFitsPlace ==
  /\ pc \in BeforeLoop =>
       /\ ~mem.validated /\ mem.startupError = "none"
       /\ mem.status \in {"starting", "stopping"}
  /\ pc \in InLoop \cup {"finally"} =>
       mem.validated /\ mem.startupError = "none"
  /\ pc \in InLoop /\ ~stopEvent => mem.status = "running"

(* The inductive invariant of Health_proofs.                               *)
IInv ==
  /\ TypeOK /\ CycleCoversSymbols /\ StartupFitsPlace
  /\ SuccessMeansAllSymbols /\ ExitStatusTellsWhy

(* stop() takes effect after the current cycle and is never undone: once   *)
(* it was called, no cycle begins in this process, and a loop that is      *)
(* stopping never calls itself running again (stop, the while test, the    *)
(* status written at each cycle start).                                    *)
StopHolds ==
  [][stopEvent /\ stopEvent' =>
       /\ mem'.inCycle => mem.inCycle
       /\ pc \in InLoop /\ mem.status = "stopping" => mem'.status # "running"]_vars

(* A stop request ends the process, by way of the finally clause: neither  *)
(* a pipeline run nor the sleep can outlast it (stop, wait_for on the      *)
(* event).                                                                 *)
StopTerminates == stopEvent ~> pc \in {"exited", "down"}

(* Every cycle that begins is finished, whatever its runs raise, unless    *)
(* the process is ended from outside (_run_cycle's per-symbol except).     *)
CyclesFinish ==
  pc = "dispatch" ~> pc \in {"sleeping", "finally", "exited", "down"}

=============================================================================
