--------------------------- MODULE Health_proofs ---------------------------
(***************************************************************************)
(* BotRunner, then BotRunner with a clock, for any list of symbols and any *)
(* number of cycles, processes and failed writes.  What the state file     *)
(* calls a successful cycle was one, the status after start() tells how it *)
(* ended, and a stop request holds.  The clocked runner is the runner; and *)
(* for any interval, patience and grace neither reader of its state file   *)
(* takes a process that left the loop for one that is inside it.           *)
(***************************************************************************)
EXTENDS Health, SequenceTheorems, TLAPS

-----------------------------------------------------------------------------
(* The runner *)

(* Writing a state that tells the truth about its last cycle leaves        *)
(* memory and file such states, whether the write succeeds or not.         *)
LEMMA WriteIsSafe ==
  ASSUME NEW state \in RunnerStates, NEW ok \in BOOLEAN, Write(state, ok),
         state.lastOk /\ ~state.inCycle => state.processed = Symbols,
         file \in RunnerStates \cup {Nothing}, SuccessMeansAllSymbols
  PROVE  /\ mem' = state /\ mem' # Nothing
         /\ file' \in RunnerStates \cup {Nothing}
         /\ SuccessMeansAllSymbols'
BY NothingIsNoState DEF Write, SuccessMeansAllSymbols

(* The symbol that runs next moves from the end of one list to the other.  *)
LEMMA NextSymbolMoves ==
  ASSUME NEW done \in Seq(Range(Symbols)), NEW rest \in Seq(Range(Symbols)),
         rest # << >>
  PROVE  /\ Head(rest) \in Range(Symbols)
         /\ Tail(rest) \in Seq(Range(Symbols))
         /\ Append(done, Head(rest)) \in Seq(Range(Symbols))
         /\ Append(done, Head(rest)) \o Tail(rest) = done \o rest
<1> DEFINE S == Range(Symbols)
<1>1. Head(rest) \in S /\ Tail(rest) \in Seq(S)
  BY HeadTailProperties
<1>2. Append(done, Head(rest)) = done \o <<Head(rest)>>
  BY <1>1, AppendIsConcat
<1>3. rest = <<Head(rest)>> \o Tail(rest)
  BY <1>1
<1>4. <<Head(rest)>> \in Seq(S)
  BY <1>1
<1> HIDE DEF S
<1>5. (done \o <<Head(rest)>>) \o Tail(rest) = done \o (<<Head(rest)>> \o Tail(rest))
  BY <1>1, <1>4, ConcatAssociative DEF S
<1> QED
  BY <1>1, <1>2, <1>3, <1>5 DEF S

(* No process has been started, no file written.                           *)
LEMMA InitIInv == Init => IInv
<1> SUFFICES ASSUME Init PROVE IInv
  OBVIOUS
<1>1. pc = "down" /\ pc \notin InCycle \cup BeforeLoop \cup InLoop \cup {"finally"}
  BY DEF Init, InCycle, BeforeLoop, InLoop
<1>2. TypeOK
  BY <1>1, EmptySeq DEF Init, TypeOK
<1>3. CycleCoversSymbols /\ StartupFitsPlace
  BY <1>1 DEF Init, CycleCoversSymbols, StartupFitsPlace
<1>4. SuccessMeansAllSymbols /\ ExitStatusTellsWhy
  BY <1>1 DEF Init, SuccessMeansAllSymbols, ExitStatusTellsWhy
<1> QED
  BY <1>2, <1>3, <1>4 DEF IInv

(* Every step keeps the inductive invariant.                               *)
LEMMA StepIInv == IInv /\ [Next]_vars => IInv'
<1> SUFFICES ASSUME IInv, [Next]_vars PROVE IInv'
  OBVIOUS
<1> USE DEF IInv, TypeOK, CycleCoversSymbols, StartupFitsPlace,
            ExitStatusTellsWhy, InCycle, BeforeLoop, InLoop, Go
<1>1. CASE Build
  <2>1. NewState \in RunnerStates /\ NewState # Nothing
    <3>1. << >> \in Seq(Range(Symbols))
      BY EmptySeq
    <3>2. NewState \in RunnerStates
      BY <3>1 DEF NewState, RunnerStates, Statuses
    <3> QED
      BY <3>2, NothingIsNoState
  <2>2. SuccessMeansAllSymbols'
    BY <1>1 DEF Build, NewState, SuccessMeansAllSymbols
  <2> QED
    BY <1>1, <2>1, <2>2 DEF Build, NewState
<1>2. CASE Die
  BY <1>2, EmptySeq DEF Die, SuccessMeansAllSymbols
<1>3. ASSUME NEW ok \in BOOLEAN, Start(ok) PROVE IInv'
  <2> DEFINE new == [mem EXCEPT !.status = "starting"]
  <2>1. new \in RunnerStates /\ Write(new, ok)
    BY <1>3 DEF Start, RunnerStates, Statuses
  <2>2. new.lastOk /\ ~new.inCycle => new.processed = Symbols
    BY <1>3 DEF Start, RunnerStates, SuccessMeansAllSymbols
  <2>3. new.status = "starting" /\ new.validated = mem.validated
          /\ new.startupError = mem.startupError
    BY <1>3 DEF Start, RunnerStates
  <2> QED
    BY <1>3, <2>1, <2>2, <2>3, WriteIsSafe DEF Start
<1>4. ASSUME NEW ok \in BOOLEAN, ConfigRejected(ok) PROVE IInv'
  <2> DEFINE new == [mem EXCEPT !.status = "error", !.startupError = "config",
                                !.validated = FALSE]
  <2>1. new \in RunnerStates /\ Write(new, ok)
    BY <1>4 DEF ConfigRejected, Rejected, RunnerStates, Statuses
  <2>2. new.lastOk /\ ~new.inCycle => new.processed = Symbols
    BY <1>4 DEF ConfigRejected, RunnerStates, SuccessMeansAllSymbols
  <2>3. new.status = "error" /\ new.startupError = "config" /\ ~new.validated
    BY <1>4 DEF ConfigRejected, RunnerStates
  <2> QED
    BY <1>4, <2>1, <2>2, <2>3, WriteIsSafe DEF ConfigRejected
<1>5. CASE ConfigAccepted
  BY <1>5 DEF ConfigAccepted, SuccessMeansAllSymbols
<1>6. ASSUME NEW ok \in BOOLEAN, CredentialsRejected(ok) PROVE IInv'
  <2> DEFINE new == [mem EXCEPT !.status = "error",
                                !.startupError = "credentials",
                                !.validated = FALSE]
  <2>1. new \in RunnerStates /\ Write(new, ok)
    BY <1>6 DEF CredentialsRejected, Rejected, RunnerStates, Statuses
  <2>2. new.lastOk /\ ~new.inCycle => new.processed = Symbols
    BY <1>6 DEF CredentialsRejected, RunnerStates, SuccessMeansAllSymbols
  <2>3. new.status = "error" /\ new.startupError = "credentials" /\ ~new.validated
    BY <1>6 DEF CredentialsRejected, RunnerStates
  <2> QED
    BY <1>6, <2>1, <2>2, <2>3, WriteIsSafe DEF CredentialsRejected
<1>7. ASSUME NEW ok \in BOOLEAN, ValidationPasses(ok) PROVE IInv'
  <2>1. PICK cred \in Credentials :
          Write([mem EXCEPT !.status = "running", !.validated = TRUE,
                            !.credentialCheck = cred], ok)
    BY <1>7 DEF ValidationPasses
  <2> DEFINE new == [mem EXCEPT !.status = "running", !.validated = TRUE,
                                !.credentialCheck = cred]
  <2>2. new \in RunnerStates
    BY <1>7, CredentialsAreResults
       DEF ValidationPasses, RunnerStates, Statuses
  <2>3. new.lastOk /\ ~new.inCycle => new.processed = Symbols
    BY <1>7 DEF ValidationPasses, RunnerStates, SuccessMeansAllSymbols
  <2>4. new.status = "running" /\ new.validated /\ new.startupError = "none"
    BY <1>7 DEF ValidationPasses, RunnerStates
  <2> QED
    BY <1>7, <2>1, <2>2, <2>3, <2>4, WriteIsSafe DEF ValidationPasses
<1>8. ASSUME NEW ok \in BOOLEAN, CycleBegins(ok) PROVE IInv'
  <2> DEFINE new == [mem EXCEPT !.status = "running", !.inCycle = TRUE,
                                !.processed = << >>]
  <2>1. new \in RunnerStates /\ Write(new, ok)
    BY <1>8, EmptySeq DEF CycleBegins, RunnerStates, Statuses
  <2>2. new.inCycle /\ new.status = "running"
          /\ new.validated = mem.validated
          /\ new.startupError = mem.startupError
    BY <1>8 DEF CycleBegins, RunnerStates
  <2>3. << >> \o Symbols = Symbols /\ Symbols \in Seq(Range(Symbols))
    BY SymbolsIsSeq, ConcatEmptySeq
  <2> QED
    BY <1>8, <2>1, <2>2, <2>3, EmptySeq, WriteIsSafe DEF CycleBegins
<1>9. CASE LoopEnds
  BY <1>9 DEF LoopEnds, SuccessMeansAllSymbols
<1>10. CASE CallPipeline
  BY <1>10 DEF CallPipeline, SuccessMeansAllSymbols
<1>11. ASSUME NEW filled \in BOOLEAN, PipelineReturns(filled) PROVE IInv'
  BY <1>11, NextSymbolMoves DEF PipelineReturns, SuccessMeansAllSymbols
<1>12. CASE PipelineRaises
  BY <1>12, NextSymbolMoves DEF PipelineRaises, SuccessMeansAllSymbols
<1>13. CASE FillSaved
  BY <1>13 DEF FillSaved, SuccessMeansAllSymbols
<1>14. ASSUME NEW ok \in BOOLEAN, CycleEnds(ok) PROVE IInv'
  <2> DEFINE new == [mem EXCEPT !.inCycle = FALSE, !.processed = processed,
                                !.lastOk = ~cycleError,
                                !.lastError = @ \/ cycleError]
  <2>1. new \in RunnerStates /\ Write(new, ok)
    BY <1>14 DEF CycleEnds, RunnerStates, Statuses
  <2>2. new.lastOk = ~cycleError /\ new.processed = processed
          /\ new.status = mem.status /\ new.validated = mem.validated
          /\ new.startupError = mem.startupError
    BY <1>14 DEF CycleEnds, RunnerStates
  <2>3. ~cycleError => processed = Symbols
    BY <1>14, ConcatEmptySeq DEF CycleEnds
  <2> QED
    BY <1>14, <2>1, <2>2, <2>3, WriteIsSafe DEF CycleEnds
<1>15. CASE CycleSaved
  BY <1>15 DEF CycleSaved, SuccessMeansAllSymbols
<1>16. CASE Wakes
  BY <1>16 DEF Wakes, SuccessMeansAllSymbols
<1>17. ASSUME NEW ok \in BOOLEAN, LoopRaises(ok) PROVE IInv'
  <2> DEFINE new == [mem EXCEPT !.status = "error", !.lastError = TRUE]
  <2>1. new \in RunnerStates /\ Write(new, ok)
    BY <1>17 DEF LoopRaises, RunnerStates, Statuses
  <2>2. new.lastOk /\ ~new.inCycle => new.processed = Symbols
    BY <1>17 DEF LoopRaises, RunnerStates, SuccessMeansAllSymbols
  <2>3. new.validated = mem.validated /\ new.startupError = mem.startupError
    BY <1>17 DEF LoopRaises, RunnerStates
  <2> QED
    BY <1>17, <2>1, <2>2, <2>3, WriteIsSafe DEF LoopRaises
<1>18. ASSUME NEW ok \in BOOLEAN, Finally(ok) PROVE IInv'
  <2> DEFINE new == [mem EXCEPT !.status = "stopped"]
  <2>1. new \in RunnerStates /\ Write(new, ok)
    BY <1>18 DEF Finally, RunnerStates, Statuses
  <2>2. new.lastOk /\ ~new.inCycle => new.processed = Symbols
    BY <1>18 DEF Finally, RunnerStates, SuccessMeansAllSymbols
  <2>3. new.status = "stopped" /\ new.validated = mem.validated
          /\ new.startupError = mem.startupError
    BY <1>18 DEF Finally, RunnerStates
  <2> QED
    BY <1>18, <2>1, <2>2, <2>3, WriteIsSafe DEF Finally
<1>19. CASE Cancel
  BY <1>19 DEF Cancel, Awaits, SuccessMeansAllSymbols
<1>20. ASSUME NEW ok \in BOOLEAN, Stop(ok) PROVE IInv'
  <2> DEFINE new == [mem EXCEPT !.status = "stopping"]
  <2>1. new \in RunnerStates /\ Write(new, ok)
    BY <1>20 DEF Stop, Awaits, RunnerStates, Statuses
  <2>2. new.lastOk /\ ~new.inCycle => new.processed = Symbols
    BY <1>20 DEF Stop, Awaits, RunnerStates, SuccessMeansAllSymbols
  <2>3. new.status = "stopping" /\ new.validated = mem.validated
          /\ new.startupError = mem.startupError
    BY <1>20 DEF Stop, Awaits, RunnerStates
  <2> QED
    BY <1>20, <2>1, <2>2, <2>3, WriteIsSafe DEF Stop, Awaits
<1>21. CASE UNCHANGED vars
  BY <1>21 DEF vars, SuccessMeansAllSymbols
<1> QED
  BY <1>1, <1>2, <1>3, <1>4, <1>5, <1>6, <1>7, <1>8, <1>9, <1>10, <1>11,
     <1>12, <1>13, <1>14, <1>15, <1>16, <1>17, <1>18, <1>19, <1>20, <1>21
     DEF Next, Coroutine, StartWrites, StartIsQuiet

(* In every reachable state of the runner the inductive invariant holds.   *)
THEOREM Inductive == Spec => []IInv
<1>1. Init => IInv
  BY InitIInv
<1>2. IInv /\ [Next]_vars => IInv'
  BY StepIInv
<1> QED
  BY <1>1, <1>2, PTL DEF Spec

(* Program counter, lists and states keep their types, and memory exists   *)
(* exactly while a process does.                                           *)
THEOREM TypeCorrect == Spec => []TypeOK
<1>1. IInv => TypeOK
  BY DEF IInv
<1> QED
  BY <1>1, Inductive, PTL

(* A cycle called successful ran every configured symbol, in memory and in *)
(* the file a reader finds (_run_cycle's last_successful_cycle).           *)
THEOREM SuccessIsComplete == Spec => []SuccessMeansAllSymbols
<1>1. IInv => SuccessMeansAllSymbols
  BY DEF IInv
<1> QED
  BY <1>1, Inductive, PTL

(* After start() the status tells how it ended (start's except and finally *)
(* clauses).                                                               *)
THEOREM ExitIsTold == Spec => []ExitStatusTellsWhy
<1>1. IInv => ExitStatusTellsWhy
  BY DEF IInv
<1> QED
  BY <1>1, Inductive, PTL

(* What StopHolds says of one step.                                        *)
StopHoldsStep ==
  stopEvent /\ stopEvent' =>
    /\ mem'.inCycle => mem.inCycle
    /\ pc \in InLoop /\ mem.status = "stopping" => mem'.status # "running"

(* No step after a stop request begins a cycle or calls the loop running.  *)
LEMMA StepStopHolds == IInv /\ [Next]_vars => [StopHoldsStep]_vars
<1> SUFFICES ASSUME IInv, Next, stopEvent, stopEvent'
             PROVE  StopHoldsStep
  BY DEF StopHoldsStep
<1> USE DEF IInv, TypeOK, InLoop, Go, Write, StopHoldsStep
<1>1. CASE Build \/ Die
  BY <1>1 DEF Build, Die
<1>2. CASE StartIsQuiet \/ Cancel
  BY <1>2 DEF StartIsQuiet, Cancel, ConfigAccepted, LoopEnds, CallPipeline,
              PipelineReturns, PipelineRaises, FillSaved, CycleSaved, Wakes
<1>3. ASSUME NEW ok \in BOOLEAN, StartWrites(ok) \/ LoopRaises(ok)
      PROVE  StopHoldsStep
  BY <1>3 DEF StartWrites, Start, ConfigRejected, CredentialsRejected, Rejected,
              ValidationPasses, CycleBegins, CycleEnds, Finally, LoopRaises,
              RunnerStates
<1>4. ASSUME NEW ok \in BOOLEAN, Stop(ok) PROVE StopHoldsStep
  <2>1. mem \in RunnerStates
    BY <1>4 DEF Stop, Awaits
  <2> QED
    BY <1>4, <2>1 DEF Stop, RunnerStates
<1> QED
  BY <1>1, <1>2, <1>3, <1>4 DEF Next, Coroutine

(* A stop request holds: see StopHolds.                                    *)
THEOREM StopIsKept == Spec => StopHolds
<1>1. IInv /\ [Next]_vars => [StopHoldsStep]_vars
  BY StepStopHolds
<1>2. Spec => [][StopHoldsStep]_vars
  BY <1>1, Inductive, PTL DEF Spec
<1> QED
  BY <1>2 DEF StopHolds, StopHoldsStep

-----------------------------------------------------------------------------
(* The runner with a clock *)

(* A step of the clocked runner is a step of the runner, or time passes.   *)
LEMMA HealthStepIsRunnerStep == [HealthNext]_allVars => [Next]_vars
<1>1. CASE Tick
  BY <1>1 DEF Tick
<1>2. CASE TimedCoroutine
  BY <1>2 DEF TimedCoroutine, Next, Coroutine
<1>3. CASE HealthNext /\ ~Tick /\ ~TimedCoroutine
  BY <1>3 DEF HealthNext, Next
<1>4. CASE UNCHANGED allVars
  BY <1>4 DEF allVars
<1> QED
  BY <1>1, <1>2, <1>3, <1>4 DEF HealthNext

(* The clocked runner implements the runner, so what is proved of the      *)
(* runner holds of it.                                                     *)
THEOREM HealthImplementsRunner == HealthSpec => Spec
<1>1. HealthInit => Init
  BY DEF HealthInit
<1> QED
  BY <1>1, HealthStepIsRunnerStep, PTL DEF HealthSpec, Spec

(* The health check's window is a positive number of ticks.               *)
LEMMA CeilingIsPositive == Window \in Nat /\ Ceiling \in Nat /\ 0 < Ceiling
BY TimesAreTicks DEF Ceiling, Window, Multiplier

(* A write that leaves "running" in the file leaves the process inside the *)
(* loop (start and _run_cycle).                                            *)
LEMMA RunningIsWrittenInLoop ==
  ASSUME TypeOK, NEW ok \in BOOLEAN,
         StartWrites(ok) \/ LoopRaises(ok) \/ Stop(ok)
  PROVE  \/ UNCHANGED file /\ ~ok
         \/ ok /\ pc' \in InLoop
         \/ ok /\ file'.status # "running"
<1> USE DEF TypeOK, Go, Write
<1>1. CASE Start(ok)
  BY <1>1 DEF Start, RunnerStates
<1>2. CASE ConfigRejected(ok)
  BY <1>2 DEF ConfigRejected, Rejected, RunnerStates
<1>3. CASE CredentialsRejected(ok)
  BY <1>3 DEF CredentialsRejected, Rejected, RunnerStates
<1>4. CASE ValidationPasses(ok)
  BY <1>4 DEF ValidationPasses, InLoop
<1>5. CASE CycleBegins(ok)
  BY <1>5 DEF CycleBegins, InLoop
<1>6. CASE CycleEnds(ok)
  BY <1>6 DEF CycleEnds, InLoop
<1>7. CASE Finally(ok)
  BY <1>7 DEF Finally, RunnerStates
<1>8. CASE LoopRaises(ok)
  BY <1>8 DEF LoopRaises, RunnerStates
<1>9. CASE Stop(ok)
  BY <1>9 DEF Stop, Awaits, RunnerStates
<1> QED
  BY <1>1, <1>2, <1>3, <1>4, <1>5, <1>6, <1>7, <1>8, <1>9 DEF StartWrites

(* Neither clock overtakes the other: the file is no younger than the time *)
(* since a process was in the loop.                                        *)
LEMMA StepRecent ==
  TypeOK /\ RunningFileIsRecent /\ [HealthNext]_allVars => RunningFileIsRecent'
<1> SUFFICES ASSUME TypeOK, RunningFileIsRecent, [HealthNext]_allVars
             PROVE  RunningFileIsRecent'
  OBVIOUS
<1> USE CeilingIsPositive DEF RunningFileIsRecent, Later
<1>1. CASE Tick
  BY <1>1 DEF Tick, vars
<1>2. ASSUME NEW ok \in BOOLEAN, Stamp(ok), Settle,
             StartWrites(ok) \/ LoopRaises(ok) \/ Stop(ok)
      PROVE  RunningFileIsRecent'
  BY <1>2, RunningIsWrittenInLoop DEF Stamp, Settle
<1>3. CASE (StartIsQuiet \/ Build \/ Die \/ Cancel) /\ Settle /\ UNCHANGED age
  <2>1. UNCHANGED file
    BY <1>3 DEF StartIsQuiet, Build, Die, Cancel, ConfigAccepted, LoopEnds,
                CallPipeline, PipelineReturns, PipelineRaises, FillSaved,
                CycleSaved, Wakes
  <2> QED
    BY <1>3, <2>1 DEF Settle
<1>4. CASE UNCHANGED allVars
  BY <1>4 DEF allVars, vars, clocks
<1> QED
  BY <1>1, <1>2, <1>3, <1>4 DEF HealthNext, TimedCoroutine

(* Neither verdict outlives its window: see VerdictsMeanRecentLoop.        *)
THEOREM NoFalseCalm == HealthSpec => []VerdictsMeanRecentLoop
<1>1. HealthInit => RunningFileIsRecent
  BY CeilingIsPositive DEF HealthInit, Init, RunningFileIsRecent
<1>2. HealthSpec => []TypeOK
  BY HealthImplementsRunner, TypeCorrect
<1>3. HealthSpec => []RunningFileIsRecent
  BY <1>1, <1>2, StepRecent, PTL DEF HealthSpec
<1>4. RunningFileIsRecent => VerdictsMeanRecentLoop
  BY CeilingIsPositive, TimesAreTicks
     DEF RunningFileIsRecent, VerdictsMeanRecentLoop, Healthy, LoopRunning
<1> QED
  BY <1>3, <1>4, PTL

-----------------------------------------------------------------------------
(* The bounds of the waits are naturals.                                   *)
LEMMA PatienceIsNat == Patience \in Nat
BY TimesAreTicks DEF Patience

(* A step of the runner takes the symbols of a cycle one at a time.        *)
LEMMA TodoShrinks ==
  ASSUME TypeOK, CycleCoversSymbols, Len(todo) <= Len(Symbols), [Next]_vars
  PROVE  Len(todo') <= Len(Symbols)
<1> USE DEF TypeOK, Go
<1>1. CASE todo' = todo
  BY <1>1
<1>2. CASE todo' = << >> \/ todo' = Symbols
  BY <1>2, SymbolsIsSeq, LenProperties
<1>3. CASE pc = "pipeline" /\ todo' = Tail(todo)
  BY <1>3, HeadTailProperties DEF CycleCoversSymbols
<1>4. \/ todo' = todo \/ todo' = << >> \/ todo' = Symbols
      \/ pc = "pipeline" /\ todo' = Tail(todo)
  BY DEF Next, Coroutine, StartIsQuiet, StartWrites, Start, ConfigRejected,
         CredentialsRejected, ValidationPasses, CycleBegins, CycleEnds,
         Finally, LoopRaises, Stop, Build, Die, Cancel, ConfigAccepted,
         LoopEnds, CallPipeline, PipelineReturns, PipelineRaises, FillSaved,
         CycleSaved, Wakes, vars
<1> QED
  BY <1>1, <1>2, <1>3, <1>4

(* The clocks and the list keep their ranges.                              *)
LEMMA StepClocksRun ==
  IInv /\ ClocksRun /\ [HealthNext]_allVars => ClocksRun'
<1> SUFFICES ASSUME IInv, ClocksRun, [HealthNext]_allVars PROVE ClocksRun'
  OBVIOUS
<1>1. Len(todo') <= Len(Symbols)
  BY HealthStepIsRunnerStep, TodoShrinks DEF IInv, ClocksRun
<1>2. pc' = pc => Patience' = Patience
  BY DEF Patience
<1>3. Patience \in Nat /\ Patience' \in Nat
  BY PatienceIsNat, TimesAreTicks DEF Patience
<1> USE CeilingIsPositive DEF ClocksRun, Later
<1>4. CASE Tick
  BY <1>1, <1>2, <1>3, <1>4 DEF Tick, vars
<1>5. CASE HealthNext /\ ~Tick
  <2>1. Settle
    BY <1>5 DEF HealthNext, TimedCoroutine
  <2>2. waited' \in 0..Patience'
    BY <2>1, <1>2, <1>3 DEF Settle
  <2>3. UNCHANGED <<age, missed>> \/ \E ok \in BOOLEAN : Stamp(ok)
    BY <1>5 DEF HealthNext, TimedCoroutine
  <2> QED
    BY <1>1, <2>2, <2>3 DEF Stamp
<1>6. CASE UNCHANGED allVars
  BY <1>1, <1>2, <1>3, <1>6 DEF allVars, vars, clocks
<1> QED
  BY <1>4, <1>5, <1>6

(* A write that succeeds writes the state kept in memory.                  *)
LEMMA WritesMemory ==
  ASSUME StartWrites(TRUE) \/ LoopRaises(TRUE) \/ Stop(TRUE)
  PROVE  file' = mem'
<1> USE DEF Write
<1>1. CASE Start(TRUE) \/ ConfigRejected(TRUE) \/ CredentialsRejected(TRUE)
  BY <1>1 DEF Start, ConfigRejected, CredentialsRejected, Rejected
<1>2. CASE ValidationPasses(TRUE)
  BY <1>2 DEF ValidationPasses
<1>3. CASE CycleBegins(TRUE) \/ CycleEnds(TRUE) \/ Finally(TRUE)
  BY <1>3 DEF CycleBegins, CycleEnds, Finally
<1>4. CASE LoopRaises(TRUE) \/ Stop(TRUE)
  BY <1>4 DEF LoopRaises, Stop
<1> QED
  BY <1>1, <1>2, <1>3, <1>4 DEF StartWrites

(* While no write fails the file follows memory.                           *)
LEMMA StepFileFollows ==
  TypeOK /\ ClocksRun /\ FileFollows /\ [HealthNext]_allVars => FileFollows'
<1> SUFFICES ASSUME TypeOK, ClocksRun, FileFollows, [HealthNext]_allVars
             PROVE  FileFollows'
  OBVIOUS
<1> USE DEF FileFollows
<1>1. CASE Tick
  BY <1>1 DEF Tick, vars
<1>2. ASSUME NEW ok \in BOOLEAN, Stamp(ok),
             StartWrites(ok) \/ LoopRaises(ok) \/ Stop(ok)
      PROVE  FileFollows'
  <2>1. CASE ok
    BY <1>2, <2>1, WritesMemory
  <2>2. CASE ~ok
    BY <1>2, <2>2 DEF Stamp, ClocksRun
  <2> QED
    BY <2>1, <2>2
<1>3. CASE (StartIsQuiet \/ Cancel) /\ UNCHANGED <<age, missed>>
  BY <1>3 DEF StartIsQuiet, Cancel, ConfigAccepted, LoopEnds, CallPipeline,
              PipelineReturns, PipelineRaises, FillSaved, CycleSaved, Wakes,
              Go, Awaits
<1>4. CASE Build \/ Die
  BY <1>4 DEF Build, Die, Go
<1>5. CASE UNCHANGED allVars
  BY <1>5 DEF allVars, vars, clocks
<1> QED
  BY <1>1, <1>2, <1>3, <1>4, <1>5 DEF HealthNext, TimedCoroutine

(* What the runs of a cycle may take is bounded by the whole cycle, and    *)
(* grows by one run with every run that ends.                              *)
LEMMA SpentFacts ==
  ASSUME TypeOK, Len(todo) <= Len(Symbols)
  PROVE  /\ Spent \in Nat /\ CycleTime \in Nat /\ Spent <= CycleTime
         /\ todo = << >> => Spent = CycleTime
         /\ todo # << >> => Spent + RunTime <= CycleTime
<1> DEFINE n == Len(Symbols)
           d == Len(Symbols) - Len(todo)
<1>1. n \in Nat /\ d \in Nat /\ d <= n /\ RunTime \in Nat
  BY SymbolsIsSeq, LenProperties, TimesAreTicks DEF TypeOK
<1>2. (todo = << >> => d = n) /\ (todo # << >> => d + 1 <= n)
  BY <1>1, EmptySeq, LenProperties DEF TypeOK
<1> HIDE DEF n, d
<1>3. d * RunTime \in Nat /\ n * RunTime \in Nat /\ d * RunTime <= n * RunTime
  BY <1>1
<1>4. d + 1 <= n => d * RunTime + RunTime <= n * RunTime
  <2>1. ASSUME d + 1 <= n PROVE (d + 1) * RunTime <= n * RunTime
    BY <1>1, <2>1
  <2>2. (d + 1) * RunTime = d * RunTime + RunTime
    BY <1>1
  <2> QED
    BY <2>1, <2>2
<1>5. Spent = d * RunTime /\ CycleTime = n * RunTime
  BY DEF Spent, CycleTime, n, d
<1> QED
  BY <1>2, <1>3, <1>4, <1>5

(* A symbol's run adds its time to what the cycle has spent.              *)
LEMMA SpentGrows ==
  ASSUME TypeOK, Len(todo) <= Len(Symbols), todo # << >>, todo' = Tail(todo)
  PROVE  Spent' = Spent + RunTime
<1> DEFINE d == Len(Symbols) - Len(todo)
<1>1. d \in Nat /\ Len(Symbols) - Len(todo') = d + 1 /\ RunTime \in Nat
  BY SymbolsIsSeq, LenProperties, HeadTailProperties, TimesAreTicks DEF TypeOK
<1>2. Spent = d * RunTime /\ Spent' = (Len(Symbols) - Len(todo')) * RunTime
  BY DEF Spent
<1> HIDE DEF d
<1>3. (d + 1) * RunTime = d * RunTime + RunTime
  BY <1>1
<1> QED
  BY <1>1, <1>2, <1>3

(* A cycle that begins has spent nothing.                                 *)
LEMMA SpentBegins ==
  ASSUME todo' = Symbols
  PROVE  Spent' = 0
<1>1. Len(Symbols) - Len(todo') = 0
  BY SymbolsIsSeq, LenProperties
<1> QED
  BY <1>1, TimesAreTicks DEF Spent

(* Inside the loop only a run and the sleep take time.                     *)
LEMMA WaitedIsBounded ==
  ASSUME ClocksRun
  PROVE  /\ age \in Nat /\ waited \in Nat /\ missed \in 0..2
         /\ pc = "pipeline" => waited <= RunTime
         /\ pc = "sleeping" => waited <= Interval
         /\ pc \in InLoop \ {"pipeline", "sleeping"} => waited = 0
BY TimesAreTicks, CeilingIsPositive, PatienceIsNat
   DEF ClocksRun, Patience, InLoop

(* Attempts to write stay close: each step of a cycle adds at most what    *)
(* its awaits may take.                                                    *)
LEMMA StepClose ==
  IInv /\ ClocksRun /\ FileFollows /\ WritesAreClose /\ [HealthNext]_allVars
    => WritesAreClose'
<1> SUFFICES ASSUME IInv, ClocksRun, FileFollows, WritesAreClose,
                    [HealthNext]_allVars, pc' \in InLoop,
                    mem'.status = "running"
             PROVE  /\ missed' = 0 => age' <= SinceWrite'
                    /\ missed' = 1 /\ file' # Nothing
                         /\ file'.status = "running" => age' <= SincePrevious'
  BY DEF WritesAreClose
<1> DEFINE Close == /\ missed' = 0 => age' <= SinceWrite'
                    /\ missed' = 1 /\ file' # Nothing
                         /\ file'.status = "running" => age' <= SincePrevious'
<1>1. TypeOK /\ Len(todo) <= Len(Symbols)
  BY DEF IInv, ClocksRun
<1>2. /\ Spent \in Nat /\ CycleTime \in Nat /\ Spent <= CycleTime
      /\ todo = << >> => Spent = CycleTime
  BY <1>1, SpentFacts
<1>3. Interval \in Nat /\ RunTime \in Nat /\ Ceiling \in Nat
  BY TimesAreTicks, CeilingIsPositive
<1>4. /\ age \in Nat /\ waited \in Nat /\ missed \in 0..2
      /\ pc = "pipeline" => waited <= RunTime
      /\ pc = "sleeping" => waited <= Interval
      /\ pc \in InLoop \ {"pipeline", "sleeping"} => waited = 0
  BY WaitedIsBounded
<1> USE DEF InLoop, InCycle, Go, Settle
<1>5. CASE Tick
  <2>1. pc \in {"pipeline", "sleeping"} /\ waited' = waited + 1 /\ pc' = pc
    BY <1>3, <1>4, <1>5 DEF Tick, vars, Patience
  <2>2. age' <= age + 1 /\ age' \in Nat
    BY <1>3, <1>4, <1>5 DEF Tick, Later
  <2>3. Spent' = Spent /\ UNCHANGED <<mem, file, missed>>
    BY <1>5 DEF Tick, vars, Spent
  <2> QED
    BY <1>2, <1>3, <1>4, <2>1, <2>2, <2>3
       DEF WritesAreClose, SinceWrite, SincePrevious
<1>6. ASSUME NEW ok \in BOOLEAN, ValidationPasses(ok), Stamp(ok), Settle
      PROVE  Close
  <2>1. pc' = "loop" /\ mem \in RunnerStates /\ mem.status # "running"
    BY <1>1, <1>6
       DEF ValidationPasses, TypeOK, IInv, StartupFitsPlace, BeforeLoop
  <2>2. ~ok /\ missed = 0 => file'.status # "running"
    BY <2>1, <1>6 DEF ValidationPasses, Write, FileFollows
  <2> QED
    BY <1>3, <1>4, <1>6, <2>1, <2>2 DEF Stamp, SinceWrite
<1>7. ASSUME NEW ok \in BOOLEAN, CycleBegins(ok), Stamp(ok), Settle
      PROVE  Close
  <2>1. pc = "loop" /\ pc' = "dispatch" /\ waited' = 0 /\ mem.status = "running"
    BY <1>7 DEF CycleBegins, IInv, StartupFitsPlace
  <2>2. Spent' = 0
    BY <1>7, SpentBegins DEF CycleBegins
  <2>3. missed = 0 => age <= Interval
    BY <2>1 DEF WritesAreClose, SinceWrite
  <2> QED
    BY <1>3, <1>4, <1>7, <2>1, <2>2, <2>3 DEF Stamp, SinceWrite, SincePrevious
<1>8. ASSUME NEW ok \in BOOLEAN, CycleEnds(ok), Stamp(ok), Settle
      PROVE  Close
  <2>1. pc = "dispatch" /\ pc' = "saveEnd" /\ waited' = 0 /\ todo = << >>
    BY <1>8 DEF CycleEnds
  <2>2. mem.status = "running"
    BY <1>1, <1>8 DEF CycleEnds, Write, TypeOK, RunnerStates
  <2>3. missed = 0 => age <= CycleTime
    BY <1>2, <1>3, <1>4, <2>1, <2>2 DEF WritesAreClose, SinceWrite
  <2> QED
    BY <1>2, <1>3, <1>4, <1>8, <2>1, <2>3 DEF Stamp, SinceWrite, SincePrevious
<1>9. ASSUME StartIsQuiet, Settle, UNCHANGED <<age, missed>>
      PROVE  Close
  <2>1. UNCHANGED <<mem, file>>
    BY <1>9 DEF StartIsQuiet, ConfigAccepted, LoopEnds, CallPipeline,
                PipelineReturns, PipelineRaises, FillSaved, CycleSaved, Wakes
  <2>2. CASE CallPipeline \/ FillSaved
    <3>1. Spent' = Spent /\ waited' = 0 /\ waited = 0
      BY <1>4, <1>9, <2>2 DEF CallPipeline, FillSaved, Spent
    <3> QED
      BY <1>2, <1>3, <1>9, <2>1, <2>2, <3>1
         DEF CallPipeline, FillSaved, WritesAreClose, SinceWrite, SincePrevious
  <2>3. CASE PipelineRaises \/ \E filled \in BOOLEAN : PipelineReturns(filled)
    <3>1. pc = "pipeline" /\ pc' \in {"dispatch", "saveFill"} /\ waited' = 0
            /\ todo' = Tail(todo)
      BY <1>9, <2>3 DEF PipelineRaises, PipelineReturns
    <3>2. Spent' = Spent + RunTime
      BY <1>1, <3>1, SpentGrows DEF IInv, CycleCoversSymbols
    <3> QED
      BY <1>2, <1>3, <1>4, <1>9, <2>1, <3>1, <3>2
         DEF WritesAreClose, SinceWrite, SincePrevious
  <2>4. CASE CycleSaved \/ Wakes
    <3>1. waited' = 0
      BY <1>9, <2>4 DEF CycleSaved, Wakes
    <3> QED
      BY <1>2, <1>3, <1>4, <1>9, <2>1, <2>4, <3>1
         DEF CycleSaved, Wakes, WritesAreClose, SinceWrite, SincePrevious
  <2> QED
    BY <1>9, <2>2, <2>3, <2>4 DEF StartIsQuiet, ConfigAccepted, LoopEnds
<1>10. ASSUME NEW ok \in BOOLEAN,
              Start(ok) \/ ConfigRejected(ok) \/ CredentialsRejected(ok)
                \/ Finally(ok) \/ LoopRaises(ok) \/ Stop(ok)
       PROVE  FALSE
  <2>1. Stop(ok) => mem'.status # "running"
    BY <1>1 DEF Stop, Write, Awaits, TypeOK, RunnerStates
  <2> QED
    BY <1>10, <2>1 DEF Start, ConfigRejected, CredentialsRejected, Finally,
                       LoopRaises
<1>11. ~(Build \/ Die \/ Cancel)
  BY DEF Build, Die, Cancel
<1>12. CASE UNCHANGED allVars
  BY <1>12 DEF allVars, vars, clocks, WritesAreClose, SinceWrite,
               SincePrevious, Spent
<1> QED
  BY <1>5, <1>6, <1>7, <1>8, <1>9, <1>10, <1>11, <1>12
     DEF HealthNext, TimedCoroutine, StartWrites

(* No false alarm: see LiveBotIsHealthy.                                   *)
THEOREM NoFalseAlarm == HealthSpec => []LiveBotIsHealthy
<1> DEFINE Clocked == ClocksRun /\ FileFollows /\ WritesAreClose
<1>1. HealthInit => Clocked
  BY CeilingIsPositive, PatienceIsNat, SymbolsIsSeq, LenProperties
     DEF HealthInit, Init, ClocksRun, FileFollows, WritesAreClose, InLoop
<1>2. HealthSpec => []IInv
  BY HealthImplementsRunner, Inductive
<1>3. IInv /\ Clocked /\ [HealthNext]_allVars => Clocked'
  BY StepClocksRun, StepFileFollows, StepClose DEF IInv
<1>4. HealthSpec => []Clocked
  BY <1>1, <1>2, <1>3, PTL DEF HealthSpec
<1>5. IInv /\ Clocked => LiveBotIsHealthy
  <2> SUFFICES ASSUME IInv, Clocked, pc \in InLoop, mem.status = "running"
               PROVE  /\ missed = 0 =>
                           /\ LoopRunning(TRUE) /\ Scheduler = "READY"
                           /\ \A s \in BOOLEAN : Healthy(s)
                      /\ missed = 1 /\ file # Nothing
                           /\ file.status = "running" =>
                           \A s \in BOOLEAN : Healthy(s)
    BY DEF LiveBotIsHealthy
  <2>1. /\ TypeOK /\ Spent \in Nat /\ CycleTime \in Nat /\ Spent <= CycleTime
        /\ CycleTime <= 2 * Interval /\ CycleTime < Interval + Grace
    BY SpentFacts, CycleFitsTwoIntervals, CycleFitsTheGrace
       DEF IInv, ClocksRun, CycleTime
  <2>2. Interval \in Nat \ {0} /\ Grace \in Nat \ {0} /\ RunTime \in Nat
          /\ Window = 3 * Interval
    BY TimesAreTicks DEF Window, Multiplier
  <2>3. pc \in InCycle => Spent + waited <= CycleTime
    BY <2>1, <2>2, SpentFacts, WaitedIsBounded
       DEF IInv, ClocksRun, CycleCoversSymbols, InCycle, InLoop
  <2>4. pc \notin InCycle => waited <= Interval
    BY <2>2, WaitedIsBounded DEF InCycle
  <2>5. missed = 0 => age <= 2 * Interval /\ age < Interval + Grace
    BY <2>1, <2>2, <2>3, <2>4, WaitedIsBounded
       DEF WritesAreClose, SinceWrite
  <2>6. missed = 1 /\ file # Nothing /\ file.status = "running" =>
          age <= 3 * Interval
    BY <2>1, <2>2, <2>3, <2>4, WaitedIsBounded
       DEF WritesAreClose, SincePrevious
  <2>7. missed = 0 => file = mem /\ file # Nothing
    BY <2>1 DEF FileFollows, TypeOK, InLoop
  <2> QED
    BY <2>2, <2>5, <2>6, <2>7, WaitedIsBounded
       DEF Healthy, LoopRunning, Scheduler
<1> QED
  BY <1>2, <1>4, <1>5, PTL

-----------------------------------------------------------------------------
(* A stop request takes the rest of the await it met and of its cycle, and *)
(* no sleep: each step keeps StopTakesTheCycle.                            *)
LEMMA StepStopIsPrompt ==
  IInv /\ ClocksRun /\ StopTakesTheCycle /\ [HealthNext]_allVars
    => StopTakesTheCycle'
<1> SUFFICES ASSUME IInv, ClocksRun, StopTakesTheCycle, [HealthNext]_allVars
             PROVE  StopTakesTheCycle'
  OBVIOUS
<1>1. TypeOK /\ Len(todo) <= Len(Symbols)
  BY DEF IInv, ClocksRun
<1>2. /\ Spent \in Nat /\ CycleTime \in Nat /\ Spent <= CycleTime
      /\ todo = << >> => Spent = CycleTime
      /\ CycleTime' = CycleTime
  BY <1>1, SpentFacts DEF CycleTime
<1>3. CheckTime \in Nat /\ RunTime \in Nat /\ Interval \in Nat
        /\ Ceiling \in Nat /\ asked \in Nat
  BY TimesAreTicks, CeilingIsPositive DEF StopTakesTheCycle
<1>4. /\ waited \in Nat
      /\ pc = "validating" => waited <= CheckTime
      /\ pc = "pipeline" => waited <= RunTime
      /\ pc \notin Awaits => waited = 0
  BY TimesAreTicks DEF ClocksRun, Patience, Awaits
<1> USE DEF StopTakesTheCycle, InCycle, Go
<1>5. CASE Tick
  <2>1. Spent' = Spent /\ UNCHANGED <<pc, stopEvent>>
    BY <1>5 DEF Tick, vars, Spent
  <2>2. pc \in Awaits => waited' = waited + 1
    BY <1>5 DEF Tick, Awaits
  <2>3. asked' \in 0..Ceiling /\ asked' <= asked + 1
          /\ (~stopEvent => asked' = 0)
    BY <1>3, <1>5 DEF Tick, Later, StopTakesTheCycle
  <2>4. pc \in Awaits \cup {"down"} /\ (pc = "sleeping" => ~stopEvent)
    BY <1>4, <1>5 DEF Tick, Patience, SleepOver, Awaits
  <2> QED
    BY <1>2, <1>3, <1>4, <2>1, <2>2, <2>3, <2>4 DEF Awaits
<1>6. CASE HealthNext /\ ~Tick
  <2>1. Settle
    BY <1>6 DEF HealthNext, TimedCoroutine
  <2>2. asked' \in 0..Ceiling /\ asked' <= asked /\ (~stopEvent' => asked' = 0)
          /\ (asked = 0 => asked' = 0)
    BY <1>3, <2>1 DEF Settle
  <2>3. (pc' = pc => waited' = waited) /\ (pc' # pc => waited' = 0)
    BY <2>1 DEF Settle
  <2> HIDE DEF StopTakesTheCycle
  <2>4. CASE Build \/ Die
    BY <2>2, <2>4, <1>3 DEF StopTakesTheCycle, Build, Die
  <2>5. ASSUME NEW ok \in BOOLEAN, Stop(ok) PROVE StopTakesTheCycle'
    <3>1. UNCHANGED <<pc, todo>> /\ Spent' = Spent /\ pc # "down"
      BY <2>5 DEF Stop, Spent, Awaits
    <3>2. asked' = asked \/ asked' = 0
      BY <2>1 DEF Settle
    <3> QED
      BY <1>2, <1>3, <1>4, <2>2, <2>3, <3>1, <3>2 DEF StopTakesTheCycle
  <2>6. ASSUME NEW ok \in BOOLEAN,
               Start(ok) \/ ConfigRejected(ok) \/ CredentialsRejected(ok)
                 \/ ValidationPasses(ok) \/ CycleBegins(ok)
        PROVE  StopTakesTheCycle'
    <3>1. asked' = 0 \/ (pc = "validating" /\ pc' \in {"exited", "loop"})
      BY <2>2, <2>6 DEF StopTakesTheCycle, Start, ConfigRejected, CycleBegins,
                        CredentialsRejected, ValidationPasses
    <3>2. pc' \in {"configured", "exited", "loop", "dispatch"}
      BY <2>6 DEF Start, ConfigRejected, CycleBegins, CredentialsRejected,
                  ValidationPasses
    <3>3. pc' = "dispatch" => Spent' = 0
      BY <2>6, SpentBegins DEF Start, ConfigRejected, CycleBegins,
                               CredentialsRejected, ValidationPasses
    <3>4. pc' # pc
      BY <2>6 DEF Start, ConfigRejected, CycleBegins, CredentialsRejected,
                  ValidationPasses
    <3> QED
      BY <1>2, <1>3, <1>4, <2>2, <2>3, <3>1, <3>2, <3>3, <3>4
         DEF StopTakesTheCycle
  <2>7. ASSUME NEW ok \in BOOLEAN, CycleEnds(ok) \/ Finally(ok) \/ LoopRaises(ok)
        PROVE  StopTakesTheCycle'
    <3>1. pc' \in {"saveEnd", "exited", "finally"}
      BY <2>7 DEF CycleEnds, Finally, LoopRaises
    <3>2. asked <= CycleTime \/ asked <= CheckTime
      BY <1>2, <1>3, <1>4, <2>7
         DEF StopTakesTheCycle, CycleEnds, Finally, LoopRaises, Awaits
    <3>3. pc' = "saveEnd" => asked <= CycleTime
      BY <1>2, <1>3, <1>4, <2>7
         DEF StopTakesTheCycle, CycleEnds, Finally, LoopRaises, Awaits
    <3> QED
      BY <1>2, <1>3, <2>2, <3>1, <3>2, <3>3 DEF StopTakesTheCycle
  <2>8. CASE PipelineRaises \/ \E filled \in BOOLEAN : PipelineReturns(filled)
    <3>1. pc = "pipeline" /\ pc' \in {"dispatch", "saveFill"}
            /\ todo' = Tail(todo)
      BY <2>8 DEF PipelineRaises, PipelineReturns
    <3>2. Spent' = Spent + RunTime
      BY <1>1, <3>1, SpentGrows DEF IInv, CycleCoversSymbols
    <3> QED
      BY <1>2, <1>3, <1>4, <2>2, <2>3, <3>1, <3>2 DEF StopTakesTheCycle
  <2>9. CASE CallPipeline \/ FillSaved
    <3>1. Spent' = Spent /\ pc \in {"dispatch", "saveFill"}
            /\ pc' \in {"pipeline", "dispatch"}
      BY <2>9 DEF CallPipeline, FillSaved, Spent
    <3> QED
      BY <1>2, <1>3, <1>4, <2>2, <2>3, <3>1 DEF StopTakesTheCycle, Awaits
  <2>10. CASE Cancel \/ ConfigAccepted \/ LoopEnds \/ CycleSaved \/ Wakes
    <3>1. \/ pc = "configured" /\ pc' = "validating"
          \/ pc = "saveEnd" /\ pc' = "sleeping"
          \/ pc \in Awaits \cup {"loop"} /\ pc' \in {"exited", "finally", "loop"}
      BY <2>10 DEF Cancel, ConfigAccepted, LoopEnds, CycleSaved, Wakes, Awaits
    <3>2. pc = "pipeline" => todo # << >>
      BY DEF IInv, CycleCoversSymbols
    <3>3. pc = "pipeline" => Spent + waited <= CycleTime
      BY <1>1, <1>2, <1>3, <1>4, <3>2, SpentFacts
    <3> QED
      BY <1>2, <1>3, <1>4, <2>2, <2>3, <3>1, <3>3
         DEF StopTakesTheCycle, Awaits
  <2> QED
    BY <1>6, <2>4, <2>5, <2>6, <2>7, <2>8, <2>9, <2>10
       DEF HealthNext, TimedCoroutine, StartWrites, StartIsQuiet
<1>7. CASE UNCHANGED allVars
  BY <1>7 DEF allVars, vars, clocks, Spent
<1> QED
  BY <1>5, <1>6, <1>7

(* A stop request never waits for the sleep: see StopIsPrompt.             *)
THEOREM StopIsAnswered == HealthSpec => []StopIsPrompt
<1>1. HealthInit => ClocksRun /\ StopTakesTheCycle
  BY CeilingIsPositive, PatienceIsNat, SymbolsIsSeq, LenProperties
     DEF HealthInit, Init, ClocksRun, StopTakesTheCycle, InCycle
<1>2. HealthSpec => []IInv
  BY HealthImplementsRunner, Inductive
<1>3. HealthSpec => [](ClocksRun /\ StopTakesTheCycle)
  BY <1>1, <1>2, StepClocksRun, StepStopIsPrompt, PTL DEF HealthSpec
<1>4. IInv /\ ClocksRun /\ StopTakesTheCycle => StopIsPrompt
  <2> SUFFICES ASSUME IInv, ClocksRun, StopTakesTheCycle, stopEvent
               PROVE  asked <= CycleTime \/ asked <= CheckTime
    BY DEF StopIsPrompt
  <2>1. TypeOK /\ CheckTime \in Nat /\ RunTime \in Nat
          /\ Spent \in Nat /\ CycleTime \in Nat /\ Spent <= CycleTime
          /\ asked \in Nat
    BY SpentFacts, TimesAreTicks, CeilingIsPositive
       DEF IInv, ClocksRun, StopTakesTheCycle
  <2>2. pc \in InCycle => Spent + waited <= CycleTime
    BY <2>1, SpentFacts, WaitedIsBounded
       DEF IInv, ClocksRun, CycleCoversSymbols, InCycle, InLoop
  <2>3. waited \in Nat /\ (pc = "validating" => waited <= CheckTime)
    BY TimesAreTicks DEF ClocksRun, Patience
  <2> QED
    BY <2>1, <2>2, <2>3 DEF StopTakesTheCycle, TypeOK, InCycle, InLoop
<1> QED
  BY <1>2, <1>3, <1>4, PTL
=============================================================================
