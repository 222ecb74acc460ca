------------------------------- MODULE Health -------------------------------
(***************************************************************************)
(* The runner with a clock, and what two readers of its state file make of *)
(* it: the container health check (healthcheck.py), healthy if the file    *)
(* says "running" and was written within three run intervals, and the      *)
(* dashboard (dashboard/service.py), which shows a running loop if it was  *)
(* written within one interval and a grace period.  Time passes at the     *)
(* awaits, each of which is bounded (HTTP timeouts, wait_for), and while   *)
(* no process runs; the code between two awaits takes none.                *)
(***************************************************************************)
EXTENDS Runner, Naturals

CONSTANTS Interval,     \* config.run_interval_seconds, in clock ticks
          RunTime,      \* the longest pipeline run
          CheckTime,    \* the longest credential check
          Grace         \* the 60 s the dashboard adds to the interval

Multiplier == 3         \* _STALE_MULTIPLIER

Window == Multiplier * Interval

ASSUME TimesAreTicks ==
  /\ Interval \in Nat \ {0} /\ Grace \in Nat \ {0}
  /\ RunTime \in Nat /\ CheckTime \in Nat

\* at the default 300 s interval, three symbols of five 10 s requests take
\* at most 150 s
ASSUME CycleFitsTwoIntervals == Len(Symbols) * RunTime <= 2 * Interval
ASSUME CycleFitsTheGrace == Len(Symbols) * RunTime < Interval + Grace

VARIABLES age,          \* since the state file was written (its mtime)
          waited,       \* since the current await began
          idleFor,      \* since a process was last inside the loop
          asked,        \* since stop() was first called in this process
          missed        \* writes that failed since the last that succeeded

clocks == <<age, waited, idleFor, asked, missed>>
allVars == <<vars, clocks>>

Ceiling == Window + 1   \* all clocks stop here: bound of the model

Later(n) == IF n < Ceiling THEN n + 1 ELSE Ceiling

HealthInit ==
  /\ Init
  /\ age = Ceiling /\ waited = 0 /\ idleFor = Ceiling /\ asked = 0 /\ missed = 0

Patience ==
  CASE pc = "validating" -> CheckTime
    [] pc = "pipeline" -> RunTime
    [] pc = "sleeping" -> Interval
    [] OTHER -> 0

\* mutant: the sleep does not wait for the event
SleepOverInTime == waited = Interval

\* wait_for's answer or its timeout
SleepOver == stopEvent \/ waited = Interval

Tick ==
  /\ pc = "down" \/ waited < Patience
  /\ pc = "sleeping" => ~SleepOver
  /\ age' = Later(age)
  /\ waited' = IF pc = "down" THEN 0 ELSE waited + 1
  /\ idleFor' = IF pc \in InLoop THEN 0 ELSE Later(idleFor)
  /\ asked' = IF stopEvent THEN Later(asked) ELSE 0
  /\ UNCHANGED <<vars, missed>>

\* a write that succeeds sets the file's mtime
Stamp(ok) ==
  /\ age' = IF ok THEN 0 ELSE age
  /\ missed' = IF ok THEN 0 ELSE IF missed < 2 THEN missed + 1 ELSE 2

Settle ==
  /\ waited' = IF pc' = pc THEN waited ELSE 0
  /\ idleFor' = IF pc' \in InLoop THEN 0 ELSE idleFor
  /\ asked' = IF stopEvent' THEN asked ELSE 0

\* without a stop request the sleep lasts the interval
OnTime == pc = "sleeping" => SleepOver

\* what start() does next when its time has come
TimedCoroutine ==
  \/ \E ok \in BOOLEAN : StartWrites(ok) /\ Stamp(ok) /\ Settle
  \/ StartIsQuiet /\ OnTime /\ Settle /\ UNCHANGED <<age, missed>>

HealthNext ==
  \/ Tick
  \/ TimedCoroutine
  \/ \E ok \in BOOLEAN : (LoopRaises(ok) \/ Stop(ok)) /\ Stamp(ok) /\ Settle
  \/ (Build \/ Die \/ Cancel) /\ Settle /\ UNCHANGED <<age, missed>>

HealthSpec == HealthInit /\ [][HealthNext]_allVars

(* start() goes on until it is through or killed: every await of it ends,  *)
(* the requests by the HTTP client's timeout, the sleep by wait_for's, and *)
(* time passes while it waits.                                             *)
FairHealthSpec ==
  HealthSpec /\ WF_allVars(TimedCoroutine \/ (pc # "down" /\ Tick))

-----------------------------------------------------------------------------
\* mutant: the age of the file is not looked at
HealthyAtAnyAge(statted) == file # Nothing /\ file.status = "running"

\* healthcheck.main exits 0; a file whose stat failed has no age, and the
\* check of the age is skipped
Healthy(statted) ==
  /\ file # Nothing
  /\ file.status = "running"
  /\ statted => age <= Window

\* mutant: the sleep between two cycles is forgotten
LoopRunningWithoutGrace(statted) ==
  file # Nothing /\ file.status = "running" /\ statted /\ age < Interval

\* DashboardSnapshot.loop_running, which is false without an age
LoopRunning(statted) ==
  file # Nothing /\ file.status = "running" /\ statted /\ age < Interval + Grace

\* ReadinessEvaluator._check_scheduler, which has no age to look at
Scheduler ==
  CASE file = Nothing -> "MISSING"
    [] file # Nothing /\ file.status = "running" -> "READY"
    [] file # Nothing /\ file.status = "error" -> "MISSING"
    [] OTHER -> "WARNING"

\* what the runs of this cycle, the current one apart, may have taken
Spent == (Len(Symbols) - Len(todo)) * RunTime

\* the longest a whole cycle takes
CycleTime == Len(Symbols) * RunTime

\* since start() last wrote, or tried to
SinceWrite ==
  CASE pc = "loop" -> Interval
    [] pc \in InCycle -> Spent + waited
    [] OTHER -> waited

\* since it tried the time before
SincePrevious ==
  CASE pc = "loop" -> CycleTime + Interval
    [] pc \in InCycle -> Interval + Spent + waited
    [] OTHER -> CycleTime + waited

ClocksRun ==
  /\ age \in 0..Ceiling /\ waited \in 0..Patience /\ missed \in 0..2
  /\ Len(todo) <= Len(Symbols)

\* while no write failed since, the file says what memory says
FileFollows ==
  pc \notin {"down", "built"} /\ missed = 0 => file = mem

(* In the loop no two attempts to write are further apart than a cycle or  *)
(* a sleep (_run_cycle's two writes).                                      *)
WritesAreClose ==
  pc \in InLoop /\ mem.status = "running" =>
    /\ missed = 0 => age <= SinceWrite
    /\ missed = 1 /\ file # Nothing /\ file.status = "running" =>
         age <= SincePrevious

(* A bot inside its loop that nobody asked to stop is healthy at every     *)
(* moment, also in the middle of a cycle and of the sleep: the writes at   *)
(* the start and the end of a cycle are close enough, and one of them, or  *)
(* the reader's stat, may even fail.  As long as no write does, the        *)
(* dashboard shows the loop running, if it can stat the file, and its      *)
(* readiness list agrees (healthcheck.main, build_snapshot and             *)
(* _check_scheduler against _run_cycle and start).                         *)
LiveBotIsHealthy ==
  pc \in InLoop /\ mem.status = "running" =>
    /\ missed = 0 =>
         LoopRunning(TRUE) /\ Scheduler = "READY" /\ \A s \in BOOLEAN : Healthy(s)
    /\ missed = 1 /\ file # Nothing /\ file.status = "running" =>
         \A s \in BOOLEAN : Healthy(s)

\* both clocks run together while a process is outside the loop
RunningFileIsRecent ==
  /\ age \in 0..Ceiling /\ idleFor \in 0..Ceiling
  /\ file # Nothing /\ file.status = "running" => idleFor <= age

(* Both verdicts mean that some process was inside the loop within their   *)
(* window: a dead, cancelled, stopped or endlessly restarting bot does not *)
(* stay healthy, or shown as running, on the state file a previous process *)
(* left behind, as long as the health check can stat that file             *)
(* (healthcheck.main, loop_running, start's first write).                  *)
VerdictsMeanRecentLoop ==
  /\ Healthy(TRUE) => idleFor <= Window
  /\ \A s \in BOOLEAN : LoopRunning(s) => idleFor < Interval + Grace

(* How long start() has gone on since stop() was called fits where it is:  *)
(* only the await that stop() met and the rest of that cycle take time.    *)
StopTakesTheCycle ==
  /\ asked \in 0..Ceiling
  /\ pc = "down" => ~stopEvent
  /\ ~stopEvent \/ pc \in {"built", "configured"} => asked = 0
  /\ pc = "validating" => asked <= waited
  /\ pc \in InCycle => asked <= Spent + waited
  /\ pc \in {"saveEnd", "sleeping"} => asked <= CycleTime
  /\ pc \in {"loop", "finally", "exited"} =>
       asked <= CycleTime \/ asked <= CheckTime

(* A stop request is answered within the current cycle, or the credential  *)
(* check, and never has to sit out the sleep between two cycles, whether   *)
(* the event was set before the wait began or during it (start's wait_for  *)
(* on the event, stop's "after the current cycle completes").              *)
StopIsPrompt == stopEvent => asked <= CycleTime \/ asked <= CheckTime
=============================================================================
