----------------------------- MODULE AtomicFile -----------------------------
(***************************************************************************)
(* How BIT persists an object: PortfolioStateStore.save and                *)
(* RunnerStateStore.write both serialise the whole object, write it to     *)
(* <path>.tmp and rename it over <path>; on any exception they unlink the  *)
(* .tmp and re-raise, and the caller (BotRunner._save_portfolio, _write)   *)
(* swallows the exception.  The process may die between any two of these   *)
(* steps, and another process (dashboard, health check) reads the file in  *)
(* two steps of its own: the stat that yields file_mtime, then the text.   *)
(***************************************************************************)
EXTENDS Naturals

CONSTANTS Value, Initial, Absent,
          Torn,         \* a file that holds a prefix of the text: unparseable
          MaxCommits    \* bound of the model: renames in one behaviour

ASSUME InitialIsValue == Initial \in Value
ASSUME AbsentIsNoValue == Absent \notin Value
ASSUME TornIsNoValue == Torn \notin Value \cup {Absent}
ASSUME MaxCommitsIsNat == MaxCommits \in Nat

VARIABLES
  mem,      \* the object in memory; Absent while no process runs
  path,     \* the content of <path>
  stamp,    \* its modification time, counted in renames
  tmp,      \* the content of <path>.tmp
  wpc,      \* where the writer is in save()
  rpc,      \* where the reader is in read()
  rstamp,   \* the file_mtime the reader got from stat; Absent if that failed
  rvalue,   \* the text it parsed
  rfresh    \* the modification time of that text

writer == <<mem, path, stamp, tmp, wpc>>
reader == <<rpc, rstamp, rvalue, rfresh>>
vars == <<mem, path, stamp, tmp, wpc, rpc, rstamp, rvalue, rfresh>>

Content == Value \cup {Absent, Torn}

TypeOK ==
  /\ mem \in Value \cup {Absent}
  /\ path \in Content
  /\ stamp \in 0..MaxCommits
  /\ tmp \in Content
  /\ wpc \in {"idle", "writing", "written", "failed", "down", "refused"}
  /\ rpc \in {"idle", "statted", "done"}
  /\ rstamp \in (0..MaxCommits) \cup {Absent}
  /\ rvalue \in Content
  /\ rfresh \in 0..MaxCommits

Init ==
  /\ mem = Initial /\ wpc = "idle"
  /\ path = Absent /\ tmp = Absent /\ stamp = 0
  /\ rpc = "idle" /\ rstamp = 0 /\ rvalue = Absent /\ rfresh = 0

-----------------------------------------------------------------------------
(* The writer.  save() runs to its end in one coroutine step: the object   *)
(* changes only between two saves.                                         *)

Mutate ==
  /\ wpc = "idle"
  /\ mem' \in Value
  /\ UNCHANGED <<path, stamp, tmp, wpc, reader>>

\* mutant: the file itself is opened for writing
OpenInPlace ==
  /\ wpc = "idle" /\ stamp < MaxCommits
  /\ path' = Torn /\ wpc' = "writing"
  /\ UNCHANGED <<mem, stamp, tmp, reader>>

\* open(tmp, "w") truncates whatever an earlier crash left there
OpenTmp ==
  /\ wpc = "idle" /\ stamp < MaxCommits
  /\ tmp' = Torn /\ wpc' = "writing"
  /\ UNCHANGED <<mem, path, stamp, reader>>

WriteTmp ==
  /\ wpc = "writing"
  /\ tmp' = mem /\ wpc' = "written"
  /\ UNCHANGED <<mem, path, stamp, reader>>

Rename ==
  /\ wpc = "written"
  /\ path' = tmp /\ stamp' = stamp + 1 /\ tmp' = Absent
  /\ wpc' = "idle"
  /\ UNCHANGED <<mem, reader>>

\* an exception from write_text or replace
SaveRaises ==
  /\ wpc \in {"writing", "written"}
  /\ wpc' = "failed"
  /\ UNCHANGED <<mem, path, stamp, tmp, reader>>

\* tmp_path.unlink(missing_ok=True), which may itself raise
Unlink ==
  /\ wpc = "failed"
  /\ tmp' \in {Absent, tmp}
  /\ wpc' = "idle"
  /\ UNCHANGED <<mem, path, stamp, reader>>

Crash ==
  /\ wpc \notin {"down", "refused"}
  /\ mem' = Absent /\ wpc' = "down"
  /\ UNCHANGED <<path, stamp, tmp, reader>>

\* mutant: a complete temporary file left behind is taken for the newer one
LoadPrefersTmp ==
  /\ wpc = "down"
  /\ mem' = CASE tmp \in Value -> tmp
             [] tmp \notin Value /\ path \in Value -> path
             [] OTHER -> Initial
  /\ wpc' = "idle"
  /\ UNCHANGED <<path, stamp, tmp, reader>>

\* PortfolioStateStore.load at start-up, as _build_portfolio uses it:
\* "ok" restores, "not_found" starts fresh, "corrupt" exits.
Load ==
  /\ wpc = "down"
  /\ mem' = CASE path \in Value -> path
             [] path = Absent -> Initial
             [] OTHER -> Absent
  /\ wpc' = IF path = Torn THEN "refused" ELSE "idle"
  /\ UNCHANGED <<path, stamp, tmp, reader>>

-----------------------------------------------------------------------------
(* The reader, in another process: RunnerStateStore.read.                  *)

StatFile ==
  /\ rpc \in {"idle", "done"} /\ path # Absent
  /\ rstamp' = stamp /\ rpc' = "statted"
  /\ UNCHANGED <<writer, rvalue, rfresh>>

\* the stat raises OSError: file_mtime is None, and the text is read anyway
StatFails ==
  /\ rpc \in {"idle", "done"} /\ path # Absent
  /\ rstamp' = Absent /\ rpc' = "statted"
  /\ UNCHANGED <<writer, rvalue, rfresh>>

\* mutant: the text of the last read is kept, only the stat is repeated
ReadCached ==
  /\ rpc = "statted"
  /\ rstamp' = stamp /\ rpc' = "done"
  /\ UNCHANGED <<writer, rvalue, rfresh>>

ReadText ==
  /\ rpc = "statted"
  /\ rvalue' = path /\ rfresh' = stamp /\ rpc' = "done"
  /\ UNCHANGED <<writer, rstamp>>

Next ==
  \/ Mutate \/ OpenTmp \/ WriteTmp \/ Rename \/ SaveRaises \/ Unlink
  \/ Crash \/ Load
  \/ StatFile \/ StatFails \/ ReadText

Spec == Init /\ [][Next]_vars

-----------------------------------------------------------------------------
(* The file at <path> is never a prefix of a state, whatever step the      *)
(* process died in and whatever the previous process left in <path>.tmp;   *)
(* so no restart ends in _build_portfolio's "corrupt" exit and no reader   *)
(* gets text that does not parse (portfolio_store.save, runner_state.read).*)
NeverTorn ==
  /\ path # Torn
  /\ wpc # "refused"
  /\ rvalue # Torn

(* The age a reader computes from file_mtime never flatters the state it   *)
(* parsed: a rename between stat and read_text makes the state look older  *)
(* than it is, never younger, if it has an age at all                      *)
(* (RunnerStateStore.read, healthcheck.main).                              *)
MtimeNeverFlatters == rpc = "done" /\ rstamp # Absent => rstamp <= rfresh

(* What makes NeverTorn and the refinement inductive: a complete temporary *)
(* file holds the object as it is now, because nothing changes it during a *)
(* save (portfolio_store.save lines 110-113).                              *)
CompleteTmpIsCurrent ==
  /\ wpc = "written" => tmp = mem
  /\ wpc \in {"idle", "writing", "written", "failed"} <=> mem # Absent
  /\ rstamp # Absent => rstamp <= stamp
  /\ wpc \in {"writing", "written"} => stamp < MaxCommits

IInv == TypeOK /\ NeverTorn /\ MtimeNeverFlatters /\ CompleteTmpIsCurrent

(* The temporary file, the failures and the reader are invisible to the    *)
(* owner: a save is one atomic commit and a restart recovers the last one  *)
(* (PortfolioStateStore save and load against "persist and restore").      *)
Durable == INSTANCE DurableValue WITH live <- mem, saved <- path
ImplementsDurableValue == Durable!Spec
=============================================================================
