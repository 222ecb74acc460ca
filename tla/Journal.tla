------------------------------ MODULE Journal ------------------------------
(***************************************************************************)
(* The journal under any sequence of successful, failing and interrupted   *)
(* record() calls, with a reader (dashboard, notebook) that may call       *)
(* read_all() between any two of them and while one is at work.  Entries   *)
(* are numbered in the order in which record() is called for them.         *)
(***************************************************************************)
EXTENDS JournalFile, Naturals, FiniteSets

CONSTANT MaxEntries     \* bound of the model: record() calls

ASSUME MaxEntriesIsNat == MaxEntries \in Nat

Entry == 1..MaxEntries

ASSUME MarkersAreNoEntries ==
  {Garbage, Mangled, Clean, Partial, Cut} \cap Entry = {}

VARIABLES file,         \* data/journal.jsonl
          next,         \* the entry of the next record() call
          acked,        \* entries whose record() returned
          seen,         \* what the last read_all() that returned gave
          aborted       \* whether the last read_all() raised, and why

journalVars == <<file, next, acked, seen, aborted>>

JournalTypeOK ==
  /\ file \in JournalFiles(Entry)
  /\ next \in 1..(MaxEntries + 1)
  /\ acked \subseteq Entry
  /\ seen \in Seq(Entry)
  /\ aborted \in {"no", "amid an append", "for good"}

JournalInit ==
  /\ file = EmptyJournal /\ next = 1
  /\ acked = {} /\ seen = << >> /\ aborted = "no"

Record ==
  /\ next <= MaxEntries
  /\ file' = Recorded(file, next)
  /\ acked' = acked \cup {next}
  /\ next' = next + 1
  /\ UNCHANGED <<seen, aborted>>

\* an exception from write or close, or the death of the process in between
RecordFails ==
  /\ next <= MaxEntries
  /\ file' \in FailedRecords(file, next)
  /\ next' = next + 1
  /\ UNCHANGED <<acked, seen, aborted>>

\* what a reader in another process may find: the file as the last record()
\* left it, or with any part of the line that the next one is appending,
\* whatever comes of that record() afterwards
Visible ==
  {file} \cup IF next <= MaxEntries THEN FailedRecords(file, next) ELSE {}

Read ==
  /\ \E f \in Visible : Decodes(f) /\ seen' = ReadAll(f)
  /\ aborted' = "no"
  /\ UNCHANGED <<file, next, acked>>

\* iterating over the file raises UnicodeDecodeError, outside the handler
ReadRaises ==
  /\ \E f \in Visible : ~Decodes(f)
  /\ aborted' = IF Decodes(file) THEN "amid an append" ELSE "for good"
  /\ UNCHANGED <<file, next, acked, seen>>

JournalNext == Record \/ RecordFails \/ Read \/ ReadRaises

JournalSpec == JournalInit /\ [][JournalNext]_journalVars

-----------------------------------------------------------------------------
(* A read_all() that returns gives every intact entry, once each, in the   *)
(* order they were recorded, at most the one that is being recorded last:  *)
(* no tear, and no append it meets half-way, duplicates, reorders or       *)
(* invents one (read_all against record).                                  *)
ReadsInOrder ==
  \A f \in Visible :
    Decodes(f) =>
      LET r == ReadAll(f)
      IN  /\ {r[i] : i \in DOMAIN r} = Intact(f)
          /\ \A i, j \in DOMAIN r : i < j => r[i] < r[j] /\ r[j] <= next

(* An entry whose record() returned has lost its line only if the record() *)
(* before it failed: a fragment swallows at most its next neighbour, and   *)
(* the line after that is whole again (record's append without rollback).  *)
OnlyANeighbourIsLost ==
  \A e \in acked \ Intact(file) : e - 1 \in Entry \ acked

(* What a reader has seen of the acknowledged entries is never damaged:    *)
(* later appends, torn or not, never reach back past a newline, and an     *)
(* entry seen while it was being appended stays when its record() returns  *)
(* (the journal is append-only, record and read_all).                      *)
SeenStaysIntact ==
  \A i \in DOMAIN seen : seen[i] \in acked => seen[i] \in Intact(file)

(* What makes these three inductive: the lines, then the tail, hold the    *)
(* entries in the order of their record() calls, all of them in the past;  *)
(* a reader knows no entry beyond the next, and that one only if its line  *)
(* began as its own; and something follows the last newline only after a   *)
(* record() failed, whose entry was not acknowledged (record's append      *)
(* without rollback).                                                      *)
InOrder(f, n) ==
  /\ \A i, j \in DOMAIN f.lines :
       i < j /\ {f.lines[i], f.lines[j]} \subseteq Entry =>
         f.lines[i] < f.lines[j]
  /\ f.tail \in Entry =>
       /\ f.tail < n
       /\ \A i \in DOMAIN f.lines :
            f.lines[i] \in Entry => f.lines[i] < f.tail

LinesInOrder == InOrder(file, next)

PastIsPast ==
  /\ \A e \in Intact(file) \cup acked : e < next
  /\ \A i \in DOMAIN seen : seen[i] <= next

SeenStandsAlone ==
  \A i \in DOMAIN seen : seen[i] = next => file.tail = Clean

TailIsOfAFailure ==
  /\ file.tail \notin acked
  /\ file.tail # Clean => next - 1 \in Entry \ acked

JournalIInv ==
  /\ JournalTypeOK /\ LinesInOrder /\ PastIsPast /\ SeenStandsAlone
  /\ TailIsOfAFailure
  /\ OnlyANeighbourIsLost /\ SeenStaysIntact

(* read_all() skips malformed lines rather than aborting                   *)
(* (services/journal.py line 52); that it may come while a line is being   *)
(* appended is left aside.                                                 *)
MalformedIsSkipped == aborted # "for good"
=============================================================================
