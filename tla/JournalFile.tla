---------------------------- MODULE JournalFile ----------------------------
(***************************************************************************)
(* The bytes of data/journal.jsonl as JournalLearningStore                 *)
(* (services/journal.py) leaves them, as operators on a file record: the   *)
(* lines that end in a newline, and what follows the last newline.  A      *)
(* record() that returns has appended the entry and its newline.  One that *)
(* raises, or whose process dies, may have appended any prefix: the file   *)
(* is opened for append and nothing is ever rolled back, so the next entry *)
(* continues on the same line.  The rationale of a decision holds          *)
(* characters of several bytes, so a prefix may end inside one; no reader  *)
(* of text can then get past that place.                                   *)
(***************************************************************************)
EXTENDS SequencesExt

CONSTANTS Garbage,    \* a line of text that is not one JSON object
          Mangled,    \* a line that is not text: a character is cut in two
          Clean,      \* nothing follows the last newline
          Partial,    \* a fragment of an entry follows it
          Cut         \* a fragment that ends inside a character

ASSUME TailsDiffer == Clean \notin {Partial, Cut}

EmptyJournal == [lines |-> << >>, tail |-> Clean]

\* JournalEntry ids, and anything else an entry may carry, are up to the user
JournalFiles(Entry) ==
  [lines : Seq(Entry \cup {Garbage, Mangled}),
   tail : Entry \cup {Clean, Partial, Cut}]

\* the line that e ends, after what the last newline is followed by
Completed(tail, e) ==
  CASE tail = Clean -> e
    [] tail = Cut -> Mangled
    [] OTHER -> Garbage

\* mutants of Recorded: a write that succeeded is retried; the newline is
\* missing; the file is opened with "w"
RecordedTwice(file, e) ==
  [lines |-> file.lines \o <<Completed(file.tail, e), e>>, tail |-> Clean]

RecordedNoNewline(file, e) ==
  [file EXCEPT !.tail = IF @ = Clean THEN e ELSE Partial]

RecordedAfresh(file, e) == [lines |-> <<e>>, tail |-> Clean]

\* record() returns
Recorded(file, e) ==
  [lines |-> Append(file.lines, Completed(file.tail, e)), tail |-> Clean]

\* what a prefix of e that is not all of its line can leave behind tail
TornTails(tail, e) ==
  CASE tail = Clean -> {Partial, Cut, e}
    [] tail = Cut -> {Cut}
    [] OTHER -> {Partial, Cut}

\* record() raises: nothing was written, or a prefix, or even all of the line,
\* if it is the close that fails
FailedRecords(file, e) ==
  {file, Recorded(file, e)}
    \cup {[file EXCEPT !.tail = t] : t \in TornTails(file.tail, e)}

\* the file is text from its first byte to its last
Decodes(file) ==
  /\ file.tail # Cut
  /\ \A i \in DOMAIN file.lines : file.lines[i] # Mangled

\* one turn of read_all's loop
KeepParsed(kept, line) == IF line = Garbage THEN kept ELSE Append(kept, line)

\* read_all() of a file that decodes skips what does not parse; the last line
\* needs no newline
ReadAll(file) ==
  FoldLeft(KeepParsed, << >>, file.lines)
    \o IF file.tail \in {Clean, Partial} THEN << >> ELSE <<file.tail>>

\* the entries that have a line to themselves
Intact(file) ==
  ({file.lines[i] : i \in DOMAIN file.lines} \cup {file.tail})
    \ {Garbage, Mangled, Clean, Partial, Cut}
=============================================================================
