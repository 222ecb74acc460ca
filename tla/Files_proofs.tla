---------------------------- MODULE Files_proofs ----------------------------
(***************************************************************************)
(* What the files promise their readers.  The state files, for every set   *)
(* of values and every number of renames: never torn, and an atomic commit *)
(* to whoever owns the object.  The journal, for any number of entries:    *)
(* whatever sequence of successful, failing and interrupted record() calls *)
(* wrote it, a read_all() that returns gives exactly the entries that have *)
(* a line to themselves, in order; a tear costs at most its neighbour; and *)
(* what was seen stays.                                                    *)
(***************************************************************************)
EXTENDS AtomicFile, Journal, Books_proofs

-----------------------------------------------------------------------------
(* The state files: write to <path>.tmp, then rename *)

(* The inductive invariant holds initially: no file, an idle writer.       *)
LEMMA InitIInv == Init => IInv
BY InitialIsValue, AbsentIsNoValue, TornIsNoValue, MaxCommitsIsNat
   DEF Init, IInv, TypeOK, NeverTorn, MtimeNeverFlatters,
       CompleteTmpIsCurrent, Content

(* Every step of the writer, of the crash and restart, and of the reader   *)
(* preserves the inductive invariant.                                      *)
LEMMA StepIInv == IInv /\ [Next]_vars => IInv'
<1> SUFFICES ASSUME IInv, [Next]_vars PROVE IInv'
  OBVIOUS
<1> USE InitialIsValue, AbsentIsNoValue, TornIsNoValue, MaxCommitsIsNat
<1> USE DEF IInv, TypeOK, NeverTorn, MtimeNeverFlatters,
            CompleteTmpIsCurrent, Content, reader, writer
<1>1. CASE Mutate
  BY <1>1 DEF Mutate
<1>2. CASE OpenTmp
  BY <1>2 DEF OpenTmp
<1>3. CASE WriteTmp
  BY <1>3 DEF WriteTmp
<1>4. CASE Rename
  <2>1. stamp' \in 0..MaxCommits /\ (rstamp # Absent => rstamp <= stamp')
    BY <1>4 DEF Rename
  <2> QED BY <1>4, <2>1 DEF Rename
<1>5. CASE SaveRaises
  BY <1>5 DEF SaveRaises
<1>6. CASE Unlink
  BY <1>6 DEF Unlink
<1>7. CASE Crash
  BY <1>7 DEF Crash
<1>8. CASE Load
  BY <1>8 DEF Load
<1>9. CASE StatFile
  BY <1>9 DEF StatFile
<1>10. CASE ReadText \/ StatFails
  BY <1>10 DEF ReadText, StatFails
<1>11. CASE UNCHANGED vars
  BY <1>11 DEF vars
<1> QED
  BY <1>1, <1>2, <1>3, <1>4, <1>5, <1>6, <1>7, <1>8, <1>9, <1>10, <1>11
     DEF Next

(* Type correctness and the strengthening, in every reachable state.       *)
THEOREM Inductive == Spec => []IInv
<1>1. Init => IInv BY InitIInv
<1>2. IInv /\ [Next]_vars => IInv' BY StepIInv
<1> QED BY <1>1, <1>2, PTL DEF Spec

(* The state file never holds a prefix of a state, no restart is refused   *)
(* for a corrupt file, and no reader parses a torn text                    *)
(* (PortfolioStateStore.save / load, RunnerStateStore.write / read).       *)
THEOREM FileNeverTorn == Spec => []NeverTorn
<1>1. IInv => NeverTorn BY DEF IInv
<1> QED BY <1>1, Inductive, PTL

(* The file_mtime a reader reports is never newer than the state it parsed *)
(* (RunnerStateStore.read).                                                *)
THEOREM MtimeIsConservative == Spec => []MtimeNeverFlatters
<1>1. IInv => MtimeNeverFlatters BY DEF IInv
<1> QED BY <1>1, Inductive, PTL

(* Every step of the protocol is a step of the abstract durable value or   *)
(* leaves it alone: the rename is the commit, load is the recovery.        *)
LEMMA StepRefines == IInv /\ [Next]_vars => [Durable!Next]_(Durable!vars)
<1> SUFFICES ASSUME IInv, [Next]_vars PROVE [Durable!Next]_(Durable!vars)
  OBVIOUS
<1> USE InitialIsValue, AbsentIsNoValue, TornIsNoValue
<1> USE DEF IInv, TypeOK, NeverTorn, CompleteTmpIsCurrent, Content,
            Durable!vars, reader, writer
<1>1. CASE Mutate
  <2>1. Durable!Mutate BY <1>1 DEF Mutate, Durable!Mutate
  <2> QED BY <2>1 DEF Durable!Next
<1>2. CASE OpenTmp \/ WriteTmp \/ SaveRaises \/ Unlink \/ StatFile \/ StatFails
             \/ ReadText
  BY <1>2 DEF OpenTmp, WriteTmp, SaveRaises, Unlink, StatFile, StatFails, ReadText
<1>3. CASE Rename
  <2>1. Durable!Commit BY <1>3 DEF Rename, Durable!Commit
  <2> QED BY <2>1 DEF Durable!Next
<1>4. CASE Crash
  <2>1. Durable!Crash BY <1>4 DEF Crash, Durable!Crash
  <2> QED BY <2>1 DEF Durable!Next
<1>5. CASE Load
  <2>1. Durable!Recover BY <1>5 DEF Load, Durable!Recover
  <2> QED BY <2>1 DEF Durable!Next
<1>6. CASE UNCHANGED vars
  BY <1>6 DEF vars
<1> QED BY <1>1, <1>2, <1>3, <1>4, <1>5, <1>6 DEF Next

(* write-then-rename with restart from the renamed file implements the     *)
(* abstract durable value, for every value set and bound.                  *)
THEOREM Refinement == Spec => ImplementsDurableValue
<1>1. Init => Durable!Init
  BY DEF Init, Durable!Init
<1>2. IInv /\ [Next]_vars => [Durable!Next]_(Durable!vars)
  BY StepRefines
<1> QED
  BY <1>1, <1>2, Inductive, PTL DEF Spec, ImplementsDurableValue, Durable!Spec

-----------------------------------------------------------------------------
(* The journal: append without rollback *)

\* entries are numbers, and no marker is one
LEMMA EntriesApart == MarkersApart(Entry)
BY MarkersAreNoEntries DEF MarkersApart

-----------------------------------------------------------------------------
(* The invariant *)

LEMMA InitJournalIInv == JournalInit => JournalIInv
<1> SUFFICES ASSUME JournalInit PROVE JournalIInv
  OBVIOUS
<1>1. /\ file = [lines |-> << >>, tail |-> Clean] /\ next = 1
      /\ acked = {} /\ seen = << >> /\ aborted = "no"
  BY DEF JournalInit, EmptyJournal
<1>2. DOMAIN << >> = {} /\ file.lines = << >> /\ file.tail = Clean
  BY <1>1
<1>3. Intact(file) = {} /\ Clean \notin Entry
  BY <1>2, MarkersAreNoEntries DEF Intact
<1>4. JournalTypeOK
  <2>1. next \in 1..(MaxEntries + 1)
    BY <1>1, MaxEntriesIsNat
  <2>2. << >> \in Seq(Entry) /\ << >> \in Seq(Entry \cup {Garbage, Mangled})
    OBVIOUS
  <2>3. file \in JournalFiles(Entry)
    BY <1>1, <2>2 DEF JournalFiles
  <2> QED
    BY <1>1, <2>1, <2>2, <2>3 DEF JournalTypeOK
<1>5. LinesInOrder /\ PastIsPast /\ SeenStandsAlone /\ TailIsOfAFailure
  BY <1>1, <1>2, <1>3
     DEF LinesInOrder, InOrder, PastIsPast, SeenStandsAlone, TailIsOfAFailure
<1>6. OnlyANeighbourIsLost /\ SeenStaysIntact
  BY <1>1, <1>2 DEF OnlyANeighbourIsLost, SeenStaysIntact
<1> QED
  BY <1>4, <1>5, <1>6 DEF JournalIInv

(* The types of what a record() and a reader work on.                      *)
LEMMA JournalTypes ==
  ASSUME JournalIInv
  PROVE  /\ file \in JournalFiles(Entry) /\ acked \subseteq Entry
         /\ seen \in Seq(Entry)
         /\ next \in Nat /\ Entry \subseteq Nat
         /\ next <= MaxEntries => next \in Entry
         /\ next \in Entry =>
              next + 1 \in Nat /\ next + 1 \in 1..(MaxEntries + 1)
<1>1. JournalTypeOK
  BY DEF JournalIInv
<1>2. next \in 1..(MaxEntries + 1)
  BY <1>1 DEF JournalTypeOK
<1>3. /\ next \in Nat /\ 1..MaxEntries \subseteq Nat
      /\ next <= MaxEntries => next \in 1..MaxEntries
      /\ next \in 1..MaxEntries =>
           next + 1 \in Nat /\ next + 1 \in 1..(MaxEntries + 1)
  BY <1>2, MaxEntriesIsNat
<1>4. file \in JournalFiles(Entry) /\ acked \subseteq Entry /\ seen \in Seq(Entry)
  BY <1>1 DEF JournalTypeOK
<1> QED
  BY <1>3, <1>4 DEF Entry

(* Whatever a record() appends, the lines and the tail stay in the order   *)
(* of the calls, no acknowledged entry loses its line, and only its own    *)
(* entry is new.                                                           *)
LEMMA AppendKeepsOrder ==
  ASSUME JournalIInv, next \in Entry, NEW f \in FailedRecords(file, next)
  PROVE  /\ f \in JournalFiles(Entry)
         /\ InOrder(f, next + 1)
         /\ Intact(f) \subseteq Intact(file) \cup {next}
         /\ next \in Intact(f) => file.tail = Clean
         /\ acked \cap Intact(file) \subseteq Intact(f)
         /\ f.tail \notin acked
<1> DEFINE n == Len(file.lines)
           last == Completed(file.tail, next)
<1>1. /\ file \in JournalFiles(Entry) /\ next \in Nat /\ MarkersApart(Entry)
      /\ acked \subseteq Entry /\ Entry \subseteq Nat
      /\ Clean \notin Entry /\ Garbage \notin Entry /\ Mangled \notin Entry
  BY EntriesApart, MarkersAreNoEntries, JournalTypes
<1>2. /\ f \in JournalFiles(Entry)
      /\ \/ f = Recorded(file, next)
         \/ /\ f.lines = file.lines
            /\ f.tail \in Entry =>
                 f.tail = file.tail \/ (f.tail = next /\ file.tail = Clean)
  BY <1>1, FailedFacts
<1>3. /\ Intact(file) = (LineValues(file) \cup {file.tail}) \cap Entry
      /\ Intact(f) = (LineValues(f) \cup {f.tail}) \cap Entry
  BY <1>1, <1>2, IntactIsEntries
<1>4. /\ file.tail \notin acked
      /\ next \notin acked /\ \A e \in Intact(file) \cup acked : e < next
  BY <1>1 DEF JournalIInv, PastIsPast, TailIsOfAFailure
<1>5. next \notin Intact(file)
  BY <1>1, <1>4
<1>6. CASE f = Recorded(file, next)
  <2>1. /\ f.tail = Clean
        /\ n \in Nat /\ DOMAIN file.lines = 1..n /\ DOMAIN f.lines = 1..(n + 1)
        /\ \A i \in 1..n : f.lines[i] = file.lines[i]
        /\ f.lines[n + 1] = last
        /\ last \in {next, Garbage, Mangled}
        /\ last = next => file.tail = Clean
    BY <1>1, <1>6, RecordedFacts DEF Completed
  <2> HIDE DEF n, last
  <2>2. LineValues(f) = LineValues(file) \cup {last}
    <3>1. n + 1 \in DOMAIN f.lines
      BY <2>1
    <3>2. LineValues(file) \subseteq LineValues(f) /\ last \in LineValues(f)
      BY <2>1, <3>1 DEF LineValues
    <3>3. ASSUME NEW i \in DOMAIN f.lines
          PROVE  f.lines[i] \in LineValues(file) \cup {last}
      <4>1. i \in 1..n \/ i = n + 1
        BY <2>1
      <4> QED
        BY <2>1, <4>1 DEF LineValues
    <3> QED
      BY <3>2, <3>3 DEF LineValues
  <2>3. /\ Intact(f) \subseteq Intact(file) \cup {next}
        /\ next \in Intact(f) => file.tail = Clean
        /\ acked \cap Intact(file) \subseteq Intact(f)
        /\ f.tail \notin acked
    BY <1>1, <1>3, <1>4, <1>5, <2>1, <2>2
  <2>4. ASSUME NEW i \in DOMAIN f.lines, NEW j \in DOMAIN f.lines, i < j,
               f.lines[i] \in Entry, f.lines[j] \in Entry
        PROVE  f.lines[i] < f.lines[j]
    <3>1. i \in 1..n /\ f.lines[i] = file.lines[i]
      BY <2>1, <2>4
    <3>2. CASE j \in 1..n
      BY <2>1, <2>4, <3>1, <3>2 DEF JournalIInv, LinesInOrder, InOrder
    <3>3. CASE j = n + 1
      <4>1. f.lines[j] = next
        BY <1>1, <2>1, <2>4, <3>3
      <4>2. file.lines[i] \in Intact(file)
        BY <1>3, <2>1, <2>4, <3>1 DEF LineValues
      <4> QED
        BY <1>4, <3>1, <4>1, <4>2
    <3> QED
      BY <2>1, <3>2, <3>3
  <2>5. InOrder(f, next + 1)
    BY <1>1, <2>1, <2>4 DEF InOrder
  <2> QED
    BY <1>2, <2>3, <2>5
<1>7. CASE /\ f.lines = file.lines
           /\ f.tail \in Entry =>
                f.tail = file.tail \/ (f.tail = next /\ file.tail = Clean)
  <2>1. LineValues(f) = LineValues(file)
    BY <1>7 DEF LineValues
  <2>2. /\ Intact(f) \subseteq Intact(file) \cup {next}
        /\ next \in Intact(f) => file.tail = Clean
        /\ acked \cap Intact(file) \subseteq Intact(f)
        /\ f.tail \notin acked
    BY <1>1, <1>3, <1>4, <1>5, <1>7, <2>1
  <2>3. \A i, j \in DOMAIN f.lines :
          i < j /\ {f.lines[i], f.lines[j]} \subseteq Entry =>
            f.lines[i] < f.lines[j]
    BY <1>7 DEF JournalIInv, LinesInOrder, InOrder
  <2>4. ASSUME f.tail \in Entry
        PROVE  /\ f.tail < next + 1
               /\ \A i \in DOMAIN f.lines :
                    f.lines[i] \in Entry => f.lines[i] < f.tail
    <3>1. CASE f.tail = file.tail
      <4>1. file.tail < next /\ file.tail \in Nat
        BY <1>1, <2>4, <3>1 DEF JournalIInv, LinesInOrder, InOrder
      <4> QED
        BY <1>1, <1>7, <2>4, <3>1, <4>1 DEF JournalIInv, LinesInOrder, InOrder
    <3>2. CASE f.tail = next
      <4>1. \A i \in DOMAIN file.lines :
              file.lines[i] \in Entry => file.lines[i] < next
        BY <1>3, <1>4 DEF LineValues
      <4> QED
        BY <1>1, <1>7, <3>2, <4>1
    <3> QED
      BY <1>7, <2>4, <3>1, <3>2
  <2> QED
    BY <1>2, <2>2, <2>3, <2>4 DEF InOrder
<1> QED
  BY <1>2, <1>6, <1>7

\* what a step leaves of the reader and of the acknowledged entries, when the
\* record() of next is over and f is the file
Over(f) ==
  /\ file' = f /\ f \in FailedRecords(file, next) /\ next \in Entry
  /\ next' = next + 1 /\ seen' = seen /\ aborted' = aborted
  /\ \/ acked' = acked
     \/ f = Recorded(file, next) /\ acked' = acked \cup {next}

(* A record() that is over, however it ended, keeps the inductive          *)
(* invariant.                                                              *)
LEMMA OverKeeps == JournalIInv /\ Over(file') => JournalIInv'
<1> SUFFICES ASSUME JournalIInv, Over(file') PROVE JournalIInv'
  OBVIOUS
<1>1. /\ file \in JournalFiles(Entry) /\ next \in Entry /\ next \in Nat
      /\ acked \subseteq Entry /\ Entry \subseteq Nat
      /\ next' = next + 1 /\ next' \in Nat /\ seen' = seen
  BY JournalTypes DEF Over
<1>2. /\ file' \in JournalFiles(Entry)
      /\ InOrder(file', next + 1)
      /\ Intact(file') \subseteq Intact(file) \cup {next}
      /\ next \in Intact(file') => file.tail = Clean
      /\ acked \cap Intact(file) \subseteq Intact(file')
      /\ file'.tail \notin acked
  BY <1>1, AppendKeepsOrder DEF Over
<1>3. acked' = acked \/ acked' = acked \cup {next}
  BY DEF Over
<1>4. ASSUME acked' # acked
      PROVE  /\ file'.tail = Clean
             /\ file.tail = Clean => next \in Intact(file')
  <2>1. /\ file'.tail = Clean
        /\ file'.lines[Len(file.lines) + 1] = Completed(file.tail, next)
        /\ Len(file.lines) + 1 \in DOMAIN file'.lines
        /\ file.tail = Clean => Completed(file.tail, next) = next
    <3>1. file' = Recorded(file, next)
      BY <1>4 DEF Over
    <3>2. LET r == Recorded(file, next)
              n == Len(file.lines)
          IN  /\ r.tail = Clean /\ n \in Nat /\ DOMAIN r.lines = 1..(n + 1)
              /\ r.lines[n + 1] = Completed(file.tail, next)
              /\ file.tail = Clean => Completed(file.tail, next) = next
      BY <1>1, EntriesApart, RecordedFacts
    <3> QED
      BY <3>1, <3>2
  <2>2. Intact(file') = (LineValues(file') \cup {file'.tail}) \cap Entry
    BY <1>2, IntactIsEntries, EntriesApart
  <2> QED
    BY <1>1, <2>1, <2>2 DEF LineValues
<1>5. next \notin acked /\ \A e \in Intact(file) \cup acked : e < next
  BY <1>1 DEF JournalIInv, PastIsPast
<1>6. \A i \in DOMAIN seen : seen[i] \in Nat /\ seen[i] <= next /\ seen[i] \in Entry
  <2>1. seen \in Seq(Entry)
    BY DEF JournalIInv, JournalTypeOK
  <2>2. \A i \in DOMAIN seen : seen[i] \in Entry
    BY <2>1
  <2> QED
    BY <1>1, <2>2 DEF JournalIInv, PastIsPast
<1>7. JournalTypeOK'
  <2>1. next' \in 1..(MaxEntries + 1)
    BY <1>1, JournalTypes
  <2> QED
    BY <1>1, <1>2, <1>3, <2>1 DEF JournalIInv, JournalTypeOK, Over
<1>8. LinesInOrder'
  BY <1>1, <1>2 DEF LinesInOrder
<1>9. PastIsPast'
  <2>1. ASSUME NEW e \in Intact(file') \cup acked' PROVE e < next'
    <3>1. e = next \/ e \in Intact(file) \cup acked
      BY <1>2, <1>3
    <3>2. e \in Nat
      <4>1. Intact(file) \subseteq Entry
        BY <1>1, IntactIsEntries, EntriesApart
      <4> QED
        BY <1>1, <3>1, <4>1
    <3> QED
      BY <1>1, <1>5, <3>1, <3>2
  <2> QED
    BY <1>1, <1>6, <2>1 DEF PastIsPast
<1>10. SeenStandsAlone'
  BY <1>1, <1>6 DEF SeenStandsAlone
<1>11. TailIsOfAFailure'
  <2>1. CASE acked' = acked
    BY <1>1, <1>2, <1>5, <2>1 DEF TailIsOfAFailure
  <2>2. CASE acked' # acked
    BY <1>1, <1>3, <1>4, <2>2, MarkersAreNoEntries DEF TailIsOfAFailure
  <2> QED
    BY <2>1, <2>2
<1>12. OnlyANeighbourIsLost'
  <2> SUFFICES ASSUME NEW e \in acked' \ Intact(file')
               PROVE  e - 1 \in Entry \ acked'
    BY DEF OnlyANeighbourIsLost, Entry
  <2>1. CASE e = next
    <3>1. file.tail # Clean
      BY <1>4, <1>5, <2>1
    <3>2. next - 1 \in Entry \ acked
      BY <3>1 DEF JournalIInv, TailIsOfAFailure
    <3> QED
      BY <1>1, <1>3, <2>1, <3>2
  <2>2. CASE e # next
    <3>1. e \in acked \ Intact(file)
      BY <1>2, <1>3, <2>2
    <3>2. e - 1 \in Entry \ acked /\ e < next /\ e \in Nat
      BY <1>1, <3>1 DEF JournalIInv, OnlyANeighbourIsLost, PastIsPast
    <3> QED
      BY <1>1, <1>3, <3>2
  <2> QED
    BY <2>1, <2>2
<1>13. SeenStaysIntact'
  <2> SUFFICES ASSUME NEW i \in DOMAIN seen, seen[i] \in acked'
               PROVE  seen[i] \in Intact(file')
    BY <1>1 DEF SeenStaysIntact
  <2>1. CASE seen[i] = next
    <3>1. file.tail = Clean
      BY <2>1 DEF JournalIInv, SeenStandsAlone
    <3> QED
      BY <1>4, <1>5, <2>1, <3>1
  <2>2. CASE seen[i] # next
    BY <1>2, <1>3, <2>2 DEF JournalIInv, SeenStaysIntact
  <2> QED
    BY <2>1, <2>2
<1> QED
  BY <1>7, <1>8, <1>9, <1>10, <1>11, <1>12, <1>13 DEF JournalIInv

(* A record(), whether it returns or raises, is over.                      *)
LEMMA RecordIsOver == JournalIInv /\ (Record \/ RecordFails) => Over(file')
<1> SUFFICES ASSUME JournalIInv, Record \/ RecordFails PROVE Over(file')
  OBVIOUS
<1>1. next \in Entry
  BY JournalTypes DEF Record, RecordFails
<1>2. CASE Record
  BY <1>1, <1>2 DEF Record, Over, FailedRecords
<1>3. CASE RecordFails
  BY <1>1, <1>3 DEF RecordFails, Over
<1> QED
  BY <1>2, <1>3

(* What a reader may find: entries in order, the next one only on a line   *)
(* of its own.                                                             *)
LEMMA VisibleIsInOrder ==
  ASSUME JournalIInv, NEW f \in Visible
  PROVE  /\ f \in JournalFiles(Entry)
         /\ InOrder(f, next + 1)
         /\ \A e \in Intact(f) :
              /\ e \in Entry /\ e \in Nat /\ e <= next
              /\ e \in Intact(file) \/ (e = next /\ file.tail = Clean)
<1>1. file \in JournalFiles(Entry) /\ next \in Nat /\ Entry \subseteq Nat
  BY JournalTypes
<1>2. \A e \in Intact(file) : e \in Nat /\ e < next
  <2>1. Intact(file) \subseteq Entry
    BY <1>1, IntactIsEntries, EntriesApart
  <2> QED
    BY <1>1, <2>1 DEF JournalIInv, PastIsPast
<1>3. CASE f = file
  <2>1. file.tail \in Entry => file.tail \in Nat /\ file.tail < next
    BY <1>1 DEF JournalIInv, LinesInOrder, InOrder
  <2>2. InOrder(file, next + 1)
    BY <1>1, <2>1 DEF JournalIInv, LinesInOrder, InOrder
  <2>3. Intact(file) \subseteq Entry
    BY <1>1, IntactIsEntries, EntriesApart
  <2> QED
    BY <1>1, <1>2, <1>3, <2>2, <2>3
<1>4. CASE next <= MaxEntries /\ f \in FailedRecords(file, next)
  <2>1. next \in Entry
    BY <1>4, JournalTypes
  <2>2. /\ f \in JournalFiles(Entry)
        /\ InOrder(f, next + 1)
        /\ Intact(f) \subseteq Intact(file) \cup {next}
        /\ next \in Intact(f) => file.tail = Clean
    BY <1>4, <2>1, AppendKeepsOrder
  <2>3. Intact(f) \subseteq Entry
    BY <2>2, IntactIsEntries, EntriesApart
  <2> QED
    BY <1>1, <1>2, <2>2, <2>3
<1> QED
  BY <1>3, <1>4 DEF Visible

(* A reader, answered or refused, keeps the inductive invariant.          *)
LEMMA ReadKeeps == JournalIInv /\ (Read \/ ReadRaises) => JournalIInv'
<1> SUFFICES ASSUME JournalIInv, Read \/ ReadRaises PROVE JournalIInv'
  OBVIOUS
<1>1. /\ file' = file /\ next' = next /\ acked' = acked
      /\ aborted' \in {"no", "amid an append", "for good"}
  BY DEF Read, ReadRaises
<1>2. seen' = seen \/ \E f \in Visible : seen' = ReadAll(f) /\ Decodes(f)
  BY DEF Read, ReadRaises
<1>3. /\ seen' \in Seq(Entry)
      /\ \A i \in DOMAIN seen' : seen'[i] <= next
      /\ \A i \in DOMAIN seen' : seen'[i] = next => file.tail = Clean
      /\ \A i \in DOMAIN seen' : seen'[i] \in acked => seen'[i] \in Intact(file)
  <2>1. CASE seen' = seen
    BY <2>1 DEF JournalIInv, JournalTypeOK, PastIsPast, SeenStandsAlone,
                SeenStaysIntact
  <2>2. ASSUME NEW f \in Visible, seen' = ReadAll(f), Decodes(f)
        PROVE  /\ seen' \in Seq(Entry)
               /\ \A i \in DOMAIN seen' : seen'[i] <= next
               /\ \A i \in DOMAIN seen' : seen'[i] = next => file.tail = Clean
               /\ \A i \in DOMAIN seen' :
                    seen'[i] \in acked => seen'[i] \in Intact(file)
    <3>1. /\ f \in JournalFiles(Entry)
          /\ \A e \in Intact(f) :
               /\ e <= next
               /\ e \in Intact(file) \/ (e = next /\ file.tail = Clean)
      BY VisibleIsInOrder
    <3>2. /\ seen' \in Seq(Entry) /\ {seen'[i] : i \in DOMAIN seen'} = Intact(f)
      BY <2>2, <3>1, ReadFacts, EntriesApart
    <3>3. \A i \in DOMAIN seen' : seen'[i] \in Intact(f)
      BY <3>2
    <3>4. next \notin Intact(file) /\ next \notin acked
      <4>1. next \in Nat
        BY JournalTypes
      <4> QED
        BY <4>1 DEF JournalIInv, PastIsPast
    <3> QED
      BY <3>1, <3>2, <3>3, <3>4
  <2> QED
    BY <1>2, <2>1, <2>2
<1>4. JournalTypeOK'
  BY <1>1, <1>3 DEF JournalIInv, JournalTypeOK
<1>5. LinesInOrder' /\ TailIsOfAFailure' /\ OnlyANeighbourIsLost'
  BY <1>1 DEF JournalIInv, LinesInOrder, InOrder, TailIsOfAFailure, OnlyANeighbourIsLost
<1>6. PastIsPast' /\ SeenStandsAlone' /\ SeenStaysIntact'
  BY <1>1, <1>3 DEF JournalIInv, PastIsPast, SeenStandsAlone, SeenStaysIntact
<1> QED
  BY <1>4, <1>5, <1>6 DEF JournalIInv

(* A step that changes nothing keeps the inductive invariant.             *)
LEMMA StutterKeeps == JournalIInv /\ UNCHANGED journalVars => JournalIInv'
BY DEF journalVars, JournalIInv, JournalTypeOK, LinesInOrder, InOrder, PastIsPast,
       SeenStandsAlone, TailIsOfAFailure, OnlyANeighbourIsLost, SeenStaysIntact

(* Lines and tail are in the order of the record() calls, something after  *)
(* the last newline is the mark of a failure, nothing that was             *)
(* acknowledged stands there, and a reader is at most one entry ahead.     *)
THEOREM JournalInductive == JournalSpec => []JournalIInv
<1>1. JournalInit => JournalIInv BY InitJournalIInv
<1>2. JournalIInv /\ [JournalNext]_journalVars => JournalIInv'
  BY RecordIsOver, OverKeeps, ReadKeeps, StutterKeeps DEF JournalNext
<1> QED BY <1>1, <1>2, PTL DEF JournalSpec

-----------------------------------------------------------------------------
(* However many record() calls fail, and wherever they stop, an            *)
(* acknowledged entry is lost only behind one that was not.                *)
THEOREM OnlyNeighboursAreLost == JournalSpec => []OnlyANeighbourIsLost
<1>1. JournalIInv => OnlyANeighbourIsLost BY DEF JournalIInv
<1> QED BY <1>1, JournalInductive, PTL

(* No later append damages an acknowledged entry that a reader has seen,   *)
(* be it while the entry was being appended.                               *)
THEOREM SeenIsKept == JournalSpec => []SeenStaysIntact
<1>1. JournalIInv => SeenStaysIntact BY DEF JournalIInv
<1> QED BY <1>1, JournalInductive, PTL

(* Every read_all() that returns, amid an append or not, gives exactly the *)
(* intact entries, each once, in the order of their record() calls.        *)
THEOREM ReadsAreOrdered == JournalSpec => []ReadsInOrder
<1>1. ASSUME JournalIInv PROVE ReadsInOrder
  <2> SUFFICES ASSUME NEW f \in Visible, Decodes(f)
               PROVE  LET r == ReadAll(f)
                      IN  /\ {r[i] : i \in DOMAIN r} = Intact(f)
                          /\ \A i, j \in DOMAIN r : i < j => r[i] < r[j] /\ r[j] <= next
    BY DEF ReadsInOrder
  <2> DEFINE r == ReadAll(f)
  <2>1. /\ f \in JournalFiles(Entry) /\ InOrder(f, next + 1)
        /\ \A e \in Intact(f) : e \in Entry /\ e <= next
    BY <1>1, VisibleIsInOrder
  <2>2. /\ r \in Seq(Entry) /\ {r[i] : i \in DOMAIN r} = Intact(f)
        /\ \A a, b \in DOMAIN r :
             a < b =>
               \/ \E k, l \in DOMAIN f.lines :
                    k < l /\ f.lines[k] = r[a] /\ f.lines[l] = r[b]
               \/ /\ \E k \in DOMAIN f.lines : f.lines[k] = r[a]
                  /\ r[b] = f.tail
    BY <2>1, ReadFacts, EntriesApart
  <2> HIDE DEF r
  <2>3. \A i \in DOMAIN r : r[i] \in Entry /\ r[i] \in Intact(f)
    BY <2>1, <2>2
  <2>4. ASSUME NEW a \in DOMAIN r, NEW b \in DOMAIN r, a < b
        PROVE  r[a] < r[b] /\ r[b] <= next
    <3>1. r[b] <= next
      BY <2>1, <2>3
    <3>2. ASSUME NEW k \in DOMAIN f.lines, NEW l \in DOMAIN f.lines,
                 k < l, f.lines[k] = r[a], f.lines[l] = r[b]
          PROVE  r[a] < r[b]
      BY <2>1, <2>3, <3>2 DEF InOrder
    <3>3. ASSUME NEW k \in DOMAIN f.lines,
                 f.lines[k] = r[a], r[b] = f.tail
          PROVE  r[a] < r[b]
      BY <2>1, <2>3, <3>3 DEF InOrder
    <3> QED
      BY <2>2, <2>4, <3>1, <3>2, <3>3
  <2> QED
    BY <2>2, <2>4 DEF r
<1> QED BY <1>1, JournalInductive, PTL
=============================================================================
