---------------------------- MODULE DurableValue ----------------------------
(***************************************************************************)
(* What a persisted object promises its owner: one value in memory, one    *)
(* value on disk, and four things that can happen.  The disk only ever     *)
(* holds a whole value that memory held when it was committed, and a       *)
(* restart brings back exactly the committed value.  AtomicFile implements *)
(* this with a temporary file and a rename.                                *)
(***************************************************************************)
CONSTANTS Value,      \* the values the object takes
          Initial,    \* what a process starts from when nothing was ever saved
          Absent      \* "no file at this path"

VARIABLES live,       \* the object in memory, Absent while no process runs
          saved       \* the committed value

vars == <<live, saved>>

\* the first process runs, or is about to be started
Init == live \in {Initial, Absent} /\ saved = Absent

\* The owner changes the object.
Mutate ==
  /\ live # Absent
  /\ live' \in Value
  /\ UNCHANGED saved

\* The whole current value becomes the durable one, at once.
Commit ==
  /\ live # Absent
  /\ saved' = live
  /\ UNCHANGED live

\* The process dies: memory is gone, the disk is not.
Crash ==
  /\ live # Absent
  /\ live' = Absent
  /\ UNCHANGED saved

\* A new process starts from the committed value.
Recover ==
  /\ live = Absent
  /\ live' = IF saved = Absent THEN Initial ELSE saved
  /\ UNCHANGED saved

Next == Mutate \/ Commit \/ Crash \/ Recover

Spec == Init /\ [][Next]_vars
=============================================================================
