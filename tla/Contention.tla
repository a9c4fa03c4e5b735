---------------------------- MODULE Contention ----------------------------
(***************************************************************************)
(* Two programs whose processes or threads contend without a protocol:     *)
(* race_write.c for the place of a line in a file, deadlock.c for two      *)
(* mutexes.                                                                *)
(***************************************************************************)
EXTENDS Integers, Sequences, FiniteSetsExt, SequencesExt
-----------------------------------------------------------------------------
(***************************************************************************)
(* Chapter9/9.9-9.10/expirements/race_write.c: parent and child write      *)
(* lines of one length to one file through descriptors of their own, with  *)
(* or without O_APPEND.  A write is atomic; its result is not looked at.   *)
(***************************************************************************)
CONSTANTS Count      \* lines each writer writes: [A |-> M, B |-> N]

VARIABLES append,    \* O_APPEND
          rat,       \* main: start, fork, write, wait, done
          bat,       \* the child: none, write, done
          file,      \* the lines of race.log, by their tags
          left,      \* writes still to make
          offset     \* lines each writer has written

raceFileVars == <<append, rat, bat, file, left, offset>>
Writers == {"A", "B"}

FileInit ==
  /\ append \in BOOLEAN /\ rat = "start" /\ bat = "none"
  /\ file \in {<<>>, <<"old">>}
  /\ left = Count /\ offset = [w \in Writers |-> 0]

Truncate ==
  /\ rat = "start" /\ rat' = "fork" /\ file' = <<>>
  /\ UNCHANGED <<append, bat, left, offset>>

\* Without a child (fork failed) main writes its lines all the same.
Fork ==
  /\ rat = "fork" /\ rat' = "write" /\ bat' \in {"write", "none"}
  /\ UNCHANGED <<append, file, left, offset>>

Writing(w) == (IF w = "A" THEN rat ELSE bat) = "write" /\ left[w] > 0

\* With O_APPEND a write goes to the end of the file, else to the writer's own
\* offset, over whatever the other has put there.
placed(w) == IF append THEN Len(file) + 1 ELSE offset[w] + 1

Write(w) ==
  /\ Writing(w)
  /\ file' = [k \in 1..Max({Len(file), placed(w)}) |-> IF k = placed(w) THEN w ELSE file[k]]
  /\ offset' = [offset EXCEPT ![w] = @ + 1] /\ left' = [left EXCEPT ![w] = @ - 1]
  /\ UNCHANGED <<append, rat, bat>>

WriteFails(w) ==
  /\ Writing(w)
  /\ left' = [left EXCEPT ![w] = @ - 1]
  /\ UNCHANGED <<append, rat, bat, file, offset>>

ChildEnds == bat = "write" /\ left["B"] = 0 /\ bat' = "done" /\ UNCHANGED <<append, rat, file, left, offset>>

\* close, then wait(NULL), which fails at once without a child.
Wait ==
  /\ rat = "write" /\ left["A"] = 0 /\ bat # "write"
  /\ rat' = "done"
  /\ UNCHANGED <<append, bat, file, left, offset>>

FileSteps == Truncate \/ Fork \/ ChildEnds \/ Wait \/ \E w \in Writers : Write(w)
FileNext == FileSteps \/ \E w \in Writers : WriteFails(w)
-----------------------------------------------------------------------------
(***************************************************************************)
(* Chapter3/3.10/deadlock.c: two threads that take two mutexes in opposite *)
(* orders, with a pause between the two.                                   *)
(***************************************************************************)
VARIABLES owner,     \* holder of each mutex
          locked       \* steps each thread has made: 2 locks, then 2 unlocks

lockVars == <<owner, locked>>

LockOrder == [t1 |-> <<"A", "B">>, t2 |-> <<"B", "A">>]
Both == {"t1", "t2"}

LocksInit == owner = [m \in {"A", "B"} |-> "free"] /\ locked = [t \in Both |-> 0]

Lock(t) ==
  /\ locked[t] < 2 /\ owner[LockOrder[t][locked[t] + 1]] = "free"
  /\ owner' = [owner EXCEPT ![LockOrder[t][locked[t] + 1]] = t]
  /\ locked' = [locked EXCEPT ![t] = @ + 1]

\* The second is released first.
Unlock(t) ==
  /\ locked[t] \in {2, 3}
  /\ owner' = [owner EXCEPT ![LockOrder[t][4 - locked[t]]] = "free"]
  /\ locked' = [locked EXCEPT ![t] = @ + 1]

LockSteps(t) == Lock(t) \/ Unlock(t)
-----------------------------------------------------------------------------
(* Properties. *)

Tagged(w) == Cardinality({k \in DOMAIN file : file[k] = w})

\* With O_APPEND every line written is in the file, whole and once, however
\* the writers alternate; without it the file is as long as the longer of the
\* two and holds lines of both, never a gap.
LinesExact ==
  rat \notin {"start"} =>
    /\ append => \A w \in Writers : Tagged(w) = offset[w]
    /\ Len(file) = Tagged("A") + Tagged("B")
    /\ ~append => Len(file) = Max({offset["A"], offset["B"]})

\* The program ends.
WritersEnd == <>(rat = "done" /\ bat # "write")

Deadlocked == \A t \in Both : locked[t] = 1

\* Both threads end, and main's joins return, unless each has taken its first
\* mutex and waits for the other's: the one way to block.
LocksEnd == <>(\A t \in Both : locked[t] = 4) \/ <>[]Deadlocked
=============================================================================
