----------------------------- MODULE Children -----------------------------
(***************************************************************************)
(* Two programs of Chapter8 that make children and reap them: wait.c,      *)
(* which waits in main, and handler/main.c, which waits in the SIGCHLD     *)
(* handler.                                                                *)
(***************************************************************************)
EXTENDS Integers, Sequences, SequencesExt, FiniteSetsExt

CONSTANTS Kids        \* children: N in wait.c, 3 in handler/main.c
-----------------------------------------------------------------------------
(***************************************************************************)
(* Chapter8/8.3-8.4/wait/wait.c: N children that end with statuses of      *)
(* their own, reaped in the order they were made (order_wait) or in any    *)
(* order (no_order_wait).  The loop of order_wait ends by reading pid[N],  *)
(* one past the array: whatever is there, no child is left that it could   *)
(* name, and waitpid fails.                                                *)
(***************************************************************************)
VARIABLES ordered,   \* order_wait or no_order_wait
          wat,       \* fork, wait, exited
          made,      \* children made so far; the k-th ends with status 100 + k
          state,     \* kernel: running, zombie or reaped
          reported   \* statuses printed

waitVars == <<ordered, wat, made, state, reported>>

WaitInit ==
  /\ ordered \in BOOLEAN /\ wat = "fork" /\ made = 0 /\ reported = <<>>
  /\ state = [k \in 1..Kids |-> "none"]

MakeChild ==
  /\ wat = "fork" /\ made < Kids
  /\ made' = made + 1 /\ state' = [state EXCEPT ![made + 1] = "running"]
  /\ UNCHANGED <<ordered, wat, reported>>

MakeFails == wat = "fork" /\ made < Kids /\ wat' = "exited" /\ UNCHANGED <<ordered, made, state, reported>>

AllMade == wat = "fork" /\ made = Kids /\ wat' = "wait" /\ UNCHANGED <<ordered, made, state, reported>>

\* waitpid(pid[i++]) or waitpid(-1).
awaited(k) == state[k] = "zombie" /\ (ordered => k = Len(reported) + 1)

Waitpid ==
  /\ wat = "wait"
  /\ \E k \in 1..Kids :
       /\ awaited(k)
       /\ state' = [state EXCEPT ![k] = "reaped"] /\ reported' = Append(reported, k)
  /\ UNCHANGED <<ordered, wat, made>>

\* No child is left: ECHILD, or ESRCH where pid[N] cannot be a group's number;
\* main then exits, with an error message in the second case.
WaitFails ==
  /\ wat = "wait" /\ \A k \in 1..Kids : state[k] = "reaped"
  /\ wat' = "exited"
  /\ UNCHANGED <<ordered, made, state, reported>>

KidEnds(k) ==
  /\ state[k] = "running"
  /\ state' = [state EXCEPT ![k] = "zombie"]
  /\ UNCHANGED <<ordered, wat, made, reported>>

ParentSteps == MakeChild \/ AllMade \/ Waitpid \/ WaitFails
WaitNext == ParentSteps \/ MakeFails \/ \E k \in 1..Kids : KidEnds(k)
-----------------------------------------------------------------------------
(***************************************************************************)
(* Chapter8/8.5-8.6/handler/main.c: main makes children, then reads from   *)
(* the terminal and reads again when a signal has interrupted it; the      *)
(* SIGCHLD handler waits, blocking, until no child is left.  Handler and   *)
(* main share errno.                                                       *)
(***************************************************************************)
VARIABLES mat,        \* fork, read, test, run, exited
          forked,     \* children made
          kid,        \* kernel: running, zombie or reaped
          chld,       \* SIGCHLD pending
          hat,        \* handler: idle, wait, sleep
          broken,     \* read() has been interrupted
          errno, olderrno,
          cause       \* history: the error the last failing call reported

demoVars == <<mat, forked, kid, chld, hat, broken, errno, olderrno, cause>>

DemoInit ==
  /\ mat = "fork" /\ forked = 0 /\ kid = [k \in 1..Kids |-> "none"]
  /\ chld = FALSE /\ hat = "idle" /\ broken = FALSE
  /\ errno = "none" /\ olderrno = "none" /\ cause = "none"

MainAt(l) == mat = l /\ hat = "idle"

Fork ==
  /\ MainAt("fork")
  /\ IF forked < Kids
     THEN forked' = forked + 1 /\ kid' = [kid EXCEPT ![forked + 1] = "running"] /\ UNCHANGED mat
     ELSE mat' = "read" /\ UNCHANGED <<forked, kid>>
  /\ UNCHANGED <<chld, hat, broken, errno, olderrno, cause>>

Fails(e) == errno' = e /\ cause' = e

ForkFails ==
  /\ MainAt("fork") /\ forked < Kids
  /\ Fails("EAGAIN") /\ mat' = "exited"
  /\ UNCHANGED <<forked, kid, chld, hat, broken, olderrno>>

Read ==
  /\ MainAt("read")
  /\ mat' = "run" /\ broken' = FALSE
  /\ UNCHANGED <<forked, kid, chld, hat, errno, olderrno, cause>>

\* EINTR after a handler has run, or a real error.
ReadFails ==
  /\ MainAt("read")
  /\ \/ broken /\ Fails("EINTR")
     \/ Fails("EIO")
  /\ mat' = "test" /\ broken' = FALSE
  /\ UNCHANGED <<forked, kid, chld, hat, olderrno>>

\* if (errno != EINTR) unix_error(...): the handler may run before this test.
Test ==
  /\ MainAt("test")
  /\ mat' = IF errno = "EINTR" THEN "read" ELSE "exited"
  /\ UNCHANGED <<forked, kid, chld, hat, broken, errno, olderrno, cause>>

Deliver ==
  /\ chld /\ hat = "idle" /\ mat # "exited"
  /\ chld' = FALSE /\ hat' = "wait" /\ olderrno' = errno
  /\ broken' = (mat = "read")
  /\ UNCHANGED <<mat, forked, kid, errno, cause>>

\* waitpid(-1, NULL, 0): a child that has ended, or ECHILD once there is none.
Reap ==
  /\ hat = "wait"
  /\ \E k \in 1..Kids : kid[k] = "zombie" /\ kid' = [kid EXCEPT ![k] = "reaped"]
  /\ UNCHANGED <<mat, forked, chld, hat, broken, errno, olderrno, cause>>

NobodyLeft ==
  /\ hat = "wait" /\ \A k \in 1..Kids : kid[k] \in {"none", "reaped"}
  /\ hat' = "sleep" /\ errno' = "ECHILD"
  /\ UNCHANGED <<mat, forked, kid, chld, broken, olderrno, cause>>

HandlerReturn ==
  /\ hat = "sleep"
  /\ hat' = "idle" /\ errno' = olderrno
  /\ UNCHANGED <<mat, forked, kid, chld, broken, olderrno, cause>>

ChildExits(k) ==
  /\ kid[k] = "running"
  /\ kid' = [kid EXCEPT ![k] = "zombie"] /\ chld' = TRUE
  /\ UNCHANGED <<mat, forked, hat, broken, errno, olderrno, cause>>

\* What the program and the kernel do by themselves; Read needs a user's input.
DemoSteps == Fork \/ Test \/ Deliver \/ Reap \/ NobodyLeft \/ HandlerReturn
DemoNext == DemoSteps \/ Read \/ ForkFails \/ ReadFails \/ \E k \in 1..Kids : ChildExits(k)
-----------------------------------------------------------------------------
(* Properties. *)

\* Each child is reported once, and by order_wait in the order of creation,
\* whatever the order in which they end.
ReportsExact ==
  /\ ToSet(reported) = {k \in 1..Kids : state[k] = "reaped"}
  /\ IsInjective(reported)
  /\ ordered => \A k \in DOMAIN reported : reported[k] = k

\* The program ends, having reaped every child unless fork failed.
WaitEnds == <>(wat = "exited" /\ (made = Kids => \A k \in 1..Kids : state[k] = "reaped"))

\* The error main acts on is the one its own call reported, although the
\* handler has made failing calls in between: the program gives up only when
\* fork or read has really failed.
ErrorIsMains ==
  /\ MainAt("test") => errno = cause
  /\ mat = "exited" => cause \in {"EAGAIN", "EIO"}

\* Every child is reaped by the handler, although SIGCHLDs merge, and main is
\* then at its read or past it, out of the handler, unless a call has failed;
\* the input itself need not come.
DemoRuns ==
  <>(mat = "exited" \/ (/\ mat \in {"read", "run"} /\ hat = "idle"
                        /\ \A k \in 1..Kids : kid[k] = "reaped"))
=============================================================================
