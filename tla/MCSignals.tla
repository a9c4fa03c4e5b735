------------------------------ MODULE MCSignals ------------------------------
(***************************************************************************)
(* TLC instance of the small programs with processes and threads of their  *)
(* own: ProcMask, WaitSignal, FirstShell and the two of Children           *)
(* (Chapter8), the demonstrations of Ipc (Chapter12/12.1) and the two of   *)
(* Contention (Chapter9 and Chapter3).  A behaviour is that of one of      *)
(* them, chosen at the start; the others rest.                             *)
(***************************************************************************)
EXTENDS ProcMask

CONSTANTS Pieces,                                       \* of ipc_demo
          MaxWords,                                     \* of the first shell
          Kids,                                         \* of wait and handler
          Count                                         \* of race_write

ASSUME SignalsAssumption == Pieces \in Nat \ {0} /\ Kids \in Nat

VARIABLES program,                                      \* which program runs
          child, prev, held, frame, pendchld, pendint,  \* waitforsignal's own
          todo, ppc, pexit, cpc, cexit, named, listeners, link, connfd, wrote, took,
          answered, ready, message, counter, seen,      \* ipc_demo's
          at, line, fg, job, zombies,                   \* the first shell's
          ordered, wat, made, state, reported,          \* wait's
          mat, forked, kid, chld, hat, broken, errno, olderrno, cause,  \* handler's
          append, rat, bat, file, left, offset,         \* race_write's
          owner, locked                                 \* deadlock's

Wait == INSTANCE WaitSignal
Demos == INSTANCE Ipc
First == INSTANCE FirstShell
Kin == INSTANCE Children
Races == INSTANCE Contention

procmaskOnly == <<jobs, prev_one, saved, hpc, hpid, pending, notfound>>
waitOnly == <<child, prev, held, frame, pendchld, pendint>>
ipcVars == <<todo, ppc, pexit, cpc, cexit, named, listeners, link, connfd, wrote, took,
             answered, ready, message, counter, seen>>
firstVars == <<at, line, fg, job, zombies>>
orderVars == <<ordered, wat, made, state, reported>>
handlerVars == <<mat, forked, kid, chld, hat, broken, errno, olderrno, cause>>
fileVars == <<append, rat, bat, file, left, offset>>
locksVars == <<owner, locked>>
mcVars == <<program, vars, waitOnly, ipcVars, firstVars, orderVars, handlerVars, fileVars, locksVars>>

NoProcMask ==
  /\ jobs = <<>> /\ prev_one = FALSE /\ saved = FALSE
  /\ hpc = "idle" /\ hpid = NoPid /\ pending = FALSE /\ notfound = FALSE
NoWait ==
  /\ child = NoPid /\ prev = FALSE /\ held = FALSE
  /\ frame = <<>> /\ pendchld = FALSE /\ pendint = FALSE
NoDemos ==
  /\ todo = <<>> /\ ppc = "done" /\ pexit = 0 /\ cpc = "none" /\ cexit = -1
  /\ named = FALSE /\ listeners = {} /\ link = "none" /\ connfd = FALSE
  /\ wrote = 0 /\ took = 0 /\ answered = 0 /\ ready = 0 /\ message = Demos!Empty /\ counter = 0
  /\ seen = <<>>

\* The programs whose variables are their own.
OwnPrograms == {"first_shell", "wait", "handler", "race_write", "deadlock"}

LineCounts == [A |-> 2, B |-> 3]

MCInit ==
  /\ \/ program = "procmask" /\ Init /\ NoWait /\ NoDemos
     \/ program = "waitforsignal" /\ Wait!Init /\ NoProcMask /\ NoDemos
     \/ program = "ipc_demo" /\ Demos!Init /\ Init /\ NoWait
     \/ program \in OwnPrograms /\ Init /\ NoWait /\ NoDemos
  /\ First!ShellInit /\ Kin!DemoInit /\ Races!LocksInit
  /\ Kin!WaitInit /\ (program # "wait" => ordered)
  /\ Races!FileInit /\ (program # "race_write" => append /\ file = <<>>)

InProcMask(A) ==
  /\ program = "procmask" /\ A
  /\ UNCHANGED <<program, waitOnly, ipcVars, firstVars, orderVars, handlerVars, fileVars, locksVars>>
InWait(A) ==
  /\ program = "waitforsignal" /\ A
  /\ UNCHANGED <<program, procmaskOnly, ipcVars, firstVars, orderVars, handlerVars, fileVars, locksVars>>
InDemos(A) ==
  /\ program = "ipc_demo" /\ A
  /\ UNCHANGED <<program, vars, waitOnly, firstVars, orderVars, handlerVars, fileVars, locksVars>>
InFirst(A) ==
  /\ program = "first_shell" /\ A
  /\ UNCHANGED <<program, vars, waitOnly, ipcVars, orderVars, handlerVars, fileVars, locksVars>>
InOrder(A) ==
  /\ program = "wait" /\ A
  /\ UNCHANGED <<program, vars, waitOnly, ipcVars, firstVars, handlerVars, fileVars, locksVars>>
InHandler(A) ==
  /\ program = "handler" /\ A
  /\ UNCHANGED <<program, vars, waitOnly, ipcVars, firstVars, orderVars, fileVars, locksVars>>
InFile(A) ==
  /\ program = "race_write" /\ A
  /\ UNCHANGED <<program, vars, waitOnly, ipcVars, firstVars, orderVars, handlerVars, locksVars>>
InLocks(A) ==
  /\ program = "deadlock" /\ A
  /\ UNCHANGED <<program, vars, waitOnly, ipcVars, firstVars, orderVars, handlerVars, fileVars>>

MCNext ==
  \/ InProcMask(Next) \/ InWait(Wait!Next) \/ InDemos(Demos!Next) \/ InFirst(First!ShellNext)
  \/ InOrder(Kin!WaitNext) \/ InHandler(Kin!DemoNext) \/ InFile(Races!FileNext)
  \/ InLocks(\E t \in Races!Both : Races!LockSteps(t))

MCSpec == MCInit /\ [][MCNext]_mcVars

(* The thread runs, also between two interrupts; a pending signal that is  *)
(* unblocked again and again is delivered; /bin/true and the children that *)
(* call exit(0) end; a mutex that is free is given to a thread that waits. *)
(* A program in the foreground of a shell need not end, nor input come.    *)
MCFairSpec ==
  /\ MCSpec
  /\ WF_mcVars(InProcMask(MainSteps)) /\ WF_mcVars(InProcMask(HandlerSteps))
  /\ SF_mcVars(InProcMask(Deliver))
  /\ SF_mcVars(InWait(Wait!MainSteps)) /\ SF_mcVars(InWait(Wait!HandleChld))
  /\ WF_mcVars(InWait(Wait!HandleInt)) /\ SF_mcVars(InWait(Wait!DeliverChld))
  /\ WF_mcVars(InDemos(Demos!ParentSteps)) /\ WF_mcVars(InDemos(Demos!ChildSteps))
  /\ \A p \in Pids : WF_mcVars(InProcMask(ChildExits(p)) \/ InWait(Wait!ChildExits(p)))
  /\ WF_mcVars(InFirst(First!ShellSteps) \/ InOrder(Kin!ParentSteps) \/ InFile(Races!FileSteps))
  /\ WF_mcVars(InHandler(Kin!DemoSteps))
  /\ \A k \in 1..Kids : WF_mcVars(InOrder(Kin!KidEnds(k)) \/ InHandler(Kin!ChildExits(k)))
  /\ \A t \in Races!Both : WF_mcVars(InLocks(Races!LockSteps(t)))

\* procmask's job list is the children not yet reaped, and deletejob finds
\* every child it is called for; waitforsignal reports the child of the round;
\* a child of ipc_demo prints what its parent wrote for it; wait reports in
\* order; handler's main acts on its own errors; race_write's lines are all
\* there.
ChildrenExact ==
  /\ program = "procmask" => TypeOK /\ ListMatchesChildren /\ NeverNotFound
  /\ program = "waitforsignal" => Wait!TypeOK /\ Wait!ReportsItsChild
  /\ program = "ipc_demo" => Demos!TypeOK /\ Demos!PrintedExact
  /\ Kin!ReportsExact
  /\ Kin!ErrorIsMains
  /\ Races!LinesExact

\* The programs end: procmask with all children reaped (AllReaped),
\* waitforsignal after its last round, no SIGCHLD being lost, both processes of
\* each of ipc_demo's demonstrations, except where one waits for another that
\* has failed, wait and race_write; handler's children are all
\* reaped and its main waits for input or has it; deadlock's
\* threads end or have locked each other out.
ProgramEnds ==
  /\ <>(program = "procmask" => AllReaped)
  /\ <>(program = "waitforsignal" => Wait!AllRoundsOver)
  /\ Demos!IpcEnds
  /\ program = "wait" => Kin!WaitEnds
  /\ program = "handler" => Kin!DemoRuns
  /\ program = "race_write" => Races!WritersEnd
  /\ program = "deadlock" => Races!LocksEnd

\* The first shell leaves no foreground program behind, is the job control of
\* JobControl to its user, and comes back from every command but a foreground
\* program that goes on.
FirstShellControls ==
  First!ImplementsJobControl /\ First!ForegroundReaped /\ First!PromptReturns
=============================================================================
