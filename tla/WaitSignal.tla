----------------------------- MODULE WaitSignal -----------------------------
(***************************************************************************)
(* Waiting for a signal with sigsuspend                                    *)
(* (Chapter8/8.5-8.6/waitsig/waitforsignal.c): N rounds of fork and wait   *)
(* until the SIGCHLD handler has written the global pid.  SIGINT wakes     *)
(* sigsuspend too, without writing anything.                               *)
(***************************************************************************)
EXTENDS Integers, Sequences

CONSTANTS N,          \* rounds
          Pids, NoPid \* NoPid is pid 0

VARIABLES
  pc, i,              \* main: position and round
  child,              \* history: the child of this round
  pid,                \* written by sigchld_handler, polled by main
  mask, prev,         \* SIGCHLD blocked? (SIGINT never is)
  held,               \* kernel: the mask sigsuspend has put aside
  frame,              \* handler frames, innermost first: [sig, mask to restore]
  proc, pendchld, pendint   \* kernel: processes and pending signals

mainVars == <<pc, i, child, prev>>
vars == <<mainVars, pid, mask, held, frame, proc, pendchld, pendint>>

mask_chld_empty == FALSE           \* mutant: sigaddset forgotten
mask_chld == TRUE

Init ==
  /\ pc = "block" /\ i = 0 /\ child = NoPid /\ prev = FALSE
  /\ pid = NoPid /\ mask = FALSE /\ held = FALSE /\ frame = <<>>
  /\ proc = [p \in Pids |-> "free"] /\ pendchld = FALSE /\ pendint = FALSE

MainAt(l) == pc = l /\ frame = <<>>
kernelVars == <<held, frame, proc, pendchld, pendint>>

more == i < N

Block ==
  /\ MainAt("block") /\ more
  /\ prev' = mask /\ mask' = (mask \/ mask_chld)
  /\ pc' = "fork"
  /\ UNCHANGED <<i, child, pid, kernelVars>>

Fork ==
  /\ MainAt("fork")
  /\ \E p \in Pids :
       /\ proc[p] = "free"
       /\ proc' = [proc EXCEPT ![p] = "running"]
       /\ child' = p
  /\ pc' = "clear"
  /\ UNCHANGED <<i, prev, pid, mask, held, frame, pendchld, pendint>>

ForkFails ==
  /\ MainAt("fork")
  /\ pc' = "failed"
  /\ UNCHANGED <<i, child, prev, pid, mask, kernelVars>>

Clear ==
  /\ MainAt("clear")
  /\ pid' = NoPid
  /\ pc' = "check"
  /\ UNCHANGED <<i, child, prev, mask, kernelVars>>

\* while (!pid): the test alone; a child may end before main sleeps.
TestPid ==
  /\ MainAt("check") /\ pid = NoPid
  /\ pc' = "suspend"
  /\ UNCHANGED <<i, child, prev, pid, mask, kernelVars>>

\* sigsuspend(&prev): the mask changes and the thread sleeps in one step.
Sigsuspend ==
  /\ MainAt("suspend")
  /\ held' = mask /\ mask' = prev
  /\ pc' = "suspended"
  /\ UNCHANGED <<i, child, prev, pid, frame, proc, pendchld, pendint>>

wait_over_if == TRUE               \* mutant: if in place of while
wait_over == pid # NoPid

Restore ==
  /\ MainAt("check") /\ wait_over
  /\ mask' = prev
  /\ pc' = "report"
  /\ UNCHANGED <<i, child, prev, pid, kernelVars>>

Report ==
  /\ MainAt("report")
  /\ i' = i + 1 /\ child' = NoPid /\ pc' = "block"
  /\ UNCHANGED <<prev, pid, mask, kernelVars>>

ExitMain ==
  /\ MainAt("block") /\ ~more
  /\ pc' = "exited"
  /\ UNCHANGED <<i, child, prev, pid, mask, kernelVars>>
-----------------------------------------------------------------------------
(* Handlers may nest: SIGINT interrupts the SIGCHLD handler and vice versa. *)

Alive == pc \notin {"exited", "failed"}
InFrame(sig) == Alive /\ frame # <<>> /\ Head(frame).sig = sig
Running(sig) == \E k \in DOMAIN frame : frame[k].sig = sig

\* What sigsuspend put aside is what the outermost frame restores.
Push(sig) ==
  frame' = <<[sig |-> sig, mask |-> IF pc = "suspended" /\ frame = <<>> THEN held ELSE mask]>>
             \o frame

DeliverChld ==
  /\ Alive /\ pendchld /\ ~mask
  /\ pendchld' = FALSE /\ mask' = TRUE
  /\ Push("CHLD")
  /\ UNCHANGED <<mainVars, pid, held, proc, pendint>>

DeliverInt ==
  /\ Alive /\ pendint /\ ~Running("INT")
  /\ pendint' = FALSE
  /\ Push("INT")
  /\ UNCHANGED <<mainVars, pid, mask, held, proc, pendchld>>

\* The innermost handler returns; sigsuspend returns after the last one.
Pop ==
  /\ mask' = Head(frame).mask
  /\ frame' = Tail(frame)
  /\ pc' = IF pc = "suspended" /\ Len(frame) = 1 THEN "check" ELSE pc
  /\ UNCHANGED <<i, child, prev, held, pendchld, pendint>>

\* sigchld_handler: one blocking waitpid, and its result into pid.
HandleChld ==
  /\ InFrame("CHLD")
  /\ \E p \in Pids :
       /\ proc[p] = "zombie"
       /\ proc' = [proc EXCEPT ![p] = "free"]
       /\ pid' = p
  /\ Pop

HandleInt == InFrame("INT") /\ Pop /\ UNCHANGED <<pid, proc>>

ChildExits(p) ==
  /\ Alive /\ proc[p] = "running"
  /\ proc' = [proc EXCEPT ![p] = "zombie"] /\ pendchld' = TRUE
  /\ UNCHANGED <<mainVars, pid, mask, held, frame, pendint>>

UserInterrupts ==
  /\ Alive /\ ~pendint
  /\ pendint' = TRUE
  /\ UNCHANGED <<mainVars, pid, mask, held, frame, proc, pendchld>>

MainSteps ==
  Block \/ Fork \/ ForkFails \/ Clear \/ TestPid \/ Sigsuspend \/ Restore \/ Report \/ ExitMain
Ended == ~Alive /\ UNCHANGED vars

Next ==
  \/ MainSteps \/ DeliverChld \/ DeliverInt \/ HandleChld \/ HandleInt \/ UserInterrupts
  \/ \E p \in Pids : ChildExits(p)
  \/ Ended

Spec == Init /\ [][Next]_vars
-----------------------------------------------------------------------------
(* Properties. *)

\* Type invariant; a handler is never entered while it runs.
TypeOK ==
  /\ pc \in {"block", "fork", "clear", "check", "suspend", "suspended", "report", "exited",
             "failed"}
  /\ i \in 0..N /\ {child, pid} \subseteq Pids \cup {NoPid}
  /\ {mask, prev, held, pendchld, pendint} \subseteq BOOLEAN
  /\ frame \in Seq([sig : {"CHLD", "INT"}, mask : BOOLEAN]) /\ Len(frame) <= 2
  /\ proc \in [Pids -> {"free", "running", "zombie"}]

\* Each round reports the very child it started, interrupts or not, and with
\* SIGCHLD deliverable again (waitforsignal.c 62-71).
ReportsItsChild == pc = "report" => pid = child /\ proc[child] = "free"

\* The program has ended; it does, because no SIGCHLD that comes between the
\* test of pid (TestPid) and the sleep (Sigsuspend) is lost: it stays pending
\* until the mask is exchanged (waitforsignal.c 65-66).
AllRoundsOver == pc \in {"exited", "failed"}
=============================================================================
