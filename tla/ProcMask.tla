------------------------------ MODULE ProcMask ------------------------------
(***************************************************************************)
(* The fork/SIGCHLD synchronisation program (Chapter8/8.5-8.6/sync:        *)
(* procmask.c on joblist.c).  main starts N children and adds each to the  *)
(* job list; the SIGCHLD handler, which waits for children with a blocking *)
(* waitpid, deletes them.  The list is packed: the last job fills a hole.  *)
(***************************************************************************)
EXTENDS Integers, Sequences, FiniteSetsExt

CONSTANTS N,         \* children main starts
          Pids, NoPid,
          MAXJOBS

ASSUME ProcMaskAssumption ==
  N \in Nat /\ MAXJOBS \in Nat /\ N <= MAXJOBS /\ NoPid \notin Pids

VARIABLES
  pc, i, pid,        \* main: position, loop counter, child just forked
  jobs,              \* the first njobs entries of the array
  mask, prev_one,    \* SIGCHLD blocked? and the mask saved by main
  saved,             \* mask the kernel restores when the handler returns
  hpc, hpid,         \* handler: position, child just reaped
  proc, pending,     \* kernel: process states, pending SIGCHLD
  notfound           \* history: deletejob met a pid it did not know

mainVars == <<pc, i, pid, prev_one>>
vars == <<mainVars, jobs, mask, saved, hpc, hpid, proc, pending, notfound>>

\* A mask is reduced to the one signal that matters: TRUE = SIGCHLD blocked.
mask_one == TRUE
mask_all == TRUE

njobs == Len(jobs)

Init ==
  /\ pc = "block" /\ i = 0 /\ pid = NoPid /\ prev_one = FALSE
  /\ jobs = <<>>
  /\ mask = FALSE /\ saved = FALSE
  /\ hpc = "idle" /\ hpid = NoPid
  /\ proc = [p \in Pids |-> "free"] /\ pending = FALSE
  /\ notfound = FALSE

\* A full list drops the job without a word.
addjob(p) == jobs' = IF njobs >= MAXJOBS THEN jobs ELSE Append(jobs, p)

without(k) == SubSeq([jobs EXCEPT ![k] = jobs[njobs]], 1, njobs - 1)

places(p) == {k \in 1..njobs : jobs[k] = p}

deletejob(p) ==
  /\ jobs' = IF places(p) = {} THEN jobs ELSE without(Min(places(p)))
  /\ notfound' = (notfound \/ places(p) = {})
-----------------------------------------------------------------------------
(* main *)

MainAt(l) == pc = l /\ hpc = "idle"
more == i < N
drained == njobs = 0

kernelVars == <<saved, hpc, hpid, proc, pending, notfound>>

Block ==
  /\ MainAt("block") /\ more
  /\ prev_one' = mask /\ mask' = (mask \/ mask_one)
  /\ pc' = "fork"
  /\ UNCHANGED <<i, pid, jobs, kernelVars>>

Fork ==
  /\ MainAt("fork")
  /\ \E p \in Pids :
       /\ proc[p] = "free"
       /\ proc' = [proc EXCEPT ![p] = "running"]
       /\ pid' = p
  /\ pc' = "block_all"
  /\ UNCHANGED <<i, prev_one, jobs, mask, saved, hpc, hpid, pending, notfound>>

ForkFails ==   \* unix_error
  /\ MainAt("fork")
  /\ pc' = "failed"
  /\ UNCHANGED <<i, pid, prev_one, jobs, mask, kernelVars>>

BlockAll ==
  /\ MainAt("block_all")
  /\ mask' = (mask \/ mask_all)
  /\ pc' = "add"
  /\ UNCHANGED <<i, pid, prev_one, jobs, kernelVars>>

AddJob ==
  /\ MainAt("add")
  /\ addjob(pid)
  /\ pc' = "restore"
  /\ UNCHANGED <<i, pid, prev_one, mask, kernelVars>>

Restore ==
  /\ MainAt("restore")
  /\ mask' = prev_one
  /\ i' = i + 1 /\ pid' = NoPid /\ pc' = "block"
  /\ UNCHANGED <<prev_one, jobs, kernelVars>>

\* while (jobs_remaining() > 0) sleep(1); then exit.
WaitLoop ==
  /\ MainAt("block") /\ ~more
  /\ pc' = "sleep"
  /\ UNCHANGED <<i, pid, prev_one, jobs, mask, kernelVars>>

ExitMain ==
  /\ MainAt("sleep") /\ drained
  /\ pc' = "exited"
  /\ UNCHANGED <<i, pid, prev_one, jobs, mask, kernelVars>>
-----------------------------------------------------------------------------
(* The handler, and the children. *)

Alive == pc \notin {"exited", "failed"}

Deliver ==
  /\ Alive /\ pending /\ ~mask
  /\ pending' = FALSE /\ saved' = mask /\ mask' = TRUE
  /\ hpc' = "waitpid"
  /\ UNCHANGED <<mainVars, jobs, hpid, proc, notfound>>

\* waitpid(-1, NULL, 0) waits while children exist.
Reap ==
  /\ Alive /\ hpc = "waitpid"
  /\ \E p \in Pids :
       /\ proc[p] = "zombie"
       /\ proc' = [proc EXCEPT ![p] = "free"]
       /\ hpid' = p
  /\ hpc' = "delete"
  /\ UNCHANGED <<mainVars, jobs, mask, saved, pending, notfound>>

\* The masks around it block signals the handler's own mask blocks already
\* or that have no handler: one step.
DeleteJob ==
  /\ Alive /\ hpc = "delete"
  /\ deletejob(hpid)
  /\ hpc' = "waitpid" /\ hpid' = NoPid
  /\ UNCHANGED <<mainVars, mask, saved, proc, pending>>

\* ECHILD: no child is left.
HandlerReturn ==
  /\ Alive /\ hpc = "waitpid" /\ \A p \in Pids : proc[p] = "free"
  /\ mask' = saved /\ hpc' = "idle"
  /\ UNCHANGED <<mainVars, jobs, saved, hpid, proc, pending, notfound>>

ChildExits(p) ==
  /\ Alive /\ proc[p] = "running"
  /\ proc' = [proc EXCEPT ![p] = "zombie"] /\ pending' = TRUE
  /\ UNCHANGED <<mainVars, jobs, mask, saved, hpc, hpid, notfound>>

MainSteps == Block \/ Fork \/ ForkFails \/ BlockAll \/ AddJob \/ Restore \/ WaitLoop \/ ExitMain
HandlerSteps == Reap \/ DeleteJob \/ HandlerReturn

Ended == ~Alive /\ UNCHANGED vars

Next ==
  \/ MainSteps \/ Deliver \/ HandlerSteps
  \/ \E p \in Pids : ChildExits(p)
  \/ Ended

Spec == Init /\ [][Next]_vars
-----------------------------------------------------------------------------
(* Properties. *)

\* Type invariant.
TypeOK ==
  /\ pc \in {"block", "fork", "block_all", "add", "restore", "sleep", "exited", "failed"}
  /\ i \in 0..N /\ pid \in Pids \cup {NoPid}
  /\ jobs \in Seq(Pids) /\ Len(jobs) <= MAXJOBS
  /\ {mask, prev_one, saved, pending, notfound} \subseteq BOOLEAN
  /\ hpc \in {"idle", "waitpid", "delete"} /\ hpid \in Pids \cup {NoPid}
  /\ proc \in [Pids -> {"free", "running", "zombie"}]

\* "This version never prints `not found'" (procmask.c 11), whatever child
\* ends when.
NeverNotFound == ~notfound

BeingAdded == IF pc \in {"block_all", "add"} THEN {pid} ELSE {}
BeingDeleted == IF hpc = "delete" THEN {hpid} ELSE {}

\* The list holds the children not yet reaped, each once: swapping the last
\* job into a hole loses none, and a pid the kernel reuses is not found twice.
ListMatchesChildren ==
  /\ {jobs[k] : k \in 1..njobs} = ({p \in Pids : proc[p] # "free"} \cup BeingDeleted) \ BeingAdded
  /\ \A k, l \in 1..njobs : jobs[k] = jobs[l] => k = l

\* main has exited and left no child behind, or fork has failed.
AllReaped == pc = "failed" \/ (pc = "exited" /\ \A p \in Pids : proc[p] = "free")
=============================================================================
