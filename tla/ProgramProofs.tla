---------------------------- MODULE ProgramProofs ----------------------------
(***************************************************************************)
(* Proofs about programs that stand alone, for every value of their        *)
(* constants: the job-control shell, whose table matches its children and  *)
(* which implements JobControl; the coroutine scheduler, which loses no    *)
(* coroutine and implements the simulation EventQueue; and the functions   *)
(* of MCCoScheduler.                                                       *)
(***************************************************************************)
EXTENDS Shell, MCCoScheduler, DataLemmas, FiniteSetTheorems
-----------------------------------------------------------------------------
(* The job-control shell. *)

\* eval between the block of SIGCHLD and its release.
EvalLabels == {"list", "fork", "block_all", "add", "unblock_all", "clear", "check",
               "suspend", "restore"}

\* Signals: SIGCHLD is blocked wherever eval or the handler relies on it, and
\* the masks that will be restored keep it so.
MaskInv ==
  /\ hpc = "idle" /\ pc \in EvalLabels => SIGCHLD \in mask
  /\ hpc # "idle" => SIGCHLD \in mask /\ pc \in {"prompt", "suspended"}
  /\ hpc \in {"delete", "unblock"} => SIGCHLD \in hprev
  /\ pc = "suspended" => SIGCHLD \in saved

\* The child the handler took from waitpid is gone from the kernel, and what
\* delete_job returned for it is the mode it was started in, or -1.
HandlerInv ==
  /\ hpc \in {"block", "delete", "unblock", "report"} => hpid \in Pids /\ proc[hpid] = "free"
  /\ hpc \in {"unblock", "report"} => hbg \in {-1, kind[hpid]}

\* The child eval forked: not in the table before add_job, of the mode asked
\* for; only a foreground child is waited for.
ForkedInv ==
  /\ pc \in {"block_all", "add"} =>
       pid \in Pids /\ proc[pid] # "free" /\ pid \notin Recorded
  /\ pc \in {"block_all", "add", "unblock_all"} => pid \in Pids /\ kind[pid] = bg
  /\ pc \in {"clear", "check", "suspend", "suspended"} => pid \in Pids /\ bg = 0

\* The table records the mode each child was started in.
ModeInv == \A i \in Slots : jobs[i].pid # NoPid => jobs[i].bg = kind[jobs[i].pid]

\* A foreground child is the one eval is launching or waiting for.
ForegroundInv ==
  \A p \in Pids :
    /\ kind[p] = 0
    /\ proc[p] # "free" \/ (hpc \in {"block", "delete", "unblock", "report"} /\ p = hpid)
    => /\ p = pid
       /\ pc \in {"block_all", "add", "unblock_all", "clear", "check", "suspend", "suspended"}

\* fg_done tells the truth while eval polls it.
FgDoneInv == pc \in {"check", "suspend", "suspended"} /\ fg_done = 1 => proc[pid] = "free"

IndInv ==
  /\ TypeOK /\ MaskInv /\ HandlerInv /\ ForkedInv /\ ModeInv
  /\ ForegroundInv /\ FgDoneInv /\ TableMatchesChildren
-----------------------------------------------------------------------------
\* parseline yields the flag 0 or 1, whatever the line.
LEMMA ParselineFlag == \A words : parseline(words).bg \in {0, 1}
  BY DEF parseline, ampersand

\* The initial state is well typed.
LEMMA TypeInit == Init => TypeOK
<1> SUFFICES ASSUME Init PROVE TypeOK
  OBVIOUS
<1> USE DEF Init
<1>1. jobs \in [Slots -> JobType]
  BY DEF init_jobs, JobType
<1>2. proc \in [Pids -> ProcStates] /\ kind \in [Pids -> {0, 1}]
  BY DEF ProcStates
<1> QED
  BY <1>1, <1>2 DEF TypeOK, PcLabels, HpcLabels

\* Every step keeps the types.
LEMMA TypeStep == TypeOK /\ [Next]_vars => TypeOK'
<1> SUFFICES ASSUME TypeOK, [Next]_vars PROVE TypeOK'
  OBVIOUS
<1> USE DEF TypeOK, PcLabels, HpcLabels, ProcStates, mainVars, handlerVars, kernelVars,
    history
<1>1. CASE EndOfInput \/ Exited \/ UNCHANGED vars
  BY <1>1 DEF EndOfInput, Exit, Exited, vars
<1>2. ASSUME NEW words \in CmdLines, Eval(words) PROVE TypeOK'
  <2> DEFINE cmd == parseline(words)
  <2>1. cmd.bg \in {0, 1}
    BY ParselineFlag
  <2> HIDE DEF cmd
  <2>2. CASE IgnoreLine(cmd.argv) \/ Exit
    BY <2>2 DEF IgnoreLine, Exit, vars
  <2>3. CASE JobsBlock(cmd.argv)
    BY <2>3 DEF JobsBlock, mask_all
  <2>4. CASE EvalBlock(cmd)
    BY <2>1, <2>4 DEF EvalBlock, mask_chld, Signals
  <2> QED
    BY <1>2, <2>2, <2>3, <2>4 DEF Eval, cmd
<1>3. CASE JobsUnblock \/ ForkFails \/ BlockAll \/ UnblockAll \/ ClearFgDone
  BY <1>3 DEF JobsUnblock, ForkFails, BlockAll, UnblockAll, ClearFgDone, MainAt, mask_all,
    mask_chld, Signals
<1>4. CASE Fork
  BY <1>4, ShellAssumption DEF Fork
<1>5. CASE AddJob
  <2>1. [pid |-> pid, bg |-> bg] \in JobType /\ pid \in Pids
    BY <1>5 DEF AddJob, MainAt, JobType
  <2>2. jobs' \in [Slots -> JobType]
    BY <1>5, <2>1 DEF AddJob, add_job
  <2> QED
    BY <1>5, <2>1, <2>2 DEF AddJob, add_job
<1>6. CASE TestFgDone \/ Sigsuspend \/ WaitOver \/ RestoreMask
  BY <1>6 DEF TestFgDone, Sigsuspend, WaitOver, RestoreMask
<1>7. CASE Deliver \/ HandlerBlock \/ HandlerUnblock \/ Report \/ HandlerReturn
  BY <1>7, ZenonT(40) DEF Deliver, HandlerBlock, HandlerUnblock, Report, HandlerReturn, mask_all,
    Signals
<1>8. CASE Reap
  BY <1>8 DEF Reap
<1>9. CASE DeleteJob
  <2>0. \A job \in JobType : emptied(job) \in JobType
    BY DEF emptied, JobType
  <2>1. jobs' \in [Slots -> JobType]
    BY <1>9, <2>0 DEF DeleteJob, delete_job
  <2>2. hbg' \in {-1, 0, 1}
    BY <1>9 DEF DeleteJob, delete_job, JobType
  <2> QED
    BY <1>9, <2>1, <2>2 DEF DeleteJob, delete_job
<1>10. ASSUME NEW p \in Pids, ChildExits(p) \/ ChildStops(p) \/ ChildContinues(p)
       PROVE TypeOK'
  <2>1. CASE ChildExits(p)
    BY <2>1 DEF ChildExits, ChildChanges
  <2>2. CASE ChildStops(p)
    BY <2>2 DEF ChildStops, ChildChanges
  <2>3. CASE ChildContinues(p)
    BY <2>3 DEF ChildContinues, ChildChanges
  <2> QED
    BY <1>10, <2>1, <2>2, <2>3
<1> QED
  BY <1>1, <1>2, <1>3, <1>4, <1>5, <1>6, <1>7, <1>8, <1>9, <1>10
    DEF Next, EvalSteps, HandlerSteps

\* The type invariant of the shell, for every set of pids and table length.
THEOREM TypeCorrect == Spec => []TypeOK
  BY TypeInit, TypeStep, PTL DEF Spec
-----------------------------------------------------------------------------
\* The initial state satisfies the inductive invariant.
LEMMA IndInit == Init => IndInv
<1> SUFFICES ASSUME Init PROVE IndInv
  OBVIOUS
<1>1. TypeOK
  BY TypeInit
<1>2. MaskInv /\ HandlerInv /\ ForkedInv /\ FgDoneInv
  BY DEF Init, MaskInv, HandlerInv, ForkedInv, FgDoneInv, EvalLabels
<1>3. ModeInv /\ ForegroundInv
  BY DEF Init, ModeInv, ForegroundInv, init_jobs
<1>4. TableMatchesChildren
  BY ShellAssumption DEF Init, TableMatchesChildren, init_jobs, Recorded, Unreaped,
    BeingDeleted, BeingAdded
<1> QED
  BY <1>1, <1>2, <1>3, <1>4 DEF IndInv

\* Steps that touch neither the table nor the children keep the picture of
\* the table, as long as nobody is between reaping and deleting, or between
\* forking and adding, who was not before.
LEMMA TableFrame ==
  ASSUME TableMatchesChildren,
         UNCHANGED <<jobs, proc, dropped>>,
         BeingDeleted' = BeingDeleted, BeingAdded' = BeingAdded
  PROVE  TableMatchesChildren'
  BY DEF TableMatchesChildren, Recorded, Unreaped

\* The steps of main and eval other than fork and add_job.
LEMMA EvalStepInv ==
  ASSUME IndInv, TypeOK',
         \/ Exit \/ JobsUnblock \/ ForkFails \/ BlockAll \/ UnblockAll \/ ClearFgDone
         \/ TestFgDone \/ Sigsuspend \/ WaitOver \/ RestoreMask
         \/ \E argv : JobsBlock(argv)
         \/ \E cmd : EvalBlock(cmd)
  PROVE  IndInv'
<1> USE DEF IndInv, mainVars, handlerVars, kernelVars, history, MainAt
<1> USE DEF Exit, JobsUnblock, ForkFails, BlockAll, UnblockAll, ClearFgDone,
      TestFgDone, Sigsuspend, WaitOver, RestoreMask, JobsBlock, EvalBlock
<1>1. MaskInv'
  BY DEF MaskInv, EvalLabels, mask_all, mask_chld, Signals, TypeOK
<1>2. HandlerInv'
  BY DEF HandlerInv
<1>3. ForkedInv'
  BY DEF ForkedInv, Recorded, TypeOK
<1>4. ModeInv'
  BY DEF ModeInv
<1>5. ForegroundInv'
  BY DEF ForegroundInv, ForkedInv, FgDoneInv, TypeOK
<1>6. FgDoneInv'
  BY DEF FgDoneInv, TypeOK
<1>7. TableMatchesChildren'
  <2>1. BeingDeleted' = BeingDeleted /\ BeingAdded' = BeingAdded
    BY DEF BeingDeleted, BeingAdded
  <2> QED
    BY <2>1, TableFrame
<1> QED
  BY <1>1, <1>2, <1>3, <1>4, <1>5, <1>6, <1>7

\* fork: the new pid is not in the table, even if it was once before.
LEMMA ForkInv == IndInv /\ TypeOK' /\ Fork => IndInv'
<1> SUFFICES ASSUME IndInv, TypeOK', Fork PROVE IndInv'
  OBVIOUS
<1> USE DEF IndInv, mainVars, handlerVars, kernelVars, history, MainAt
<1>1. PICK p \in Pids : /\ proc[p] = "free"
                        /\ proc' = [proc EXCEPT ![p] = "running"]
                        /\ kind' = [kind EXCEPT ![p] = bg]
                        /\ pid' = p
  BY DEF Fork
<1>2. pc = "fork" /\ hpc = "idle" /\ pc' = "block_all"
      /\ UNCHANGED <<bg, prev, jobs, fg_done, mask, saved, handlerVars, pending, dropped>>
  BY DEF Fork
<1>3. p \notin Recorded
  BY <1>1, <1>2 DEF TableMatchesChildren, Unreaped, BeingDeleted
<1>4. MaskInv' /\ HandlerInv' /\ FgDoneInv'
  BY <1>2 DEF MaskInv, EvalLabels, HandlerInv, FgDoneInv
<1>5. ForkedInv'
  BY <1>1, <1>2, <1>3 DEF ForkedInv, Recorded, TypeOK
<1>6. ModeInv'
  BY <1>1, <1>2, <1>3 DEF ModeInv, Recorded, TypeOK, JobType
<1>7. ForegroundInv'
  BY <1>1, <1>2 DEF ForegroundInv, TypeOK
<1>8. TableMatchesChildren'
  BY <1>1, <1>2, <1>3 DEF TableMatchesChildren, Recorded, Unreaped, BeingDeleted,
    BeingAdded, TypeOK
<1> QED
  BY <1>4, <1>5, <1>6, <1>7, <1>8

\* add_job: the child enters the table, or the full table turns it away.
LEMMA AddJobInv == IndInv /\ TypeOK' /\ AddJob => IndInv'
<1> SUFFICES ASSUME IndInv, TypeOK', AddJob PROVE IndInv'
  OBVIOUS
<1> USE DEF IndInv, mainVars, handlerVars, kernelVars, history, MainAt
<1>1. pc = "add" /\ hpc = "idle" /\ pc' = "unblock_all" /\ pid \in Pids
      /\ proc[pid] # "free" /\ pid \notin Recorded /\ kind[pid] = bg
      /\ UNCHANGED <<pid, bg, prev, fg_done, mask, saved, handlerVars, kernelVars, kind>>
  BY DEF AddJob, ForkedInv
<1>2. MaskInv' /\ HandlerInv' /\ FgDoneInv' /\ ForkedInv' /\ ForegroundInv'
  BY <1>1 DEF MaskInv, EvalLabels, HandlerInv, FgDoneInv, ForkedInv, ForegroundInv
<1>3. CASE /\ \A i \in Slots : jobs[i].pid # NoPid
           /\ dropped' = dropped \cup {pid} /\ UNCHANGED jobs
  <2>1. ModeInv'
    BY <1>1, <1>3 DEF ModeInv
  <2>2. TableMatchesChildren'
    BY <1>1, <1>3 DEF TableMatchesChildren, Recorded, Unreaped, BeingDeleted, BeingAdded
  <2> QED
    BY <1>2, <2>1, <2>2
<1>4. ASSUME NEW i \in Slots, jobs[i].pid = NoPid, UNCHANGED dropped,
             jobs' = [jobs EXCEPT ![i] = [pid |-> pid, bg |-> bg]]
      PROVE  IndInv'
  <2>1. \A j \in Slots : jobs'[j] = IF j = i THEN [pid |-> pid, bg |-> bg] ELSE jobs[j]
    BY <1>4 DEF TypeOK
  <2>2. ModeInv'
    BY <1>1, <2>1 DEF ModeInv
  <2>3. Recorded' = Recorded \cup {pid}
    BY <1>1, <1>4, <2>1, ShellAssumption DEF Recorded
  <2>4. Unreaped' = Unreaped /\ BeingDeleted' = {} /\ BeingDeleted = {}
        /\ BeingAdded = {pid} /\ BeingAdded' = {}
    BY <1>1 DEF Unreaped, BeingDeleted, BeingAdded
  <2>5. \A j, k \in Slots : jobs'[j].pid # NoPid /\ jobs'[j].pid = jobs'[k].pid => j = k
    BY <1>1, <2>1 DEF TableMatchesChildren, Recorded
  <2>6. pid \in Unreaped
    BY <1>1 DEF Unreaped
  <2>7. TableMatchesChildren'
    BY <1>4, <2>3, <2>4, <2>5, <2>6 DEF TableMatchesChildren
  <2> QED
    BY <1>2, <2>2, <2>7
<1> QED
  BY <1>3, <1>4 DEF AddJob, add_job

\* The handler's steps other than waitpid and delete_job, and delivery: no
\* frame nests, and what sigsuspend returns to has SIGCHLD blocked again.
LEMMA HandlerStepInv ==
  ASSUME IndInv, TypeOK',
         Deliver \/ HandlerBlock \/ HandlerUnblock \/ Report \/ HandlerReturn
  PROVE  IndInv'
<1> USE DEF IndInv, mainVars, handlerVars, kernelVars, history, HandlerAt
<1> USE DEF Deliver, HandlerBlock, HandlerUnblock, Report, HandlerReturn, foreground
<1>1. MaskInv'
  BY DEF MaskInv, EvalLabels, mask_all, Signals, TypeOK, PcLabels, HpcLabels
<1>2. HandlerInv'
  BY DEF HandlerInv
<1>3. ForkedInv'
  BY DEF ForkedInv, Recorded
<1>4. ModeInv'
  BY DEF ModeInv
<1>5. ForegroundInv'
  BY DEF ForegroundInv
<1>6. FgDoneInv'
  BY DEF FgDoneInv, HandlerInv, ForegroundInv, MaskInv, ForkedInv, TypeOK
<1>7. TableMatchesChildren'
  <2>1. hpc # "idle" \/ Deliver => BeingAdded' = BeingAdded
    BY DEF BeingAdded, MaskInv
  <2>2. BeingDeleted' = BeingDeleted
    BY DEF BeingDeleted, MaskInv
  <2> QED
    BY <2>1, <2>2, TableFrame
<1> QED
  BY <1>1, <1>2, <1>3, <1>4, <1>5, <1>6, <1>7

\* waitpid releases a zombie: it stays accounted for until it is deleted.
LEMMA ReapInv == IndInv /\ TypeOK' /\ Reap => IndInv'
<1> SUFFICES ASSUME IndInv, TypeOK', Reap PROVE IndInv'
  OBVIOUS
<1> USE DEF IndInv, mainVars, handlerVars, kernelVars, history, HandlerAt
<1>1. PICK p \in Pids : /\ proc[p] = "zombie"
                        /\ proc' = [proc EXCEPT ![p] = "free"]
                        /\ hpid' = p
  BY DEF Reap
<1>2. hpc = "waitpid" /\ hpc' = "block"
      /\ UNCHANGED <<mainVars, jobs, fg_done, mask, saved, hbg, hprev, pending, history>>
  BY DEF Reap
<1>3. MaskInv' /\ HandlerInv' /\ ModeInv'
  BY <1>1, <1>2 DEF MaskInv, HandlerInv, ModeInv, TypeOK
<1>4. ForkedInv'
  BY <1>1, <1>2 DEF ForkedInv, MaskInv, Recorded, TypeOK
<1>5. ForegroundInv'
  BY <1>1, <1>2 DEF ForegroundInv, TypeOK
<1>6. FgDoneInv'
  BY <1>1, <1>2 DEF FgDoneInv, ForkedInv, TypeOK
<1>7. TableMatchesChildren'
  <2>1. Unreaped' \cup BeingDeleted' = Unreaped \cup BeingDeleted
    BY <1>1, <1>2 DEF Unreaped, BeingDeleted, TypeOK
  <2>2. Recorded' = Recorded /\ BeingAdded' = BeingAdded
    BY <1>2 DEF Recorded, BeingAdded
  <2> QED
    BY <1>2, <2>1, <2>2 DEF TableMatchesChildren
<1> QED
  BY <1>3, <1>4, <1>5, <1>6, <1>7

\* delete_job: the reaped child leaves the table with its mode in hand.
LEMMA DeleteJobInv == IndInv /\ TypeOK' /\ DeleteJob => IndInv'
<1> SUFFICES ASSUME IndInv, TypeOK', DeleteJob PROVE IndInv'
  OBVIOUS
<1> USE DEF IndInv, mainVars, handlerVars, kernelVars, history, HandlerAt
<1>1. /\ hpc = "delete" /\ hpc' = "unblock" /\ hpid \in Pids /\ proc[hpid] = "free"
      /\ dropped' = dropped \ {hpid} /\ pc \in {"prompt", "suspended"}
      /\ UNCHANGED <<mainVars, fg_done, mask, saved, hpid, hprev, kernelVars, kind>>
  BY DEF DeleteJob, delete_job, HandlerInv, MaskInv
<1>2. MaskInv' /\ FgDoneInv' /\ ForkedInv' /\ ForegroundInv'
  BY <1>1 DEF MaskInv, FgDoneInv, ForkedInv, ForegroundInv
<1>3. Unreaped' = Unreaped /\ BeingDeleted = {hpid} /\ BeingDeleted' = {}
      /\ BeingAdded = {} /\ BeingAdded' = {} /\ hpid \notin Unreaped
  BY <1>1 DEF Unreaped, BeingDeleted, BeingAdded
<1>4. CASE (\A i \in Slots : jobs[i].pid # hpid) /\ hbg' = -1 /\ UNCHANGED jobs
  <2>1. HandlerInv' /\ ModeInv'
    BY <1>1, <1>4 DEF HandlerInv, ModeInv
  <2>2. Recorded' = Recorded /\ hpid \notin Recorded
    BY <1>4 DEF Recorded
  <2>3. TableMatchesChildren'
    BY <1>1, <1>3, <1>4, <2>2 DEF TableMatchesChildren
  <2> QED
    BY <1>2, <2>1, <2>3
<1>5. ASSUME NEW i \in Slots, jobs[i].pid = hpid, hbg' = jobs[i].bg,
             jobs' = [jobs EXCEPT ![i] = emptied(jobs[i])]
      PROVE  IndInv'
  <2>1. /\ \A j \in Slots : j # i => jobs'[j] = jobs[j]
        /\ jobs'[i].pid = NoPid
    BY <1>5 DEF TypeOK, JobType, emptied
  <2>2. HandlerInv'
    BY <1>1, <1>5, ShellAssumption DEF HandlerInv, ModeInv
  <2>3. ModeInv'
    BY <1>1, <2>1 DEF ModeInv
  <2>4. Recorded' = Recorded \ {hpid}
    BY <1>1, <1>5, <2>1, ShellAssumption DEF Recorded, TableMatchesChildren
  <2>5. \A j, k \in Slots : jobs'[j].pid # NoPid /\ jobs'[j].pid = jobs'[k].pid => j = k
    BY <2>1 DEF TableMatchesChildren
  <2>6. TableMatchesChildren'
    BY <1>1, <1>3, <2>4, <2>5 DEF TableMatchesChildren
  <2> QED
    BY <1>2, <2>2, <2>3, <2>6
<1> QED
  BY <1>4, <1>5 DEF DeleteJob, delete_job

\* A child that ends, stops or continues changes no account.
LEMMA ChildInv ==
  ASSUME IndInv, TypeOK', NEW p \in Pids,
         NEW from \in SUBSET {"running", "stopped"}, NEW to \in {"running", "stopped", "zombie"},
         ChildChanges(p, from, to)
  PROVE  IndInv'
<1> USE DEF IndInv, mainVars, handlerVars, kernelVars, history
<1>1. /\ proc[p] # "free" /\ proc' = [proc EXCEPT ![p] = to] /\ to # "free"
      /\ UNCHANGED <<mainVars, jobs, fg_done, mask, saved, handlerVars, history>>
  BY DEF ChildChanges
<1>2. \A q \in Pids : proc'[q] = "free" <=> proc[q] = "free"
  BY <1>1 DEF TypeOK
<1>3. MaskInv' /\ HandlerInv' /\ ForkedInv' /\ ModeInv'
  BY <1>1, <1>2 DEF MaskInv, HandlerInv, ForkedInv, ModeInv, Recorded
<1>4. ForegroundInv' /\ FgDoneInv'
  BY <1>1, <1>2 DEF ForegroundInv, FgDoneInv, ForkedInv
<1>5. TableMatchesChildren'
  BY <1>1, <1>2 DEF TableMatchesChildren, Recorded, Unreaped, BeingDeleted, BeingAdded
<1> QED
  BY <1>3, <1>4, <1>5

\* A stuttering step keeps the invariant.
LEMMA StutterInv == IndInv /\ UNCHANGED vars => IndInv'
<1> SUFFICES ASSUME IndInv, UNCHANGED vars PROVE IndInv'
  OBVIOUS
<1> USE DEF IndInv, vars, mainVars, handlerVars, kernelVars, history
<1>1. TypeOK' /\ MaskInv' /\ HandlerInv' /\ ForkedInv'
  BY DEF TypeOK, MaskInv, HandlerInv, ForkedInv, Recorded
<1>2. ModeInv' /\ ForegroundInv' /\ FgDoneInv'
  BY DEF ModeInv, ForegroundInv, FgDoneInv
<1>3. TableMatchesChildren'
  BY DEF TableMatchesChildren, Recorded, Unreaped, BeingDeleted, BeingAdded
<1> QED
  BY <1>1, <1>2, <1>3

\* The invariant is inductive.
LEMMA IndStep == IndInv /\ [Next]_vars => IndInv'
<1> SUFFICES ASSUME IndInv, [Next]_vars PROVE IndInv'
  OBVIOUS
<1>1. TypeOK'
  BY TypeStep DEF IndInv
<1>2. CASE EndOfInput
  BY <1>1, <1>2, EvalStepInv DEF EndOfInput
<1>3. ASSUME NEW words \in CmdLines, Eval(words) PROVE IndInv'
  <2> DEFINE cmd == parseline(words)
  <2>1. CASE IgnoreLine(cmd.argv)
    BY <2>1, StutterInv DEF IgnoreLine
  <2>2. CASE Exit \/ JobsBlock(cmd.argv) \/ EvalBlock(cmd)
    BY <1>1, <2>2, EvalStepInv
  <2> QED
    BY <1>3, <2>1, <2>2 DEF Eval
<1>4. CASE EvalSteps
  BY <1>1, <1>4, EvalStepInv, ForkInv, AddJobInv DEF EvalSteps
<1>5. CASE Deliver \/ HandlerSteps
  BY <1>1, <1>5, HandlerStepInv, ReapInv, DeleteJobInv DEF HandlerSteps
<1>6. ASSUME NEW p \in Pids, ChildExits(p) \/ ChildStops(p) \/ ChildContinues(p)
      PROVE IndInv'
  BY <1>1, <1>6, ChildInv DEF ChildExits, ChildStops, ChildContinues
<1>7. CASE Exited \/ UNCHANGED vars
  BY <1>7, StutterInv DEF Exited
<1> QED
  BY <1>2, <1>3, <1>4, <1>5, <1>6, <1>7 DEF Next

\* The inductive invariant holds in every reachable state.
LEMMA Invariant == Spec => []IndInv
  BY IndInit, IndStep, PTL DEF Spec
-----------------------------------------------------------------------------
\* The job table mirrors the shell's children, pid reuse included.
THEOREM TableCorrect == Spec => []TableMatchesChildren
<1>1. IndInv => TableMatchesChildren
  BY DEF IndInv
<1> QED
  BY <1>1, Invariant, PTL

\* The handler's delete_job never looks for a job eval has not added yet.
THEOREM AddBeforeDelete == Spec => []DeleteFindsJob
<1>1. IndInv => DeleteFindsJob
  BY DEF IndInv, DeleteFindsJob, TableMatchesChildren, BeingDeleted, BeingAdded, MaskInv
<1> QED
  BY <1>1, Invariant, PTL

\* eval, list_jobs and the handler never use the table at the same time.
THEOREM TableExclusion == Spec => []TableIsExclusive
<1>1. IndInv => TableIsExclusive
  BY DEF IndInv, TableIsExclusive, MaskInv, EvalLabels
<1> QED
  BY <1>1, Invariant, PTL

\* The prompt returns only after the foreground program has been reaped.
THEOREM PromptCorrect == Spec => []PromptHasNoForeground
<1>1. IndInv => PromptHasNoForeground
  BY DEF IndInv, PromptHasNoForeground, ForegroundInv, Unreaped, TypeOK
<1> QED
  BY <1>1, Invariant, PTL
-----------------------------------------------------------------------------
\* A step that leaves children, modes and the holder of the terminal alone is
\* a stuttering step of the promise.
LEMMA PromiseStutter ==
  ASSUME UNCHANGED <<proc, kind>>, termMap' = termMap
  PROVE  UNCHANGED Promise!jvars
  BY DEF Promise!jvars, childMap

\* Every step of the shell is a step of JobControl or leaves it unchanged.
LEMMA PromiseStep == IndInv /\ [Next]_vars => [Promise!JNext]_(Promise!jvars)
<1> SUFFICES ASSUME IndInv, [Next]_vars
             PROVE  Promise!JNext \/ UNCHANGED Promise!jvars
  OBVIOUS
<1> USE DEF mainVars, handlerVars, kernelVars, history
<1>0. Exit \/ ForkFails => Promise!JNext
  BY DEF Exit, ForkFails, MainAt, Promise!JNext, Promise!Leave, termMap, childMap
<1>1. CASE EndOfInput
  BY <1>0, <1>1 DEF EndOfInput
<1>2. ASSUME NEW words \in CmdLines, Eval(words)
      PROVE  Promise!JNext \/ UNCHANGED Promise!jvars
  <2> DEFINE cmd == parseline(words)
  <2>1. CASE IgnoreLine(cmd.argv)
    BY <2>1, PromiseStutter DEF IgnoreLine, vars, termMap
  <2>2. CASE JobsBlock(cmd.argv)
    BY <2>2, PromiseStutter DEF JobsBlock, MainAt, termMap
  <2>3. CASE EvalBlock(cmd)
    BY <2>3, PromiseStutter DEF EvalBlock, MainAt, termMap
  <2> QED
    BY <1>0, <1>2, <2>1, <2>2, <2>3 DEF Eval
<1>3. CASE JobsUnblock \/ BlockAll \/ AddJob \/ UnblockAll \/ ClearFgDone \/ TestFgDone
           \/ Sigsuspend \/ RestoreMask
  <2>1. UNCHANGED <<proc, kind>>
    BY <1>3 DEF JobsUnblock, BlockAll, AddJob, UnblockAll, ClearFgDone, TestFgDone, Sigsuspend,
      RestoreMask
  <2>2. termMap' = termMap
    BY <1>3 DEF JobsUnblock, BlockAll, AddJob, UnblockAll, ClearFgDone, TestFgDone, Sigsuspend,
      RestoreMask, MainAt, termMap
  <2> QED
    BY <2>1, <2>2, PromiseStutter
<1>4. CASE Fork
  <2>1. PICK p \in Pids : /\ proc[p] = "free"
                          /\ proc' = [proc EXCEPT ![p] = "running"]
                          /\ kind' = [kind EXCEPT ![p] = bg]
    BY <1>4 DEF Fork
  <2>2. childMap[p] = "none" /\ childMap' = [childMap EXCEPT ![p] = IF bg = 0 THEN "fg" ELSE "bg"]
    BY <2>1 DEF childMap, IndInv, TypeOK
  <2>3. termMap = "user" /\ termMap' = IF bg = 0 THEN "fg" ELSE "user"
    BY <1>4 DEF Fork, MainAt, termMap
  <2> QED
    BY <2>2, <2>3 DEF Promise!JNext, Promise!StartForeground, Promise!StartBackground
<1>5. CASE WaitOver
  <2>1. \A p \in Pids : proc[p] # "free" => kind[p] # 0
    BY <1>5 DEF WaitOver, MainAt, IndInv, ForegroundInv, FgDoneInv, TypeOK
  <2>2. \A p \in Pids : childMap[p] # "fg"
    BY <2>1 DEF childMap
  <2>3. termMap = "fg" /\ termMap' = "user" /\ childMap' = childMap
    BY <1>5 DEF WaitOver, MainAt, termMap, childMap, IndInv, ForkedInv
  <2> QED
    BY <2>2, <2>3 DEF Promise!JNext, Promise!GiveBack
<1>6. CASE Reap
  <2>1. PICK p \in Pids : proc[p] = "zombie" /\ proc' = [proc EXCEPT ![p] = "free"]
    BY <1>6 DEF Reap
  <2>2. childMap[p] # "none" /\ childMap' = [childMap EXCEPT ![p] = "none"]
    BY <1>6, <2>1 DEF Reap, childMap, IndInv, TypeOK
  <2>3. termMap # "none" /\ termMap' = termMap
    BY <1>6 DEF Reap, HandlerAt, termMap
  <2> QED
    BY <2>2, <2>3 DEF Promise!JNext, Promise!Collect
<1>7. CASE Deliver \/ HandlerBlock \/ DeleteJob \/ HandlerUnblock \/ Report \/ HandlerReturn
  <2>1. UNCHANGED <<proc, kind>>
    BY <1>7 DEF Deliver, HandlerBlock, DeleteJob, HandlerUnblock, Report, HandlerReturn
  <2>2. termMap' = termMap
    BY <1>7 DEF Deliver, HandlerBlock, DeleteJob, HandlerUnblock, Report, HandlerReturn, termMap
  <2> QED
    BY <2>1, <2>2, PromiseStutter
<1>8. ASSUME NEW p \in Pids, ChildExits(p) \/ ChildStops(p) \/ ChildContinues(p)
      PROVE  UNCHANGED Promise!jvars
  <2>1. UNCHANGED <<pc, bg, kind>> /\ proc[p] # "free"
    BY <1>8 DEF ChildExits, ChildStops, ChildContinues, ChildChanges
  <2>2. \A q \in Pids : proc'[q] = "free" <=> proc[q] = "free"
    BY <1>8 DEF ChildExits, ChildStops, ChildContinues, ChildChanges, IndInv, TypeOK
  <2> QED
    BY <2>1, <2>2 DEF Promise!jvars, childMap, termMap
<1>9. CASE Exited \/ UNCHANGED vars
  BY <1>9, PromiseStutter DEF Exited, vars, termMap
<1> QED
  BY <1>0, <1>1, <1>2, <1>3, <1>4, <1>5, <1>6, <1>7, <1>8, <1>9
    DEF Next, EvalSteps, HandlerSteps

\* The shell implements the job-control promise.
THEOREM Refinement == Spec => ImplementsJobControl
<1>1. Init => Promise!JInit
  BY DEF Init, Promise!JInit, childMap, termMap
<1> QED
  BY <1>1, PromiseStep, Invariant, PTL DEF Spec, ImplementsJobControl, Promise!JSpec
-----------------------------------------------------------------------------
(* The coroutine scheduler. *)

\* A coroutine stands in the ready queue r or in the vector ts of timers.
Stands(t, r, ts) ==
  (\E k \in 1..Len(r) : r[k] = t) \/ (\E k \in 1..Len(ts) : ts[k].handle = t)

\* No coroutine stands in two places.
Apart(r, ts) ==
  /\ \A j, k \in 1..Len(r) : r[j] = r[k] => j = k
  /\ \A j, k \in 1..Len(ts) : ts[j].handle = ts[k].handle => j = k
  /\ \A j \in 1..Len(r), k \in 1..Len(ts) : r[j] # ts[k].handle

Pos(d) == IF d > 0 THEN d ELSE 0

\* The ticks of the awaits a coroutine has passed or is suspended in.
Elapsed(t) ==
  (IF stage[t] >= 1 THEN Pos(delay[t][1]) ELSE 0) + (IF stage[t] >= 2 THEN Pos(delay[t][2]) ELSE 0)

\* Every coroutine that is not done has one place, and the two places are not
\* both empty between the loop condition and front().
PlaceInv ==
  /\ Apart(ready_, timers_)
  /\ \A t \in Tasks : stage[t] # 3 <=> Stands(t, ready_, timers_)
  /\ run_at = "jump" => ready_ # <<>> \/ timers_ # <<>>
  /\ run_at = "resume" => ready_ # <<>>

\* The clock and the timers agree with the ticks each coroutine asked for.
\* A ready coroutine is due now and no timer lies in the past.
TimeInv ==
  /\ \A k \in 1..Len(ready_) : Elapsed(ready_[k]) = tick_
  /\ \A k \in 1..Len(timers_) :
       timers_[k].wake_tick = Elapsed(timers_[k].handle) /\ timers_[k].wake_tick >= tick_
  /\ \A t \in Tasks : ended[t] = IF stage[t] = 3 THEN Asked(t) ELSE -1

SchedulerInv ==
  /\ SchedulerTypeOK /\ delay \in [Tasks -> [1..2 -> Delays]]
  /\ PlaceInv /\ TimeInv
-----------------------------------------------------------------------------
\* The handles of a vector of timers are a sequence of coroutines.
LEMMA HandlesType ==
  ASSUME NEW ts \in Seq(Timers)
  PROVE  /\ handles(ts) \in Seq(Tasks) /\ Len(handles(ts)) = Len(ts)
         /\ \A k \in 1..Len(ts) : handles(ts)[k] = ts[k].handle /\ ts[k].handle \in Tasks
<1>1. Len(ts) \in Nat /\ DOMAIN ts = 1..Len(ts)
  BY LenProperties
<1>2. \A k \in 1..Len(ts) : ts[k].handle \in Tasks
  <2>1. \A k \in 1..Len(ts) : ts[k] \in Timers
    BY ElementOfSeq
  <2> QED
    BY <2>1 DEF Timers
<1>3. handles(ts) \in [1..Len(ts) -> Tasks]
  BY <1>1, <1>2 DEF handles
<1>4. handles(ts) \in Seq(Tasks)
  BY <1>1, <1>3, SeqDef
<1>5. Len(handles(ts)) = Len(ts)
  BY <1>1, <1>3, <1>4, LenProperties
<1> QED
  BY <1>1, <1>2, <1>4, <1>5 DEF handles

\* What moving the timers of a set D to the ready queue comes to: nothing is
\* lost, nothing is duplicated, and what is moved comes from D.
Moves(r, ts, D, r2, ts2) ==
  /\ r2 \in Seq(Tasks) /\ ts2 \in Seq(Timers) /\ Apart(r2, ts2)
  /\ \A t : Stands(t, r2, ts2) <=> Stands(t, r, ts)
  /\ \A k \in 1..Len(r2) : \/ \E j \in 1..Len(r) : r2[k] = r[j]
                           \/ \E j \in 1..Len(ts) : ts[j] \in D /\ r2[k] = ts[j].handle
  /\ \A k \in 1..Len(ts2) : \E j \in 1..Len(ts) : ts2[k] = ts[j] /\ ts[j] \notin D
  /\ r # <<>> => r2 # <<>>
  /\ (\E j \in 1..Len(ts) : ts[j] \in D) => r2 # <<>>

\* wake_due_timers moves them.
LEMMA WakeMoves ==
  ASSUME NEW r \in Seq(Tasks), NEW ts \in Seq(Timers), NEW D, Apart(r, ts)
  PROVE  Moves(r, ts, D, r \o handles(Filter(ts, D)), Filter(ts, Timers \ D))
<1> DEFINE r2 == r \o handles(Filter(ts, D))
           ts2 == Filter(ts, Timers \ D)
<1> DEFINE w == Filter(ts, D)
           h == handles(w)
<1>1. w \in Seq(Timers) /\ ts2 \in Seq(Timers)
  BY FilterSeq
<1>2. h \in Seq(Tasks) /\ Len(h) = Len(w) /\ \A k \in 1..Len(w) : h[k] = w[k].handle
  BY <1>1, HandlesType
<1>3. Len(r) \in Nat /\ Len(ts) \in Nat /\ Len(w) \in Nat /\ Len(ts2) \in Nat
  BY <1>1, LenProperties
<1>4. /\ r2 \in Seq(Tasks) /\ Len(r2) = Len(r) + Len(w)
      /\ \A k \in 1..(Len(r) + Len(w)) : r2[k] = IF k <= Len(r) THEN r[k] ELSE h[k - Len(r)]
  <2>1. r2 = r \o h
    BY DEF h, w
  <2> HIDE DEF h, w, r2
  <2>2. /\ r \o h \in Seq(Tasks) /\ Len(r \o h) = Len(r) + Len(h)
        /\ \A k \in 1..(Len(r) + Len(h)) :
             (r \o h)[k] = IF k <= Len(r) THEN r[k] ELSE h[k - Len(r)]
    BY <1>2, ConcatProperties, ZenonT(40)
  <2> QED
    BY <1>2, <2>1, <2>2
<1>5. PICK p : Picks(p, ts, D)
  BY FilterPicks
<1>6. PICK q : Picks(q, ts, Timers \ D)
  BY FilterPicks
<1>7. \A k \in 1..Len(ts) : ts[k] \in Timers
  BY ElementOfSeq
<1>8. /\ p \in [1..Len(w) -> 1..Len(ts)]
      /\ \A x \in 1..Len(w) : w[x] = ts[p[x]]
      /\ \A x, j \in 1..Len(w) : x < j => p[x] < p[j]
      /\ \A k \in 1..Len(ts) : ts[k] \in D <=> \E x \in 1..Len(w) : p[x] = k
  BY <1>5 DEF Picks
<1>9. /\ q \in [1..Len(ts2) -> 1..Len(ts)]
      /\ \A x \in 1..Len(ts2) : ts2[x] = ts[q[x]]
      /\ \A x, j \in 1..Len(ts2) : x < j => q[x] < q[j]
      /\ \A k \in 1..Len(ts) : ts[k] \notin D <=> \E x \in 1..Len(ts2) : q[x] = k
  BY <1>6, <1>7 DEF Picks
<1> HIDE DEF h, w, r2, ts2
\* Where an element of the new ready queue comes from.
<1>10. \A k \in 1..Len(r2) :
         \/ k \in 1..Len(r) /\ r2[k] = r[k]
         \/ /\ k > Len(r) /\ k - Len(r) \in 1..Len(w) /\ p[k - Len(r)] \in 1..Len(ts)
            /\ r2[k] = ts[p[k - Len(r)]].handle /\ ts[p[k - Len(r)]] \in D
  <2> SUFFICES ASSUME NEW k \in 1..Len(r2), k > Len(r)
               PROVE  /\ k - Len(r) \in 1..Len(w) /\ p[k - Len(r)] \in 1..Len(ts)
                      /\ r2[k] = ts[p[k - Len(r)]].handle /\ ts[p[k - Len(r)]] \in D
    BY <1>3, <1>4
  <2>1. k - Len(r) \in 1..Len(w) /\ r2[k] = h[k - Len(r)]
    BY <1>3, <1>4, SMTT(40)
  <2>2. h[k - Len(r)] = w[k - Len(r)].handle /\ w[k - Len(r)] = ts[p[k - Len(r)]]
    BY <1>2, <1>8, <2>1
  <2> QED
    BY <1>8, <2>1, <2>2
\* Strictly increasing positions are distinct.
<1>11. \A x, j \in 1..Len(w) : p[x] = p[j] => x = j
  <2> SUFFICES ASSUME NEW x \in 1..Len(w), NEW j \in 1..Len(w), p[x] = p[j] PROVE x = j
    OBVIOUS
  <2>1. p[x] \in Int /\ ~(p[x] < p[j]) /\ ~(p[j] < p[x])
    BY <1>3, <1>8
  <2> QED
    BY <1>3, <1>8, <2>1
<1>12. \A x, j \in 1..Len(ts2) : q[x] = q[j] => x = j
  <2> SUFFICES ASSUME NEW x \in 1..Len(ts2), NEW j \in 1..Len(ts2), q[x] = q[j] PROVE x = j
    OBVIOUS
  <2>1. q[x] \in 1..Len(ts) /\ q[j] \in 1..Len(ts)
    BY <1>9
  <2>2. x \in Int /\ j \in Int /\ ~(q[x] < q[j]) /\ ~(q[j] < q[x])
    BY <1>3, <2>1
  <2>3. ~(x < j) /\ ~(j < x)
    BY <1>9, <2>2
  <2> QED
    BY <2>2, <2>3
<1>13. \A x \in 1..Len(w), j \in 1..Len(ts2) : p[x] # q[j]
  BY <1>8, <1>9
<1>14. Apart(r2, ts2)
  <2>1. ASSUME NEW j \in 1..Len(r2), NEW k \in 1..Len(r2), r2[j] = r2[k] PROVE j = k
    <3>1. CASE j \in 1..Len(r) /\ k \in 1..Len(r)
      BY <1>3, <1>10, <2>1, <3>1, SMTT(40) DEF Apart
    <3>2. CASE ~(j \in 1..Len(r)) /\ ~(k \in 1..Len(r))
      <4>1. p[j - Len(r)] = p[k - Len(r)]
        <5>1. r2[j] = ts[p[j - Len(r)]].handle /\ p[j - Len(r)] \in 1..Len(ts)
          BY <1>10, <3>2
        <5>2. r2[k] = ts[p[k - Len(r)]].handle /\ p[k - Len(r)] \in 1..Len(ts)
          BY <1>10, <3>2
        <5> QED
          BY <2>1, <5>1, <5>2 DEF Apart
      <4>2. j - Len(r) = k - Len(r)
        BY <1>10, <1>11, <3>2, <4>1
      <4>3. j \in Int /\ k \in Int /\ Len(r) \in Int
        BY <1>3, <1>4
      <4> QED
        BY <4>2, <4>3
    <3>3. \A m \in 1..Len(r2), n \in 1..Len(r2) :
            m \in 1..Len(r) /\ ~(n \in 1..Len(r)) => r2[m] # r2[n]
      <4> SUFFICES ASSUME NEW m \in 1..Len(r2), NEW n \in 1..Len(r2),
                          m \in 1..Len(r), ~(n \in 1..Len(r))
                   PROVE  r2[m] # r2[n]
        OBVIOUS
      <4>1. r2[m] = r[m]
        BY <1>3, <1>10, SMTT(40)
      <4>2. r2[n] = ts[p[n - Len(r)]].handle /\ p[n - Len(r)] \in 1..Len(ts)
        BY <1>10
      <4> QED
        BY <4>1, <4>2 DEF Apart
    <3> QED
      BY <2>1, <3>1, <3>2, <3>3
  <2>2. ASSUME NEW j \in 1..Len(ts2), NEW k \in 1..Len(ts2), ts2[j].handle = ts2[k].handle PROVE j = k
    <3>1. q[j] = q[k]
      <4>1. ts2[j] = ts[q[j]] /\ q[j] \in 1..Len(ts) /\ ts2[k] = ts[q[k]] /\ q[k] \in 1..Len(ts)
        BY <1>9
      <4> QED
        BY <2>2, <4>1 DEF Apart
    <3> QED
      BY <1>12, <3>1
  <2>3. ASSUME NEW j \in 1..Len(r2), NEW k \in 1..Len(ts2) PROVE r2[j] # ts2[k].handle
    <3>1. ts2[k] = ts[q[k]] /\ q[k] \in 1..Len(ts)
      BY <1>9
    <3>2. CASE j \in 1..Len(r)
      BY <1>3, <1>10, <3>1, <3>2, SMTT(40) DEF Apart
    <3>3. CASE ~(j \in 1..Len(r))
      <4>1. p[j - Len(r)] # q[k]
        BY <1>10, <1>13, <3>3
      <4>2. r2[j] = ts[p[j - Len(r)]].handle /\ p[j - Len(r)] \in 1..Len(ts)
        BY <1>10, <3>3
      <4> QED
        BY <3>1, <4>1, <4>2 DEF Apart
    <3> QED
      BY <3>2, <3>3
  <2> QED
    BY <2>1, <2>2, <2>3 DEF Apart
<1>15. ASSUME NEW t PROVE Stands(t, r2, ts2) <=> Stands(t, r, ts)
  <2>1. ASSUME NEW k \in 1..Len(r2), r2[k] = t PROVE Stands(t, r, ts)
    BY <1>10, <2>1 DEF Stands
  <2>2. ASSUME NEW k \in 1..Len(ts2), ts2[k].handle = t PROVE Stands(t, r, ts)
    BY <1>9, <2>2 DEF Stands
  <2>3. ASSUME NEW k \in 1..Len(r), r[k] = t PROVE Stands(t, r2, ts2)
    <3>1. k \in 1..Len(r2) /\ r2[k] = t
      BY <1>3, <1>4, <2>3
    <3> QED
      BY <3>1 DEF Stands
  <2>4. ASSUME NEW k \in 1..Len(ts), ts[k].handle = t PROVE Stands(t, r2, ts2)
    <3>1. CASE ts[k] \in D
      <4>1. PICK x \in 1..Len(w) : p[x] = k
        BY <1>8, <3>1
      <4>2. Len(r) + x \in 1..Len(r2) /\ r2[Len(r) + x] = h[x]
        <5>1. Len(r) + x \in 1..(Len(r) + Len(w)) /\ ~(Len(r) + x <= Len(r)) /\ Len(r) + x - Len(r) = x
          BY <1>3
        <5> QED
          BY <1>4, <5>1
      <4>3. h[x] = t
        BY <1>2, <1>8, <2>4, <4>1
      <4> QED
        BY <4>2, <4>3 DEF Stands
    <3>2. CASE ts[k] \notin D
      <4>1. PICK x \in 1..Len(ts2) : q[x] = k
        BY <1>9, <3>2
      <4>2. ts2[x].handle = t
        BY <1>9, <2>4, <4>1
      <4> QED
        BY <4>2 DEF Stands
    <3> QED
      BY <3>1, <3>2
  <2> QED
    BY <2>1, <2>2, <2>3, <2>4 DEF Stands
<1>16. \A k \in 1..Len(ts2) : \E j \in 1..Len(ts) : ts2[k] = ts[j] /\ ts[j] \notin D
  BY <1>9
<1>17. r # <<>> => r2 # <<>>
  <2>1. r # <<>> => Len(r) > 0
    BY EmptySeq
  <2> QED
    BY <1>3, <1>4, <2>1, EmptySeq
<1>18. (\E j \in 1..Len(ts) : ts[j] \in D) => r2 # <<>>
  <2> SUFFICES ASSUME NEW j \in 1..Len(ts), ts[j] \in D PROVE r2 # <<>>
    OBVIOUS
  <2>1. PICK x \in 1..Len(w) : p[x] = j
    BY <1>8
  <2> QED
    BY <1>3, <1>4, <2>1, EmptySeq
<1>19. Moves(r, ts, D, r2, ts2)
  BY <1>1, <1>4, <1>10, <1>14, <1>15, <1>16, <1>17, <1>18, Zenon DEF Moves
<1> QED
  BY <1>19 DEF r2, ts2

\* The initial state satisfies the invariant.
LEMMA SchedulerInitial == SchedulerInit => SchedulerInv
<1> SUFFICES ASSUME SchedulerInit PROVE SchedulerInv
  OBVIOUS
<1> USE SchedulerAssumption
<1>1. ready_ \in [1..TaskCount -> Tasks] /\ TaskCount \in Nat
  BY DEF SchedulerInit, Tasks
<1>2. ready_ \in Seq(Tasks)
  BY <1>1, SeqDef
<1>3. Len(ready_) = TaskCount
  BY <1>1, <1>2, LenProperties
<1>4. timers_ = <<>> /\ timers_ \in Seq(Timers) /\ Len(timers_) = 0
  BY EmptySeq DEF SchedulerInit
<1>5. SchedulerTypeOK /\ delay \in [Tasks -> [1..2 -> Delays]]
  BY <1>2, <1>4 DEF SchedulerInit, SchedulerTypeOK
<1>6. PlaceInv
  BY <1>3, <1>4 DEF SchedulerInit, PlaceInv, Apart, Stands, Tasks
<1>7. TimeInv
  BY <1>3, <1>4 DEF SchedulerInit, TimeInv, Elapsed, Tasks
<1> QED
  BY <1>5, <1>6, <1>7 DEF SchedulerInv

\* The ticks asked for fit an int and are what Asked adds up.
LEMMA ElapsedBound ==
  ASSUME SchedulerInv, NEW t \in Tasks
  PROVE  /\ delay[t][1] \in Int /\ delay[t][2] \in Int /\ stage[t] \in 0..3
         /\ Elapsed(t) \in 0..INT_MAX
         /\ Asked(t) = Pos(delay[t][1]) + Pos(delay[t][2]) /\ Asked(t) \in 0..INT_MAX
<1>1. delay[t] \in [1..2 -> Delays] /\ stage[t] \in 0..3
  BY DEF SchedulerInv, SchedulerTypeOK
<1>2. delay[t][1] \in Delays /\ delay[t][2] \in Delays
  BY <1>1
<1>3. /\ delay[t][1] \in Int /\ 2 * delay[t][1] <= INT_MAX
      /\ delay[t][2] \in Int /\ 2 * delay[t][2] <= INT_MAX /\ INT_MAX \in Nat
  BY <1>2, SchedulerAssumption
<1>4. \A d \in Int : Max({0, d}) = Pos(d)
  <2> SUFFICES ASSUME NEW d \in Int PROVE Max({0, d}) = Pos(d)
    OBVIOUS
  <2>1. Max({0, d}) \in {0, d} /\ \A y \in {0, d} : Max({0, d}) >= y
    BY DEF Max
  <2> QED
    BY <2>1 DEF Pos
<1> QED
  BY <1>1, <1>3, <1>4 DEF Elapsed, Asked, Pos

\* Waking the timers of a set D, all of which are due at the tick the clock
\* then shows, keeps the invariant, in either half of the loop's turn.
LEMMA WakeStep ==
  ASSUME SchedulerInv, NEW tick \in 0..INT_MAX, tick_' = tick, wake_due_timers(tick),
         UNCHANGED <<stage, delay, ended>>, run_at' \in {"jump", "resume"},
         tick = tick_ \/ ready_ = <<>>,
         \A k \in 1..Len(timers_) : timers_[k].wake_tick >= tick
  PROVE  /\ SchedulerTypeOK' /\ delay' \in [Tasks -> [1..2 -> Delays]] /\ TimeInv'
         /\ Apart(ready_, timers_)' /\ \A t : Stands(t, ready_, timers_)' <=> Stands(t, ready_, timers_)
         /\ ready_ # <<>> => ready_' # <<>>
         /\ (\E k \in 1..Len(timers_) : timers_[k].wake_tick <= tick) => ready_' # <<>>
         /\ \A k \in 1..Len(timers_') : timers_'[k].wake_tick > tick
<1> DEFINE D == due(tick)
<1>1. ready_ \in Seq(Tasks) /\ timers_ \in Seq(Timers) /\ Apart(ready_, timers_)
  BY DEF SchedulerInv, SchedulerTypeOK, PlaceInv
<1>2. ready_' = ready_ \o handles(Filter(timers_, D)) /\ timers_' = Filter(timers_, Timers \ D)
  BY DEF wake_due_timers, woken
<1>d. \A timer \in Timers : timer \in D <=> timer.wake_tick <= tick
  BY DEF due
<1> HIDE DEF D
<1>3. /\ ready_' \in Seq(Tasks) /\ timers_' \in Seq(Timers) /\ Apart(ready_', timers_')
      /\ \A t : Stands(t, ready_', timers_') <=> Stands(t, ready_, timers_)
      /\ \A k \in 1..Len(ready_') :
           \/ \E j \in 1..Len(ready_) : ready_'[k] = ready_[j]
           \/ \E j \in 1..Len(timers_) : timers_[j] \in D /\ ready_'[k] = timers_[j].handle
      /\ \A k \in 1..Len(timers_') : \E j \in 1..Len(timers_) : timers_'[k] = timers_[j] /\ timers_[j] \notin D
      /\ ready_ # <<>> => ready_' # <<>>
      /\ (\E j \in 1..Len(timers_) : timers_[j] \in D) => ready_' # <<>>
  <2>1. Moves(ready_, timers_, D, ready_', timers_')
    BY <1>1, <1>2, WakeMoves
  <2> QED
    BY <2>1 DEF Moves
<1>4. \A k \in 1..Len(timers_) :
        /\ timers_[k].wake_tick \in Int /\ timers_[k].handle \in Tasks
        /\ timers_[k] \in D <=> timers_[k].wake_tick <= tick
  <2>1. \A k \in 1..Len(timers_) : timers_[k] \in Timers
    BY <1>1, ElementOfSeq
  <2> QED
    BY <1>d, <2>1 DEF Timers
<1>e. \A t : Elapsed(t)' = Elapsed(t) /\ Asked(t)' = Asked(t)
  BY DEF Elapsed, Asked
<1>r. /\ \A k \in 1..Len(ready_) : Elapsed(ready_[k]) = tick_
      /\ \A k \in 1..Len(timers_) : timers_[k].wake_tick = Elapsed(timers_[k].handle)
      /\ \A t \in Tasks : ended[t] = IF stage[t] = 3 THEN Asked(t) ELSE -1
  BY DEF SchedulerInv, TimeInv
<1>5. SchedulerTypeOK' /\ delay' \in [Tasks -> [1..2 -> Delays]]
  BY <1>3 DEF SchedulerInv, SchedulerTypeOK
<1>6. ASSUME NEW k \in 1..Len(ready_') PROVE Elapsed(ready_[k])' = tick
  <2>1. CASE \E j \in 1..Len(ready_) : ready_'[k] = ready_[j]
    <3>1. PICK j \in 1..Len(ready_) : ready_'[k] = ready_[j]
      BY <2>1
    <3>2. ready_ # <<>>
      BY <3>1
    <3>3. Elapsed(ready_[k])' = Elapsed(ready_[j])
      BY <3>1 DEF Elapsed
    <3> QED
      BY <1>r, <3>2, <3>3
  <2>2. CASE \E j \in 1..Len(timers_) : timers_[j] \in D /\ ready_'[k] = timers_[j].handle
    <3>1. PICK j \in 1..Len(timers_) : timers_[j] \in D /\ ready_'[k] = timers_[j].handle
      BY <2>2
    <3>2. timers_[j].wake_tick = tick
      BY <1>4, <3>1
    <3>3. Elapsed(ready_[k])' = Elapsed(timers_[j].handle)
      BY <3>1 DEF Elapsed
    <3> QED
      BY <1>r, <3>2, <3>3
  <2> QED
    BY <1>3, <2>1, <2>2
<1>7. ASSUME NEW k \in 1..Len(timers_')
      PROVE  timers_'[k].wake_tick = Elapsed(timers_[k].handle)' /\ timers_'[k].wake_tick > tick
  <2>1. PICK j \in 1..Len(timers_) : timers_'[k] = timers_[j] /\ timers_[j] \notin D
    BY <1>3
  <2>2. Elapsed(timers_[k].handle)' = Elapsed(timers_[j].handle)
    BY <2>1 DEF Elapsed
  <2> QED
    BY <1>4, <1>r, <2>1, <2>2
<1>8. TimeInv'
  <2>1. \A t \in Tasks : ended'[t] = IF stage'[t] = 3 THEN Asked(t)' ELSE -1
    BY <1>e, <1>r
  <2>2. \A k \in 1..Len(timers_') : timers_'[k].wake_tick >= tick
    <3> SUFFICES ASSUME NEW k \in 1..Len(timers_') PROVE timers_'[k].wake_tick >= tick
      OBVIOUS
    <3>1. PICK j \in 1..Len(timers_) : timers_'[k] = timers_[j]
      BY <1>3
    <3> QED
      BY <3>1
  <2>3. \A k \in 1..Len(ready_') : Elapsed(ready_[k])' = tick_'
    BY <1>6
  <2>4. \A k \in 1..Len(timers_') :
          timers_'[k].wake_tick = Elapsed(timers_[k].handle)' /\ timers_'[k].wake_tick >= tick_'
    BY <1>7, <2>2
  <2> QED
    BY <2>1, <2>3, <2>4 DEF TimeInv
<1> QED
  BY <1>3, <1>4, <1>5, <1>7, <1>8

\* Where a coroutine is suspended next, as Resume computes it.
NextAwait(t) == IF awaits(t, stage[t]) = {} THEN 3 ELSE Min(awaits(t, stage[t]))

\* It is the first await ahead that takes time, or the end.
LEMMA NextAwaitIs ==
  ASSUME SchedulerInv, NEW t \in Tasks, stage[t] # 3
  PROVE  \/ NextAwait(t) = 3 /\ Asked(t) = Elapsed(t)
         \/ /\ NextAwait(t) \in 1..2 /\ NextAwait(t) > stage[t] /\ delay[t][NextAwait(t)] > 0
            /\ Elapsed(t) + delay[t][NextAwait(t)] =
                 Pos(delay[t][1]) + (IF NextAwait(t) = 2 THEN Pos(delay[t][2]) ELSE 0)
            /\ \A x \in (stage[t] + 1)..(NextAwait(t) - 1) : delay[t][x] <= 0
<1>1. /\ delay[t][1] \in Int /\ delay[t][2] \in Int /\ stage[t] \in 0..2
      /\ Asked(t) = Pos(delay[t][1]) + Pos(delay[t][2])
  BY ElapsedBound
<1>2. \A x : x \in awaits(t, stage[t]) <=> x \in 1..2 /\ x > stage[t] /\ delay[t][x] > 0
  BY <1>1 DEF awaits
<1>3. CASE awaits(t, stage[t]) = {}
  <2>1. \A x \in 1..2 : x > stage[t] => ~(delay[t][x] > 0)
    BY <1>2, <1>3
  <2> QED
    BY <1>1, <1>3, <2>1 DEF NextAwait, Elapsed, Pos
<1>4. CASE awaits(t, stage[t]) # {}
  <2> DEFINE s == Min(awaits(t, stage[t]))
  <2>1. s \in awaits(t, stage[t]) /\ \A x \in awaits(t, stage[t]) : s <= x
    <3>1. awaits(t, stage[t]) \subseteq Nat
      BY <1>2
    <3> QED
      BY <1>4, <3>1, MinIsLeast
  <2> HIDE DEF s
  <2>2. s \in 1..2 /\ s > stage[t] /\ delay[t][s] > 0
    BY <1>2, <2>1
  <2>3. \A x \in (stage[t] + 1)..(s - 1) : delay[t][x] <= 0
    <3> SUFFICES ASSUME NEW x \in (stage[t] + 1)..(s - 1), ~(delay[t][x] <= 0) PROVE FALSE
      OBVIOUS
    <3>1. x = 1 /\ s = 2
      BY <1>1, <2>2
    <3>2. x \in awaits(t, stage[t])
      BY <1>1, <1>2, <3>1
    <3> QED
      BY <2>1, <3>1, <3>2
  <2>4. s = 2 /\ stage[t] = 0 => Pos(delay[t][1]) = 0
    BY <1>1, <2>3 DEF Pos
  <2>5. Elapsed(t) + delay[t][s] = Pos(delay[t][1]) + (IF s = 2 THEN Pos(delay[t][2]) ELSE 0)
    <3>1. CASE s = 1
      BY <1>1, <2>2, <3>1 DEF Elapsed, Pos
    <3>2. CASE s = 2
      BY <1>1, <2>2, <2>4, <3>2 DEF Elapsed, Pos
    <3> QED
      BY <2>2, <3>1, <3>2
  <2>6. NextAwait(t) = s
    BY <1>4 DEF NextAwait, s
  <2> QED
    BY <2>2, <2>3, <2>5, <2>6
<1> QED
  BY <1>3, <1>4

\* The first half of a turn: due timers are woken.
LEMMA WakeKeeps == SchedulerInv /\ Wake => SchedulerInv'
<1> SUFFICES ASSUME SchedulerInv, Wake PROVE SchedulerInv'
  OBVIOUS
<1>1. tick_ \in 0..INT_MAX /\ \A k \in 1..Len(timers_) : timers_[k].wake_tick >= tick_
  BY DEF SchedulerInv, SchedulerTypeOK, TimeInv
<1>2. /\ wake_due_timers(tick_) /\ tick_' = tick_ /\ UNCHANGED <<stage, delay, ended>>
      /\ run_at' = "jump" /\ (ready_ # <<>> \/ timers_ # <<>>)
  BY DEF Wake, work_left
<1>3. /\ SchedulerTypeOK' /\ delay' \in [Tasks -> [1..2 -> Delays]] /\ TimeInv'
      /\ Apart(ready_, timers_)' /\ \A t : Stands(t, ready_, timers_)' <=> Stands(t, ready_, timers_)
      /\ ready_ # <<>> => ready_' # <<>>
  BY <1>1, <1>2, WakeStep
<1>4. ready_' # <<>> \/ timers_' # <<>>
  <2> SUFFICES ASSUME timers_ # <<>> PROVE ready_' # <<>> \/ timers_' # <<>>
    BY <1>2, <1>3
  <2>1. 1 \in 1..Len(timers_)
    BY EmptySeq DEF SchedulerInv, SchedulerTypeOK
  <2>2. Stands(timers_[1].handle, ready_, timers_)
    BY <2>1 DEF Stands
  <2>3. Stands(timers_[1].handle, ready_', timers_')
    BY <1>3, <2>2 DEF Stands
  <2> QED
    BY <2>3 DEF Stands
<1>5. PlaceInv'
  <2>1. \A t \in Tasks : stage'[t] # 3 <=> Stands(t, ready_, timers_)'
    BY <1>2, <1>3 DEF SchedulerInv, PlaceInv
  <2> QED
    BY <1>2, <1>3, <1>4, <2>1 DEF PlaceInv
<1> QED
  BY <1>3, <1>5 DEF SchedulerInv

\* When nothing is ready the clock jumps to the earliest timer.
LEMMA EarliestTimer ==
  ASSUME SchedulerInv, timers_ # <<>>
  PROVE  /\ next_timer_tick \in 0..INT_MAX
         /\ \A k \in 1..Len(timers_) : timers_[k].wake_tick >= next_timer_tick
         /\ \E k \in 1..Len(timers_) : timers_[k].wake_tick = next_timer_tick
<1> DEFINE W == {INT_MAX} \cup {timers_[x].wake_tick : x \in DOMAIN timers_}
<1>1. timers_ \in Seq(Timers) /\ DOMAIN timers_ = 1..Len(timers_) /\ 1 \in 1..Len(timers_) /\ INT_MAX \in Nat
  BY EmptySeq, LenProperties, SchedulerAssumption DEF SchedulerInv, SchedulerTypeOK
<1>2. \A k \in 1..Len(timers_) : timers_[k].wake_tick \in 0..INT_MAX
  <2>1. \A k \in 1..Len(timers_) : timers_[k] \in Timers
    BY <1>1, ElementOfSeq
  <2> QED
    BY <2>1 DEF Timers
<1>3. W \subseteq Nat /\ W # {}
  BY <1>1, <1>2
<1>4. next_timer_tick \in W /\ \A k \in W : next_timer_tick <= k
  BY <1>3, MinIsLeast DEF next_timer_tick
<1>5. \A k \in 1..Len(timers_) : timers_[k].wake_tick \in W
  BY <1>1
<1>6. \/ next_timer_tick = INT_MAX
      \/ \E k \in 1..Len(timers_) : next_timer_tick = timers_[k].wake_tick
  BY <1>1, <1>4
<1> HIDE DEF W
<1>7. next_timer_tick = INT_MAX => timers_[1].wake_tick = next_timer_tick
  BY <1>1, <1>2, <1>4, <1>5
<1> QED
  BY <1>1, <1>2, <1>3, <1>4, <1>5, <1>6, <1>7

\* Only the position in run() changes, to where nothing more is known.
LEMMA FrameKeeps ==
  ASSUME SchedulerInv, UNCHANGED <<tick_, ready_, timers_, stage, delay, ended>>,
         run_at' \in {"top", "jump", "resume", "returned"},
         run_at' \in {"jump", "resume"} => ready_ # <<>>
  PROVE  SchedulerInv'
<1>1. SchedulerTypeOK' /\ delay' \in [Tasks -> [1..2 -> Delays]]
  BY DEF SchedulerInv, SchedulerTypeOK
<1>2. PlaceInv'
  BY DEF SchedulerInv, PlaceInv, Apart, Stands
<1>3. TimeInv'
  BY DEF SchedulerInv, TimeInv, Elapsed, Asked
<1> QED
  BY <1>1, <1>2, <1>3 DEF SchedulerInv

\* The second half: the clock jumps if it must.
LEMMA JumpKeeps == SchedulerInv /\ Jump => SchedulerInv'
<1> SUFFICES ASSUME SchedulerInv, Jump PROVE SchedulerInv'
  OBVIOUS
<1>1. CASE ready_ = <<>>
  <2>1. timers_ # <<>>
    BY <1>1 DEF SchedulerInv, PlaceInv, Jump
  <2>2. /\ wake_due_timers(next_timer_tick) /\ tick_' = next_timer_tick
        /\ UNCHANGED <<stage, delay, ended>> /\ run_at' = "resume"
    BY <1>1 DEF Jump
  <2>3. /\ next_timer_tick \in 0..INT_MAX
        /\ \A k \in 1..Len(timers_) : timers_[k].wake_tick >= next_timer_tick
        /\ \E k \in 1..Len(timers_) : timers_[k].wake_tick <= next_timer_tick
    BY <2>1, EarliestTimer
  <2>4. /\ SchedulerTypeOK' /\ delay' \in [Tasks -> [1..2 -> Delays]] /\ TimeInv'
        /\ Apart(ready_, timers_)' /\ \A t : Stands(t, ready_, timers_)' <=> Stands(t, ready_, timers_)
        /\ ready_' # <<>>
    BY <1>1, <2>2, <2>3, WakeStep
  <2>5. PlaceInv'
    <3>1. \A t \in Tasks : stage'[t] # 3 <=> Stands(t, ready_, timers_)'
      BY <2>2, <2>4 DEF SchedulerInv, PlaceInv
    <3> QED
      BY <2>2, <2>4, <3>1 DEF PlaceInv
  <2> QED
    BY <2>4, <2>5 DEF SchedulerInv
<1>2. CASE ready_ # <<>>
  <2>1. UNCHANGED <<tick_, ready_, timers_, stage, delay, ended>> /\ run_at' = "resume"
    BY <1>2 DEF Jump
  <2> QED
    BY <1>2, <2>1, FrameKeeps
<1> QED
  BY <1>1, <1>2

\* What a resumption of coroutine t, the first of the queue, does: r is the
\* rest of the queue and s the await t suspends in next, 3 when it completes.
Resumes(t, s, r) ==
  /\ /\ ready_ \in Seq(Tasks) /\ ready_ # <<>> /\ timers_ \in Seq(Timers)
     /\ tick_ \in 0..INT_MAX /\ stage \in [Tasks -> 0..3] /\ ended \in [Tasks -> -1..INT_MAX]
  /\ /\ t \in Tasks /\ r \in Seq(Tasks) /\ Len(ready_) \in Nat /\ Len(timers_) \in Nat
     /\ Len(r) = Len(ready_) - 1 /\ 1 \in 1..Len(ready_) /\ ready_[1] = t
     /\ \A k \in 1..Len(r) : r[k] = ready_[k + 1] /\ k + 1 \in 1..Len(ready_)
  /\ UNCHANGED <<tick_, delay>> /\ run_at' = "top"
  /\ stage[t] # 3 /\ Elapsed(t) = tick_ /\ ended[t] = -1
  /\ \/ /\ s = 3 /\ ready_' = r /\ timers_' = timers_
        /\ stage' = [stage EXCEPT ![t] = 3] /\ ended' = [ended EXCEPT ![t] = tick_]
     \/ /\ s # 3 /\ ready_' = r
        /\ timers_' = Append(timers_, [wake_tick |-> tick_ + delay[t][s], handle |-> t])
        /\ stage' = [stage EXCEPT ![t] = s] /\ ended' = ended
  /\ \/ s = 3 /\ Asked(t) = tick_
     \/ /\ s \in 1..2 /\ tick_ + delay[t][s] \in 0..INT_MAX /\ delay[t][s] > 0
        /\ delay[t][s] \in Int
        /\ tick_ + delay[t][s] = Pos(delay[t][1]) + (IF s = 2 THEN Pos(delay[t][2]) ELSE 0)

\* Resume does just that.
LEMMA ResumeIs ==
  ASSUME SchedulerInv, Resume, NEW t, t = Head(ready_), NEW s, s = NextAwait(t), NEW r, r = Tail(ready_)
  PROVE  Resumes(t, s, r)
<1>1. /\ ready_ \in Seq(Tasks) /\ ready_ # <<>> /\ timers_ \in Seq(Timers)
      /\ tick_ \in 0..INT_MAX /\ stage \in [Tasks -> 0..3] /\ ended \in [Tasks -> -1..INT_MAX]
  BY DEF SchedulerInv, SchedulerTypeOK, Resume
<1>2. /\ t \in Tasks /\ r \in Seq(Tasks) /\ Len(ready_) \in Nat /\ Len(timers_) \in Nat
      /\ Len(r) = Len(ready_) - 1 /\ 1 \in 1..Len(ready_) /\ ready_[1] = t
      /\ \A k \in 1..Len(r) : r[k] = ready_[k + 1] /\ k + 1 \in 1..Len(ready_)
  <2>1. Len(ready_) \in Nat \ {0} /\ Len(timers_) \in Nat
    BY <1>1, EmptySeq, LenProperties
  <2>2. Len(r) = Len(ready_) - 1 /\ \A k \in 1..Len(r) : r[k] = ready_[k + 1]
    BY <1>1, HeadTailProperties
  <2>3. t \in Tasks /\ r \in Seq(Tasks) /\ ready_[1] = t
    BY <1>1, HeadTailProperties
  <2> QED
    BY <2>1, <2>2, <2>3
<1>3. UNCHANGED <<tick_, delay>> /\ run_at' = "top"
  BY DEF Resume
<1>4. stage[t] # 3 /\ Elapsed(t) = tick_ /\ ended[t] = -1
  <2>1. Stands(t, ready_, timers_)
    BY <1>2 DEF Stands
  <2> QED
    BY <1>2, <2>1 DEF SchedulerInv, PlaceInv, TimeInv
<1>5. \/ /\ s = 3 /\ ready_' = r /\ timers_' = timers_
         /\ stage' = [stage EXCEPT ![t] = 3] /\ ended' = [ended EXCEPT ![t] = tick_]
      \/ /\ s # 3 /\ ready_' = r
         /\ timers_' = Append(timers_, [wake_tick |-> tick_ + delay[t][s], handle |-> t])
         /\ stage' = [stage EXCEPT ![t] = s] /\ ended' = ended
  BY <1>2, <1>4 DEF Resume, schedule_after, NextAwait
<1>6. \/ s = 3 /\ Asked(t) = tick_
      \/ /\ s \in 1..2 /\ tick_ + delay[t][s] \in 0..INT_MAX /\ delay[t][s] > 0
         /\ delay[t][s] \in Int
         /\ tick_ + delay[t][s] = Pos(delay[t][1]) + (IF s = 2 THEN Pos(delay[t][2]) ELSE 0)
  <2>1. /\ delay[t][1] \in Int /\ delay[t][2] \in Int
        /\ Asked(t) = Pos(delay[t][1]) + Pos(delay[t][2]) /\ Asked(t) \in 0..INT_MAX
    BY <1>2, ElapsedBound
  <2>2. \/ s = 3 /\ Asked(t) = Elapsed(t)
        \/ /\ s \in 1..2 /\ delay[t][s] > 0
           /\ Elapsed(t) + delay[t][s] = Pos(delay[t][1]) + (IF s = 2 THEN Pos(delay[t][2]) ELSE 0)
    BY <1>2, <1>4, NextAwaitIs
  <2>3. CASE s \in 1..2
    <3>1. delay[t][s] \in Int
      BY <2>1, <2>3
    <3>2. tick_ + delay[t][s] >= 0
      BY <1>1, <2>2, <2>3, <3>1, SchedulerAssumption, SMTT(40)
    <3>3. Pos(delay[t][1]) \in Nat /\ Pos(delay[t][2]) \in Nat
      BY <2>1 DEF Pos
    <3>4. Pos(delay[t][1]) + (IF s = 2 THEN Pos(delay[t][2]) ELSE 0) <= INT_MAX
      BY <2>1, <3>3, SchedulerAssumption
    <3> QED
      BY <1>1, <1>4, <2>2, <2>3, <3>1, <3>2, <3>4, SchedulerAssumption, SMTT(40)
  <2> QED
    BY <1>4, <2>2, <2>3
<1> QED
  BY <1>1, <1>2, <1>3, <1>4, <1>5, <1>6 DEF Resumes

\* front() runs up to its next await or to its end.
LEMMA ResumeKeeps == SchedulerInv /\ Resume => SchedulerInv'
<1> SUFFICES ASSUME SchedulerInv, Resume PROVE SchedulerInv'
  OBVIOUS
<1>t. PICK t : t = Head(ready_)
  OBVIOUS
<1>s. PICK s : s = NextAwait(t)
  OBVIOUS
<1>r. PICK r : r = Tail(ready_)
  OBVIOUS
<1>0. Resumes(t, s, r)
  BY <1>t, <1>s, <1>r, ResumeIs
<1>1. /\ ready_ \in Seq(Tasks) /\ ready_ # <<>> /\ timers_ \in Seq(Timers)
      /\ tick_ \in 0..INT_MAX /\ stage \in [Tasks -> 0..3] /\ ended \in [Tasks -> -1..INT_MAX]
  BY <1>0 DEF Resumes
<1>2. /\ t \in Tasks /\ r \in Seq(Tasks) /\ Len(ready_) \in Nat /\ Len(timers_) \in Nat
      /\ Len(r) = Len(ready_) - 1 /\ 1 \in 1..Len(ready_) /\ ready_[1] = t
      /\ \A k \in 1..Len(r) : r[k] = ready_[k + 1] /\ k + 1 \in 1..Len(ready_)
  BY <1>0 DEF Resumes
<1>3. UNCHANGED <<tick_, delay>> /\ run_at' = "top"
  BY <1>0 DEF Resumes
<1>4. stage[t] # 3 /\ Elapsed(t) = tick_ /\ ended[t] = -1
  BY <1>0 DEF Resumes
<1>5. \/ /\ s = 3 /\ ready_' = r /\ timers_' = timers_
         /\ stage' = [stage EXCEPT ![t] = 3] /\ ended' = [ended EXCEPT ![t] = tick_]
      \/ /\ s # 3 /\ ready_' = r
         /\ timers_' = Append(timers_, [wake_tick |-> tick_ + delay[t][s], handle |-> t])
         /\ stage' = [stage EXCEPT ![t] = s] /\ ended' = ended
  BY <1>0 DEF Resumes
<1>6. \/ s = 3 /\ Asked(t) = tick_
      \/ /\ s \in 1..2 /\ tick_ + delay[t][s] \in 0..INT_MAX /\ delay[t][s] > 0
         /\ delay[t][s] \in Int
         /\ tick_ + delay[t][s] = Pos(delay[t][1]) + (IF s = 2 THEN Pos(delay[t][2]) ELSE 0)
  BY <1>0 DEF Resumes
\* The other coroutines: their place and their ticks are what they were.
<1>7. \A u \in Tasks : u # t => stage'[u] = stage[u] /\ ended'[u] = ended[u] /\ Elapsed(u)' = Elapsed(u)
  BY <1>1, <1>2, <1>3, <1>5 DEF Elapsed
<1>8. \A u \in Tasks : Asked(u)' = Asked(u)
  BY <1>3 DEF Asked
<1>9. Apart(r, timers_) /\ (\A k \in 1..Len(r) : r[k] # t) /\ (\A k \in 1..Len(timers_) : timers_[k].handle # t)
  <2>1. Apart(ready_, timers_)
    BY DEF SchedulerInv, PlaceInv
  <2>2. \A k \in 1..Len(r) : k + 1 # 1
    BY <1>2
  <2>3. \A j, k \in 1..Len(r) : r[j] = r[k] => j = k
    <3> SUFFICES ASSUME NEW j \in 1..Len(r), NEW k \in 1..Len(r), r[j] = r[k] PROVE j = k
      OBVIOUS
    <3>1. ready_[j + 1] = ready_[k + 1] /\ j + 1 \in 1..Len(ready_) /\ k + 1 \in 1..Len(ready_)
      BY <1>2
    <3>2. j + 1 = k + 1
      BY <2>1, <3>1 DEF Apart
    <3> QED
      BY <1>2, <3>2
  <2>4. \A k \in 1..Len(r) : r[k] # t
    <3> SUFFICES ASSUME NEW k \in 1..Len(r), r[k] = t PROVE FALSE
      OBVIOUS
    <3>1. ready_[k + 1] = ready_[1] /\ k + 1 \in 1..Len(ready_)
      BY <1>2
    <3> QED
      BY <1>2, <2>1, <2>2, <3>1 DEF Apart
  <2>5. \A j \in 1..Len(r), k \in 1..Len(timers_) : r[j] # timers_[k].handle
    <3> SUFFICES ASSUME NEW j \in 1..Len(r) PROVE \A k \in 1..Len(timers_) : r[j] # timers_[k].handle
      OBVIOUS
    <3>1. r[j] = ready_[j + 1] /\ j + 1 \in 1..Len(ready_)
      BY <1>2
    <3> QED
      BY <2>1, <3>1 DEF Apart
  <2> QED
    BY <1>2, <2>1, <2>3, <2>4, <2>5 DEF Apart
<1>10. \A u \in Tasks : u # t => (Stands(u, r, timers_) <=> Stands(u, ready_, timers_))
  <2> SUFFICES ASSUME NEW u \in Tasks, u # t, NEW k \in 1..Len(ready_), ready_[k] = u
               PROVE  \E j \in 1..Len(r) : r[j] = u
    BY <1>2 DEF Stands
  <2>1. k - 1 \in 1..Len(r) /\ (k - 1) + 1 = k
    BY <1>2
  <2> QED
    BY <1>2, <2>1
<1>11. ~Stands(t, r, timers_)
  BY <1>9 DEF Stands
<1>12. \A k \in 1..Len(r) : r[k] \in Tasks /\ r[k] # t /\ Elapsed(r[k]) = tick_
  BY <1>2, <1>9, ElementOfSeq, ZenonT(40) DEF SchedulerInv, TimeInv
<1>13. \A k \in 1..Len(timers_) : /\ timers_[k].handle \in Tasks /\ timers_[k].handle # t
                                  /\ timers_[k].wake_tick = Elapsed(timers_[k].handle)
                                  /\ timers_[k].wake_tick >= tick_
  BY <1>1, <1>9, HandlesType DEF SchedulerInv, TimeInv
<1>14. CASE s = 3
  <2>1. SchedulerTypeOK' /\ delay' \in [Tasks -> [1..2 -> Delays]]
    <3>1. tick_ \in -1..INT_MAX
      BY <1>1, SchedulerAssumption
    <3> QED
      BY <1>1, <1>2, <1>3, <1>5, <1>14, <3>1, SMTT(40) DEF SchedulerInv, SchedulerTypeOK
  <2>2. PlaceInv'
    <3>1. \A u \in Tasks : stage'[u] # 3 <=> Stands(u, r, timers_)
      <4> SUFFICES ASSUME NEW u \in Tasks PROVE stage'[u] # 3 <=> Stands(u, r, timers_)
        OBVIOUS
      <4>1. CASE u = t
        BY <1>1, <1>2, <1>5, <1>11, <1>14, <4>1
      <4>2. CASE u # t
        BY <1>7, <1>10, <4>2 DEF SchedulerInv, PlaceInv
      <4> QED
        BY <4>1, <4>2
    <3> QED
      BY <1>3, <1>5, <1>9, <1>14, <3>1 DEF PlaceInv
  <2>3. TimeInv'
    <3>1. \A u \in Tasks : ended'[u] = IF stage'[u] = 3 THEN Asked(u)' ELSE -1
      BY <1>1, <1>2, <1>5, <1>6, <1>7, <1>8, <1>14, SMTT(40) DEF SchedulerInv, TimeInv
    <3>2. \A k \in 1..Len(ready_') : Elapsed(ready_[k])' = tick_'
      BY <1>3, <1>5, <1>7, <1>12, <1>14 DEF Elapsed
    <3>3. \A k \in 1..Len(timers_') :
            timers_'[k].wake_tick = Elapsed(timers_[k].handle)' /\ timers_'[k].wake_tick >= tick_'
      BY <1>3, <1>5, <1>7, <1>13, <1>14 DEF Elapsed
    <3> QED
      BY <3>1, <3>2, <3>3 DEF TimeInv
  <2> QED
    BY <2>1, <2>2, <2>3 DEF SchedulerInv
<1>15. CASE s # 3
  <2> DEFINE e == [wake_tick |-> tick_ + delay[t][s], handle |-> t]
             n == Len(timers_)
  <2>1. e \in Timers /\ e.wake_tick = tick_ + delay[t][s] /\ e.handle = t
    BY <1>2, <1>6, <1>15 DEF Timers
  <2>2. ready_' = r /\ timers_' = Append(timers_, e) /\ stage' = [stage EXCEPT ![t] = s] /\ ended' = ended
    BY <1>5, <1>15
  <2> HIDE DEF e
  <2>3. /\ timers_' \in Seq(Timers) /\ Len(timers_') = n + 1 /\ timers_'[n + 1] = e
        /\ \A k \in 1..n : timers_'[k] = timers_[k]
    BY <1>1, <2>1, <2>2, AppendProperties
  <2>4. n \in Nat /\ s \in 1..2 /\ delay[t][s] \in Int /\ delay[t][s] > 0
    BY <1>2, <1>6, <1>15
  <2> HIDE DEF n
  <2>5. \A k \in 1..(n + 1) : k \in 1..n \/ k = n + 1
    BY <2>4
  <2>6. SchedulerTypeOK' /\ delay' \in [Tasks -> [1..2 -> Delays]]
    BY <1>1, <1>2, <1>3, <2>2, <2>3, <2>4, SMTT(40) DEF SchedulerInv, SchedulerTypeOK
  <2>7. PlaceInv'
    <3>1. Apart(ready_', timers_')
      <4>1. \A j, k \in 1..(n + 1) : timers_'[j].handle = timers_'[k].handle => j = k
        BY <1>9, <2>1, <2>3, <2>5 DEF Apart, n
      <4>2. \A j \in 1..Len(r), k \in 1..(n + 1) : r[j] # timers_'[k].handle
        BY <1>9, <2>1, <2>3, <2>5 DEF Apart, n
      <4> QED
        BY <1>9, <2>2, <2>3, <4>1, <4>2 DEF Apart
    <3>2. ASSUME NEW u \in Tasks PROVE stage'[u] # 3 <=> Stands(u, ready_', timers_')
      <4>1. CASE u = t
        <5>1. n + 1 \in 1..(n + 1)
          BY <2>4
        <5>2. Stands(t, ready_', timers_')
          BY <2>1, <2>3, <5>1 DEF Stands
        <5> QED
          BY <1>1, <1>2, <2>2, <2>4, <4>1, <5>2, SMTT(40)
      <4>2. CASE u # t
        <5>1. (\E k \in 1..(n + 1) : timers_'[k].handle = u) <=> \E k \in 1..n : timers_[k].handle = u
          BY <2>1, <2>3, <2>4, <2>5, <4>2
        <5>2. Stands(u, ready_', timers_') <=> Stands(u, r, timers_)
          BY <2>2, <2>3, <5>1 DEF Stands, n
        <5> QED
          BY <1>7, <1>10, <4>2, <5>2 DEF SchedulerInv, PlaceInv
      <4> QED
        BY <4>1, <4>2
    <3> QED
      BY <1>3, <3>1, <3>2 DEF PlaceInv
  <2>8. Elapsed(t)' = tick_ + delay[t][s]
    <3>1. stage'[t] = s /\ delay' = delay
      BY <1>1, <1>2, <1>3, <2>2
    <3>2. Elapsed(t)' = Pos(delay[t][1]) + (IF s = 2 THEN Pos(delay[t][2]) ELSE 0)
      <4>1. delay[t][1] \in Int /\ delay[t][2] \in Int
        BY <1>2, ElapsedBound
      <4>2. CASE s = 1
        BY <3>1, <4>1, <4>2 DEF Elapsed, Pos
      <4>3. CASE s = 2
        BY <3>1, <4>1, <4>3 DEF Elapsed, Pos
      <4> QED
        BY <2>4, <4>2, <4>3
    <3> QED
      BY <1>6, <1>15, <3>2
  <2>9. TimeInv'
    <3>1. \A u \in Tasks : ended'[u] = IF stage'[u] = 3 THEN Asked(u)' ELSE -1
      BY <1>1, <1>2, <1>4, <1>7, <1>8, <2>2, <2>4, SMTT(40) DEF SchedulerInv, TimeInv
    <3>2. \A k \in 1..Len(ready_') : Elapsed(ready_[k])' = tick_'
      BY <1>3, <1>7, <1>12, <2>2 DEF Elapsed
    <3>3. ASSUME NEW k \in 1..Len(timers_')
          PROVE  timers_'[k].wake_tick = Elapsed(timers_[k].handle)' /\ timers_'[k].wake_tick >= tick_'
      <4>1. CASE k \in 1..n
        BY <1>3, <1>7, <1>13, <2>3, <4>1 DEF Elapsed, n
      <4>2. CASE k = n + 1
        <5>1. timers_'[k].wake_tick = tick_ + delay[t][s] /\ timers_'[k].handle = t
          BY <2>1, <2>3, <4>2
        <5>2. Elapsed(timers_[k].handle)' = Elapsed(t)'
          BY <5>1 DEF Elapsed
        <5> QED
          BY <1>1, <1>3, <2>4, <2>8, <5>1, <5>2, SMTT(40)
      <4> QED
        BY <2>3, <2>5, <4>1, <4>2
    <3> QED
      BY <3>1, <3>2, <3>3 DEF TimeInv
  <2> QED
    BY <2>6, <2>7, <2>9 DEF SchedulerInv
<1> QED
  BY <1>14, <1>15

\* Every step of run() keeps the invariant.
LEMMA SchedulerStep == SchedulerInv /\ [SchedulerNext]_schedulerVars => SchedulerInv'
<1> SUFFICES ASSUME SchedulerInv, [SchedulerNext]_schedulerVars PROVE SchedulerInv'
  OBVIOUS
<1>1. CASE Wake
  BY <1>1, WakeKeeps
<1>2. CASE Jump
  BY <1>2, JumpKeeps
<1>3. CASE Resume
  BY <1>3, ResumeKeeps
<1>4. CASE Return
  BY <1>4, FrameKeeps DEF Return
<1>5. CASE UNCHANGED schedulerVars
  <2>1. UNCHANGED <<tick_, ready_, timers_, run_at, stage, delay, ended>>
    BY <1>5 DEF schedulerVars
  <2>2. SchedulerTypeOK' /\ delay' \in [Tasks -> [1..2 -> Delays]]
    BY <2>1 DEF SchedulerInv, SchedulerTypeOK
  <2>3. PlaceInv'
    BY <2>1 DEF SchedulerInv, PlaceInv, Apart, Stands
  <2>4. TimeInv'
    BY <2>1 DEF SchedulerInv, TimeInv, Elapsed, Asked
  <2> QED
    BY <2>2, <2>3, <2>4 DEF SchedulerInv
<1> QED
  BY <1>1, <1>2, <1>3, <1>4, <1>5 DEF SchedulerNext, Run, Returned

\* The invariant holds in every state.
LEMMA SchedulerInvariant == SchedulerSpec => []SchedulerInv
  BY SchedulerInitial, SchedulerStep, PTL DEF SchedulerSpec

\* A coroutine that is not done stands in one container, once, a completed
\* one in none, and front() is never called on an empty queue: for any number
\* of coroutines and any delays.
THEOREM EveryTaskHasOnePlace == SchedulerSpec => []OnePlaceEach
<1>1. ASSUME SchedulerInv PROVE OnePlaceEach
  <2>1. ready_ \in Seq(Tasks) /\ timers_ \in Seq(Timers) /\ Apart(ready_, timers_) /\ SchedulerTypeOK
    BY <1>1 DEF SchedulerInv, SchedulerTypeOK, PlaceInv
  <2>2. Len(ready_) \in Nat /\ Len(timers_) \in Nat
    BY <2>1, LenProperties
  <2> DEFINE h == handles(timers_)
             m == Len(ready_)
             n == Len(timers_)
  <2>3. h \in Seq(Tasks) /\ Len(h) = n /\ \A k \in 1..n : h[k] = timers_[k].handle
    BY <2>1, HandlesType
  <2>4. /\ Handles \in Seq(Tasks) /\ DOMAIN Handles = 1..(m + n)
        /\ \A k \in 1..(m + n) : Handles[k] = IF k <= m THEN ready_[k] ELSE h[k - m]
    <3> HIDE DEF h
    <3>1. /\ ready_ \o h \in Seq(Tasks) /\ Len(ready_ \o h) = m + Len(h)
          /\ \A k \in 1..(m + Len(h)) : (ready_ \o h)[k] = IF k <= m THEN ready_[k] ELSE h[k - m]
      BY <2>1, <2>3, ConcatProperties, ZenonT(40)
    <3>2. DOMAIN (ready_ \o h) = 1..Len(ready_ \o h)
      BY <3>1, LenProperties
    <3>3. Handles = ready_ \o h
      BY DEF Handles, h
    <3> QED
      BY <2>3, <3>1, <3>2, <3>3
  <2> HIDE DEF h, m, n
  <2>5. m \in Nat /\ n \in Nat /\ Apart(ready_, timers_)
        /\ \A k \in 1..(m + n) : k > m => k - m \in 1..n /\ Handles[k] = timers_[k - m].handle
    BY <2>1, <2>2, <2>3, <2>4, SMTT(40) DEF m, n
  <2>6. IsInjective(Handles)
    <3> SUFFICES ASSUME NEW j \in 1..(m + n), NEW k \in 1..(m + n), Handles[j] = Handles[k] PROVE j = k
      BY <2>4 DEF IsInjective
    <3>1. CASE j <= m /\ k <= m
      BY <2>4, <2>5, <3>1 DEF Apart, m
    <3>2. CASE j > m /\ k > m
      <4>1. j - m = k - m
        <5>1. j - m \in 1..Len(timers_) /\ k - m \in 1..Len(timers_) /\ timers_[j - m].handle = timers_[k - m].handle
          BY <2>5, <3>2 DEF n
        <5> QED BY <2>5, <5>1, Zenon DEF Apart
      <4> QED
        BY <2>5, <4>1
    <3>3. ASSUME NEW x \in 1..(m + n), NEW l \in 1..(m + n), x <= m, l > m PROVE Handles[x] # Handles[l]
      <4>1. x \in 1..Len(ready_) /\ Handles[x] = ready_[x]
        BY <2>4, <2>5, <3>3 DEF m
      <4>2. l - m \in 1..Len(timers_) /\ Handles[l] = timers_[l - m].handle
        BY <2>5, <3>3 DEF n
      <4>3. \A a \in 1..Len(ready_), b \in 1..Len(timers_) : ready_[a] # timers_[b].handle
        BY <2>5 DEF Apart
      <4> QED
        BY <4>1, <4>2, <4>3
    <3> QED
      BY <2>5, <3>1, <3>2, <3>3
  <2>7. ASSUME NEW t \in Tasks PROVE Stands(t, ready_, timers_) <=> \E k \in 1..(m + n) : Handles[k] = t
    <3>1. ASSUME NEW k \in 1..m, ready_[k] = t PROVE \E j \in 1..(m + n) : Handles[j] = t
      BY <2>4, <2>5, <3>1
    <3>2. ASSUME NEW k \in 1..n, timers_[k].handle = t PROVE \E j \in 1..(m + n) : Handles[j] = t
      <4>1. m + k \in 1..(m + n) /\ ~(m + k <= m) /\ m + k - m = k
        BY <2>5
      <4> QED
        BY <2>5, <3>2, <4>1
    <3>3. ASSUME NEW k \in 1..(m + n), Handles[k] = t PROVE Stands(t, ready_, timers_)
      <4>1. CASE k <= m
        BY <2>4, <2>5, <3>3, <4>1 DEF Stands, m
      <4>2. CASE k > m
        BY <2>5, <3>3, <4>2 DEF Stands, n
      <4> QED
        BY <2>5, <4>1, <4>2
    <3> QED
      BY <3>1, <3>2, <3>3 DEF Stands, m, n
  <2>8. ToSet(Handles) = {t \in Tasks : stage[t] # 3}
    <3>1. \A k \in 1..(m + n) : Handles[k] \in Tasks
      BY <2>4, LenProperties
    <3>2. \A t \in Tasks : stage[t] # 3 <=> Stands(t, ready_, timers_)
      BY <1>1 DEF SchedulerInv, PlaceInv
    <3>3. \A t : t \in ToSet(Handles) <=> \E k \in 1..(m + n) : Handles[k] = t
      BY <2>4 DEF ToSet
    <3> QED
      BY <2>7, <3>1, <3>2, <3>3
  <2>9. run_at = "resume" => ready_ # <<>>
    BY <1>1 DEF SchedulerInv, PlaceInv
  <2> QED
    BY <2>1, <2>6, <2>8, <2>9 DEF OnePlaceEach
<1> QED
  BY <1>1, SchedulerInvariant, PTL

\* Every coroutine completes at the very tick its delays add up to, for any
\* number of coroutines and any delays.
THEOREM EveryTaskIsOnTime == SchedulerSpec => []OnTime
<1>1. ASSUME SchedulerInv PROVE OnTime
  BY <1>1 DEF SchedulerInv, TimeInv, OnTime
<1> QED
  BY <1>1, SchedulerInvariant, PTL
-----------------------------------------------------------------------------
(* The refinement: run() is a discrete-event simulation. *)

\* Timers that are due at tick d, and the coroutines they wake.
At(d) == {timer \in Timers : timer.wake_tick = d}
Due(ts, d) == handles(Filter(ts, At(d)))

\* The agenda of one tick.
LEMMA AgendaAt ==
  ASSUME NEW d \in 0..INT_MAX
  PROVE  agendaMap[d] = (IF d = tick_ THEN ready_ ELSE <<>>) \o Due(timers_, d)
  BY DEF agendaMap, Due, At

\* No timer, no coroutine.
LEMMA HandlesEmpty == handles(<<>>) = <<>>
<1>1. <<>> \in Seq(Timers) /\ Len(<<>>) = 0
  BY EmptySeq
<1>2. handles(<<>>) \in Seq(Tasks) /\ Len(handles(<<>>)) = 0
  BY <1>1, HandlesType
<1> QED
  BY <1>2, EmptySeq

\* A timer more, a coroutine more.
LEMMA HandlesAppend ==
  ASSUME NEW ts \in Seq(Timers), NEW e \in Timers
  PROVE  handles(Append(ts, e)) = Append(handles(ts), e.handle)
<1> DEFINE a == Append(ts, e)
           b == Append(handles(ts), e.handle)
           n == Len(ts)
<1>1. a \in Seq(Timers) /\ Len(a) = n + 1 /\ a[n + 1] = e /\ (\A k \in 1..n : a[k] = ts[k]) /\ n \in Nat
  BY AppendProperties, LenProperties
<1>2. handles(ts) \in Seq(Tasks) /\ Len(handles(ts)) = n /\ (\A k \in 1..n : handles(ts)[k] = ts[k].handle)
      /\ e.handle \in Tasks
  BY HandlesType DEF Timers
<1>3. b \in Seq(Tasks) /\ Len(b) = n + 1 /\ b[n + 1] = e.handle /\ (\A k \in 1..n : b[k] = handles(ts)[k])
  BY <1>2, AppendProperties
<1>4. handles(a) \in Seq(Tasks) /\ Len(handles(a)) = n + 1 /\ \A k \in 1..(n + 1) : handles(a)[k] = a[k].handle
  BY <1>1, HandlesType
<1> HIDE DEF a, b, n
<1>5. \A k \in 1..(n + 1) : k \in 1..n \/ k = n + 1
  BY <1>1
<1>6. \A k \in 1..(n + 1) : handles(a)[k] = b[k]
  BY <1>1, <1>2, <1>3, <1>4, <1>5, SMTT(40)
<1>7. handles(a) = b
  BY <1>3, <1>4, <1>6, SeqEqual
<1> QED
  BY <1>7 DEF a, b

\* Waking timers, at the tick the clock shows, does not change the agenda.
LEMMA WakeAgenda ==
  ASSUME SchedulerInv, NEW tick \in 0..INT_MAX, tick_' = tick, wake_due_timers(tick),
         tick = tick_ \/ ready_ = <<>>,
         \A k \in 1..Len(timers_) : timers_[k].wake_tick >= tick
  PROVE  agendaMap' = agendaMap
<1>1. ready_ \in Seq(Tasks) /\ timers_ \in Seq(Timers)
  BY DEF SchedulerInv, SchedulerTypeOK
<1>2. \A k \in 1..Len(timers_) : timers_[k] \in Timers /\ timers_[k].wake_tick \in Int
  <2>1. \A k \in 1..Len(timers_) : timers_[k] \in Timers
    BY <1>1, ElementOfSeq
  <2> QED
    BY <2>1 DEF Timers
<1>3. ready_' = ready_ \o handles(Filter(timers_, due(tick)))
      /\ timers_' = Filter(timers_, Timers \ due(tick))
  BY DEF wake_due_timers, woken
<1>4. Filter(timers_, due(tick)) = Filter(timers_, At(tick))
  <2>1. \A k \in 1..Len(timers_) : timers_[k] \in due(tick) <=> timers_[k] \in At(tick)
    BY <1>2 DEF due, At
  <2> QED
    BY <1>1, <2>1, FilterSame
<1>5. Due(timers_', tick) = <<>>
  <2>1. Filter(timers_', At(tick)) = Filter(timers_, (Timers \ due(tick)) \cap At(tick))
    BY <1>1, <1>3, FilterFilter
  <2>2. \A k \in 1..Len(timers_) : timers_[k] \notin (Timers \ due(tick)) \cap At(tick)
    BY <1>2 DEF due, At
  <2>3. Filter(timers_, (Timers \ due(tick)) \cap At(tick)) = <<>>
    BY <1>1, <2>2, FilterNone
  <2> QED
    BY <2>1, <2>3, HandlesEmpty DEF Due
<1>6. ASSUME NEW d \in 0..INT_MAX, d # tick PROVE Due(timers_', d) = Due(timers_, d)
  <2>1. Filter(timers_', At(d)) = Filter(timers_, (Timers \ due(tick)) \cap At(d))
    BY <1>1, <1>3, FilterFilter
  <2>2. \A k \in 1..Len(timers_) : timers_[k] \in (Timers \ due(tick)) \cap At(d) <=> timers_[k] \in At(d)
    BY <1>2, <1>6 DEF due, At
  <2>3. Filter(timers_, (Timers \ due(tick)) \cap At(d)) = Filter(timers_, At(d))
    BY <1>1, <2>2, FilterSame
  <2> QED
    BY <2>1, <2>3 DEF Due
<1>7. \A d : Due(timers_, d) \in Seq(Tasks)
  BY <1>1, FilterSeq, HandlesType DEF Due
<1>8. ASSUME NEW d \in 0..INT_MAX PROVE agendaMap'[d] = agendaMap[d]
  <2>1. agendaMap[d] = (IF d = tick_ THEN ready_ ELSE <<>>) \o Due(timers_, d)
    BY AgendaAt
  <2>2. agendaMap'[d] = (IF d = tick THEN ready_' ELSE <<>>) \o Due(timers_', d)
    BY DEF agendaMap, Due, At
  <2>3. CASE d = tick
    <3>1. ready_' = ready_ \o Due(timers_, d)
      BY <1>3, <1>4, <2>3 DEF Due
    <3>2. ready_ \o Due(timers_, d) \in Seq(Tasks)
      BY <1>1, <1>7, ConcatProperties
    <3>3. agendaMap'[d] = ready_ \o Due(timers_, d)
      BY <1>5, <2>2, <2>3, <3>1, <3>2, ConcatEmptySeq
    <3>4. (IF d = tick_ THEN ready_ ELSE <<>>) = ready_
      BY <2>3
    <3> QED
      BY <2>1, <3>3, <3>4
  <2>4. CASE d # tick
    <3>1. (IF d = tick_ THEN ready_ ELSE <<>>) = <<>>
      BY <2>4
    <3>2. Due(timers_', d) = Due(timers_, d)
      BY <1>6, <2>4
    <3>3. (IF d = tick THEN ready_' ELSE <<>>) = <<>>
      BY <2>4
    <3>4. agendaMap[d] = <<>> \o Due(timers_, d)
      BY <2>1, <3>1
    <3>5. agendaMap'[d] = <<>> \o Due(timers_', d)
      BY <2>2, <3>3
    <3> QED
      BY <3>2, <3>4, <3>5
  <2> QED
    BY <2>3, <2>4
<1>9. agendaMap = [d \in 0..INT_MAX |-> agendaMap[d]] /\ agendaMap' = [d \in 0..INT_MAX |-> agendaMap'[d]]
  BY DEF agendaMap
<1> QED
  BY <1>8, <1>9

\* Two agendas over the same ticks that agree at each of them are equal.
LEMMA SameAgenda ==
  ASSUME NEW f, NEW g, f = [d \in 0..INT_MAX |-> f[d]], g = [d \in 0..INT_MAX |-> g[d]],
         \A d \in 0..INT_MAX : f[d] = g[d]
  PROVE  f = g
  OBVIOUS

\* At the start every coroutine is due at tick 0.
LEMMA AgendaInit == SchedulerInit => Simulation!QInit
<1> SUFFICES ASSUME SchedulerInit PROVE Simulation!QInit
  OBVIOUS
<1>1. tick_ = 0 /\ timers_ = <<>> /\ ready_ = [t \in Tasks |-> t] /\ stage = [t \in Tasks |-> 0]
  BY DEF SchedulerInit
<1>2. ready_ \in Seq(Tasks)
  BY SchedulerInitial DEF SchedulerInv, SchedulerTypeOK
<1>3. \A d : Due(timers_, d) = <<>>
  BY <1>1, FilterEmpty, HandlesEmpty DEF Due
<1> DEFINE first == [d \in 0..INT_MAX |-> IF d = 0 THEN [t \in Tasks |-> t] ELSE <<>>]
<1>4. ASSUME NEW d \in 0..INT_MAX PROVE agendaMap[d] = first[d]
  <2>1. agendaMap[d] = (IF d = tick_ THEN ready_ ELSE <<>>) \o <<>>
    <3>1. agendaMap[d] = (IF d = tick_ THEN ready_ ELSE <<>>) \o Due(timers_, d)
      BY AgendaAt
    <3>2. Due(timers_, d) = <<>>
      BY <1>3
    <3> QED
      BY <3>1, <3>2
  <2>2. first[d] = IF d = tick_ THEN ready_ ELSE <<>>
    BY <1>1
  <2>3. (IF d = tick_ THEN ready_ ELSE <<>>) \in Seq(Tasks)
    BY <1>2, EmptySeq
  <2> HIDE DEF first
  <2> QED
    BY <2>1, <2>2, <2>3, ConcatEmptySeq
<1>5. agendaMap = [d \in 0..INT_MAX |-> agendaMap[d]] /\ first = [d \in 0..INT_MAX |-> first[d]]
  BY DEF agendaMap
<1>6. agendaMap = first
  <2> HIDE DEF first
  <2> QED
    BY <1>4, <1>5, SameAgenda
<1> QED
  BY <1>1, <1>6 DEF Simulation!QInit

\* Both specifications agree on where a coroutine is suspended next.
LEMMA NextStageIs ==
  ASSUME SchedulerInv, NEW t \in Tasks, stage[t] # 3
  PROVE  Simulation!NextStage(t, stage[t]) = NextAwait(t)
<1>1. stage[t] \in 0..2 /\ delay[t][1] \in Int /\ delay[t][2] \in Int
  BY ElapsedBound
<1>2. CASE awaits(t, stage[t]) = {}
  <2>1. ~\E x \in (stage[t] + 1)..2 : delay[t][x] > 0
    BY <1>2 DEF awaits
  <2> QED
    BY <1>2, <2>1 DEF Simulation!NextStage, NextAwait
<1>3. CASE awaits(t, stage[t]) # {}
  <2>1. PICK s : s = NextAwait(t)
    OBVIOUS
  <2>2. s \in awaits(t, stage[t]) /\ \A x \in awaits(t, stage[t]) : s <= x
    <3>1. awaits(t, stage[t]) \subseteq Nat
      BY <1>1 DEF awaits
    <3> QED
      BY <1>3, <2>1, <3>1, MinIsLeast DEF NextAwait
  <2>3. s \in (stage[t] + 1)..2 /\ delay[t][s] > 0
    BY <2>2 DEF awaits
  <2> DEFINE FirstOf(x) == delay[t][x] > 0 /\ \A j \in (stage[t] + 1)..(x - 1) : delay[t][j] <= 0
  <2>4. FirstOf(s)
    <3> SUFFICES ASSUME NEW j \in (stage[t] + 1)..(s - 1), ~(delay[t][j] <= 0) PROVE FALSE
      BY <2>3
    <3>1. j \in 1..2 /\ delay[t][j] \in Int /\ j \in (stage[t] + 1)..2
      BY <1>1, <2>3
    <3>2. j \in awaits(t, stage[t])
      BY <3>1 DEF awaits
    <3> QED
      BY <1>1, <2>2, <2>3, <3>1, <3>2
  <2>5. \A x \in (stage[t] + 1)..2 : FirstOf(x) => x = s
    <3> SUFFICES ASSUME NEW x \in (stage[t] + 1)..2, FirstOf(x), x # s PROVE FALSE
      OBVIOUS
    <3>1. delay[t][x] \in Int /\ delay[t][s] \in Int
      BY <1>1, <2>3
    <3>2. CASE x < s
      <4>1. x \in (stage[t] + 1)..(s - 1)
        BY <1>1, <2>3, <3>2
      <4> QED
        BY <2>4, <3>1, <4>1
    <3>3. CASE s < x
      <4>1. s \in (stage[t] + 1)..(x - 1)
        BY <1>1, <2>3, <3>3
      <4> QED
        BY <2>3, <3>1, <4>1
    <3> QED
      BY <1>1, <2>3, <3>2, <3>3
  <2>6. Simulation!NextStage(t, stage[t]) = CHOOSE x \in (stage[t] + 1)..2 : FirstOf(x)
    BY <2>3 DEF Simulation!NextStage
  <2> HIDE DEF FirstOf
  <2>7. (CHOOSE x \in (stage[t] + 1)..2 : FirstOf(x)) = s
    BY <2>3, <2>4, <2>5
  <2> QED
    BY <2>1, <2>6, <2>7
<1> QED
  BY <1>2, <1>3


\* A resumption runs the first coroutine of the earliest tick.
LEMMA ResumeRuns == SchedulerInv /\ Resume => Simulation!RunNext(tick_)
<1> SUFFICES ASSUME SchedulerInv, Resume PROVE Simulation!RunNext(tick_)
  OBVIOUS
<1>t. PICK t : t = Head(ready_)
  OBVIOUS
<1>s. PICK s : s = NextAwait(t)
  OBVIOUS
<1>r. PICK r : r = Tail(ready_)
  OBVIOUS
<1>w. PICK w : w = tick_ + delay[t][s]
  OBVIOUS
<1>0. Resumes(t, s, r)
  BY <1>t, <1>s, <1>r, ResumeIs
<1>1. /\ ready_ \in Seq(Tasks) /\ ready_ # <<>> /\ timers_ \in Seq(Timers) /\ tick_ \in 0..INT_MAX
      /\ t \in Tasks /\ r \in Seq(Tasks) /\ stage[t] # 3 /\ stage \in [Tasks -> 0..3]
      /\ tick_' = tick_ /\ delay' = delay /\ ready_' = r /\ stage' = [stage EXCEPT ![t] = s]
  BY <1>0 DEF Resumes
<1>2. \/ s = 3 /\ timers_' = timers_
      \/ /\ s # 3 /\ w \in 0..INT_MAX /\ w > tick_
         /\ timers_' = Append(timers_, [wake_tick |-> w, handle |-> t])
  <2>1. tick_ \in Int
    BY <1>1, SchedulerAssumption
  <2>2. \/ s = 3 /\ timers_' = timers_
        \/ s # 3 /\ timers_' = Append(timers_, [wake_tick |-> tick_ + delay[t][s], handle |-> t])
    BY <1>0, Zenon DEF Resumes
  <2>3. s = 3 \/ /\ s # 3 /\ tick_ + delay[t][s] \in 0..INT_MAX /\ delay[t][s] > 0 /\ delay[t][s] \in Int
    BY <1>0 DEF Resumes
  <2>4. CASE s # 3
    <3>1. w \in 0..INT_MAX /\ w > tick_
      BY <1>w, <2>1, <2>3, <2>4
    <3>2. timers_' = Append(timers_, [wake_tick |-> w, handle |-> t])
      BY <1>w, <2>2, <2>4, Zenon
    <3> QED
      BY <2>4, <3>1, <3>2, Zenon
  <2> QED
    BY <2>2, <2>4, Zenon
<1>3. s = Simulation!NextStage(t, stage[t])
  BY <1>1, <1>s, NextStageIs
\* The agenda of the tick the clock shows.
<1>4. \A d : Due(timers_, d) \in Seq(Tasks)
  BY <1>1, FilterSeq, HandlesType DEF Due
<1>5. agendaMap[tick_] = ready_ \o Due(timers_, tick_)
  <2>1. agendaMap[tick_] = (IF tick_ = tick_ THEN ready_ ELSE <<>>) \o Due(timers_, tick_)
    BY <1>1, AgendaAt
  <2> QED
    BY <2>1
<1>6. /\ agendaMap[tick_] # <<>> /\ Head(agendaMap[tick_]) = t
      /\ Tail(agendaMap[tick_]) = r \o Due(timers_, tick_)
  BY <1>1, <1>4, <1>5, <1>t, <1>r, ConcatHeadTail, SMTT(40)
\* The other ticks: their timers, and none in the past.
<1>7. ASSUME NEW d \in 0..INT_MAX, d # tick_ PROVE agendaMap[d] = Due(timers_, d)
  <2>1. agendaMap[d] = (IF d = tick_ THEN ready_ ELSE <<>>) \o Due(timers_, d)
    BY AgendaAt
  <2>2. (IF d = tick_ THEN ready_ ELSE <<>>) = <<>>
    BY <1>7
  <2>3. agendaMap[d] = <<>> \o Due(timers_, d)
    BY <2>1, <2>2
  <2> QED
    BY <1>4, <2>3, ConcatEmptySeq
<1>8. ASSUME NEW e \in 0..(tick_ - 1) PROVE agendaMap[e] = <<>>
  <2>1. e \in 0..INT_MAX /\ e < tick_
    BY <1>1, SchedulerAssumption
  <2>2. \A k \in 1..Len(timers_) : timers_[k] \notin At(e)
    <3> SUFFICES ASSUME NEW k \in 1..Len(timers_) PROVE timers_[k].wake_tick # e
      BY DEF At
    <3>1. timers_[k].wake_tick >= tick_
      BY DEF SchedulerInv, TimeInv
    <3>2. timers_[k] \in Timers
      BY <1>1, ElementOfSeq
    <3> QED
      BY <1>1, <2>1, <3>1, <3>2 DEF Timers
  <2>3. Due(timers_, e) = <<>>
    BY <1>1, <2>2, FilterNone, HandlesEmpty DEF Due
  <2>4. e # tick_
    BY <1>1, <2>1
  <2> QED
    BY <1>7, <2>1, <2>3, <2>4
\* The next agenda, tick by tick.
<1>9. ASSUME NEW d \in 0..INT_MAX
      PROVE  agendaMap'[d] = (IF d = tick_ THEN r ELSE <<>>) \o Due(timers_', d)
  <2>1. agendaMap'[d] = (IF d = tick_' THEN ready_' ELSE <<>>) \o Due(timers_', d)
    BY DEF agendaMap, Due, At
  <2> QED
    BY <1>1, <2>1
<1>10. ASSUME NEW d \in 0..INT_MAX, Due(timers_', d) = Due(timers_, d)
       PROVE  agendaMap'[d] = IF d = tick_ THEN Tail(agendaMap[d]) ELSE agendaMap[d]
  <2>1. CASE d = tick_
    <3>1. (IF d = tick_ THEN r ELSE <<>>) = r
      BY <2>1
    <3>2. agendaMap'[d] = r \o Due(timers_', d)
      BY <1>9, <3>1
    <3> QED
      BY <1>6, <1>10, <2>1, <3>2
  <2>2. CASE d # tick_
    <3>1. (IF d = tick_ THEN r ELSE <<>>) = <<>>
      BY <2>2
    <3>2. agendaMap'[d] = <<>> \o Due(timers_', d)
      BY <1>9, <3>1
    <3>3. agendaMap'[d] = Due(timers_, d)
      BY <1>4, <1>10, <3>2, ConcatEmptySeq
    <3> QED
      BY <1>7, <2>2, <3>3
  <2> QED
    BY <2>1, <2>2
<1> DEFINE rest == [agendaMap EXCEPT ![tick_] = Tail(@)]
           next == [rest EXCEPT ![w] = Append(@, t)]
<1>11. /\ agendaMap = [d \in 0..INT_MAX |-> agendaMap[d]]
       /\ agendaMap' = [d \in 0..INT_MAX |-> agendaMap'[d]]
  BY DEF agendaMap
<1>12. /\ rest = [d \in 0..INT_MAX |-> rest[d]]
       /\ \A d \in 0..INT_MAX : rest[d] = IF d = tick_ THEN Tail(agendaMap[d]) ELSE agendaMap[d]
  BY <1>11
<1> HIDE DEF rest
<1>13. CASE s = 3
  <2>1. ASSUME NEW d \in 0..INT_MAX PROVE agendaMap'[d] = rest[d]
    <3>1. Due(timers_', d) = Due(timers_, d)
      BY <1>2, <1>13
    <3>2. agendaMap'[d] = IF d = tick_ THEN Tail(agendaMap[d]) ELSE agendaMap[d]
      BY <1>10, <3>1
    <3>3. rest[d] = IF d = tick_ THEN Tail(agendaMap[d]) ELSE agendaMap[d]
      BY <1>12
    <3> QED
      BY <3>2, <3>3
  <2>2. agendaMap' = rest
    BY <1>11, <1>12, <2>1, SameAgenda, SMTT(40)
  <2> QED
    BY <1>1, <1>3, <1>6, <1>8, <1>13, <2>2, Zenon DEF Simulation!RunNext, rest
<1>14. CASE s # 3
  <2>1. w \in 0..INT_MAX /\ w > tick_ /\ w # tick_
    BY <1>1, <1>2, <1>14
  <2> DEFINE e == [wake_tick |-> w, handle |-> t]
  <2>2. timers_' = Append(timers_, e) /\ e \in Timers /\ e.wake_tick = w /\ e.handle = t
    BY <1>1, <1>2, <1>14, <2>1 DEF Timers
  <2> HIDE DEF e
  <2>3. ASSUME NEW d \in 0..INT_MAX
        PROVE  Filter(timers_', At(d)) = IF e \in At(d) THEN Append(Filter(timers_, At(d)), e)
                                          ELSE Filter(timers_, At(d))
    BY <1>1, <2>2, FilterAppend
  <2>4. ASSUME NEW d \in 0..INT_MAX, d # w PROVE Due(timers_', d) = Due(timers_, d)
    <3>1. e \notin At(d)
      BY <2>2, <2>4 DEF At
    <3>2. Filter(timers_', At(d)) = Filter(timers_, At(d))
      BY <2>3, <3>1
    <3> QED
      BY <3>2 DEF Due
  <2>5. Due(timers_', w) = Append(Due(timers_, w), t)
    <3>1. e \in At(w)
      BY <2>2 DEF At
    <3>2. Filter(timers_', At(w)) = Append(Filter(timers_, At(w)), e)
      BY <2>1, <2>3, <3>1
    <3>3. Filter(timers_, At(w)) \in Seq(Timers)
      BY <1>1, FilterSeq
    <3> QED
      BY <2>2, <3>2, <3>3, HandlesAppend DEF Due
  <2>6. agendaMap'[w] = Append(agendaMap[w], t)
    <3>1. (IF w = tick_ THEN r ELSE <<>>) = <<>>
      BY <2>1
    <3>2. agendaMap'[w] = <<>> \o Due(timers_', w)
      BY <1>9, <2>1, <3>1
    <3>3. Append(Due(timers_, w), t) \in Seq(Tasks)
      BY <1>1, <1>4, AppendProperties
    <3>4. agendaMap'[w] = Append(Due(timers_, w), t)
      BY <2>5, <3>2, <3>3, ConcatEmptySeq
    <3>5. agendaMap[w] = Due(timers_, w)
      BY <1>7, <2>1
    <3> QED
      BY <3>4, <3>5
  <2>7. /\ next = [d \in 0..INT_MAX |-> next[d]]
        /\ \A d \in 0..INT_MAX : next[d] = IF d = w THEN Append(rest[d], t) ELSE rest[d]
    BY <1>12
  <2> HIDE DEF next
  <2>8. ASSUME NEW d \in 0..INT_MAX PROVE agendaMap'[d] = next[d]
    <3>1. CASE d = w
      <4>1. next[w] = Append(rest[w], t)
        BY <2>1, <2>7
      <4>2. rest[w] = agendaMap[w]
        BY <1>12, <2>1
      <4> QED
        BY <2>6, <3>1, <4>1, <4>2
    <3>2. CASE d # w
      <4>1. next[d] = rest[d]
        BY <2>7, <3>2
      <4>2. rest[d] = IF d = tick_ THEN Tail(agendaMap[d]) ELSE agendaMap[d]
        BY <1>12
      <4>3. Due(timers_', d) = Due(timers_, d)
        BY <2>4, <3>2
      <4>4. agendaMap'[d] = IF d = tick_ THEN Tail(agendaMap[d]) ELSE agendaMap[d]
        BY <1>10, <4>3
      <4> QED
        BY <4>1, <4>2, <4>4, Zenon
    <3> QED
      BY <3>1, <3>2
  <2>9. agendaMap' = next
    BY <1>11, <2>7, <2>8, SameAgenda
  <2> QED
    BY <1>1, <1>3, <1>6, <1>8, <1>14, <1>w, <2>9, Zenon DEF Simulation!RunNext, rest, next
<1> QED
  BY <1>13, <1>14

\* The clock and the containers move, the agenda does not.
LEMMA AgendaStep == SchedulerInv /\ [SchedulerNext]_schedulerVars => [Simulation!QNext]_(Simulation!qvars)
<1> SUFFICES ASSUME SchedulerInv, [SchedulerNext]_schedulerVars PROVE Simulation!QNext \/ UNCHANGED Simulation!qvars
  OBVIOUS
<1>0. tick_ \in 0..INT_MAX /\ \A k \in 1..Len(timers_) : timers_[k].wake_tick >= tick_
  BY DEF SchedulerInv, SchedulerTypeOK, TimeInv
<1>1. CASE Wake
  <2>1. wake_due_timers(tick_) /\ tick_' = tick_ /\ UNCHANGED <<stage, delay>>
    BY <1>1 DEF Wake
  <2>2. PICK tick \in 0..INT_MAX : tick = tick_
    BY <1>0
  <2>3. wake_due_timers(tick) /\ tick_' = tick /\ \A k \in 1..Len(timers_) : timers_[k].wake_tick >= tick
    BY <1>0, <2>1, <2>2
  <2>4. agendaMap' = agendaMap
    BY <2>2, <2>3, WakeAgenda
  <2> QED
    BY <2>1, <2>4 DEF Simulation!qvars
<1>2. CASE Jump /\ ready_ = <<>>
  <2>1. timers_ # <<>>
    BY <1>2 DEF Jump, SchedulerInv, PlaceInv
  <2>2. PICK tick \in 0..INT_MAX : tick = next_timer_tick
    BY <2>1, EarliestTimer
  <2>3. wake_due_timers(tick) /\ tick_' = tick /\ UNCHANGED <<stage, delay>>
    BY <1>2, <2>2 DEF Jump, wake_due_timers, woken
  <2>4. \A k \in 1..Len(timers_) : timers_[k].wake_tick >= tick
    BY <2>1, <2>2, EarliestTimer
  <2>5. agendaMap' = agendaMap
    BY <1>2, <2>3, <2>4, WakeAgenda
  <2> QED
    BY <2>3, <2>5 DEF Simulation!qvars
<1>3. CASE Resume
  BY <1>0, <1>3, ResumeRuns DEF Simulation!QNext
<1>4. CASE UNCHANGED <<tick_, ready_, timers_, stage, delay>>
  BY <1>4 DEF Simulation!qvars, agendaMap
<1> QED
  BY <1>1, <1>2, <1>3, <1>4 DEF SchedulerNext, Run, Jump, Return, Returned, schedulerVars

\* The scheduler is a discrete-event simulation: coroutines run by due tick,
\* and first come first served within one tick, for any number of coroutines
\* and any delays.
THEOREM RunIsASimulation == SchedulerSpec => ImplementsEventQueue
  BY AgendaInit, AgendaStep, SchedulerInvariant, PTL DEF SchedulerSpec, ImplementsEventQueue, Simulation!QSpec
-----------------------------------------------------------------------------
(* The HTTP client. *)

\* While a request is under way body_ holds its pieces and errbuf_ nothing.
HttpInv ==
  /\ request \in Nat /\ came \in Nat
  /\ handle_ \in [url : Nat, method : {"GET", "POST"}, fields : Nat, header : Nat]
  /\ cat \in {"start", "global"} => request = 0
  /\ cat = "perform" => request > 0 /\ errbuf_ = 0 /\ body_ = [p \in 1..came |-> request]
  /\ Http!HttpExact

LEMMA HttpInitial == Http!HttpInit => HttpInv
  BY DEF Http!HttpInit, HttpInv, Http!HttpExact, Http!RequestAsAsked, Http!AnswerExact

\* One more piece of the same.
LEMMA PieceAppended ==
  ASSUME NEW n \in Nat, NEW e
  PROVE  Append([p \in 1..n |-> e], e) = [p \in 1..(n + 1) |-> e]
<1> DEFINE f == [p \in 1..n |-> e]
           g == [p \in 1..(n + 1) |-> e]
<1>1. f \in Seq({e}) /\ Len(f) = n
  BY SeqDef, LenProperties
<1>2. g \in Seq({e}) /\ Len(g) = n + 1
  BY SeqDef, LenProperties
<1>3. \A p \in 1..n : f[p] = e
  OBVIOUS
<1>4. \A p \in 1..(n + 1) : g[p] = e
  OBVIOUS
<1> HIDE DEF f, g
<1>5. Append(f, e) \in Seq({e}) /\ Len(Append(f, e)) = n + 1 /\ \A p \in 1..(n + 1) : Append(f, e)[p] = e
  BY <1>1, <1>3
<1>6. Append(f, e) = g
  BY <1>2, <1>4, <1>5, SeqEqual
<1> QED BY <1>6 DEF f, g

LEMMA HttpStep ==
  ASSUME HttpInv, [Http!Requests \/ Http!HttpSteps]_httpVars
  PROVE  HttpInv'
<1> USE DEF HttpInv, Http!HttpExact, Http!RequestAsAsked, Http!AnswerExact
<1>1. CASE UNCHANGED httpVars
  BY <1>1 DEF httpVars
<1>2. CASE Http!get
  <2>1. /\ request' = request + 1 /\ body_' = <<>> /\ errbuf_' = 0 /\ came' = 0 /\ cat' = "perform"
        /\ handle_' = [handle_ EXCEPT !.url = request', !.method = "GET", !.header = 0] /\ asked' = "GET"
    BY <1>2 DEF Http!get, Http!reset_per_request, Http!header_cleared
  <2>2. <<>> = [p \in 1..0 |-> request']
    OBVIOUS
  <2>3. handle_' \in [url : Nat, method : {"GET", "POST"}, fields : Nat, header : Nat]
        /\ handle_'.url = request' /\ handle_'.method = "GET" /\ handle_'.header = 0
    <3>1. handle_ \in [url : Nat, method : {"GET", "POST"}, fields : Nat, header : Nat] /\ request' \in Nat
      BY <2>1
    <3>2. handle_' = [[[handle_ EXCEPT !.url = request'] EXCEPT !.method = "GET"] EXCEPT !.header = 0]
      BY <2>1
    <3> QED BY <3>1, <3>2
  <2> QED BY <2>1, <2>2, <2>3
<1>3. CASE Http!post_json
  <2>1. /\ request' = request + 1 /\ body_' = <<>> /\ errbuf_' = 0 /\ came' = 0 /\ cat' = "perform" /\ asked' = "POST"
    BY <1>3 DEF Http!post_json, Http!reset_per_request
  <2>2. PICK headers \in {0, request'} :
          /\ handle_' = [url |-> request', method |-> "POST", fields |-> request', header |-> headers]
          /\ lists' = {headers} \ {0}
    BY <1>3 DEF Http!post_json
  <2>3. <<>> = [p \in 1..0 |-> request']
    OBVIOUS
  <2>4. handle_' \in [url : Nat, method : {"GET", "POST"}, fields : Nat, header : Nat]
        /\ handle_'.url = request' /\ handle_'.method = "POST" /\ handle_'.fields = request' /\ handle_'.header = headers
    BY <2>1, <2>2
  <2> QED BY <2>1, <2>2, <2>3, <2>4
<1>4. CASE Http!write_to_string
  <2>1. cat = "perform" /\ came' = came + 1 /\ body_' = Append(body_, request)
        /\ UNCHANGED <<request, asked, handle_, errbuf_, lists, cat>>
    BY <1>4 DEF Http!write_to_string
  <2>2. body_' = [p \in 1..(came + 1) |-> request]
    <3>1. came \in Nat /\ body_ = [p \in 1..came |-> request] /\ body_' = Append(body_, request)
      BY <2>1
    <3>2. Append([p \in 1..came |-> request], request) = [p \in 1..(came + 1) |-> request]
      BY <3>1, PieceAppended
    <3> QED BY <3>1, <3>2, Zenon
  <2> QED BY <2>1, <2>2
<1>5. CASE Http!perform_throws
  <2>1. /\ cat = "perform" /\ cat' = "idle" /\ lists' = {} /\ UNCHANGED <<request, asked, handle_, came>>
        /\ errbuf_' \in {errbuf_, request} /\ answer' = <<"error", IF errbuf_' # 0 THEN errbuf_' ELSE request>>
    BY <1>5 DEF Http!perform_throws
  <2>2. answer' = <<"error", request>>
    BY <2>1
  <2> QED BY <2>1, <2>2
<1>6. CASE Http!perform_returns
  <2>1. cat = "perform" /\ cat' = "idle" /\ lists' = {} /\ UNCHANGED <<request, asked, handle_, came>> /\ answer' = <<"body", body_>>
    BY <1>6 DEF Http!perform_returns
  <2>2. answer' = <<"body", [p \in 1..came |-> request]>>
    BY <2>1
  <2> QED BY <2>1, <2>2
<1>7. CASE Http!Destroy \/ Http!GlobalInit \/ Http!EasyInit
  BY <1>7 DEF Http!Destroy, Http!GlobalInit, Http!EasyInit
<1> QED BY <1>1, <1>2, <1>3, <1>4, <1>5, <1>6, <1>7 DEF Http!Requests, Http!HttpSteps
-----------------------------------------------------------------------------
(* The interposed allocator, for any number of threads and calls. *)

Ops == {"malloc", "free"}
Working == {"forward", "test"}

\* A thread is outside, in a call of its own before the test of the flag,
\* printing, or in the call of malloc that printf makes; and every call but the
\* one under way has its line.
HookAt(t) ==
  \/ frames[t] = <<>> /\ ~in_hook[t] /\ calls[t] = log[t]
  \/ \E op \in Ops :
       /\ calls[t] = Append(log[t], op)
       /\ \/ ~in_hook[t] /\ \E w \in Working : frames[t] = <<[op |-> op, at |-> w]>>
          \/ in_hook[t] /\ frames[t] = <<[op |-> op, at |-> "printf"]>>
          \/ in_hook[t] /\ \E w \in Working :
               frames[t] = <<[op |-> op, at |-> "printf"], [op |-> "malloc", at |-> w]>>

HookInv ==
  /\ log \in [Callers -> Seq(Ops)] /\ in_hook \in [Callers -> BOOLEAN]
  /\ DOMAIN frames = Callers /\ DOMAIN calls = Callers
  /\ \A t \in Callers : HookAt(t)

LEMMA HookInitial == Hook!InterposeInit => HookInv
  BY DEF Hook!InterposeInit, HookInv, HookAt

\* The two deepest stacks, taken apart.
LEMMA Stacks ==
  ASSUME NEW x, NEW y
  PROVE  /\ Hook!Last(<<x>>) = x /\ Hook!Last(<<x, y>>) = y
         /\ Hook!Front(<<x>>) = <<>> /\ Hook!Front(<<x, y>>) = <<x>>
         /\ Len(<<x>>) = 1 /\ Len(<<x, y>>) = 2 /\ <<x>> # <<>> /\ <<x, y>> # <<>>
<1>1. Len(<<x>>) = 1 /\ Len(<<x, y>>) = 2 /\ <<x>> # <<>> /\ <<x, y>> # <<>>
  OBVIOUS
<1>2. Hook!Last(<<x>>) = x /\ Hook!Last(<<x, y>>) = y
  BY DEF Hook!Last
<1>3. SubSeq(<<x>>, 1, 0) = <<>> /\ SubSeq(<<x, y>>, 1, 1) = <<x>>
  <2> DEFINE one == <<x>>
             two == <<x, y>>
  <2>1. one \in Seq({x, y}) /\ Len(one) = 1 /\ one[1] = x /\ two \in Seq({x, y}) /\ Len(two) = 2 /\ two[1] = x
    OBVIOUS
  <2> HIDE DEF one, two
  <2>2. SubSeq(one, 1, 0) = <<>>
    BY <2>1, SubSeqEmpty
  <2>3. SubSeq(two, 1, 1) \in Seq({x, y}) /\ Len(SubSeq(two, 1, 1)) = 1 /\ SubSeq(two, 1, 1)[1] = x
    BY <2>1, SubSeqProperties
  <2>4. SubSeq(two, 1, 1) = one
    BY <2>1, <2>3, SeqEqual
  <2> QED BY <2>2, <2>4 DEF one, two
<1>4. Hook!Front(<<x>>) = <<>> /\ Hook!Front(<<x, y>>) = <<x>>
  BY <1>3 DEF Hook!Front
<1> QED BY <1>1, <1>2, <1>4

LEMMA PairMade ==
  ASSUME NEW x, NEW y
  PROVE  Append(<<x>>, y) = <<x, y>>
<1> DEFINE one == <<x>>
           two == <<x, y>>
<1>1. one \in Seq({x, y}) /\ two \in Seq({x, y}) /\ Len(one) + 1 = Len(two) /\ y \in {x, y}
  OBVIOUS
<1>2. /\ \A n \in 1..Len(one) : two[n] = one[n]
      /\ two[Len(one) + 1] = y /\ Len(one) \in Nat
  OBVIOUS
<1> HIDE DEF one, two
<1>3. /\ Append(one, y) \in Seq({x, y}) /\ Len(Append(one, y)) = Len(one) + 1
      /\ \A n \in 1..Len(one) : Append(one, y)[n] = one[n]
      /\ Append(one, y)[Len(one) + 1] = y
  BY <1>1, AppendProperties
<1>4. \A n \in 1..Len(two) : Append(one, y)[n] = two[n]
  BY <1>1, <1>2, <1>3
<1>5. Append(one, y) = two
  BY <1>1, <1>3, <1>4, SeqEqual
<1> QED BY <1>5 DEF one, two

\* A call of the program's, and one of printf's on top of it.
Outer(op, w) == <<[op |-> op, at |-> w]>>
Inner(op, w) == <<[op |-> op, at |-> "printf"], [op |-> "malloc", at |-> w]>>

LEMMA HookStacks ==
  ASSUME NEW op, NEW w
  PROVE  /\ Outer(op, w) # <<>> /\ Len(Outer(op, w)) = 1 /\ Hook!Front(Outer(op, w)) = <<>>
         /\ Hook!Last(Outer(op, w)) = [op |-> op, at |-> w]
         /\ Inner(op, w) # <<>> /\ Len(Inner(op, w)) = 2 /\ Hook!Front(Inner(op, w)) = Outer(op, "printf")
         /\ Hook!Last(Inner(op, w)) = [op |-> "malloc", at |-> w]
  BY Stacks DEF Outer, Inner

\* The innermost call goes on.
LEMMA HookGoes ==
  ASSUME NEW t \in Callers, DOMAIN frames = Callers, NEW op, NEW w, NEW x
  PROVE  /\ DOMAIN Hook!Goes(t, x) = Callers /\ \A u \in Callers : u # t => Hook!Goes(t, x)[u] = frames[u]
         /\ frames[t] = Outer(op, w) => Hook!Goes(t, x)[t] = Outer(op, x)
         /\ frames[t] = Inner(op, w) => Hook!Goes(t, x)[t] = Inner(op, x)
<1>1. Hook!Goes(t, x) = [frames EXCEPT ![t] = [frames[t] EXCEPT ![Len(frames[t])] = [frames[t][Len(frames[t])] EXCEPT !.at = x]]]
  BY DEF Hook!Goes
<1>2. ASSUME frames[t] = Outer(op, w) PROVE Hook!Goes(t, x)[t] = Outer(op, x)
  <2>1. Hook!Goes(t, x)[t] = [Outer(op, w) EXCEPT ![1] = [Outer(op, w)[1] EXCEPT !.at = x]]
    <3>1. Len(frames[t]) = 1
      BY <1>2, HookStacks
    <3>2. Hook!Goes(t, x)[t] = [frames[t] EXCEPT ![Len(frames[t])] = [frames[t][Len(frames[t])] EXCEPT !.at = x]]
      BY <1>1
    <3> QED BY <1>2, <3>1, <3>2, Zenon
  <2> QED BY <2>1 DEF Outer
<1>3. ASSUME frames[t] = Inner(op, w) PROVE Hook!Goes(t, x)[t] = Inner(op, x)
  <2>1. Hook!Goes(t, x)[t] = [Inner(op, w) EXCEPT ![2] = [Inner(op, w)[2] EXCEPT !.at = x]]
    <3>1. Len(frames[t]) = 2
      BY <1>3, HookStacks
    <3>2. Hook!Goes(t, x)[t] = [frames[t] EXCEPT ![Len(frames[t])] = [frames[t][Len(frames[t])] EXCEPT !.at = x]]
      BY <1>1
    <3> QED BY <1>3, <3>1, <3>2, Zenon
  <2> QED BY <2>1 DEF Inner
<1> QED BY <1>1, <1>2, <1>3

\* What HookAt says, and what makes it up, by the stack.
LEMMA HookCases ==
  ASSUME NEW t \in Callers, HookAt(t)
  PROVE  \/ frames[t] = <<>> /\ ~in_hook[t] /\ calls[t] = log[t]
         \/ \E op \in Ops :
              /\ calls[t] = Append(log[t], op)
              /\ \/ ~in_hook[t] /\ \E w \in Working : frames[t] = Outer(op, w)
                 \/ in_hook[t] /\ frames[t] = Outer(op, "printf")
                 \/ in_hook[t] /\ \E w \in Working : frames[t] = Inner(op, w)
  BY Zenon DEF HookAt, Outer, Inner

LEMMA HookMade ==
  ASSUME NEW t \in Callers,
         \/ frames'[t] = <<>> /\ ~in_hook'[t] /\ calls'[t] = log'[t]
         \/ \E op \in Ops :
              /\ calls'[t] = Append(log'[t], op)
              /\ \/ ~in_hook'[t] /\ \E w \in Working : frames'[t] = Outer(op, w)
                 \/ in_hook'[t] /\ frames'[t] = Outer(op, "printf")
                 \/ in_hook'[t] /\ \E w \in Working : frames'[t] = Inner(op, w)
  PROVE  HookAt(t)'
  BY Zenon DEF HookAt, Outer, Inner

\* A step of one thread leaves the others where they are.
LEMMA HookMoved ==
  ASSUME HookInv, NEW t \in Callers, HookAt(t)',
         log' \in [Callers -> Seq(Ops)], in_hook' \in [Callers -> BOOLEAN],
         DOMAIN frames' = Callers, DOMAIN calls' = Callers,
         \A u \in Callers : u # t => /\ frames'[u] = frames[u] /\ in_hook'[u] = in_hook[u]
                                     /\ calls'[u] = calls[u] /\ log'[u] = log[u]
  PROVE  HookInv'
<1>1. ASSUME NEW u \in Callers PROVE HookAt(u)'
  <2>1. CASE u = t
    BY <2>1
  <2>2. CASE u # t
    <3>1. frames'[u] = frames[u] /\ in_hook'[u] = in_hook[u] /\ calls'[u] = calls[u] /\ log'[u] = log[u]
      BY <2>2
    <3>2. HookAt(u)
      BY DEF HookInv
    <3> QED BY <3>1, <3>2, Zenon DEF HookAt
  <2> QED BY <2>1, <2>2
<1> QED BY <1>1 DEF HookInv

\* Printing, a thread is in its own call.
LEMMA HookPrinting ==
  ASSUME NEW t \in Callers, HookAt(t), frames[t] # <<>>, Hook!Last(frames[t]).at = "printf"
  PROVE  \E op \in Ops : calls[t] = Append(log[t], op) /\ in_hook[t] /\ frames[t] = Outer(op, "printf")
<1>1. PICK op \in Ops :
        /\ calls[t] = Append(log[t], op)
        /\ \/ ~in_hook[t] /\ \E w \in Working : frames[t] = Outer(op, w)
           \/ in_hook[t] /\ frames[t] = Outer(op, "printf")
           \/ in_hook[t] /\ \E w \in Working : frames[t] = Inner(op, w)
  BY HookCases
<1>2. ASSUME NEW w \in Working PROVE frames[t] # Outer(op, w) /\ frames[t] # Inner(op, w)
  <2>1. Hook!Last(Outer(op, w)) = [op |-> op, at |-> w] /\ Hook!Last(Inner(op, w)) = [op |-> "malloc", at |-> w]
    BY HookStacks
  <2>2. Hook!Last(Outer(op, w)).at = w /\ Hook!Last(Inner(op, w)).at = w /\ w # "printf"
    BY <2>1 DEF Working
  <2> QED BY <2>2
<1> QED BY <1>1, <1>2

\* One step of a thread.
LEMMA HookStep ==
  ASSUME HookInv, NEW t \in Callers, Hook!Calls(t) \/ Hook!HookSteps(t)
  PROVE  HookInv'
<1>1. /\ log \in [Callers -> Seq(Ops)] /\ in_hook \in [Callers -> BOOLEAN]
      /\ DOMAIN frames = Callers /\ DOMAIN calls = Callers /\ HookAt(t) /\ log[t] \in Seq(Ops)
  BY DEF HookInv
<1>2. ASSUME NEW op \in Ops, Hook!Call(t, op) PROVE HookInv'
  <2>1. /\ frames[t] = <<>> /\ frames' = [frames EXCEPT ![t] = Outer(op, "forward")]
        /\ calls' = [calls EXCEPT ![t] = Append(calls[t], op)] /\ UNCHANGED <<in_hook, log>>
    BY <1>2 DEF Hook!Call, Outer
  <2>2. ~in_hook[t] /\ calls[t] = log[t]
    BY <1>1, <2>1, HookCases, HookStacks
  <2>3. frames'[t] = Outer(op, "forward") /\ ~in_hook'[t] /\ calls'[t] = Append(log'[t], op) /\ "forward" \in Working
    BY <1>1, <2>1, <2>2 DEF Working
  <2>4. HookAt(t)'
    BY <2>3, HookMade
  <2> QED BY <1>1, <2>1, <2>4, HookMoved
<1>3. CASE Hook!PrintfAllocates(t)
  <2>1. /\ frames[t] # <<>> /\ Hook!Last(frames[t]).at = "printf" /\ UNCHANGED <<in_hook, calls, log>>
        /\ frames' = [frames EXCEPT ![t] = Append(frames[t], [op |-> "malloc", at |-> "forward"])]
    BY <1>3 DEF Hook!PrintfAllocates, Hook!At, Hook!Top
  <2>2. PICK op \in Ops : calls[t] = Append(log[t], op) /\ in_hook[t] /\ frames[t] = Outer(op, "printf")
    BY <1>1, <2>1, HookPrinting
  <2>3. Append(Outer(op, "printf"), [op |-> "malloc", at |-> "forward"]) = Inner(op, "forward")
    <3> DEFINE r == [op |-> op, at |-> "printf"]
               m == [op |-> "malloc", at |-> "forward"]
    <3> HIDE DEF r, m
    <3>1. Append(<<r>>, m) = <<r, m>>
      BY PairMade, Zenon
    <3> QED BY <3>1 DEF r, m, Outer, Inner
  <2>4. frames'[t] = Inner(op, "forward") /\ in_hook'[t] /\ calls'[t] = Append(log'[t], op) /\ "forward" \in Working
    BY <1>1, <2>1, <2>2, <2>3 DEF Working
  <2>5. HookAt(t)'
    BY <2>4, HookMade
  <2> QED BY <1>1, <2>1, <2>5, HookMoved
<1>4. CASE Hook!Forward(t)
  <2>1. frames[t] # <<>> /\ Hook!Last(frames[t]).at = "forward" /\ UNCHANGED <<in_hook, calls, log>> /\ frames' = Hook!Goes(t, "test")
    BY <1>4 DEF Hook!Forward, Hook!At, Hook!Top
  <2>2. PICK op \in Ops : /\ calls[t] = Append(log[t], op)
                          /\ \/ ~in_hook[t] /\ frames[t] = Outer(op, "forward")
                             \/ in_hook[t] /\ frames[t] = Inner(op, "forward")
    BY <1>1, <2>1, HookCases, HookStacks DEF Working
  <2>3. \/ ~in_hook'[t] /\ frames'[t] = Outer(op, "test")
        \/ in_hook'[t] /\ frames'[t] = Inner(op, "test")
    BY <1>1, <2>1, <2>2, HookGoes
  <2>4. calls'[t] = Append(log'[t], op) /\ "test" \in Working
    BY <2>1, <2>2 DEF Working
  <2>5. HookAt(t)'
    BY <2>3, <2>4, HookMade
  <2> QED BY <1>1, <2>1, <2>5, HookGoes, HookMoved
<1>5. CASE Hook!DlsymFails(t)
  <2>1. UNCHANGED <<in_hook, frames, calls, log>>
    BY <1>5 DEF Hook!DlsymFails
  <2> QED BY <2>1 DEF HookInv, HookAt
<1>6. CASE Hook!TestHook(t) /\ in_hook[t]
  <2>1. /\ frames[t] # <<>> /\ Hook!Last(frames[t]).at = "test" /\ UNCHANGED <<in_hook, calls, log>>
        /\ frames' = [frames EXCEPT ![t] = Hook!Front(frames[t])]
    BY <1>6 DEF Hook!TestHook, Hook!At, Hook!Top
  <2>2. PICK op \in Ops : calls[t] = Append(log[t], op) /\ in_hook[t] /\ frames[t] = Inner(op, "test")
    BY <1>1, <1>6, <2>1, HookCases, HookStacks DEF Working
  <2>3. frames'[t] = Outer(op, "printf") /\ in_hook'[t] /\ calls'[t] = Append(log'[t], op)
    BY <1>1, <2>1, <2>2, HookStacks
  <2>4. HookAt(t)'
    BY <2>3, HookMade
  <2> QED BY <1>1, <2>1, <2>4, HookMoved
<1>7. CASE Hook!TestHook(t) /\ ~in_hook[t]
  <2>1. /\ frames[t] # <<>> /\ Hook!Last(frames[t]).at = "test" /\ UNCHANGED <<calls, log>>
        /\ in_hook' = [in_hook EXCEPT ![t] = TRUE] /\ frames' = Hook!Goes(t, "printf")
    BY <1>7 DEF Hook!TestHook, Hook!At, Hook!Top
  <2>2. PICK op \in Ops : calls[t] = Append(log[t], op) /\ frames[t] = Outer(op, "test")
    BY <1>1, <1>7, <2>1, HookCases, HookStacks DEF Working
  <2>3. frames'[t] = Outer(op, "printf") /\ in_hook'[t] /\ calls'[t] = Append(log'[t], op)
    BY <1>1, <2>1, <2>2, HookGoes
  <2>4. HookAt(t)'
    BY <2>3, HookMade
  <2> QED BY <1>1, <2>1, <2>4, HookGoes, HookMoved
<1>8. CASE Hook!Printed(t)
  <2>1. /\ frames[t] # <<>> /\ Hook!Last(frames[t]).at = "printf" /\ UNCHANGED calls
        /\ log' = [log EXCEPT ![t] = Append(log[t], Hook!Last(frames[t]).op)]
        /\ in_hook' = [in_hook EXCEPT ![t] = FALSE]
        /\ frames' = [frames EXCEPT ![t] = Hook!Front(frames[t])]
    BY <1>8 DEF Hook!Printed, Hook!At, Hook!Top
  <2>2. PICK op \in Ops : calls[t] = Append(log[t], op) /\ frames[t] = Outer(op, "printf")
    BY <1>1, <2>1, HookPrinting
  <2>3. frames'[t] = <<>> /\ ~in_hook'[t] /\ calls'[t] = log'[t] /\ log'[t] = Append(log[t], op)
    BY <1>1, <2>1, <2>2, HookStacks
  <2>4. log' \in [Callers -> Seq(Ops)]
    BY <1>1, <2>1, <2>3
  <2>5. HookAt(t)'
    BY <2>3, HookMade
  <2> QED BY <1>1, <2>1, <2>4, <2>5, HookMoved
<1> QED BY <1>2, <1>3, <1>4, <1>5, <1>6, <1>7, <1>8 DEF Hook!Calls, Hook!HookSteps, Ops

LEMMA HookExact == HookInv => Hook!LogExact
<1> SUFFICES ASSUME HookInv, NEW t \in Callers
             PROVE  /\ Len(frames[t]) <= 2
                    /\ IF frames[t] = <<>> THEN log[t] = calls[t] ELSE log[t] = Hook!Front(calls[t])
  BY DEF Hook!LogExact
<1>1. HookAt(t) /\ log[t] \in Seq(Ops)
  BY DEF HookInv
<1>2. CASE frames[t] = <<>>
  BY <1>1, <1>2, HookCases, HookStacks
<1>3. CASE frames[t] # <<>>
  <2>1. PICK op \in Ops : calls[t] = Append(log[t], op) /\ \E w : frames[t] = Outer(op, w) \/ frames[t] = Inner(op, w)
    BY <1>1, <1>3, HookCases
  <2>2. Len(frames[t]) <= 2
    <3>1. PICK w : frames[t] = Outer(op, w) \/ frames[t] = Inner(op, w)
      BY <2>1
    <3>2. Len(Outer(op, w)) = 1 /\ Len(Inner(op, w)) = 2
      BY HookStacks
    <3> DEFINE n == Len(frames[t])
    <3>3. n = 1 \/ n = 2
      BY <3>1, <3>2, Zenon
    <3> HIDE DEF n
    <3>4. n <= 2
      BY <3>3
    <3> QED BY <3>4 DEF n
  <2>3. Hook!Front(Append(log[t], op)) = log[t]
    <3>1. Append(log[t], op) \in Seq(Ops) /\ Len(Append(log[t], op)) = Len(log[t]) + 1 /\ Len(log[t]) \in Nat
          /\ \A n \in 1..Len(log[t]) : Append(log[t], op)[n] = log[t][n]
      BY <1>1
    <3>2. SubSeq(Append(log[t], op), 1, Len(log[t])) = log[t]
      BY <1>1, <3>1, SubSeqProperties, SeqEqual
    <3> QED BY <3>1, <3>2 DEF Hook!Front
  <2> QED BY <1>3, <2>1, <2>2, <2>3
<1> QED BY <1>2, <1>3
-----------------------------------------------------------------------------
(* sio_ltoa, for every width of a long. *)

\* What is left of m before each digit of text and after the last one: each is
\* ten times the next plus the digit, and none but the last is zero.
Quotients(Q, m, text) ==
  /\ Q \in [0..Len(text) -> Nat] /\ Q[0] = m
  /\ \A n \in 1..Len(text) : /\ text[n] \in 48..57 /\ Q[n - 1] = 10 * Q[n] + (text[n] - 48)
                             /\ n < Len(text) => Q[n] > 0

Magnitude == IF number < 0 THEN -number ELSE number

LtoaInv ==
  /\ number \in Lib!Longs /\ ltoa_v \in Int /\ ltoa_s \in Seq(Int) /\ neg \in BOOLEAN
  /\ lat \in {"call", "digits", "sign", "done"}
  /\ lat = "call" => ltoa_v = number /\ ltoa_s = <<>>
  /\ lat # "call" => neg = (number < 0)
  /\ lat = "digits" /\ number = Lib!LONG_MIN => ltoa_v = number /\ ltoa_s = <<>>
  /\ lat = "sign" /\ number = Lib!LONG_MIN => Len(ltoa_s) = 1 /\ ltoa_s[1] < 48
  /\ lat = "digits" /\ number # Lib!LONG_MIN =>
       \E Q : Quotients(Q, Magnitude, ltoa_s) /\ Q[Len(ltoa_s)] = ltoa_v /\ (ltoa_s # <<>> => ltoa_v > 0)
  /\ lat = "sign" /\ number # Lib!LONG_MIN =>
       \E Q : Quotients(Q, Magnitude, ltoa_s) /\ Q[Len(ltoa_s)] = 0 /\ ltoa_s # <<>>
  /\ Lib!LtoaExact

LEMMA LtoaInitial == Lib!LtoaInit => LtoaInv
<1> SUFFICES ASSUME Lib!LtoaInit PROVE LtoaInv
  OBVIOUS
<1>1. number \in Lib!Longs /\ ltoa_v = number /\ ltoa_s = <<>> /\ neg = FALSE /\ lat = "call"
  BY DEF Lib!LtoaInit
<1>2. number \in Int
  BY <1>1, AloneAssumption DEF Lib!Longs, Lib!LONG_MIN
<1>3. Lib!LtoaExact
  BY <1>1 DEF Lib!LtoaExact
<1>4. <<>> \in Seq(Int)
  OBVIOUS
<1> HIDE DEF Lib!LtoaExact, Lib!Longs, Lib!LONG_MIN
<1> QED BY <1>1, <1>2, <1>3, <1>4 DEF LtoaInv

\* The recursion of Value, and the only function that satisfies it.
Valued(f, D) == f = [n \in 0..Len(D) |-> IF n = 0 THEN 0 ELSE 10 * f[n - 1] + (D[n] - 48)]

LEMMA ValuedNext ==
  ASSUME NEW D, NEW m \in Nat, Len(D) = m, NEW f, Valued(f, D), NEW n \in 0..(m - 1)
  PROVE  f[n + 1] = 10 * f[n] + (D[n + 1] - 48)
<1>1. n + 1 \in 0..m /\ n + 1 # 0 /\ (n + 1) - 1 = n
  OBVIOUS
<1>2. \A j \in 0..m : f[j] = IF j = 0 THEN 0 ELSE 10 * f[j - 1] + (D[j] - 48)
  BY Zenon DEF Valued
<1>3. f[n + 1] = 10 * f[(n + 1) - 1] + (D[n + 1] - 48)
  BY <1>1, <1>2
<1> QED BY <1>1, <1>3

LEMMA ValuedUnique ==
  ASSUME NEW D, NEW m \in Nat, Len(D) = m, NEW f, NEW g, Valued(f, D), Valued(g, D)
  PROVE  f[m] = g[m]
<1> DEFINE P == {n \in Nat : n <= m => f[n] = g[n]}
<1>1. 0 \in P
  BY DEF Valued
<1>2. ASSUME NEW n \in P, n + 1 <= m PROVE f[n + 1] = g[n + 1]
  <2>1. f[n] = g[n] /\ n \in 0..(m - 1)
    BY <1>2
  <2>2. f[n + 1] = 10 * f[n] + (D[n + 1] - 48) /\ g[n + 1] = 10 * g[n] + (D[n + 1] - 48)
    BY <2>1, ValuedNext
  <2> QED BY <2>1, <2>2
<1>3. P = Nat
  <2>1. \A n \in P : n + 1 \in P
    BY <1>2
  <2> HIDE DEF P
  <2>2. P \subseteq Nat
    BY DEF P
  <2> QED BY <1>1, <2>1, <2>2, NatInduct
<1> QED BY <1>3

\* Any solution of the recursion gives the value.
LEMMA ValueIs ==
  ASSUME NEW D, NEW m \in Nat, Len(D) = m, NEW g, Valued(g, D)
  PROVE  Lib!Value(D) = g[m]
<1> DEFINE f == CHOOSE f : Valued(f, D)
<1>1. Valued(f, D)
  OBVIOUS
<1>2. Lib!Value(D) = f[Len(D)]
  BY DEF Lib!Value, Valued, Lib!zero
<1> HIDE DEF f
<1>3. f[m] = g[m]
  BY <1>1, ValuedUnique
<1> QED BY <1>2, <1>3

\* The digits turned round, with the sign in front and without.
LEMMA SignedText ==
  ASSUME NEW t \in Seq(Int), NEW R, R = Lib!Reverse(Append(t, 45))
  PROVE  /\ R \in Seq(Int) /\ Tail(R) \in Seq(Int) /\ Len(Tail(R)) = Len(t) /\ R[1] = 45
         /\ \A n \in 1..Len(t) : Tail(R)[n] = t[(Len(t) - n) + 1]
<1> DEFINE L == Len(t)
           a == Append(t, 45)
           D == Tail(R)
<1>1. L \in Nat /\ \A n \in 1..L : t[n] \in Int
  OBVIOUS
<1>2. a \in Seq(Int) /\ Len(a) = L + 1 /\ a[L + 1] = 45 /\ \A n \in 1..L : a[n] = t[n]
  BY <1>1, AppendProperties
<1> HIDE DEF a, L
<1>3. R = [n \in 1..(L + 1) |-> a[((L + 1) - n) + 1]]
  BY <1>2 DEF Lib!Reverse, a
<1>4. \A n \in 1..(L + 1) : ((L + 1) - n) + 1 \in 1..(L + 1) /\ a[((L + 1) - n) + 1] \in Int
  BY <1>1, <1>2
<1>5. R \in Seq(Int) /\ Len(R) = L + 1
  BY <1>1, <1>3, <1>4, SeqDef, LenProperties
<1>6. R[1] = a[L + 1] /\ R # <<>>
  BY <1>1, <1>3, <1>5
<1>7. D \in Seq(Int) /\ Len(D) = L /\ \A n \in 1..L : D[n] = R[n + 1]
  BY <1>1, <1>5, <1>6, HeadTailProperties
<1> HIDE DEF D
<1>8. ASSUME NEW n \in 1..L PROVE D[n] = t[(L - n) + 1]
  <2>1. n + 1 \in 1..(L + 1) /\ ((L + 1) - (n + 1)) + 1 = (L - n) + 1 /\ (L - n) + 1 \in 1..L
    BY <1>1
  <2>2. R[n + 1] = a[((L + 1) - (n + 1)) + 1]
    BY <1>3, <2>1
  <2>3. a[(L - n) + 1] = t[(L - n) + 1]
    BY <1>2, <2>1
  <2>4. D[n] = R[n + 1]
    BY <1>7
  <2> QED BY <2>1, <2>2, <2>3, <2>4, Zenon
<1> QED BY <1>2, <1>5, <1>6, <1>7, <1>8 DEF L, D

LEMMA PlainText ==
  ASSUME NEW t \in Seq(Int), NEW R, R = Lib!Reverse(t)
  PROVE  R \in Seq(Int) /\ Len(R) = Len(t) /\ \A n \in 1..Len(t) : R[n] = t[(Len(t) - n) + 1]
<1> DEFINE L == Len(t)
<1>1. L \in Nat /\ \A n \in 1..L : t[n] \in Int
  OBVIOUS
<1>2. R = [n \in 1..L |-> t[(L - n) + 1]]
  BY DEF Lib!Reverse
<1> HIDE DEF L
<1>3. \A n \in 1..L : (L - n) + 1 \in 1..L /\ t[(L - n) + 1] \in Int
  BY <1>1
<1>4. R \in Seq(Int) /\ Len(R) = L
  BY <1>1, <1>2, <1>3, SeqDef, LenProperties
<1> QED BY <1>2, <1>4 DEF L

\* Read from the last digit to the first, the quotients are the value so far.
LEMMA DigitsValue ==
  ASSUME NEW t \in Seq(Int), NEW m \in Nat, NEW Q, Quotients(Q, m, t), Q[Len(t)] = 0, t # <<>>,
         NEW D \in Seq(Int), Len(D) = Len(t), \A n \in 1..Len(t) : D[n] = t[(Len(t) - n) + 1]
  PROVE  Lib!Value(D) = m /\ D \in Seq(48..57) /\ (D[1] = 48 => m = 0)
<1> DEFINE L == Len(t)
<1>1. L \in Nat /\ L > 0 /\ Len(D) = L
  BY EmptySeq
<1>2. /\ Q \in [0..L -> Nat] /\ Q[0] = m /\ Q[L] = 0
      /\ \A n \in 1..L : t[n] \in 48..57 /\ Q[n - 1] = 10 * Q[n] + (t[n] - 48) /\ (n < L => Q[n] > 0)
  BY DEF Quotients
<1>3. \A n \in 1..L : D[n] = t[(L - n) + 1]
  OBVIOUS
<1> HIDE DEF L
<1> DEFINE g == [n \in 0..L |-> Q[L - n]]
<1>4. ASSUME NEW n \in 0..L PROVE g[n] = IF n = 0 THEN 0 ELSE 10 * g[n - 1] + (D[n] - 48)
  <2>1. CASE n = 0
    BY <1>1, <1>2, <2>1
  <2>2. CASE n # 0
    <3>1. n - 1 \in 0..L /\ (L - n) + 1 \in 1..L /\ ((L - n) + 1) - 1 = L - n /\ L - (n - 1) = (L - n) + 1 /\ n \in 1..L
      BY <1>1, <2>2
    <3>2. Q[((L - n) + 1) - 1] = 10 * Q[(L - n) + 1] + (t[(L - n) + 1] - 48)
      BY <1>2, <3>1
    <3>3. g[n] = Q[L - n] /\ g[n - 1] = Q[(L - n) + 1]
      BY <3>1
    <3> HIDE DEF g
    <3> QED BY <1>3, <2>2, <3>1, <3>2, <3>3, Zenon
  <2> QED BY <2>1, <2>2
<1>5. g = [n \in 0..L |-> IF n = 0 THEN 0 ELSE 10 * g[n - 1] + (D[n] - 48)]
  <2>1. g = [n \in 0..L |-> g[n]]
    OBVIOUS
  <2> HIDE DEF g
  <2>2. [n \in 0..L |-> g[n]] = [n \in 0..L |-> IF n = 0 THEN 0 ELSE 10 * g[n - 1] + (D[n] - 48)]
    BY <1>4, ZenonT(40)
  <2> QED BY <2>1, <2>2, Zenon
<1>6. g[L] = m
  BY <1>1, <1>2
<1> HIDE DEF g
<1>7. Valued(g, D)
  BY <1>1, <1>5, Zenon DEF Valued
<1>8. Lib!Value(D) = m
  BY <1>1, <1>6, <1>7, ValueIs
<1>9. D \in Seq(48..57)
  <2>1. \A n \in 1..L : D[n] \in 48..57
    <3>1. \A n \in 1..L : (L - n) + 1 \in 1..L
      BY <1>1
    <3> QED BY <1>2, <1>3, <3>1
  <2>2. D \in [1..L -> 48..57]
    <3>1. D = [n \in 1..L |-> D[n]]
      BY <1>1, LenProperties, SeqDef
    <3> QED BY <2>1, <3>1
  <2> QED BY <1>1, <2>2, SeqDef
<1>10. ASSUME D[1] = 48 PROVE m = 0
  <2>1. 1 \in 1..L /\ (L - 1) + 1 = L /\ L \in 1..L
    BY <1>1
  <2>2. t[L] = 48
    BY <1>3, <1>10, <2>1, SMTT(40)
  <2>3. Q[L - 1] = 10 * Q[L] + (t[L] - 48)
    BY <1>2, <2>1
  <2>4. Q[L - 1] = 0
    BY <1>2, <2>2, <2>3
  <2>5. L - 1 = 0
    <3>1. ASSUME L - 1 # 0 PROVE FALSE
      <4>1. L - 1 \in 1..L /\ L - 1 < L
        BY <1>1, <3>1
      <4> QED BY <1>2, <2>4, <4>1
    <3> QED BY <3>1
  <2> QED BY <1>2, <2>4, <2>5
<1> QED BY <1>8, <1>9, <1>10

LEMMA LtoaStep ==
  ASSUME LtoaInv, [Lib!LtoaSteps]_ltoaVars
  PROVE  LtoaInv'
<1>0. LONG_MAX \in Nat /\ Lib!LONG_MIN = -LONG_MAX - 1 /\ Lib!LONG_MIN \in Int /\ number \in Int
      /\ Lib!LONG_MIN <= number /\ number <= LONG_MAX
  BY AloneAssumption DEF Lib!LONG_MIN, Lib!Longs, LtoaInv
<1>1. CASE UNCHANGED ltoaVars
  BY <1>1, ZenonT(40) DEF ltoaVars, LtoaInv, Magnitude, Quotients, Lib!LtoaExact
<1>2. CASE Lib!LtoaCall
  <2>1. /\ lat = "call" /\ neg' = (ltoa_v < 0) /\ ltoa_v' = (IF ltoa_v < 0 THEN Lib!negated(ltoa_v) ELSE ltoa_v)
        /\ lat' = "digits" /\ number' = number /\ ltoa_s' = ltoa_s /\ ltoa_v = number /\ ltoa_s = <<>>
    BY <1>2 DEF Lib!LtoaCall, LtoaInv
  <2>2. neg' \in BOOLEAN /\ neg' = (number' < 0) /\ number' \in Lib!Longs
    BY <2>1 DEF LtoaInv
  <2>3. CASE number = Lib!LONG_MIN
    <3>1. ltoa_v' = number
      BY <1>0, <2>1, <2>3 DEF Lib!negated
    <3>2. Lib!LtoaExact'
      BY <2>1 DEF Lib!LtoaExact
    <3> HIDE DEF Lib!LtoaExact, Lib!LONG_MIN
    <3> QED BY <1>0, <2>1, <2>2, <2>3, <3>1, <3>2 DEF LtoaInv
  <2>4. CASE number # Lib!LONG_MIN
    <3>1. ltoa_v' = Magnitude /\ Magnitude \in Nat
      BY <1>0, <2>1, <2>4 DEF Lib!negated, Magnitude
    <3>2. Lib!LtoaExact'
      BY <2>1 DEF Lib!LtoaExact
    <3> DEFINE f == [n \in 0..0 |-> Magnitude]
    <3>3. Quotients(f, Magnitude, <<>>) /\ f[Len(<<>>)] = Magnitude
      BY <3>1 DEF Quotients
    <3> HIDE DEF f
    <3>4. \E Q : Quotients(Q, Magnitude, ltoa_s') /\ Q[Len(ltoa_s')] = ltoa_v' /\ (ltoa_s' # <<>> => ltoa_v' > 0)
      BY <2>1, <3>1, <3>3
    <3>5. Magnitude' = Magnitude
      BY <2>1 DEF Magnitude
    <3> HIDE DEF Lib!LtoaExact, Lib!LONG_MIN, Magnitude, Quotients
    <3> QED BY <1>0, <2>1, <2>2, <2>4, <3>1, <3>2, <3>4, <3>5 DEF LtoaInv
  <2> QED BY <2>3, <2>4
<1>3. CASE Lib!Digit
  <2>1. /\ lat = "digits" /\ ltoa_s' = Append(ltoa_s, 48 + Lib!remainder(ltoa_v)) /\ ltoa_v' = Lib!quotient(ltoa_v)
        /\ lat' = (IF Lib!quotient(ltoa_v) > 0 THEN "digits" ELSE "sign") /\ number' = number /\ neg' = neg
    BY <1>3 DEF Lib!Digit, Lib!zero, Lib!more
  <2>2. neg' \in BOOLEAN /\ neg' = (number' < 0) /\ number' \in Lib!Longs /\ ltoa_v \in Int /\ ltoa_s \in Seq(Int)
    BY <2>1 DEF LtoaInv
  <2>3. Lib!quotient(ltoa_v) \in Int /\ Lib!remainder(ltoa_v) \in Int /\ ltoa_v' \in Int /\ ltoa_s' \in Seq(Int)
    <3>1. Lib!quotient(ltoa_v) \in Int
      BY <2>2 DEF Lib!quotient
    <3>2. Lib!remainder(ltoa_v) \in Int
      BY <2>2, <3>1 DEF Lib!remainder
    <3> QED BY <2>1, <2>2, <3>1, <3>2
  <2>4. Lib!LtoaExact'
    BY <2>1 DEF Lib!LtoaExact
  <2>5. CASE number = Lib!LONG_MIN
    <3>1. ltoa_v = -(LONG_MAX + 1) /\ ltoa_s = <<>>
      BY <1>0, <2>1, <2>5 DEF LtoaInv
    <3>2. Lib!quotient(ltoa_v) = -((LONG_MAX + 1) \div 10)
      BY <1>0, <3>1 DEF Lib!quotient
    <3>3. Lib!quotient(ltoa_v) <= 0 /\ Lib!remainder(ltoa_v) < 0
      BY <1>0, <3>1, <3>2, AloneAssumption DEF Lib!remainder
    <3>4. lat' = "sign" /\ Len(ltoa_s') = 1 /\ ltoa_s'[1] < 48
      BY <2>1, <2>3, <3>1, <3>3
    <3> HIDE DEF Lib!LtoaExact, Lib!LONG_MIN
    <3> QED BY <2>1, <2>2, <2>3, <2>4, <2>5, <3>4 DEF LtoaInv
  <2>6. CASE number # Lib!LONG_MIN
    <3>1. PICK Q : Quotients(Q, Magnitude, ltoa_s) /\ Q[Len(ltoa_s)] = ltoa_v /\ (ltoa_s # <<>> => ltoa_v > 0)
      BY <2>1, <2>6 DEF LtoaInv
    <3> DEFINE L == Len(ltoa_s)
               q == Lib!quotient(ltoa_v)
               c == 48 + Lib!remainder(ltoa_v)
               f == [n \in 0..(L + 1) |-> IF n <= L THEN Q[n] ELSE q]
    <3>2. L \in Nat /\ Q \in [0..L -> Nat] /\ Q[0] = Magnitude /\ Q[L] = ltoa_v /\ ltoa_v \in Nat
          /\ \A n \in 1..L : /\ ltoa_s[n] \in 48..57 /\ Q[n - 1] = 10 * Q[n] + (ltoa_s[n] - 48)
                             /\ n < L => Q[n] > 0
      BY <2>2, <3>1 DEF Quotients
    <3>3. q \in Nat /\ c \in 48..57 /\ ltoa_v = 10 * q + (c - 48)
      BY <3>2 DEF Lib!quotient, Lib!remainder
    <3>4. Len(ltoa_s') = L + 1 /\ ltoa_s'[L + 1] = c /\ \A n \in 1..L : ltoa_s'[n] = ltoa_s[n]
      BY <2>1, <2>2, <2>3, AppendProperties
    <3>5. L > 0 => Q[L] > 0
      BY <2>2, <3>1, <3>2, EmptySeq
    <3>6. ltoa_v' = q /\ ltoa_s' # <<>>
      BY <2>1, <2>2, <2>3
    <3>7. q > 0 => lat' = "digits"
      BY <2>1
    <3>8. ~(q > 0) => lat' = "sign" /\ q = 0
      BY <2>1, <3>3
    <3> HIDE DEF L, q, c
    <3>9. f \in [0..(L + 1) -> Nat] /\ f[0] = Magnitude /\ f[L + 1] = q /\ \A n \in 0..L : f[n] = Q[n]
      BY <3>2, <3>3
    <3> HIDE DEF f
    <3>10. ASSUME NEW n \in 1..(L + 1)
           PROVE  /\ ltoa_s'[n] \in 48..57 /\ f[n - 1] = 10 * f[n] + (ltoa_s'[n] - 48)
                  /\ n < L + 1 => f[n] > 0
      <4>1. CASE n \in 1..L
        <5>1. f[n - 1] = Q[n - 1] /\ f[n] = Q[n] /\ ltoa_s'[n] = ltoa_s[n]
          BY <3>2, <3>4, <3>9, <4>1
        <5>2. f[n] > 0
          <6>1. n < L \/ n = L
            BY <3>2, <4>1
          <6> QED BY <3>2, <3>5, <4>1, <5>1, <6>1
        <5> QED BY <3>2, <4>1, <5>1, <5>2
      <4>2. CASE n = L + 1
        <5>1. f[n - 1] = Q[L] /\ f[n] = q /\ ltoa_s'[n] = c /\ ~(n < L + 1)
          BY <3>2, <3>4, <3>9, <4>2
        <5> QED BY <3>2, <3>3, <5>1
      <4> QED BY <3>2, <4>1, <4>2
    <3>11. Quotients(f, Magnitude, ltoa_s') /\ f[Len(ltoa_s')] = q
      BY <3>4, <3>9, <3>10, Zenon DEF Quotients
    <3>12. Magnitude' = Magnitude
      BY <2>1 DEF Magnitude
    <3> HIDE DEF Lib!LtoaExact, Lib!LONG_MIN, Magnitude, Quotients
    <3>13. CASE q > 0
      BY <2>1, <2>2, <2>3, <2>4, <2>6, <3>6, <3>7, <3>11, <3>12, <3>13 DEF LtoaInv
    <3>14. CASE ~(q > 0)
      BY <2>1, <2>2, <2>3, <2>4, <2>6, <3>6, <3>8, <3>11, <3>12, <3>14 DEF LtoaInv
    <3> QED BY <3>13, <3>14
  <2> QED BY <2>5, <2>6
<1>4. CASE Lib!Sign
  <2>1. /\ lat = "sign" /\ ltoa_s' = Lib!Reverse(IF neg THEN Append(ltoa_s, 45) ELSE ltoa_s)
        /\ lat' = "done" /\ number' = number /\ neg' = neg /\ ltoa_v' = ltoa_v
    BY <1>4 DEF Lib!Sign, Lib!sio_reverse, Lib!minus
  <2>2. neg \in BOOLEAN /\ neg = (number < 0) /\ number \in Lib!Longs /\ ltoa_v \in Int /\ ltoa_s \in Seq(Int)
    BY <2>1 DEF LtoaInv
  <2> DEFINE D == IF neg THEN Tail(ltoa_s') ELSE ltoa_s'
  <2>3. /\ ltoa_s' \in Seq(Int) /\ D \in Seq(Int) /\ Len(D) = Len(ltoa_s) /\ (neg => ltoa_s'[1] = 45)
        /\ \A n \in 1..Len(ltoa_s) : D[n] = ltoa_s[(Len(ltoa_s) - n) + 1]
    <3>1. ltoa_s' = Lib!Reverse(IF neg THEN Append(ltoa_s, 45) ELSE ltoa_s) /\ neg \in BOOLEAN /\ ltoa_s \in Seq(Int)
      BY <2>1, <2>2, Zenon
    <3>2. D = IF neg THEN Tail(ltoa_s') ELSE ltoa_s'
      OBVIOUS
    <3> HIDE DEF D
    <3>3. CASE neg
      <4>1. D = Tail(ltoa_s') /\ ltoa_s' = Lib!Reverse(Append(ltoa_s, 45))
        BY <3>1, <3>2, <3>3, Zenon
      <4>2. PICK R : R = ltoa_s' /\ R = Lib!Reverse(Append(ltoa_s, 45)) /\ D = Tail(R)
        BY <4>1
      <4>3. /\ R \in Seq(Int) /\ Tail(R) \in Seq(Int) /\ Len(Tail(R)) = Len(ltoa_s) /\ R[1] = 45
            /\ \A n \in 1..Len(ltoa_s) : Tail(R)[n] = ltoa_s[(Len(ltoa_s) - n) + 1]
        BY <3>1, <4>2, SignedText
      <4> QED BY <4>2, <4>3, Zenon
    <3>4. CASE ~neg
      <4>1. D = ltoa_s' /\ ltoa_s' = Lib!Reverse(ltoa_s)
        BY <3>1, <3>2, <3>4, Zenon
      <4> QED BY <3>1, <3>4, <4>1, PlainText
    <3> QED BY <3>3, <3>4, Zenon
  <2> HIDE DEF D
  <2>4. Lib!LtoaExact'
    <3>1. CASE number = Lib!LONG_MIN
      <4>1. Len(ltoa_s) = 1 /\ ltoa_s[1] < 48
        BY <2>1, <3>1 DEF LtoaInv
      <4>2. Len(D) = 1 /\ D[1] < 48
        BY <2>3, <4>1
      <4> QED BY <2>1, <2>2, <2>3, <3>1, <4>2, Zenon DEF Lib!LtoaExact, Lib!zero, Lib!minus, D
    <3>2. CASE number # Lib!LONG_MIN
      <4>1. PICK Q : Quotients(Q, Magnitude, ltoa_s) /\ Q[Len(ltoa_s)] = 0 /\ ltoa_s # <<>>
        BY <2>1, <3>2 DEF LtoaInv
      <4>2. Magnitude \in Nat
        BY <1>0 DEF Magnitude
      <4>3. Lib!Value(D) = Magnitude /\ D \in Seq(48..57) /\ (D[1] = 48 => Magnitude = 0)
        BY <2>2, <2>3, <4>1, <4>2, DigitsValue
      <4>4. Magnitude = (IF neg THEN -number ELSE number) /\ (Magnitude = 0 => number = 0)
        <5>1. CASE neg
          <6>1. number < 0
            BY <2>2, <5>1, Zenon
          <6> QED BY <1>0, <5>1, <6>1 DEF Magnitude
        <5>2. CASE ~neg
          <6>1. ~(number < 0)
            BY <2>2, <5>2, Zenon
          <6> QED BY <1>0, <5>2, <6>1 DEF Magnitude
        <5> QED BY <5>1, <5>2
      <4>5. Lib!zero = 48 /\ Lib!zero + 9 = 57 /\ Lib!minus = 45
        BY DEF Lib!zero, Lib!minus
      <4> HIDE DEF Lib!LONG_MIN, Magnitude, Lib!Value
      <4> QED BY <2>1, <2>2, <2>3, <3>2, <4>3, <4>4, <4>5, Zenon DEF Lib!LtoaExact, D
    <3> QED BY <3>1, <3>2
  <2> HIDE DEF Lib!LtoaExact, Lib!LONG_MIN
  <2> QED BY <2>1, <2>2, <2>3, <2>4 DEF LtoaInv
<1> QED BY <1>1, <1>2, <1>3, <1>4 DEF Lib!LtoaSteps
-----------------------------------------------------------------------------
(* The duplicate finder, for any words, hashes and length of the input. *)

DedupTypes ==
  /\ use_hash \in BOOLEAN /\ g_words \in Seq(Dict) /\ hash \in [Dict -> Nat] /\ cap \in Nat \ {0}
  /\ uniq \in Seq(Dict) /\ dedup_i \in 0..Len(g_words) /\ dedup_at \in {"size", "run", "done"}

\* What is collected, and in which order.
WordsInv ==
  /\ Lib!ToSet(uniq) = {g_words[j] : j \in 1..dedup_i}
  /\ \A a, b \in 1..Len(uniq) : a < b => Lib!Before(uniq[a], uniq[b])

TableSlots == 0..(cap - 1)
Home(w) == hash[w] % cap
\* A probe for w goes on from this slot.
Other(x, w) == tab[x] # -1 /\ uniq[tab[x] + 1] # w

\* The sets of slots a probe for w cannot leave.
Closed(S, w) == Home(w) \in S /\ \A x \in S : Other(x, w) => Lib!next_slot(x) \in S
\* Every probe for w comes to slot y.
Certain(y, w) == \A S \in SUBSET TableSlots : Closed(S, w) => y \in S
\* V is what a probe for w that is at y has seen.
Visited(V, y, w) ==
  /\ V \subseteq TableSlots /\ Home(w) \in V /\ y \in V
  /\ \A x \in V : x # y => Other(x, w) /\ Lib!next_slot(x) \in V

TableInv ==
  /\ tab \in [TableSlots -> -1..(Len(uniq) - 1)]
  /\ \A x, y \in TableSlots : tab[x] = tab[y] /\ tab[x] # -1 => x = y
  /\ \A j \in 1..Len(uniq) : \E y \in TableSlots : tab[y] = j - 1 /\ Certain(y, uniq[j])

ProbeInv ==
  /\ dedup_i < Len(g_words) /\ dedup_k \in TableSlots /\ Certain(dedup_k, g_words[dedup_i + 1])
  /\ \E V : Visited(V, dedup_k, g_words[dedup_i + 1])

DedupInv ==
  /\ DedupTypes /\ WordsInv
  /\ ~use_hash => dedup_k = -1 /\ dedup_at # "size"
  /\ dedup_at = "size" => uniq = <<>> /\ dedup_i = 0 /\ dedup_k = -1
  /\ use_hash /\ dedup_at # "size" => TableInv
  /\ dedup_k # -1 => ProbeInv

LEMMA DedupInitial == Lib!DedupInit => DedupInv
<1> SUFFICES ASSUME Lib!DedupInit PROVE DedupInv
  OBVIOUS
<1>1. g_words \in Seq(Dict) /\ Len(g_words) \in Nat
  <2>1. PICK n \in 0..MaxCount : g_words \in [1..n -> Dict]
    BY DEF Lib!DedupInit
  <2>2. n \in Nat
    BY AloneAssumption
  <2> QED BY <2>1, <2>2, SeqDef, LenProperties
<1>2. hash \in [Dict -> Nat]
  BY AloneAssumption DEF Lib!DedupInit
<1>3. /\ use_hash \in BOOLEAN /\ cap = 1 /\ uniq = <<>> /\ dedup_i = 0 /\ dedup_k = -1
      /\ dedup_at = (IF use_hash THEN "size" ELSE "run")
  BY DEF Lib!DedupInit
<1>4. DedupTypes
  BY <1>1, <1>2, <1>3 DEF DedupTypes
<1>5. WordsInv
  BY <1>3 DEF WordsInv, Lib!ToSet
<1>6. dedup_k = -1 /\ (use_hash => dedup_at = "size") /\ (~use_hash => dedup_at # "size")
  BY <1>3
<1> QED BY <1>3, <1>4, <1>5, <1>6, Zenon DEF DedupInv

\* One word more is read: a word that is collected already, and a new one.
LEMMA WordKnown ==
  ASSUME DedupTypes, WordsInv, dedup_i < Len(g_words), dedup_i' = dedup_i + 1, g_words' = g_words, uniq' = uniq,
         g_words[dedup_i + 1] \in Lib!ToSet(uniq)
  PROVE  WordsInv' /\ dedup_i' \in 0..Len(g_words')
<1>1. dedup_i \in Nat /\ Len(g_words) \in Nat
  BY DEF DedupTypes
<1>2. Lib!ToSet(uniq)' = {g_words[j] : j \in 1..(dedup_i + 1)}
  <2>1. \A j \in 1..(dedup_i + 1) : j \in 1..dedup_i \/ j = dedup_i + 1
    BY <1>1
  <2>2. Lib!ToSet(uniq)' = Lib!ToSet(uniq)
    BY DEF Lib!ToSet
  <2>3. \A j \in 1..dedup_i : j \in 1..(dedup_i + 1)
    BY <1>1
  <2>4. Lib!ToSet(uniq) = {g_words[j] : j \in 1..dedup_i}
    BY DEF WordsInv
  <2> HIDE DEF Lib!ToSet
  <2> QED BY <2>1, <2>2, <2>3, <2>4
<1>3. ASSUME NEW a \in 1..Len(uniq), NEW b \in 1..Len(uniq), a < b PROVE Lib!Before(uniq[a], uniq[b])'
  <2>1. Lib!Before(uniq[a], uniq[b])
    BY <1>3 DEF WordsInv
  <2>2. PICK j \in 1..dedup_i : g_words[j] = uniq[a] /\ \A h \in 1..j : g_words[h] # uniq[b]
    BY <2>1 DEF Lib!Before
  <2>3. j \in 1..(dedup_i + 1)
    BY <1>1
  <2> QED BY <2>2, <2>3, Zenon DEF Lib!Before
<1>4. dedup_i' \in 0..Len(g_words')
  BY <1>1
<1> QED BY <1>2, <1>3, <1>4 DEF WordsInv

LEMMA WordNew ==
  ASSUME DedupTypes, WordsInv, dedup_i < Len(g_words), dedup_i' = dedup_i + 1, g_words' = g_words,
         uniq' = Append(uniq, g_words[dedup_i + 1]), g_words[dedup_i + 1] \notin Lib!ToSet(uniq)
  PROVE  /\ WordsInv' /\ dedup_i' \in 0..Len(g_words') /\ uniq' \in Seq(Dict) /\ Len(uniq') = Len(uniq) + 1
         /\ \A n \in 1..Len(uniq) : uniq'[n] = uniq[n] /\ uniq[n] # g_words[dedup_i + 1]
         /\ uniq'[Len(uniq) + 1] = g_words[dedup_i + 1] /\ Len(uniq) \in Nat
<1> DEFINE L == Len(uniq)
           w == g_words[dedup_i + 1]
<1>1. dedup_i \in Nat /\ Len(g_words) \in Nat /\ dedup_i + 1 \in 1..Len(g_words) /\ uniq \in Seq(Dict) /\ L \in Nat
  BY DEF DedupTypes
<1>2. w \in Dict
  BY <1>1 DEF DedupTypes
<1>3. uniq' \in Seq(Dict) /\ Len(uniq') = L + 1 /\ uniq'[L + 1] = w /\ \A n \in 1..L : uniq'[n] = uniq[n]
  BY <1>1, <1>2, AppendProperties
<1>4. DOMAIN uniq = 1..L /\ DOMAIN uniq' = 1..(L + 1)
  BY <1>1, <1>3, LenProperties
<1>5. w \notin Lib!ToSet(uniq)
  OBVIOUS
<1> HIDE DEF L, w
<1>6. \A n \in 1..L : uniq[n] # w
  BY <1>4, <1>5 DEF Lib!ToSet
<1>7. Lib!ToSet(uniq)' = Lib!ToSet(uniq) \cup {w}
  BY <1>1, <1>3, <1>4 DEF Lib!ToSet
<1>8. Lib!ToSet(uniq) = {g_words[j] : j \in 1..dedup_i}
  BY DEF WordsInv
<1>9. Lib!ToSet(uniq)' = {g_words[j] : j \in 1..(dedup_i + 1)}
  <2>1. \A j \in 1..(dedup_i + 1) : j \in 1..dedup_i \/ j = dedup_i + 1
    BY <1>1
  <2>2. \A j \in 1..dedup_i : j \in 1..(dedup_i + 1)
    BY <1>1
  <2>3. dedup_i + 1 \in 1..(dedup_i + 1)
    BY <1>1
  <2> HIDE DEF Lib!ToSet
  <2> QED BY <1>7, <1>8, <2>1, <2>2, <2>3 DEF w
<1>10. \A j \in 1..dedup_i : g_words[j] # w
  BY <1>5, <1>8
<1>11. ASSUME NEW a \in 1..(L + 1), NEW b \in 1..(L + 1), a < b
       PROVE  \E j \in 1..(dedup_i + 1) : g_words[j] = uniq'[a] /\ \A h \in 1..j : g_words[h] # uniq'[b]
  <2>1. a \in 1..L /\ uniq'[a] = uniq[a]
    BY <1>1, <1>3, <1>11
  <2>2. CASE b \in 1..L
    <3>1. Lib!Before(uniq[a], uniq[b])
      BY <1>11, <2>1, <2>2 DEF WordsInv, L
    <3>2. PICK j \in 1..dedup_i : g_words[j] = uniq[a] /\ \A h \in 1..j : g_words[h] # uniq[b]
      BY <3>1 DEF Lib!Before
    <3>3. j \in 1..(dedup_i + 1) /\ uniq'[b] = uniq[b]
      BY <1>1, <1>3, <2>2
    <3> QED BY <2>1, <3>2, <3>3
  <2>3. CASE b = L + 1
    <3>1. uniq[a] \in Lib!ToSet(uniq)
      BY <1>4, <2>1 DEF Lib!ToSet
    <3>2. PICK j \in 1..dedup_i : g_words[j] = uniq[a]
      BY <1>8, <3>1
    <3>3. j \in 1..(dedup_i + 1) /\ \A h \in 1..j : h \in 1..dedup_i
      BY <1>1
    <3>4. \A h \in 1..j : g_words[h] # uniq'[b]
      BY <1>3, <1>10, <2>3, <3>3
    <3> QED BY <2>1, <3>2, <3>3, <3>4
  <2>4. b \in 1..L \/ b = L + 1
    BY <1>1
  <2> QED BY <2>2, <2>3, <2>4
<1>12. \A a, b \in 1..(L + 1) : a < b => Lib!Before(uniq[a], uniq[b])'
  BY <1>11, Zenon DEF Lib!Before
<1>13. WordsInv'
  BY <1>3, <1>9, <1>12, Zenon DEF WordsInv
<1>14. dedup_i' \in 0..Len(g_words')
  BY <1>1
<1> QED BY <1>1, <1>3, <1>6, <1>13, <1>14 DEF L, w

LEMMA SlotsInTable ==
  ASSUME DedupTypes
  PROVE  /\ \A w \in Dict : Home(w) \in TableSlots
         /\ \A x \in TableSlots : Lib!next_slot(x) \in TableSlots
         /\ -1 \notin TableSlots
<1>1. cap \in Nat /\ cap > 0 /\ hash \in [Dict -> Nat]
  BY DEF DedupTypes
<1>2. \A n \in Nat : n % cap \in 0..(cap - 1)
  BY <1>1
<1>3. \A x \in 0..(cap - 1) : x + 1 \in Nat
  BY <1>1
<1> QED BY <1>1, <1>2, <1>3 DEF Home, TableSlots, Lib!next_slot

\* A free slot ends the probe for a word that is not in the table: what the
\* probe has seen is closed, and holds no slot of the word.
LEMMA FreeSlotMeansNew ==
  ASSUME DedupTypes, TableInv, ProbeInv, tab[dedup_k] = -1
  PROVE  g_words[dedup_i + 1] \notin Lib!ToSet(uniq)
<1> DEFINE w == g_words[dedup_i + 1]
<1>1. PICK V : Visited(V, dedup_k, w)
  BY DEF ProbeInv
<1> HIDE DEF w
<1> SUFFICES ASSUME w \in Lib!ToSet(uniq) PROVE FALSE
  BY DEF w
<1>2. PICK j \in 1..Len(uniq) : uniq[j] = w
  BY LenProperties DEF Lib!ToSet, DedupTypes
<1>3. PICK y \in TableSlots : tab[y] = j - 1 /\ Certain(y, w)
  BY <1>2 DEF TableInv
<1>4. Closed(V, w)
  <2>1. ASSUME NEW x \in V, Other(x, w) PROVE Lib!next_slot(x) \in V
    <3>1. x # dedup_k
      BY <2>1 DEF Other
    <3> QED BY <1>1, <3>1 DEF Visited
  <2> QED BY <1>1, <2>1 DEF Closed, Visited
<1>5. y \in V
  BY <1>1, <1>3, <1>4 DEF Certain, Visited
<1>6. Len(uniq) \in Nat /\ j - 1 # -1 /\ (j - 1) + 1 = j
  BY <1>2, LenProperties DEF DedupTypes
<1>7. y # dedup_k
  BY <1>3, <1>6
<1>8. uniq[tab[y] + 1] # w
  BY <1>1, <1>5, <1>7 DEF Visited, Other
<1> QED BY <1>2, <1>3, <1>6, <1>8

\* A probe that found its way before the insertion finds it afterwards.
LEMMA InsertKeeps ==
  ASSUME DedupTypes, TableInv, WordsInv, dedup_i < Len(g_words), dedup_k \in TableSlots, tab[dedup_k] = -1,
         Certain(dedup_k, g_words[dedup_i + 1]), g_words[dedup_i + 1] \notin Lib!ToSet(uniq),
         tab' = [tab EXCEPT ![dedup_k] = Len(uniq)], uniq' = Append(uniq, g_words[dedup_i + 1]),
         dedup_i' = dedup_i + 1, UNCHANGED <<g_words, hash, cap>>
  PROVE  TableInv'
<1> DEFINE L == Len(uniq)
<1>0. PICK w, z : w = g_words[dedup_i + 1] /\ z = dedup_k
  OBVIOUS
<1>1. /\ uniq' \in Seq(Dict) /\ Len(uniq') = L + 1 /\ L \in Nat /\ uniq'[L + 1] = w
      /\ \A n \in 1..L : uniq'[n] = uniq[n] /\ uniq[n] # w
  BY <1>0, WordNew
<1>2. TableSlots' = TableSlots /\ tab \in [TableSlots -> -1..(L - 1)]
  BY DEF TableSlots, TableInv
<1>3. Certain(z, w) /\ tab' = [tab EXCEPT ![z] = L] /\ z \in TableSlots /\ tab[z] = -1
  BY <1>0
<1> HIDE DEF L
<1>4. tab'[z] = L /\ \A x \in TableSlots : x # z => tab'[x] = tab[x]
  BY <1>2, <1>3
<1>5. tab' \in [TableSlots' -> -1..(Len(uniq') - 1)]
  <2>1. L \in -1..L /\ -1..(L - 1) \subseteq -1..L /\ (L + 1) - 1 = L
    BY <1>1
  <2>2. tab' \in [TableSlots -> -1..L]
    BY <1>2, <1>3, <2>1
  <2> QED BY <1>1, <1>2, <2>1, <2>2
<1>6. ASSUME NEW x \in TableSlots, NEW y \in TableSlots, tab'[x] = tab'[y], tab'[x] # -1 PROVE x = y
  <2>1. \A y1 \in TableSlots : tab[y1] # L
    BY <1>1, <1>2
  <2>2. CASE x = z \/ y = z
    BY <1>4, <1>6, <2>1, <2>2
  <2>3. CASE x # z /\ y # z
    BY <1>4, <1>6, <2>3 DEF TableInv
  <2> QED BY <2>2, <2>3
<1>7. ASSUME NEW S \in SUBSET TableSlots, NEW u, Closed(S, u)' PROVE Closed(S, u)
  <2>1. Home(u) \in S
    BY <1>7 DEF Closed, Home
  <2>2. ASSUME NEW x \in S, Other(x, u) PROVE Lib!next_slot(x) \in S
    <3>1. x # z /\ tab'[x] = tab[x]
      BY <1>3, <1>4, <2>2 DEF Other
    <3>2. tab[x] + 1 \in 1..L
      BY <1>1, <1>2, <2>2 DEF Other
    <3>3. Other(x, u)'
      BY <1>1, <2>2, <3>1, <3>2 DEF Other
    <3>4. Lib!next_slot(x)' \in S
      BY <1>7, <3>3 DEF Closed
    <3> QED BY <3>4 DEF Lib!next_slot
  <2> QED BY <2>1, <2>2 DEF Closed
<1>8. ASSUME NEW y \in TableSlots, NEW u, Certain(y, u) PROVE Certain(y, u)'
  BY <1>2, <1>7, <1>8 DEF Certain
<1>9. ASSUME NEW j \in 1..(L + 1) PROVE \E y \in TableSlots : tab'[y] = j - 1 /\ Certain(y, uniq[j])'
  <2>1. CASE j \in 1..L
    <3>1. PICK y \in TableSlots : tab[y] = j - 1 /\ Certain(y, uniq[j])
      BY <2>1 DEF TableInv, L
    <3>2. y # z
      BY <1>1, <1>3, <2>1, <3>1
    <3>3. tab'[y] = j - 1 /\ uniq'[j] = uniq[j]
      BY <1>1, <1>4, <2>1, <3>1, <3>2
    <3>4. \A S \in SUBSET TableSlots : Closed(S, uniq[j])' => y \in S
      <4>1. ASSUME NEW S \in SUBSET TableSlots, Closed(S, uniq[j])' PROVE y \in S
        <5>1. Closed(S, uniq[j])
          <6>1. PICK u : u = uniq[j] /\ u = uniq'[j]
            BY <3>3
          <6>2. Closed(S, u)'
            BY <4>1, <6>1 DEF Closed, Home, Other
          <6>3. Closed(S, u)
            BY <1>7, <6>2
          <6> QED BY <6>1, <6>3
        <5> QED BY <3>1, <5>1 DEF Certain
      <4> QED BY <4>1
    <3> QED BY <1>2, <3>3, <3>4, Zenon DEF Certain
  <2>2. CASE j = L + 1
    <3>1. tab'[z] = j - 1 /\ uniq'[j] = w
      BY <1>1, <1>4, <2>2
    <3>2. Certain(z, uniq[j])'
      <4>1. ASSUME NEW S \in SUBSET TableSlots, Closed(S, uniq[j])' PROVE z \in S
        <5>1. Closed(S, w)'
          BY <3>1, <4>1 DEF Closed, Home, Other
        <5>2. Closed(S, w)
          BY <1>7, <5>1
        <5> QED BY <1>3, <5>2 DEF Certain
      <4> QED BY <1>2, <4>1, Zenon DEF Certain
    <3> QED BY <1>3, <3>1, <3>2
  <2>3. j \in 1..L \/ j = L + 1
    BY <1>1
  <2> QED BY <2>1, <2>2, <2>3
<1>10. \A x, y \in TableSlots' : tab'[x] = tab'[y] /\ tab'[x] # -1 => x = y
  BY <1>2, <1>6
<1> QED BY <1>1, <1>2, <1>5, <1>9, <1>10, Zenon DEF TableInv

\* What only depends on variables that stay as they are.
LEMMA WordsKept ==
  ASSUME WordsInv, UNCHANGED <<g_words, uniq, dedup_i>>
  PROVE  WordsInv'
<1>1. Lib!ToSet(uniq)' = Lib!ToSet(uniq)
  BY DEF Lib!ToSet
<1>2. {g_words[j] : j \in 1..dedup_i}' = {g_words[j] : j \in 1..dedup_i}
  OBVIOUS
<1>3. ASSUME NEW a \in 1..Len(uniq), NEW b \in 1..Len(uniq), Lib!Before(uniq[a], uniq[b])
      PROVE  Lib!Before(uniq[a], uniq[b])'
  BY <1>3, Zenon DEF Lib!Before
<1> QED BY <1>1, <1>2, <1>3 DEF WordsInv

LEMMA TypesKept ==
  ASSUME DedupTypes, UNCHANGED <<use_hash, g_words, hash, cap, uniq, dedup_i>>, dedup_at' \in {"run", dedup_at, "done"}
  PROVE  DedupTypes'
  BY DEF DedupTypes

LEMMA TableKept ==
  ASSUME TableInv, UNCHANGED <<hash, cap, tab, uniq>>
  PROVE  TableInv'
  BY DEF TableInv, TableSlots, Certain, Closed, Home, Other, Lib!next_slot

LEMMA ProbeKept ==
  ASSUME ProbeInv, UNCHANGED <<g_words, hash, cap, tab, uniq, dedup_i, dedup_k>>
  PROVE  ProbeInv'
  BY DEF ProbeInv, TableSlots, Certain, Closed, Home, Other, Visited, Lib!next_slot

LEMMA DedupStep ==
  ASSUME DedupInv, [Lib!DedupSteps]_dedupVars
  PROVE  DedupInv'
<1>1. CASE UNCHANGED dedupVars
  <2>1. UNCHANGED <<use_hash, g_words, hash, cap, tab, uniq, dedup_i, dedup_k, dedup_at>>
    BY <1>1 DEF dedupVars
  <2> QED BY <2>1, WordsKept, TypesKept, TableKept, ProbeKept DEF DedupInv
<1>2. CASE Lib!Double
  <2>1. dedup_at = "size" /\ cap' = 2 * cap /\ UNCHANGED <<use_hash, g_words, hash, tab, uniq, dedup_i, dedup_k, dedup_at>>
    BY <1>2 DEF Lib!Double
  <2>2. dedup_k' = -1 /\ dedup_at' = "size"
    BY <2>1 DEF DedupInv
  <2>3. DedupTypes'
    BY <2>1 DEF DedupInv, DedupTypes
  <2>4. WordsInv'
    BY <2>1, WordsKept DEF DedupInv
  <2> QED BY <2>1, <2>2, <2>3, <2>4 DEF DedupInv
<1>3. CASE Lib!MakeTable
  <2>1. /\ dedup_at = "size" /\ tab' = [slot \in 0..(cap - 1) |-> -1] /\ dedup_at' = "run"
        /\ UNCHANGED <<use_hash, g_words, hash, cap, uniq, dedup_i, dedup_k>>
    BY <1>3 DEF Lib!MakeTable
  <2>2. uniq' = <<>> /\ dedup_k' = -1 /\ (~use_hash => FALSE)
    BY <2>1 DEF DedupInv
  <2>3. DedupTypes'
    BY <2>1 DEF DedupInv, DedupTypes
  <2>4. WordsInv'
    BY <2>1, WordsKept DEF DedupInv
  <2>5. TableInv'
    <3>1. Len(uniq') = 0
      BY <2>2
    <3>2. tab' \in [TableSlots' -> -1..(0 - 1)] /\ \A x \in TableSlots' : tab'[x] = -1
      BY <2>1 DEF TableSlots
    <3>3. 1..0 = {}
      OBVIOUS
    <3> QED BY <3>1, <3>2, <3>3 DEF TableInv
  <2> QED BY <2>1, <2>2, <2>3, <2>4, <2>5 DEF DedupInv
<1>4. CASE Lib!Scan
  <2>1. /\ dedup_at = "run" /\ ~use_hash /\ dedup_i < Len(g_words) /\ dedup_i' = dedup_i + 1
        /\ uniq' = (IF Lib!Contains(uniq, g_words[dedup_i + 1]) THEN uniq ELSE Append(uniq, g_words[dedup_i + 1]))
        /\ UNCHANGED <<use_hash, g_words, hash, cap, tab, dedup_k, dedup_at>>
    BY <1>4 DEF Lib!Scan
  <2>2. DedupTypes /\ WordsInv /\ dedup_k = -1
    BY <2>1 DEF DedupInv
  <2>3. Lib!Contains(uniq, g_words[dedup_i + 1]) <=> g_words[dedup_i + 1] \in Lib!ToSet(uniq)
    BY <2>2, LenProperties DEF DedupTypes, Lib!Contains, Lib!ToSet
  <2>4. WordsInv' /\ dedup_i' \in 0..Len(g_words') /\ uniq' \in Seq(Dict)
    <3>1. CASE Lib!Contains(uniq, g_words[dedup_i + 1])
      <4>1. uniq' = uniq /\ g_words' = g_words
        BY <2>1, <3>1
      <4>2. uniq \in Seq(Dict)
        BY <2>2 DEF DedupTypes
      <4> QED BY <2>1, <2>2, <2>3, <3>1, <4>1, <4>2, WordKnown
    <3>2. CASE ~Lib!Contains(uniq, g_words[dedup_i + 1])
      <4>1. uniq' = Append(uniq, g_words[dedup_i + 1]) /\ g_words' = g_words
        BY <2>1, <3>2
      <4> QED BY <2>1, <2>2, <2>3, <3>2, <4>1, WordNew
    <3> QED BY <3>1, <3>2
  <2>5. DedupTypes'
    BY <2>1, <2>2, <2>4 DEF DedupTypes
  <2> QED BY <2>1, <2>2, <2>4, <2>5 DEF DedupInv
<1>5. CASE Lib!Hash
  <2>1. /\ dedup_at = "run" /\ use_hash /\ dedup_i < Len(g_words) /\ dedup_k' = Home(g_words[dedup_i + 1])
        /\ UNCHANGED <<use_hash, g_words, hash, cap, tab, uniq, dedup_i, dedup_at>>
    BY <1>5 DEF Lib!Hash, Home
  <2>2. DedupTypes /\ WordsInv /\ TableInv
    BY <2>1 DEF DedupInv
  <2>3. DedupTypes' /\ WordsInv' /\ TableInv'
    BY <2>1, <2>2, WordsKept, TypesKept, TableKept
  <2>4. PICK w : w = g_words[dedup_i + 1] /\ w = g_words'[dedup_i' + 1]
    BY <2>1
  <2>5. w \in Dict
    BY <2>1, <2>2, <2>4 DEF DedupTypes
  <2>6. PICK y : y = Home(w) /\ y = dedup_k' /\ y = Home(w)' /\ y \in TableSlots /\ y \in TableSlots'
    BY <2>1, <2>2, <2>4, <2>5, SlotsInTable DEF Home, TableSlots
  <2>7. Certain(y, w)' /\ Visited({y}, y, w)'
    BY <2>6 DEF Certain, Closed, Visited
  <2>8. ProbeInv'
    <3>1. Certain(dedup_k, g_words[dedup_i + 1])' /\ Visited({y}, dedup_k, g_words[dedup_i + 1])'
      BY <2>4, <2>6, <2>7 DEF Certain, Closed, Visited, Home, Other
    <3> QED BY <2>1, <2>6, <3>1 DEF ProbeInv
  <2> QED BY <2>1, <2>3, <2>8 DEF DedupInv
<1>6. CASE Lib!Probe
  <2>1. /\ dedup_at = "run" /\ dedup_k # -1 /\ tab[dedup_k] # -1
        /\ UNCHANGED <<use_hash, g_words, hash, cap, tab, uniq, dedup_at>>
    BY <1>6 DEF Lib!Probe
  <2>2. DedupTypes /\ WordsInv /\ TableInv /\ ProbeInv /\ use_hash
    BY <2>1 DEF DedupInv
  <2>3. tab[dedup_k] + 1 \in 1..Len(uniq)
    BY <2>1, <2>2, LenProperties, SMTT(40) DEF TableInv, ProbeInv, DedupTypes
  <2>4. TableInv'
    BY <2>1, <2>2, TableKept
  <2>5. CASE uniq[tab[dedup_k] + 1] = g_words[dedup_i + 1]
    <3>1. dedup_i' = dedup_i + 1 /\ dedup_k' = -1 /\ dedup_i < Len(g_words) /\ uniq' = uniq /\ g_words' = g_words
      BY <1>6, <2>1, <2>2, <2>5 DEF Lib!Probe, ProbeInv
    <3>2. g_words[dedup_i + 1] \in Lib!ToSet(uniq)
      BY <2>2, <2>3, <2>5, LenProperties DEF Lib!ToSet, DedupTypes
    <3>3. WordsInv' /\ dedup_i' \in 0..Len(g_words')
      BY <2>2, <3>1, <3>2, WordKnown
    <3>4. DedupTypes'
      BY <2>1, <2>2, <3>3 DEF DedupTypes
    <3> QED BY <2>1, <2>2, <2>4, <3>1, <3>3, <3>4 DEF DedupInv
  <2>6. CASE uniq[tab[dedup_k] + 1] # g_words[dedup_i + 1]
    <3>1. dedup_k' = Lib!next_slot(dedup_k) /\ dedup_i' = dedup_i
      BY <1>6, <2>6 DEF Lib!Probe
    <3>2. DedupTypes' /\ WordsInv'
      BY <2>1, <2>2, <3>1, WordsKept, TypesKept
    <3>3. PICK w, y, z : /\ w = g_words[dedup_i + 1] /\ w = g_words'[dedup_i' + 1]
                         /\ y = dedup_k /\ z = dedup_k' /\ z = Lib!next_slot(y)
      BY <2>1, <3>1
    <3>4. y \in TableSlots /\ z \in TableSlots /\ z \in TableSlots' /\ TableSlots' = TableSlots /\ Other(y, w) /\ Certain(y, w)
      BY <2>1, <2>2, <2>6, <3>3, SlotsInTable DEF TableSlots, Other, ProbeInv
    <3>5. PICK V : Visited(V, y, w)
      BY <2>2, <3>3 DEF ProbeInv
    <3>6. Certain(z, w)
      BY <3>3, <3>4 DEF Certain, Closed
    <3>7. Visited(V \cup {z}, z, w)
      BY <3>3, <3>4, <3>5 DEF Visited
    <3>8. Certain(dedup_k, g_words[dedup_i + 1])' /\ Visited(V \cup {z}, dedup_k, g_words[dedup_i + 1])'
      BY <2>1, <3>3, <3>6, <3>7 DEF Certain, Closed, Visited, Home, Other, TableSlots, Lib!next_slot
    <3>9. dedup_i' < Len(g_words') /\ dedup_k' \in TableSlots'
      BY <2>1, <2>2, <3>1, <3>3, <3>4 DEF ProbeInv
    <3>10. ProbeInv'
      BY <3>8, <3>9 DEF ProbeInv
    <3> QED BY <2>1, <2>2, <2>4, <3>2, <3>10 DEF DedupInv
  <2> QED BY <2>5, <2>6
<1>7. CASE Lib!Insert
  <2>1. /\ dedup_at = "run" /\ dedup_k # -1 /\ tab[dedup_k] = -1 /\ tab' = [tab EXCEPT ![dedup_k] = Len(uniq)]
        /\ uniq' = Append(uniq, g_words[dedup_i + 1]) /\ dedup_i' = dedup_i + 1 /\ dedup_k' = -1
        /\ UNCHANGED <<use_hash, g_words, hash, cap, dedup_at>>
    BY <1>7 DEF Lib!Insert
  <2>2. DedupTypes /\ WordsInv /\ TableInv /\ ProbeInv /\ use_hash
    BY <2>1 DEF DedupInv
  <2>3. g_words[dedup_i + 1] \notin Lib!ToSet(uniq)
    BY <2>1, <2>2, FreeSlotMeansNew
  <2>4. dedup_i < Len(g_words) /\ dedup_k \in TableSlots /\ Certain(dedup_k, g_words[dedup_i + 1]) /\ g_words' = g_words
    BY <2>1, <2>2 DEF ProbeInv
  <2>5. TableInv'
    BY <2>1, <2>2, <2>3, <2>4, InsertKeeps
  <2>6. WordsInv' /\ dedup_i' \in 0..Len(g_words') /\ uniq' \in Seq(Dict)
    BY <2>1, <2>2, <2>3, <2>4, WordNew
  <2>7. DedupTypes'
    BY <2>1, <2>2, <2>6 DEF DedupTypes
  <2> QED BY <2>1, <2>2, <2>5, <2>6, <2>7 DEF DedupInv
<1>8. CASE Lib!DedupReturns
  <2>1. /\ dedup_at = "run" /\ dedup_i = Len(g_words) /\ dedup_at' = "done"
        /\ UNCHANGED <<use_hash, g_words, hash, cap, tab, uniq, dedup_i, dedup_k>>
    BY <1>8 DEF Lib!DedupReturns
  <2>2. DedupTypes /\ WordsInv /\ (use_hash => TableInv)
    BY <2>1 DEF DedupInv
  <2>3. dedup_k' = -1
    BY <2>1, <2>2, LenProperties DEF DedupInv, ProbeInv, DedupTypes
  <2>4. DedupTypes' /\ WordsInv'
    BY <2>1, <2>2, WordsKept, TypesKept
  <2>5. use_hash => TableInv'
    BY <2>1, <2>2, TableKept
  <2> QED BY <2>1, <2>3, <2>4, <2>5 DEF DedupInv
<1> QED BY <1>1, <1>2, <1>3, <1>4, <1>5, <1>6, <1>7, <1>8 DEF Lib!DedupSteps

LEMMA DedupIsExact == DedupInv => Lib!DedupExact
<1> SUFFICES ASSUME DedupInv PROVE Lib!DedupExact
  OBVIOUS
<1>1. WordsInv /\ DedupTypes
  BY DEF DedupInv
<1>2. CASE ~use_hash
  BY <1>1, <1>2 DEF DedupInv, Lib!DedupExact, WordsInv
<1>3. CASE dedup_at = "size"
  <2>1. uniq = <<>> /\ dedup_k = -1
    BY <1>3 DEF DedupInv
  <2>2. 1..Len(uniq) = {}
    BY <2>1
  <2> QED BY <1>1, <2>1, <2>2, Zenon DEF Lib!DedupExact, WordsInv
<1>4. CASE use_hash /\ dedup_at # "size"
  <2>1. TableInv
    BY <1>4 DEF DedupInv
  <2>2. DOMAIN tab = TableSlots
    BY <2>1 DEF TableInv
  <2>3. dedup_k \in {-1} \cup TableSlots
    BY DEF DedupInv, ProbeInv
  <2>4. ASSUME NEW j \in 1..Len(uniq) PROVE \E slot \in TableSlots : \A other \in TableSlots : tab[other] = j - 1 <=> other = slot
    <3>1. PICK y \in TableSlots : tab[y] = j - 1
      BY <2>1 DEF TableInv
    <3>2. j - 1 # -1
      BY <1>1, LenProperties DEF DedupTypes
    <3>3. \A other \in TableSlots : tab[other] = j - 1 <=> other = y
      BY <2>1, <3>1, <3>2 DEF TableInv
    <3> QED BY <3>3
  <2> QED BY <1>1, <2>2, <2>3, <2>4, Zenon DEF Lib!DedupExact, WordsInv
<1> QED BY <1>2, <1>3, <1>4
-----------------------------------------------------------------------------
(* Together. *)

AloneInv == DedupInv /\ LtoaInv /\ HookInv /\ HttpInv

\* The functions of the small programs give what they promise: dedup the first
\* occurrence of every word whatever collides, sio_ltoa the decimal text of
\* every long but LONG_MIN, the interposed allocator one line for each call of
\* each thread, the HTTP client the request asked for and its own answer.
THEOREM FunctionsAreExact == AloneSpec => []LibraryExact
<1>1. AloneInit => AloneInv
  BY DedupInitial, LtoaInitial, HookInitial, HttpInitial DEF AloneInit, AloneInv
<1>2. AloneInv /\ [AloneNext]_aloneVars => AloneInv'
  <2> SUFFICES ASSUME AloneInv, [AloneNext]_aloneVars PROVE AloneInv'
    OBVIOUS
  <2>1. DedupInv /\ LtoaInv /\ HookInv /\ HttpInv
    BY DEF AloneInv
  <2>2. [Lib!DedupSteps]_dedupVars
    BY DEF AloneNext, aloneVars, InScheduler, InDedup, InLtoa, InHook, InHttp
  <2>3. [Lib!LtoaSteps]_ltoaVars
    BY DEF AloneNext, aloneVars, InScheduler, InDedup, InLtoa, InHook, InHttp
  <2>4. [\E t \in Callers : Hook!Calls(t) \/ Hook!HookSteps(t)]_interposeVars
    BY DEF AloneNext, aloneVars, InScheduler, InDedup, InLtoa, InHook, InHttp
  <2>5. [Http!Requests \/ Http!HttpSteps]_httpVars
    BY DEF AloneNext, aloneVars, InScheduler, InDedup, InLtoa, InHook, InHttp
  <2>6. HookInv'
    <3>1. CASE UNCHANGED interposeVars
      BY <2>1, <3>1 DEF interposeVars, HookInv, HookAt
    <3>2. CASE \E t \in Callers : Hook!Calls(t) \/ Hook!HookSteps(t)
      BY <2>1, <3>2, HookStep
    <3> QED BY <2>4, <3>1, <3>2
  <2> QED BY <2>1, <2>2, <2>3, <2>5, <2>6, DedupStep, LtoaStep, HttpStep DEF AloneInv
<1>3. AloneInv => LibraryExact
  BY DedupIsExact, HookExact DEF AloneInv, LibraryExact, LtoaInv, HttpInv
<1> QED BY <1>1, <1>2, <1>3, PTL DEF AloneSpec
=============================================================================
