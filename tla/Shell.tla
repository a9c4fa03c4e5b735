------------------------------- MODULE Shell -------------------------------
(***************************************************************************)
(* The job-control shell of Chapter8/8.5-8.6/shell (main.c on csapp.c).    *)
(*                                                                         *)
(* One thread runs main/eval and is interrupted by sigchld_handler, which  *)
(* shares the job table `jobs' and the flag `fg_done' with it.  The kernel *)
(* side (process states, the pending SIGCHLD bit, delivery, the masks that *)
(* sigsuspend and a handler frame restore) is modelled as the code uses    *)
(* it.  A pid is free for reuse as soon as waitpid has returned it.        *)
(***************************************************************************)
EXTENDS Integers, Sequences

CONSTANTS Pids,      \* process ids the kernel hands out
          NoPid,     \* pid 0: an empty slot, or no process
          MAXJOBS,   \* length of the job table
          MaxWords   \* bound: words on a command line

ASSUME ShellAssumption ==
  /\ NoPid \notin Pids
  /\ MAXJOBS \in Nat
  /\ MaxWords \in Nat

VARIABLES
  pc,       \* where main/eval stands
  jobs,     \* the job table
  fg_done,  \* set by the handler, polled by eval
  pid, bg,  \* locals of eval
  mask,     \* signals blocked in the thread
  prev,     \* eval's saved mask
  saved,    \* mask the kernel restores when the handler returns
  hpc,      \* where sigchld_handler stands
  hpid, hbg, hprev,  \* locals of sigchld_handler
  proc,     \* kernel: state of every process id
  pending,  \* kernel: the pending bit of SIGCHLD (signals do not queue)
  dropped,  \* history: children that add_job found no slot for
  kind      \* history: the bg flag a process was started with

mainVars == <<pc, pid, bg, prev>>
handlerVars == <<hpc, hpid, hbg, hprev>>
kernelVars == <<proc, pending>>
history == <<dropped, kind>>
vars == <<mainVars, jobs, fg_done, mask, saved, handlerVars, kernelVars, history>>

Slots == 1..MAXJOBS
SIGCHLD == "SIGCHLD"
Signals == {SIGCHLD, "other"}     \* "other": every signal but SIGCHLD
mask_chld_empty == {}             \* mutant: sigaddset forgotten
mask_chld == {SIGCHLD}
mask_all_empty == {}              \* mutant: sigfillset forgotten
mask_all == Signals

JobType == [pid : Pids \cup {NoPid}, bg : {0, 1}]

Unreaped == {p \in Pids : proc[p] # "free"}
Recorded == {p \in Pids : \E i \in Slots : jobs[i].pid = p}
-----------------------------------------------------------------------------
(* The job table.  Each operation is a relation between old and new table. *)

init_jobs == [i \in Slots |-> [pid |-> NoPid, bg |-> 0]]

\* The first free slot takes the job; a full table only prints a message.
add_job(p, b) ==
  \/ /\ \E i \in Slots :
          /\ jobs[i].pid = NoPid
          /\ \A j \in 1..(i - 1) : jobs[j].pid # NoPid
          /\ jobs' = [jobs EXCEPT ![i] = [pid |-> p, bg |-> b]]
     /\ UNCHANGED dropped
  \/ /\ \A i \in Slots : jobs[i].pid # NoPid
     /\ dropped' = dropped \cup {p}
     /\ UNCHANGED jobs

emptied_kept(job) == job          \* mutant: the slot is not emptied
emptied(job) == [job EXCEPT !.pid = NoPid]

\* The first slot holding p is emptied and its flag returned, -1 if none.
delete_job(p) ==
  /\ \/ \E i \in Slots :
          /\ jobs[i].pid = p
          /\ \A j \in 1..(i - 1) : jobs[j].pid # p
          /\ jobs' = [jobs EXCEPT ![i] = emptied(jobs[i])]
          /\ hbg' = jobs[i].bg
     \/ /\ \A i \in Slots : jobs[i].pid # p
        /\ hbg' = -1
        /\ UNCHANGED jobs
  /\ dropped' = dropped \ {p}
-----------------------------------------------------------------------------
(* Command lines are sequences of words; only the words the shell tells    *)
(* apart matter.  "prog" stands for every word that names a program, and   *)
(* "&prog" for a longer word that begins with an ampersand.                *)

Words == {"quit", "jobs", "&", "&prog", "prog"}
CmdLines == UNION {[1..n -> Words] : n \in 0..MaxWords}

ampersand == 1

parseline(words) ==
  LET argc == Len(words) IN
    IF argc > 0 /\ words[argc] \notin {"&", "&prog"}
    THEN [argv |-> words, bg |-> 0]
    ELSE [argv |-> SubSeq(words, 1, argc - 1), bg |-> ampersand]

Init ==
  /\ pc = "prompt" /\ pid = NoPid /\ bg = 0 /\ prev = {}
  /\ jobs = init_jobs
  /\ fg_done = 0
  /\ mask = {} /\ saved = {}
  /\ hpc = "idle" /\ hpid = NoPid /\ hbg = -1 /\ hprev = {}
  /\ proc = [p \in Pids |-> "free"] /\ pending = FALSE
  /\ dropped = {} /\ kind = [p \in Pids |-> 0]

(* The thread runs main/eval only while no handler frame is on its stack.  *)
MainAt(l) == pc = l /\ hpc = "idle"

\* End of input, or the built-in quit.
Exit ==
  /\ MainAt("prompt")
  /\ pc' = "exited"
  /\ UNCHANGED <<pid, bg, prev, jobs, fg_done, mask, saved, handlerVars, kernelVars, history>>

\* try_gets reports end of input, and main exits.
EndOfInput == Exit

Command(argv, w) == argv # <<>> /\ argv[1] = w

\* An empty line, or a lone & among the words, does nothing.
IgnoreLine(argv) ==
  /\ MainAt("prompt")
  /\ argv = <<>> \/ Command(argv, "&")
  /\ UNCHANGED vars

\* Built-in jobs: block everything, then list.
JobsBlock(argv) ==
  /\ MainAt("prompt")
  /\ Command(argv, "jobs")
  /\ prev' = mask
  /\ mask' = mask \cup mask_all
  /\ pc' = "list"
  /\ UNCHANGED <<pid, bg, jobs, fg_done, saved, handlerVars, kernelVars, history>>

\* list_jobs has printed the table; the mask is put back.
JobsUnblock ==
  /\ MainAt("list")
  /\ mask' = prev /\ prev' = {}
  /\ pc' = "prompt"
  /\ UNCHANGED <<pid, bg, jobs, fg_done, saved, handlerVars, kernelVars, history>>

\* eval blocks SIGCHLD before it forks.
EvalBlock(cmd) ==
  /\ MainAt("prompt")
  /\ Command(cmd.argv, "prog") \/ Command(cmd.argv, "&prog")
  /\ bg' = cmd.bg
  /\ prev' = mask
  /\ mask' = mask \cup mask_chld
  /\ pc' = "fork"
  /\ UNCHANGED <<pid, jobs, fg_done, saved, handlerVars, kernelVars, history>>

Eval(words) ==
  LET cmd == parseline(words) IN
    \/ IgnoreLine(cmd.argv)
    \/ Command(cmd.argv, "quit") /\ Exit
    \/ JobsBlock(cmd.argv)
    \/ EvalBlock(cmd)

Fork ==
  /\ MainAt("fork")
  /\ \E p \in Pids :
       /\ proc[p] = "free"
       /\ proc' = [proc EXCEPT ![p] = "running"]
       /\ kind' = [kind EXCEPT ![p] = bg]
       /\ pid' = p
  /\ pc' = "block_all"
  /\ UNCHANGED <<bg, prev, jobs, fg_done, mask, saved, handlerVars, pending, dropped>>

\* try_fork: fork failed, unix_error ends the shell.
ForkFails ==
  /\ MainAt("fork")
  /\ pc' = "exited"
  /\ UNCHANGED <<pid, bg, prev, jobs, fg_done, mask, saved, handlerVars, kernelVars, history>>

BlockAll ==
  /\ MainAt("block_all")
  /\ mask' = mask \cup mask_all
  /\ pc' = "add"
  /\ UNCHANGED <<pid, bg, prev, jobs, fg_done, saved, handlerVars, kernelVars, history>>

AddJob ==
  /\ MainAt("add")
  /\ add_job(pid, bg)
  /\ pc' = "unblock_all"
  /\ UNCHANGED <<pid, bg, prev, fg_done, mask, saved, handlerVars, kernelVars, kind>>

UnblockAll ==
  /\ MainAt("unblock_all")
  /\ mask' = mask_chld
  /\ pc' = IF bg = 0 THEN "clear" ELSE "restore"
  /\ UNCHANGED <<pid, bg, prev, jobs, fg_done, saved, handlerVars, kernelVars, history>>

ClearFgDone ==
  /\ MainAt("clear")
  /\ fg_done' = 0
  /\ pc' = "check"
  /\ UNCHANGED <<pid, bg, prev, jobs, mask, saved, handlerVars, kernelVars, history>>

\* while (!fg_done): what happens between this test and the call below must
\* not be lost.
TestFgDone ==
  /\ MainAt("check") /\ fg_done = 0
  /\ pc' = "suspend"
  /\ UNCHANGED <<pid, bg, prev, jobs, fg_done, mask, saved, handlerVars, kernelVars, history>>

\* sigsuspend(&prev): the call swaps the mask and sleeps in one step.
Sigsuspend ==
  /\ MainAt("suspend")
  /\ saved' = mask
  /\ mask' = prev
  /\ pc' = "suspended"
  /\ UNCHANGED <<pid, bg, prev, jobs, fg_done, handlerVars, kernelVars, history>>

WaitOver ==
  /\ MainAt("check") /\ fg_done # 0
  /\ pc' = "restore"
  /\ UNCHANGED <<pid, bg, prev, jobs, fg_done, mask, saved, handlerVars, kernelVars, history>>

\* The last sigprocmask of both branches; eval returns to the prompt.
RestoreMask ==
  /\ MainAt("restore")
  /\ mask' = prev
  /\ pc' = "prompt" /\ pid' = NoPid /\ bg' = 0 /\ prev' = {}
  /\ UNCHANGED <<jobs, fg_done, saved, handlerVars, kernelVars, history>>
-----------------------------------------------------------------------------
(* SIGCHLD: delivery, and the steps of the handler.  The delivery guard is *)
(* the mask alone: that no second frame is pushed is an invariant.         *)

Deliver ==
  /\ pc # "exited"
  /\ pending /\ SIGCHLD \notin mask
  /\ pending' = FALSE
  /\ saved' = IF pc = "suspended" THEN saved ELSE mask
  /\ mask' = mask \cup {SIGCHLD}
  /\ hpc' = "waitpid"
  /\ UNCHANGED <<mainVars, jobs, fg_done, hpid, hbg, hprev, proc, history>>

HandlerAt(l) == pc # "exited" /\ hpc = l

\* waitpid(-1, &status, WNOHANG) > 0: any zombie is released.
Reap ==
  /\ HandlerAt("waitpid")
  /\ \E p \in Pids :
       /\ proc[p] = "zombie"
       /\ proc' = [proc EXCEPT ![p] = "free"]
       /\ hpid' = p
  /\ hpc' = "block"
  /\ UNCHANGED <<mainVars, jobs, fg_done, mask, saved, hbg, hprev, pending, history>>

HandlerBlock ==
  /\ HandlerAt("block")
  /\ hprev' = mask
  /\ mask' = mask \cup mask_all
  /\ hpc' = "delete"
  /\ UNCHANGED <<mainVars, jobs, fg_done, saved, hpid, hbg, kernelVars, history>>

DeleteJob ==
  /\ HandlerAt("delete")
  /\ delete_job(hpid)
  /\ hpc' = "unblock"
  /\ UNCHANGED <<mainVars, fg_done, mask, saved, hpid, hprev, kernelVars, kind>>

HandlerUnblock ==
  /\ HandlerAt("unblock")
  /\ mask' = hprev /\ hprev' = {}
  /\ hpc' = "report"
  /\ UNCHANGED <<mainVars, jobs, fg_done, saved, hpid, hbg, kernelVars, history>>

foreground_any(b) == b # -1       \* mutant: any recorded job ends the wait
foreground_lost(b) == FALSE       \* mutant: the handler does not raise the flag
foreground(b) == b = 0

\* A foreground job sets the flag; a background one is only announced.
Report ==
  /\ HandlerAt("report")
  /\ fg_done' = IF foreground(hbg) THEN 1 ELSE fg_done
  /\ hpc' = "waitpid" /\ hpid' = NoPid /\ hbg' = -1
  /\ UNCHANGED <<mainVars, jobs, mask, saved, hprev, kernelVars, history>>

loop_over_early == TRUE           \* mutant: zombies may be left behind
loop_over == \A p \in Pids : proc[p] # "zombie"

\* waitpid returned 0 or ECHILD; a pending sigsuspend returns with the handler.
HandlerReturn ==
  /\ HandlerAt("waitpid") /\ loop_over
  /\ mask' = saved
  /\ hpc' = "idle"
  /\ pc' = IF pc = "suspended" THEN "check" ELSE pc
  /\ UNCHANGED <<pid, bg, prev, jobs, fg_done, saved, hpid, hbg, hprev, kernelVars, history>>
-----------------------------------------------------------------------------
(* Children: they end, stop and continue; each change raises SIGCHLD,      *)
(* because try_signal installs the handler without SA_NOCLDSTOP.  A child  *)
(* whose execve fails prints a message and ends: ChildExits.               *)

ChildChanges(p, from, to) ==
  /\ pc # "exited"
  /\ proc[p] \in from
  /\ proc' = [proc EXCEPT ![p] = to]
  /\ pending' = TRUE
  /\ UNCHANGED <<mainVars, jobs, fg_done, mask, saved, handlerVars, history>>

ChildExits(p) == ChildChanges(p, {"running", "stopped"}, "zombie")
ChildStops(p) == ChildChanges(p, {"running"}, "stopped")
ChildContinues(p) == ChildChanges(p, {"stopped"}, "running")

\* The shell is gone; its children belong to init from here on.
Exited == pc = "exited" /\ UNCHANGED vars

EvalSteps ==
  \/ JobsUnblock \/ Fork \/ ForkFails \/ BlockAll \/ AddJob \/ UnblockAll
  \/ ClearFgDone \/ TestFgDone \/ Sigsuspend \/ WaitOver \/ RestoreMask

HandlerSteps ==
  \/ Reap \/ HandlerBlock \/ DeleteJob \/ HandlerUnblock \/ Report \/ HandlerReturn

Next ==
  \/ EndOfInput
  \/ \E words \in CmdLines : Eval(words)
  \/ EvalSteps
  \/ Deliver
  \/ HandlerSteps
  \/ \E p \in Pids : ChildExits(p) \/ ChildStops(p) \/ ChildContinues(p)
  \/ Exited

Spec == Init /\ [][Next]_vars

(* The thread keeps running, and a signal that is unblocked again and again *)
(* is delivered (sigprocmask delivers before it returns): strong fairness.  *)
(* Nothing makes the user type.                                             *)
Fairness ==
  /\ WF_vars(EvalSteps)
  /\ WF_vars(HandlerSteps)
  /\ SF_vars(Deliver)

FairSpec == Spec /\ Fairness
-----------------------------------------------------------------------------
(* Properties. *)

PcLabels == {"prompt", "list", "fork", "block_all", "add", "unblock_all",
             "clear", "check", "suspend", "suspended", "restore", "exited"}
HpcLabels == {"idle", "waitpid", "block", "delete", "unblock", "report"}
ProcStates == {"free", "running", "stopped", "zombie"}

\* Type invariant: the flags keep the values 0 and 1 that delete_job's result
\* is compared with, and the locals of eval and of the handler their ranges.
TypeOK ==
  /\ pc \in PcLabels /\ pid \in Pids \cup {NoPid} /\ bg \in {0, 1}
  /\ pc \in {"block_all", "add"} => pid # NoPid
  /\ jobs \in [Slots -> JobType]
  /\ fg_done \in {0, 1}
  /\ mask \subseteq Signals /\ prev \subseteq Signals
  /\ saved \subseteq Signals /\ hprev \subseteq Signals
  /\ hpc \in HpcLabels /\ hpid \in Pids \cup {NoPid} /\ hbg \in {-1, 0, 1}
  /\ proc \in [Pids -> ProcStates] /\ pending \in BOOLEAN
  /\ dropped \subseteq Pids /\ kind \in [Pids -> {0, 1}]

\* The child waitpid has returned and whose job the handler has yet to delete.
BeingDeleted == IF hpc \in {"block", "delete"} THEN {hpid} ELSE {}

\* The child fork has returned and whose job eval has yet to add.
BeingAdded == IF pc \in {"block_all", "add"} THEN {pid} ELSE {}

\* add_job comes before delete_job (the masks of eval, main.c 186-200): when
\* the handler looks a reaped child up, it is in the table, unless the table
\* was full when it started.
DeleteFindsJob == hpc = "delete" => hpid \in Recorded \cup dropped

\* The table is the shell's picture of its children: pids are not in it
\* twice, each belongs to a child not yet reaped or just being deleted (so a
\* reused pid never meets an old entry), and no child is missing from it but
\* one just forked or one the full table turned away.
TableMatchesChildren ==
  /\ \A i, j \in Slots : jobs[i].pid # NoPid /\ jobs[i].pid = jobs[j].pid => i = j
  /\ Recorded \subseteq Unreaped \cup BeingDeleted
  /\ (Unreaped \cup BeingDeleted) \ BeingAdded \subseteq Recorded \cup dropped

\* Whoever reads or writes the table does so alone: while eval adds a job or
\* list_jobs prints, no handler frame is on the stack, and none nests in the
\* handler (main.c 43, 69, 92, 155).
TableIsExclusive ==
  /\ pc \in {"add", "list"} => hpc = "idle" /\ SIGCHLD \in mask
  /\ hpc # "idle" => SIGCHLD \in mask

\* The prompt comes back only once the foreground program is reaped: between
\* commands every unreaped child was started in the background.  A flag left
\* over from an earlier foreground job must not end the wait of the next.
PromptHasNoForeground ==
  pc \in {"prompt", "list", "fork", "restore"} =>
    \A p \in Unreaped : kind[p] = 1

(* The job-control promise, under the obvious reading of the state: a child *)
(* counts until waitpid has released it, and the terminal is the foreground *)
(* program's from fork until eval's wait loop is left.                      *)
childMap ==
  [p \in Pids |-> IF proc[p] = "free" THEN "none"
                  ELSE IF kind[p] = 0 THEN "fg" ELSE "bg"]
termMap ==
  IF pc = "exited" THEN "none"
  ELSE IF bg = 0 /\ pc \in {"block_all", "add", "unblock_all", "clear",
                          "check", "suspend", "suspended"}
       THEN "fg" ELSE "user"

Promise == INSTANCE JobControl WITH child <- childMap, term <- termMap

\* The shell implements JobControl: eval never starts a command, and main
\* never prompts, while a foreground program it started is unreaped.
ImplementsJobControl == Promise!JSpec

\* No child stays a zombie while the shell runs (main.c 8-9), although many
\* deaths may share one pending SIGCHLD.
ZombiesReaped ==
  \A p \in Pids : proc[p] = "zombie" ~> (proc[p] # "zombie" \/ pc = "exited")

\* The foreground program has ended and main is still in its wait loop.
ForegroundEnded == pc \in {"check", "suspend", "suspended"} /\ proc[pid] = "zombie"

\* A foreground command gives the terminal back: the sigsuspend loop ends
\* once the child has (main.c 12-13), whatever SIGCHLDs came before or between
\* the test of the flag and the call, and although nothing else may ever
\* happen to wake it.
ForegroundReturns == ForegroundEnded ~> pc \in {"prompt", "exited"}

\* The same of a job that add_job found a slot for.
RecordedJobReturns ==
  (ForegroundEnded /\ pid \notin dropped) ~> pc \in {"prompt", "exited"}
=============================================================================
