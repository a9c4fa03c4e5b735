------------------------------ MODULE Interpose ------------------------------
(***************************************************************************)
(* The interposed allocator (Chapter7/preload/mymalloc.c): malloc and free *)
(* that forward to libc and print a line, guarded by a flag of the thread  *)
(* because printf itself allocates.  Threads of the target program call    *)
(* them any number of times up to a bound.                                 *)
(***************************************************************************)
EXTENDS Integers, Sequences, SequencesExt

CONSTANTS Callers,    \* threads of the target program
          MaxOuter    \* bound on the calls each makes

VARIABLES in_hook,    \* __thread: one flag per thread
          frames,     \* calls each thread is in, innermost last
          nested,     \* has the printf under way allocated?
          calls,      \* history: calls of the program, in order
          log,        \* lines printed for each thread
          exited      \* dlsym failed: exit(1)

interposeVars == <<in_hook, frames, nested, calls, log, exited>>

InterposeInit ==
  /\ in_hook = [t \in Callers |-> FALSE] /\ nested = [t \in Callers |-> FALSE]
  /\ frames = [t \in Callers |-> <<>>]
  /\ calls = [t \in Callers |-> <<>>] /\ log = [t \in Callers |-> <<>>]
  /\ exited = FALSE

Top(t) == Last(frames[t])
At(t, where) == ~exited /\ frames[t] # <<>> /\ Top(t).at = where
Goes(t, where) == [frames EXCEPT ![t][Len(frames[t])].at = where]

\* The program calls malloc, or free with a pointer that is not NULL.
Call(t, op) ==
  /\ ~exited /\ frames[t] = <<>> /\ Len(calls[t]) < MaxOuter
  /\ frames' = [frames EXCEPT ![t] = <<[op |-> op, at |-> "forward"]>>]
  /\ calls' = [calls EXCEPT ![t] = Append(@, op)]
  /\ UNCHANGED <<in_hook, nested, log, exited>>

\* printf allocates its buffer, and comes in again.
PrintfAllocates(t) ==
  /\ At(t, "printf") /\ ~nested[t]
  /\ frames' = [frames EXCEPT ![t] = Append(@, [op |-> "malloc", at |-> "forward"])]
  /\ nested' = [nested EXCEPT ![t] = TRUE]
  /\ UNCHANGED <<in_hook, calls, log, exited>>

\* dlsym and the call of libc's function.
Forward(t) ==
  /\ At(t, "forward")
  /\ frames' = Goes(t, "test")
  /\ UNCHANGED <<in_hook, nested, calls, log, exited>>

DlsymFails(t) ==
  /\ At(t, "forward")
  /\ exited' = TRUE
  /\ UNCHANGED <<in_hook, frames, nested, calls, log>>

\* Only the outermost call prints.
TestHook(t) ==
  /\ At(t, "test")
  /\ IF in_hook[t]
     THEN frames' = [frames EXCEPT ![t] = Front(@)] /\ UNCHANGED <<in_hook, nested>>
     ELSE /\ in_hook' = [in_hook EXCEPT ![t] = TRUE]
          /\ nested' = [nested EXCEPT ![t] = FALSE]
          /\ frames' = Goes(t, "printf")
  /\ UNCHANGED <<calls, log, exited>>

Printed(t) ==
  /\ At(t, "printf")
  /\ log' = [log EXCEPT ![t] = Append(@, Top(t).op)]
  /\ in_hook' = [in_hook EXCEPT ![t] = FALSE]
  /\ frames' = [frames EXCEPT ![t] = Front(@)]
  /\ UNCHANGED <<nested, calls, exited>>

HookSteps(t) ==
  PrintfAllocates(t) \/ Forward(t) \/ DlsymFails(t) \/ TestHook(t) \/ Printed(t)
Calls(t) == \E op \in {"malloc", "free"} : Call(t, op)
-----------------------------------------------------------------------------
(* Properties. *)

\* Calls are nested two deep at most, and each thread's lines are its own
\* calls: none is missing because another thread prints, none is printf's.
LogExact ==
  \A t \in Callers :
    /\ Len(frames[t]) <= 2
    /\ IF frames[t] = <<>> THEN log[t] = calls[t] ELSE log[t] = Front(calls[t])

\* Every call returns, unless the process exits.
CallsReturn == \A t \in Callers : frames[t] # <<>> ~> exited \/ frames[t] = <<>>
=============================================================================
