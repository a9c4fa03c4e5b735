----------------------------- MODULE CoScheduler -----------------------------
(***************************************************************************)
(* The C++20 coroutine scheduler                                           *)
(* (Chapter12/12.3/experiments/cpp20_coroutine_scheduler.cpp): a ready     *)
(* queue, a vector of timers and a virtual clock that jumps to the next    *)
(* timer when nothing is ready.  A task is handle_request: two awaits of   *)
(* sleep_for, each of which suspends only for a positive number of ticks.  *)
(***************************************************************************)
EXTENDS Integers, Sequences, SequencesExt, FiniteSetsExt, SeqFilter

CONSTANTS TaskCount,  \* number of tasks
          Delays,     \* ticks a task may ask for, zero and less included
          INT_MAX     \* std::numeric_limits<int>::max()

ASSUME SchedulerAssumption ==
  /\ TaskCount \in Nat /\ Delays \subseteq Int /\ INT_MAX \in Nat
  /\ \A d \in Delays : 2 * d <= INT_MAX

Tasks == 1..TaskCount
Timers == [wake_tick : 0..INT_MAX, handle : Tasks]

VARIABLES tick_, ready_, timers_,  \* members of Scheduler
          run_at,                  \* position in run()
          stage,                   \* suspension point of each coroutine, 3 = done
          delay,                   \* arguments of handle_request
          ended                    \* history: tick at which each task completed

schedulerVars == <<tick_, ready_, timers_, run_at, stage, delay, ended>>

\* main: tasks are created and started one after the other.
SchedulerInit ==
  /\ tick_ = 0 /\ timers_ = <<>>
  /\ ready_ = [t \in Tasks |-> t]
  /\ run_at = "top"
  /\ stage = [t \in Tasks |-> 0]
  /\ delay \in [Tasks -> [1..2 -> Delays]]
  /\ ended = [t \in Tasks |-> -1]

due(tick) == {timer \in Timers : timer.wake_tick <= tick}
handles(ts) == [k \in DOMAIN ts |-> ts[k].handle]

\* Mutant: push_front, so that the last timer due runs first.
woken_reversed(tick) == Reverse(Filter(timers_, due(tick)))
woken(tick) == Filter(timers_, due(tick))

\* Due timers move to the ready queue in the order of the vector.
wake_due_timers(tick) ==
  /\ ready_' = ready_ \o handles(woken(tick))
  /\ timers_' = Filter(timers_, Timers \ due(tick))

\* Mutant: std::max in place of std::min.
next_timer_tick_max == Max({-1} \cup {timers_[i].wake_tick : i \in DOMAIN timers_})
next_timer_tick == Min({INT_MAX} \cup {timers_[i].wake_tick : i \in DOMAIN timers_})

work_left_ready == ready_ # <<>>     \* mutant: the timers are forgotten
work_left == ready_ # <<>> \/ timers_ # <<>>

\* run(): the loop condition and the first wake_due_timers.
Wake ==
  /\ run_at = "top" /\ work_left
  /\ wake_due_timers(tick_)
  /\ run_at' = "jump"
  /\ UNCHANGED <<tick_, stage, delay, ended>>

\* With nothing ready the clock jumps to the next timer.
Jump ==
  /\ run_at = "jump"
  /\ IF ready_ = <<>>
     THEN tick_' = next_timer_tick /\ wake_due_timers(next_timer_tick)
     ELSE UNCHANGED <<tick_, ready_, timers_>>
  /\ run_at' = "resume"
  /\ UNCHANGED <<stage, delay, ended>>

\* Awaits still ahead of a coroutine that suspend (await_ready is false).
awaits(t, s) == {i \in (s + 1)..2 : delay[t][i] > 0}

\* Mutant: a suspended coroutine is queued as ready as well.
schedule_after_both(t, ticks) ==
  /\ timers_' = Append(timers_, [wake_tick |-> tick_ + ticks, handle |-> t])
  /\ ready_' = Append(Tail(ready_), t)
schedule_after(t, ticks) ==
  /\ timers_' = Append(timers_, [wake_tick |-> tick_ + ticks, handle |-> t])
  /\ ready_' = Tail(ready_)

\* ready_.front() runs until it suspends in sleep_for or completes; a handle
\* that is done already is dropped.
Resume ==
  /\ run_at = "resume" /\ ready_ # <<>>
  /\ LET t == Head(ready_)
         s == IF awaits(t, stage[t]) = {} THEN 3 ELSE Min(awaits(t, stage[t]))
     IN  \/ /\ s = 3
            /\ ready_' = Tail(ready_) /\ UNCHANGED timers_
            /\ stage' = [stage EXCEPT ![t] = 3]
            /\ ended' = [ended EXCEPT ![t] = IF stage[t] = 3 THEN @ ELSE tick_]
         \/ /\ s # 3
            /\ schedule_after(t, delay[t][s])
            /\ stage' = [stage EXCEPT ![t] = s]
            /\ UNCHANGED ended
  /\ run_at' = "top"
  /\ UNCHANGED <<tick_, delay>>

\* run() returns when both containers are empty.
Return ==
  /\ run_at = "top" /\ ~work_left
  /\ run_at' = "returned"
  /\ UNCHANGED <<tick_, ready_, timers_, stage, delay, ended>>

Returned == run_at = "returned" /\ UNCHANGED schedulerVars

Run == Wake \/ Jump \/ Resume \/ Return
SchedulerNext == Run \/ Returned

SchedulerSpec == SchedulerInit /\ [][SchedulerNext]_schedulerVars
-----------------------------------------------------------------------------
(* Properties. *)

\* Type invariant of the scheduler's members.
SchedulerTypeOK ==
  /\ tick_ \in 0..INT_MAX
  /\ ready_ \in Seq(Tasks) /\ timers_ \in Seq(Timers)
  /\ run_at \in {"top", "jump", "resume", "returned"}
  /\ stage \in [Tasks -> 0..3] /\ ended \in [Tasks -> -1..INT_MAX]

Handles == ready_ \o handles(timers_)

\* A suspended coroutine stands in exactly one container, once, and a completed
\* one in none: no resumption is lost and none happens twice.  A `done' handle
\* is thus never met, and front() is never called on an empty queue.
OnePlaceEach ==
  /\ SchedulerTypeOK
  /\ IsInjective(Handles) /\ ToSet(Handles) = {t \in Tasks : stage[t] # 3}
  /\ run_at = "resume" => ready_ # <<>>

Asked(t) == Max({0, delay[t][1]}) + Max({0, delay[t][2]})

\* Every coroutine completes at the very tick its delays add up to: the clock
\* never runs past a timer and no ready coroutine is left behind when it jumps.
OnTime == \A t \in Tasks : ended[t] # -1 => ended[t] = Asked(t)

\* The agenda: what is ready is due now, then the timers of each tick in order.
agendaMap ==
  [d \in 0..INT_MAX |->
     (IF d = tick_ THEN ready_ ELSE <<>>)
       \o handles(Filter(timers_, {timer \in Timers : timer.wake_tick = d}))]

Simulation == INSTANCE EventQueue WITH agenda <- agendaMap, Horizon <- INT_MAX

\* The scheduler is a discrete-event simulation: coroutines run by due tick,
\* and first come first served within one tick.
ImplementsEventQueue == Simulation!QSpec

\* run() returns, and then every coroutine has completed.
RunReturns == <>(run_at = "returned" /\ \A t \in Tasks : stage[t] = 3)
=============================================================================
