----------------------------- MODULE EventQueue -----------------------------
(***************************************************************************)
(* What the coroutine scheduler promises: a discrete-event simulation.     *)
(* Every task that is not done stands on the agenda once, under the tick   *)
(* it is due at; the earliest tick goes first, and tasks due at one tick   *)
(* run in the order in which they asked for it.                            *)
(***************************************************************************)
EXTENDS Naturals, Sequences

CONSTANTS Tasks,      \* 1..N, numbered in the order they are started
          Horizon     \* bound: no task is due later

VARIABLES agenda,  \* for each tick, the tasks due then, first come first
          stage,   \* how far each task has come: 0, 1 or 2 awaits passed, 3 = done
          delay    \* the ticks of each task's two awaits

qvars == <<agenda, stage, delay>>

\* The await task t suspends in when resumed at stage s; 3 when it completes.
\* An await of no ticks does not suspend.
NextStage(t, s) ==
  IF \E i \in (s + 1)..2 : delay[t][i] > 0
  THEN CHOOSE i \in (s + 1)..2 : delay[t][i] > 0 /\ \A j \in (s + 1)..(i - 1) : delay[t][j] <= 0
  ELSE 3

QInit ==
  /\ agenda = [d \in 0..Horizon |-> IF d = 0 THEN [t \in Tasks |-> t] ELSE <<>>]
  /\ stage = [t \in Tasks |-> 0]

\* Run the first task of the earliest tick up to its next await.
RunNext(d) ==
  /\ agenda[d] # <<>> /\ \A e \in 0..(d - 1) : agenda[e] = <<>>
  /\ LET t == Head(agenda[d])
         s == NextStage(t, stage[t])
         rest == [agenda EXCEPT ![d] = Tail(@)]
     IN  /\ stage' = [stage EXCEPT ![t] = s]
         /\ agenda' = IF s = 3 THEN rest
                      ELSE [rest EXCEPT ![d + delay[t][s]] = Append(@, t)]
  /\ UNCHANGED delay

QNext == \E d \in 0..Horizon : RunNext(d)

QSpec == QInit /\ [][QNext]_qvars
=============================================================================
