----------------------------- MODULE JobControl -----------------------------
(***************************************************************************)
(* What the shell of Chapter8/8.5-8.6/shell promises its user, without     *)
(* signals, masks or a job table: one foreground program at a time holds   *)
(* the terminal, background programs come and go beside it, and the        *)
(* terminal goes back to the user only when the foreground program is      *)
(* gone.                                                                   *)
(***************************************************************************)
CONSTANT Pids

VARIABLES child,  \* "none", "fg" or "bg": what each pid is to the shell
          term    \* who has the terminal: "user", "fg", or "none" after exit

jvars == <<child, term>>

JInit == child = [p \in Pids |-> "none"] /\ term = "user"

\* A command is read and started only while the user has the terminal.
StartForeground(p) ==
  /\ term = "user" /\ child[p] = "none"
  /\ child' = [child EXCEPT ![p] = "fg"]
  /\ term' = "fg"

StartBackground(p) ==
  /\ term = "user" /\ child[p] = "none"
  /\ child' = [child EXCEPT ![p] = "bg"]
  /\ UNCHANGED term

Collect(p) ==
  /\ term # "none" /\ child[p] # "none"
  /\ child' = [child EXCEPT ![p] = "none"]
  /\ UNCHANGED term

GiveBack ==
  /\ term = "fg" /\ \A p \in Pids : child[p] # "fg"
  /\ term' = "user"
  /\ UNCHANGED child

Leave == term = "user" /\ term' = "none" /\ UNCHANGED child

JNext ==
  \/ \E p \in Pids : StartForeground(p) \/ StartBackground(p) \/ Collect(p)
  \/ GiveBack
  \/ Leave

JSpec == JInit /\ [][JNext]_jvars
=============================================================================
