----------------------------- MODULE FirstShell -----------------------------
(***************************************************************************)
(* The first shell (Chapter8/8.3-8.4/shell/main.c), before signals: it     *)
(* waits for a foreground program with waitpid on its pid and never        *)
(* collects a background one, so that those that end hold their pids as    *)
(* zombies until fork fails or the shell exits.                            *)
(***************************************************************************)
EXTENDS Integers, Sequences, SequencesExt

CONSTANTS Pids, NoPid,
          MaxWords       \* bound: words in a command line

VARIABLES at,            \* prompt, eval, waitfg, waited, exited
          line,          \* the words of the command line
          fg,            \* the pid eval waits for
          job,           \* what each pid is to the shell: none, fg or bg
          zombies        \* kernel: children that have ended and are not reaped

shellVars == <<at, line, fg, job, zombies>>

Words == {"quit", "&", "&prog", "prog"}
CmdLines == UNION {[1..n -> Words] : n \in 0..MaxWords}

ShellInit ==
  at = "prompt" /\ line = <<>> /\ fg = NoPid /\ job = [p \in Pids |-> "none"] /\ zombies = {}

\* parseline: a last word that begins with an ampersand means background.
background == line # <<>> /\ Last(line) \in {"&", "&prog"}
argv == IF background THEN Front(line) ELSE line

command == IF argv = <<>> THEN "none" ELSE argv[1]
Program == command \notin {"none", "&", "quit"}

ReadLine ==
  /\ at = "prompt"
  /\ line' \in CmdLines /\ at' = "eval"
  /\ UNCHANGED <<fg, job, zombies>>

\* feof, also when the last line has no newline.
EndOfInput == at = "prompt" /\ at' = "exited" /\ UNCHANGED <<line, fg, job, zombies>>

IgnoreLine ==
  /\ at = "eval" /\ command \in {"none", "&"}
  /\ at' = "prompt" /\ line' = <<>>
  /\ UNCHANGED <<fg, job, zombies>>

Quit == at = "eval" /\ command = "quit" /\ at' = "exited" /\ UNCHANGED <<line, fg, job, zombies>>

\* A program in the foreground is waited for; of one in the background the pid
\* is printed.  A program that is not found ends at once.
Fork(p) ==
  /\ at = "eval" /\ Program /\ job[p] = "none"
  /\ job' = [job EXCEPT ![p] = IF background THEN "bg" ELSE "fg"]
  /\ fg' = IF background THEN NoPid ELSE p
  /\ at' = IF background THEN "prompt" ELSE "waitfg"
  /\ line' = <<>>
  /\ UNCHANGED zombies

\* fork fails for want of pids, or for another reason: the shell exits.
ForkFails ==
  /\ at = "eval" /\ Program
  /\ at' = "exited"
  /\ UNCHANGED <<line, fg, job, zombies>>

\* waitpid(pid) returns when that child has ended, and frees its pid.
awaited_any == Pids                 \* mutant: waitpid(-1)
awaited == {fg}

Waitpid ==
  /\ at = "waitfg"
  /\ \E p \in awaited \cap zombies :
       zombies' = zombies \ {p} /\ job' = [job EXCEPT ![p] = "none"]
  /\ at' = "waited"
  /\ UNCHANGED <<line, fg>>

WaitReturns == at = "waited" /\ at' = "prompt" /\ fg' = NoPid /\ UNCHANGED <<line, job, zombies>>

ChildExits(p) ==
  /\ job[p] # "none" /\ p \notin zombies
  /\ zombies' = zombies \cup {p}
  /\ UNCHANGED <<at, line, fg, job>>

ShellSteps == IgnoreLine \/ Quit \/ ForkFails \/ Waitpid \/ WaitReturns \/ \E p \in Pids : Fork(p)
ShellNext == ShellSteps \/ ReadLine \/ EndOfInput \/ \E p \in Pids : ChildExits(p)
-----------------------------------------------------------------------------
(* Properties. *)

\* A wait is only ever begun, and goes on, for a foreground child that is there,
\* so that it cannot fail; and the prompt is only ever shown when no foreground
\* child is left, reaped or not, so that all zombies then are background ones.
ForegroundReaped ==
  [][/\ at' = "waitfg" => job'[fg'] = "fg"
     /\ at' = "prompt" => \A p \in Pids : job'[p] # "fg"]_shellVars

termMap == CASE at = "exited" -> "none"
             [] at \in {"waitfg", "waited"} -> "fg"
             [] OTHER -> "user"

Control == INSTANCE JobControl WITH child <- job, term <- termMap

\* To its user this shell, too, is the job control of JobControl.
ImplementsJobControl == Control!JSpec

\* The prompt comes back after every command line, and from a foreground program
\* once it has ended, whatever background programs end meanwhile.
PromptReturns ==
  at = "eval" \/ (at = "waitfg" /\ fg \in zombies)
    ~> at \in {"prompt", "exited"} \/ (at = "waitfg" /\ fg \notin zombies)
=============================================================================
