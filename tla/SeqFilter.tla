------------------------------ MODULE SeqFilter ------------------------------
(***************************************************************************)
(* The loop that both the kernel's ready lists and the coroutine           *)
(* scheduler's vector of timers are walked with: from front to back, the   *)
(* elements that satisfy a condition are pushed to a second sequence.      *)
(* The condition is the set of elements that satisfy it.  (SelectSeq does  *)
(* the same; the prover knows nothing about it.)                           *)
(***************************************************************************)
EXTENDS Integers, Sequences

\* The body of the loop.
PushIf(out, e, T) == IF e \in T THEN Append(out, e) ELSE out

\* The elements of s that lie in T, in their order.
Filter(s, T) ==
  LET kept[n \in 0..Len(s)] ==
        IF n = 0 THEN <<>> ELSE PushIf(kept[n - 1], s[n], T)
  IN  kept[Len(s)]
=============================================================================
