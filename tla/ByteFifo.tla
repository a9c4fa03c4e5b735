------------------------------ MODULE ByteFifo ------------------------------
(***************************************************************************)
(* What the per-connection output buffer of the edge-triggered echo server *)
(* promises: a bounded first-in first-out queue of bytes.  Data is queued  *)
(* whole or not at all, and what is handed to write() is the oldest data.  *)
(***************************************************************************)
EXTENDS Naturals, Sequences

CONSTANTS Chunks,   \* the sequences of bytes queued at once
          MAX_OUTPUT_CAPACITY

VARIABLES q,     \* the bytes waiting to be written
          wire   \* the bytes the last write() accepted

fvars == <<q, wire>>

FInit == q = <<>> /\ wire = <<>>

Enqueue(data) ==
  /\ Len(q) + Len(data) <= MAX_OUTPUT_CAPACITY
  /\ q' = q \o data
  /\ UNCHANGED wire

Dequeue(n) ==
  /\ n \in 1..Len(q)
  /\ wire' = SubSeq(q, 1, n)
  /\ q' = SubSeq(q, n + 1, Len(q))

FNext ==
  \/ \E data \in Chunks : Enqueue(data)
  \/ \E n \in 1..Len(q) : Dequeue(n)

FSpec == FInit /\ [][FNext]_fvars
=============================================================================
