---------------------------- MODULE OutputBuffer ----------------------------
(***************************************************************************)
(* The output buffer of a connection of the edge-triggered echo server     *)
(* (Chapter12/12.2/experiments/epoll_et_echo_server.c): append_output with *)
(* its compaction and its capacity loop, and flush_output, one action per  *)
(* step of the C code, on an explicit memory.                              *)
(***************************************************************************)
EXTENDS Integers, Sequences

CONSTANTS Bytes,                    \* values of a byte
          Junk,                     \* contents of memory nobody has written
          MAX_OUTPUT_CAPACITY,
          INITIAL_OUTPUT_CAPACITY,
          READ_BUFFER_SIZE          \* longest data append_output is given

ASSUME BufferAssumption ==
  /\ MAX_OUTPUT_CAPACITY \in Nat /\ INITIAL_OUTPUT_CAPACITY \in Nat
  /\ INITIAL_OUTPUT_CAPACITY \in 1..MAX_OUTPUT_CAPACITY
  /\ READ_BUFFER_SIZE \in Nat

VARIABLES
  output,                                      \* the allocated memory
  output_capacity, output_begin, output_end,   \* fields of struct connection
  at,
  data, capacity,                              \* parameter and local of append_output
  wire                                         \* the bytes the last write() accepted

fields == <<output, output_capacity, output_begin, output_end>>
bufferVars == <<fields, at, data, capacity, wire>>

Index == 0..(MAX_OUTPUT_CAPACITY - 1)
pending_output == output_end - output_begin
required == output_end + Len(data)

\* The data of one read(): between 1 and READ_BUFFER_SIZE bytes.
ReadData == UNION {[1..n -> Bytes] : n \in 1..READ_BUFFER_SIZE}

BufferInit ==   \* calloc
  /\ output = [i \in Index |-> Junk]
  /\ output_capacity = 0 /\ output_begin = 0 /\ output_end = 0
  /\ at = "idle" /\ data = <<>> /\ capacity = 0 /\ wire = <<>>
-----------------------------------------------------------------------------
(* append_output *)

Append_call ==
  /\ at = "idle"
  /\ \E d \in ReadData : data' = d
  /\ at' = "check"
  /\ UNCHANGED <<fields, capacity, wire>>

\* length > MAX_OUTPUT_CAPACITY - pending: errno = ENOBUFS, nothing changes.
Append_nobufs ==
  /\ at = "check"
  /\ Len(data) > MAX_OUTPUT_CAPACITY - pending_output
  /\ at' = "failed"
  /\ UNCHANGED <<fields, data, capacity, wire>>

moved_end == pending_output

\* memmove to the front when the tail is too short, then enter the loop.
Append_compact ==
  /\ at = "check"
  /\ Len(data) <= MAX_OUTPUT_CAPACITY - pending_output
  /\ IF output_begin > 0 /\ required > output_capacity
     THEN /\ output' = [i \in Index |-> IF i < pending_output
                                        THEN output[output_begin + i] ELSE output[i]]
          /\ output_begin' = 0
          /\ output_end' = moved_end
     ELSE UNCHANGED <<output, output_begin, output_end>>
  /\ at' = "grow"
  /\ capacity' = IF output_capacity = 0 THEN INITIAL_OUTPUT_CAPACITY ELSE output_capacity
  /\ UNCHANGED <<output_capacity, data, wire>>

\* Mutant: the capacity is doubled without the cap.
Double_uncapped(c) == 2 * c

\* Mutant: past half the limit the capacity is left as it is.
Double_stuck(c) == IF c > MAX_OUTPUT_CAPACITY \div 2 THEN c ELSE 2 * c

\* One turn of the capacity loop.
Double(c) == IF c > MAX_OUTPUT_CAPACITY \div 2 THEN MAX_OUTPUT_CAPACITY ELSE 2 * c

Append_grow ==
  /\ at = "grow"
  /\ required > output_capacity /\ capacity < required
  /\ capacity' = Double(capacity)
  /\ UNCHANGED <<fields, at, data, wire>>

\* Mutant: malloc, the old contents are not copied.
reallocated_fresh == [i \in Index |-> Junk]
reallocated == [i \in Index |-> IF i < output_capacity THEN output[i] ELSE Junk]

\* realloc keeps the old contents; the new bytes are uninitialised.
Append_realloc ==
  /\ at = "grow"
  /\ required > output_capacity /\ capacity >= required
  /\ output' = reallocated
  /\ output_capacity' = capacity
  /\ at' = "copy"
  /\ UNCHANGED <<output_begin, output_end, data, capacity, wire>>

Append_nomem ==
  /\ at = "grow"
  /\ required > output_capacity /\ capacity >= required
  /\ at' = "failed"
  /\ UNCHANGED <<fields, data, capacity, wire>>

Append_fits ==
  /\ at = "grow"
  /\ required <= output_capacity
  /\ at' = "copy"
  /\ UNCHANGED <<fields, data, capacity, wire>>

\* memcpy; drain_input then calls flush_output.
Append_copy ==
  /\ at = "copy"
  /\ output' = [i \in Index |-> IF i \in output_end..(required - 1)
                                THEN data[i - output_end + 1] ELSE output[i]]
  /\ output_end' = required
  /\ data' = <<>> /\ capacity' = 0
  /\ at' = "flush"
  /\ UNCHANGED <<output_capacity, output_begin, wire>>
-----------------------------------------------------------------------------
(* flush_output, called after an append and for EPOLLOUT *)

Flush_call ==
  /\ at = "idle"
  /\ at' = "flush"
  /\ UNCHANGED <<fields, data, capacity, wire>>

\* write() takes n of the pending bytes.
Flush_write(n) ==
  /\ at = "flush" /\ n <= pending_output
  /\ wire' = [i \in 1..n |-> output[output_begin + i - 1]]
  /\ output_begin' = output_begin + n
  /\ UNCHANGED <<output, output_capacity, output_end, at, data, capacity>>

Flush_again ==   \* EAGAIN
  /\ at = "flush" /\ pending_output > 0
  /\ at' = "idle"
  /\ UNCHANGED <<fields, data, capacity, wire>>

Flush_error ==
  /\ at = "flush" /\ pending_output > 0
  /\ at' = "failed"
  /\ UNCHANGED <<fields, data, capacity, wire>>

Flush_done ==
  /\ at = "flush" /\ ~(pending_output > 0)
  /\ output_begin' = 0 /\ output_end' = 0
  /\ at' = "idle"
  /\ UNCHANGED <<output, output_capacity, data, capacity, wire>>

\* A failed call makes the event loop close the connection and free the buffer.
Failed == at = "failed" /\ UNCHANGED bufferVars

AppendSteps ==
  \/ Append_nobufs \/ Append_compact \/ Append_grow
  \/ Append_realloc \/ Append_nomem \/ Append_fits \/ Append_copy

BufferNext ==
  \/ Append_call
  \/ AppendSteps
  \/ Flush_call
  \/ \E n \in 1..MAX_OUTPUT_CAPACITY : Flush_write(n)
  \/ Flush_again \/ Flush_error \/ Flush_done
  \/ Failed

BufferSpec == BufferInit /\ [][BufferNext]_bufferVars

\* append_output is straight-line code and a loop: it keeps running.
BufferFairSpec == BufferSpec /\ WF_bufferVars(AppendSteps)
-----------------------------------------------------------------------------
(* Properties. *)

Labels == {"idle", "check", "grow", "copy", "flush", "failed"}

\* Type invariant of the buffer's fields and of append_output's locals.
BufferTypeOK ==
  /\ output \in [Index -> Bytes \cup {Junk}]
  /\ output_capacity \in Nat /\ output_begin \in Nat /\ output_end \in Nat
  /\ capacity \in Nat
  /\ at \in Labels
  /\ data \in Seq(Bytes) /\ wire \in Seq(Bytes \cup {Junk})

\* The three offsets stay in order and inside the memory that was allocated,
\* the allocation never exceeds the limit (epoll_et_echo_server.c 103-134),
\* and memcpy writes inside it.
BufferBounds ==
  /\ output_begin <= output_end
  /\ output_end <= output_capacity
  /\ output_capacity <= MAX_OUTPUT_CAPACITY
  /\ at = "copy" => required <= output_capacity

\* The capacity loop ends: an append returns, with success or with failure.
AppendReturns == at = "check" ~> at \in {"flush", "failed"}

(* The queue in the memory: the bytes from output_begin up to output_end. *)
queue == [i \in 1..pending_output |-> output[output_begin + i - 1]]

Fifo == INSTANCE ByteFifo WITH q <- queue, Chunks <- ReadData

\* The buffer implements the bounded byte queue: compaction, reallocation and
\* partial writes lose, duplicate and reorder nothing.
ImplementsFifo == Fifo!FSpec
=============================================================================
