-------------------------- MODULE ConnectionProofs --------------------------
(***************************************************************************)
(* Proofs about what a server keeps for a connection: the output buffer of *)
(* the edge-triggered server, and the descriptors, heap cells, processes   *)
(* and lines of the servers that have no event loop, with the helpers that *)
(* open their sockets.                                                     *)
(***************************************************************************)
EXTENDS OutputBuffer, MCPerClient, DataLemmas, FiniteSetTheorems
-----------------------------------------------------------------------------
(***************************************************************************)
(* The output buffer, for every limit, initial capacity and size of a      *)
(* read: the offsets stay inside the allocated memory and the buffer       *)
(* implements the bounded byte queue.                                      *)
(***************************************************************************)

\* The data under way in append_output, and the room it was checked for: in
\* the capacity loop the buffer starts at its first byte, so what is required
\* is what is pending plus the data, which the first test bounds.
AppendInv ==
  /\ at \in {"check", "grow", "copy"} => data \in ReadData
  /\ at \in {"grow", "copy"} => Len(data) <= MAX_OUTPUT_CAPACITY - pending_output
  /\ at = "grow" =>
       /\ capacity \in 1..MAX_OUTPUT_CAPACITY
       /\ required > output_capacity => output_begin = 0

BufferInv == BufferTypeOK /\ BufferBounds /\ AppendInv
-----------------------------------------------------------------------------
\* A function on 1..n is a sequence of length n.
LEMMA FunctionIsSeq ==
  ASSUME NEW S, NEW n \in Nat, NEW f \in [1..n -> S]
  PROVE  f \in Seq(S) /\ Len(f) = n
<1>1. f \in Seq(S)
  BY SeqDef
<1>2. Len(f) \in Nat /\ DOMAIN f = 1..Len(f)
  BY <1>1, LenProperties
<1> QED
  BY <1>1, <1>2

\* What read() delivers is a nonempty sequence of bytes.
LEMMA ReadDataIsSeq ==
  ASSUME NEW d \in ReadData
  PROVE  d \in Seq(Bytes) /\ Len(d) \in Nat \ {0}
<1>1. PICK n \in 1..READ_BUFFER_SIZE : d \in [1..n -> Bytes]
  BY DEF ReadData
<1>2. n \in Nat \ {0}
  BY BufferAssumption
<1> QED
  BY <1>1, <1>2, FunctionIsSeq

\* One turn of the capacity loop stays within the limit.
LEMMA DoubleBound ==
  ASSUME NEW c \in 1..MAX_OUTPUT_CAPACITY
  PROVE  Double(c) \in 1..MAX_OUTPUT_CAPACITY
  BY BufferAssumption DEF Double

\* The initial state satisfies the inductive invariant.
LEMMA BufferInvInit == BufferInit => BufferInv
  BY BufferAssumption, EmptySeq DEF BufferInit, BufferInv, BufferTypeOK, BufferBounds, AppendInv, Labels, Index

\* The invariant is inductive.
LEMMA BufferInvStep == BufferInv /\ [BufferNext]_bufferVars => BufferInv'
<1> SUFFICES ASSUME BufferInv, [BufferNext]_bufferVars PROVE BufferInv'
  OBVIOUS
<1> USE BufferAssumption DEF BufferInv, BufferTypeOK, BufferBounds, AppendInv, fields, required,
      pending_output, Labels
<1>1. CASE Append_call
  <2>1. data' \in ReadData /\ data' \in Seq(Bytes)
    BY <1>1, ReadDataIsSeq DEF Append_call
  <2> QED
    BY <1>1, <2>1 DEF Append_call
<1>2. CASE Append_nobufs \/ Append_nomem
  BY <1>2 DEF Append_nobufs, Append_nomem
<1>3. CASE Append_compact
  <2>1. data \in ReadData /\ Len(data) \in Nat
    BY <1>3, ReadDataIsSeq DEF Append_compact
  <2>2. capacity' \in 1..MAX_OUTPUT_CAPACITY
    BY <1>3 DEF Append_compact
  <2>3. CASE output_begin > 0 /\ required > output_capacity
    <3>1. output_begin' = 0 /\ output_end' = output_end - output_begin
          /\ UNCHANGED <<output_capacity, data, wire>> /\ at' = "grow"
      BY <1>3, <2>3 DEF Append_compact, moved_end
    <3>2. output' \in [Index -> Bytes \cup {Junk}]
      BY <1>3, <2>3, SMTT(40) DEF Append_compact, Index
    <3> QED
      BY <1>3, <2>1, <2>2, <3>1, <3>2 DEF Append_compact
  <2>4. CASE ~(output_begin > 0 /\ required > output_capacity)
    BY <1>3, <2>1, <2>2, <2>4, SMTT(40) DEF Append_compact
  <2> QED
    BY <2>3, <2>4
<1>4. CASE Append_grow
  <2>1. capacity' \in 1..MAX_OUTPUT_CAPACITY
    BY <1>4, DoubleBound DEF Append_grow
  <2> QED
    BY <1>4, <2>1 DEF Append_grow
<1>5. CASE Append_realloc
  <2>1. Len(data) \in Nat
    BY <1>5, ReadDataIsSeq DEF Append_realloc
  <2>2. output' \in [Index -> Bytes \cup {Junk}]
    BY <1>5 DEF Append_realloc, reallocated
  <2> QED
    BY <1>5, <2>1, <2>2 DEF Append_realloc
<1>6. CASE Append_fits
  BY <1>6 DEF Append_fits
<1>7. CASE Append_copy
  <2>1. data \in Seq(Bytes) /\ Len(data) \in Nat
    BY <1>7, ReadDataIsSeq DEF Append_copy
  <2>2. \A i \in output_end..(required - 1) : data[i - output_end + 1] \in Bytes
    BY <2>1, ElementOfSeq
  <2>3. output' \in [Index -> Bytes \cup {Junk}]
    BY <1>7, <2>2 DEF Append_copy
  <2>4. data' \in Seq(Bytes)
    BY <1>7, EmptySeq DEF Append_copy
  <2> QED
    BY <1>7, <2>1, <2>3, <2>4 DEF Append_copy
<1>8. CASE Flush_call \/ Flush_again \/ Flush_error \/ Flush_done
  BY <1>8 DEF Flush_call, Flush_again, Flush_error, Flush_done
<1>9. ASSUME NEW n \in 1..MAX_OUTPUT_CAPACITY, Flush_write(n) PROVE BufferInv'
  <2>1. \A i \in 1..n : output[output_begin + i - 1] \in Bytes \cup {Junk}
    BY <1>9 DEF Flush_write, Index
  <2>2. wire' \in [1..n -> Bytes \cup {Junk}]
    BY <1>9, <2>1 DEF Flush_write
  <2>3. wire' \in Seq(Bytes \cup {Junk})
    BY <2>2, FunctionIsSeq
  <2> QED
    BY <1>9, <2>3 DEF Flush_write
<1>10. CASE Failed \/ UNCHANGED bufferVars
  BY <1>10 DEF Failed, bufferVars
<1> QED
  BY <1>1, <1>2, <1>3, <1>4, <1>5, <1>6, <1>7, <1>8, <1>9, <1>10 DEF BufferNext, AppendSteps

\* The inductive invariant holds in every reachable state.
LEMMA BufferInvariant == BufferSpec => []BufferInv
  BY BufferInvInit, BufferInvStep, PTL DEF BufferSpec

\* The fields of the connection and the locals of append_output keep their types.
THEOREM BufferTypeCorrect == BufferSpec => []BufferTypeOK
<1>1. BufferInv => BufferTypeOK
  BY DEF BufferInv
<1> QED
  BY <1>1, BufferInvariant, PTL

\* Every offset lies inside the allocation and the allocation inside the limit.
THEOREM BoundsCorrect == BufferSpec => []BufferBounds
<1>1. BufferInv => BufferBounds
  BY DEF BufferInv
<1> QED
  BY <1>1, BufferInvariant, PTL
-----------------------------------------------------------------------------
QueueOK == queue \in Seq(Bytes \cup {Junk}) /\ Len(queue) = pending_output

\* The queue in the memory is a sequence as long as the pending output.
LEMMA QueueIsSeq == BufferInv => QueueOK
<1> SUFFICES ASSUME BufferInv PROVE QueueOK
  OBVIOUS
<1>1. pending_output \in Nat
  BY DEF BufferInv, BufferTypeOK, BufferBounds, pending_output
<1>2. \A i \in 1..pending_output : output[output_begin + i - 1] \in Bytes \cup {Junk}
  BY BufferAssumption DEF BufferInv, BufferTypeOK, BufferBounds, pending_output, Index
<1>3. queue \in [1..pending_output -> Bytes \cup {Junk}]
  BY <1>2 DEF queue
<1> QED
  BY <1>1, <1>3, FunctionIsSeq DEF QueueOK

\* Two states with the same pending bytes show the same queue.
LEMMA QueueFrame ==
  ASSUME BufferInv, BufferInv', pending_output' = pending_output,
         \A i \in 1..pending_output : output'[output_begin' + i - 1] = output[output_begin + i - 1]
  PROVE  queue' = queue
  BY DEF queue

\* Compaction and reallocation do not show, a copy queues the data whole, and
\* a write takes the oldest bytes.
LEMMA FifoStep == BufferInv /\ BufferInv' /\ [BufferNext]_bufferVars => [Fifo!FNext]_(Fifo!fvars)
<1> SUFFICES ASSUME BufferInv, BufferInv', [BufferNext]_bufferVars
             PROVE  Fifo!FNext \/ UNCHANGED Fifo!fvars
  OBVIOUS
<1> USE BufferAssumption DEF Fifo!fvars, fields
<1>q. queue \in Seq(Bytes \cup {Junk}) /\ Len(queue) = pending_output
      /\ queue' \in Seq(Bytes \cup {Junk}) /\ Len(queue') = pending_output'
  <2>1. QueueOK
    BY QueueIsSeq
  <2>2. BufferInv' => QueueOK'
    BY QueueIsSeq, PTL
  <2> QED
    BY <2>1, <2>2 DEF QueueOK
<1>n. output_begin \in Nat /\ output_end \in Nat /\ pending_output \in Nat
      /\ output_end <= output_capacity /\ output_capacity \in Nat
      /\ output_capacity <= MAX_OUTPUT_CAPACITY
  BY DEF BufferInv, BufferTypeOK, BufferBounds, pending_output
<1>1. CASE Append_call \/ Append_nobufs \/ Append_nomem \/ Append_grow \/ Append_fits
           \/ Flush_call \/ Flush_again \/ Flush_error \/ Failed \/ UNCHANGED bufferVars
  BY <1>1 DEF Append_call, Append_nobufs, Append_nomem, Append_grow, Append_fits, Flush_call,
    Flush_again, Flush_error, Failed, bufferVars, queue, pending_output
<1>2. CASE Append_compact
  <2>1. CASE output_begin > 0 /\ required > output_capacity
    <3>1. output_begin' = 0 /\ pending_output' = pending_output /\ UNCHANGED wire
      BY <1>2, <1>n, <2>1 DEF Append_compact, moved_end, pending_output
    <3>2. \A i \in 1..pending_output : output'[i - 1] = output[output_begin + (i - 1)]
      BY <1>2, <1>n, <2>1, SMTT(40) DEF Append_compact, pending_output, Index
    <3>3. \A i \in 1..pending_output :
            output'[output_begin' + i - 1] = output[output_begin + i - 1]
      BY <1>n, <3>1, <3>2
    <3> QED
      BY <3>1, <3>3, QueueFrame
  <2>2. CASE ~(output_begin > 0 /\ required > output_capacity)
    BY <1>2, <2>2 DEF Append_compact, queue, pending_output
  <2> QED
    BY <2>1, <2>2
<1>3. CASE Append_realloc
  <2>1. pending_output' = pending_output /\ UNCHANGED <<wire, output_begin>>
    BY <1>3 DEF Append_realloc, pending_output
  <2>2. \A i \in 1..pending_output : output'[output_begin + i - 1] = output[output_begin + i - 1]
    BY <1>3, <1>n DEF Append_realloc, reallocated, pending_output, Index
  <2> QED
    BY <2>1, <2>2, QueueFrame
<1>4. CASE Append_copy
  <2>1. data \in ReadData /\ data \in Seq(Bytes) /\ Len(data) \in Nat
        /\ required <= MAX_OUTPUT_CAPACITY
    <3>1. data \in ReadData /\ required <= output_capacity
      BY <1>4 DEF Append_copy, BufferInv, AppendInv, BufferBounds
    <3>2. data \in Seq(Bytes) /\ Len(data) \in Nat
      BY <3>1, ReadDataIsSeq
    <3> QED
      BY <1>n, <3>1, <3>2 DEF required
  <2>2. data \in Seq(Bytes \cup {Junk})
    BY <2>1, SeqMonotonic
  <2>3. pending_output' = pending_output + Len(data)
    BY <1>4, <1>n, <2>1 DEF Append_copy, pending_output, required
  <2>4. /\ queue \o data \in Seq(Bytes \cup {Junk})
        /\ Len(queue \o data) = pending_output + Len(data)
        /\ \A i \in 1..(pending_output + Len(data)) :
             (queue \o data)[i] = IF i <= pending_output THEN queue[i] ELSE data[i - pending_output]
    BY <1>q, <2>2, ConcatProperties
  <2>5. \A i \in 1..(pending_output + Len(data)) : queue'[i] = (queue \o data)[i]
    <3> SUFFICES ASSUME NEW i \in 1..(pending_output + Len(data))
                 PROVE  queue'[i] = (queue \o data)[i]
      OBVIOUS
    <3>1. queue'[i] = output'[output_begin + i - 1]
      BY <1>4, <2>3 DEF Append_copy, queue
    <3>2. output_begin + i - 1 \in Index
      BY <1>n, <2>1 DEF required, pending_output, Index
    <3>3. CASE i <= pending_output
      <4>1. output'[output_begin + i - 1] = output[output_begin + i - 1]
        BY <1>4, <1>n, <3>2, <3>3, SMTT(40) DEF Append_copy, pending_output
      <4> QED
        BY <1>n, <2>4, <3>1, <3>3, <4>1 DEF queue
    <3>4. CASE i > pending_output
      <4>1. output'[output_begin + i - 1] = data[output_begin + i - 1 - output_end + 1]
        BY <1>4, <1>n, <2>1, <3>2, <3>4 DEF Append_copy, pending_output, required
      <4>2. output_begin + i - 1 - output_end + 1 = i - pending_output
        BY <1>n DEF pending_output
      <4> QED
        BY <1>n, <2>4, <3>1, <3>4, <4>1, <4>2
    <3>5. i <= pending_output \/ i > pending_output
      BY <1>n, <2>1
    <3> QED
      BY <3>3, <3>4, <3>5
  <2>6. queue' = queue \o data
    BY <1>q, <2>3, <2>4, <2>5, SeqEqual
  <2>7. Len(queue) + Len(data) <= MAX_OUTPUT_CAPACITY
    BY <1>q, <1>n, <2>1 DEF required, pending_output
  <2> QED
    BY <1>4, <2>1, <2>6, <2>7 DEF Append_copy, Fifo!FNext, Fifo!Enqueue
<1>5. CASE Flush_done
  <2>1. pending_output = 0 /\ pending_output' = 0 /\ UNCHANGED wire
    BY <1>5, <1>n DEF Flush_done, pending_output
  <2> QED
    BY <2>1, QueueFrame
<1>6. ASSUME NEW n \in 1..MAX_OUTPUT_CAPACITY, Flush_write(n) PROVE Fifo!FNext
  <2>1. n \in 1..Len(queue) /\ pending_output' = pending_output - n
        /\ output_begin' = output_begin + n /\ UNCHANGED output
    BY <1>6, <1>q, <1>n DEF Flush_write, pending_output
  <2>2. \A i \in 1..n : queue[i] \in Bytes \cup {Junk}
    BY <1>q, <2>1, ElementOfSeq
  <2>3. /\ SubSeq(queue, 1, n) \in Seq(Bytes \cup {Junk}) /\ Len(SubSeq(queue, 1, n)) = n
        /\ \A i \in 1..n : SubSeq(queue, 1, n)[i] = queue[i]
    <3>1. \A i \in 1..(n - 1 + 1) : SubSeq(queue, 1, n)[i] = queue[1 + i - 1]
      BY <2>2, SubSeqProperties
    <3> QED
      BY <2>2, <3>1, SubSeqProperties
  <2>4. wire' = SubSeq(queue, 1, n)
    <3>1. wire' = [i \in 1..n |-> queue[i]]
      <4>1. \A i \in 1..n : queue[i] = output[output_begin + i - 1]
        BY <1>q, <1>n, <2>1 DEF queue
      <4> QED
        BY <1>6, <4>1 DEF Flush_write
    <3>2. wire' \in Seq(Bytes \cup {Junk}) /\ Len(wire') = n
      BY <2>2, <3>1, FunctionIsSeq
    <3> QED
      BY <2>3, <3>1, <3>2, SeqEqual
  <2>5. \A i \in (n + 1)..Len(queue) : queue[i] \in Bytes \cup {Junk}
    BY <1>q, <2>1, ElementOfSeq
  <2>6. /\ SubSeq(queue, n + 1, Len(queue)) \in Seq(Bytes \cup {Junk})
        /\ Len(SubSeq(queue, n + 1, Len(queue))) = pending_output - n
        /\ \A i \in 1..(pending_output - n) : SubSeq(queue, n + 1, Len(queue))[i] = queue[n + i]
    <3>1. n + 1 \in Int /\ Len(queue) \in Int /\ Len(queue) = pending_output
      BY <1>q, <1>n
    <3>2. /\ SubSeq(queue, n + 1, Len(queue)) \in Seq(Bytes \cup {Junk})
          /\ Len(SubSeq(queue, n + 1, Len(queue)))
               = IF n + 1 <= Len(queue) THEN Len(queue) - (n + 1) + 1 ELSE 0
          /\ \A i \in 1..(Len(queue) - (n + 1) + 1) :
               SubSeq(queue, n + 1, Len(queue))[i] = queue[(n + 1) + i - 1]
      BY <2>5, <3>1, SubSeqProperties
    <3> QED
      BY <1>n, <2>1, <3>1, <3>2
  <2>7. \A i \in 1..(pending_output - n) : queue'[i] = queue[n + i]
    BY <1>n, <2>1 DEF queue
  <2>8. queue' = SubSeq(queue, n + 1, Len(queue))
    BY <1>q, <2>1, <2>6, <2>7, SeqEqual
  <2> QED
    BY <2>1, <2>4, <2>8 DEF Fifo!FNext, Fifo!Dequeue
<1> QED
  BY <1>1, <1>2, <1>3, <1>4, <1>5, <1>6 DEF BufferNext, AppendSteps

\* The output buffer implements the bounded byte queue, for every limit,
\* initial capacity and sequence of reads and partial writes.
THEOREM FifoRefinement == BufferSpec => ImplementsFifo
<1>1. BufferInit => Fifo!FInit
  <2> SUFFICES ASSUME BufferInit PROVE Fifo!FInit
    OBVIOUS
  <2>1. BufferInv
    BY BufferInvInit
  <2>2. pending_output = 0
    BY DEF BufferInit, pending_output
  <2>3. queue = <<>>
    BY <2>1, <2>2, QueueIsSeq, EmptySeq DEF QueueOK
  <2> QED
    BY <2>3 DEF BufferInit, Fifo!FInit
<1> QED
  BY <1>1, FifoStep, BufferInvariant, PTL DEF BufferSpec, ImplementsFifo, Fifo!FSpec
-----------------------------------------------------------------------------
(***************************************************************************)
(* The servers without an event loop.  PeerInv is what the thread, the     *)
(* process and the iterative server share: the clients, the queue of       *)
(* accept, and that no more is written back than was read, and no more     *)
(* read than was sent.                                                     *)
(***************************************************************************)
PeerTypes ==
  /\ sent \in [Clients -> 0..MaxSend] /\ rcvd \in [Clients -> 0..MaxSend]
  /\ shut \in [Clients -> BOOLEAN] /\ rst \in [Clients -> BOOLEAN]
  /\ acceptq \in Seq(Clients) /\ tx \in [Clients -> 0..SockBuf]
  /\ status \in [Clients -> {"none", "open", "done", "aborted"}]
  /\ echoed \in [Clients -> Seq(1..MaxSend)]

\* Who waits for accept waits once, and has no conversation yet.
QueueInv ==
  \A k \in 1..Len(acceptq) :
    status[acceptq[k]] = "none" /\ \A l \in 1..Len(acceptq) : acceptq[l] = acceptq[k] => l = k

CountInv ==
  \A c \in Clients :
    /\ Len(echoed[c]) <= rcvd[c] /\ rcvd[c] <= sent[c]
    /\ status[c] = "none" => rcvd[c] = 0

PeerInv == PeerTypes /\ QueueInv /\ CountInv

(* The thread server.  A thread's descriptor is in the heap cell it was    *)
(* given until it has taken it out.                                        *)
Busy(w) == wpc[w] # "none"
FdOf(w) == IF wpc[w] = "start" THEN heap[warg[w]] ELSE wfd[w]
ConnOf(w) == fdtab[FdOf(w)]
MainHolds == pc # "accept"

ThreadTypes ==
  /\ fdtab \in [Fds -> Clients \cup {NoClient}] /\ heap \in [Cells -> Fds \cup {0}]
  /\ pc \in {"accept", "malloc", "create"}
  /\ connfd \in Fds \cup {0} /\ connfdp \in Cells \cup {NoCell}
  /\ wpc \in [Threads -> {"none", "start", "read", "write"}]
  /\ warg \in [Threads -> Cells \cup {NoCell}] /\ wfd \in [Threads -> Fds \cup {0}]
  /\ wline \in [Threads -> 0..MaxSend]

\* Main and the threads hold different open descriptors, and every open one.
HoldInv ==
  /\ \A w \in Threads : Busy(w) =>
       FdOf(w) \in Fds /\ fdtab[FdOf(w)] # NoClient /\ (MainHolds => FdOf(w) # connfd)
  /\ MainHolds => connfd \in Fds /\ fdtab[connfd] # NoClient
  /\ \A v, w \in Threads : Busy(v) /\ Busy(w) /\ FdOf(v) = FdOf(w) => v = w
  /\ \A f \in Fds : fdtab[f] # NoClient =>
       (MainHolds /\ connfd = f) \/ \E w \in Threads : Busy(w) /\ FdOf(w) = f

\* The same of the heap cells.
CellInv ==
  /\ \A w \in Threads : wpc[w] = "start" =>
       warg[w] \in Cells /\ heap[warg[w]] # 0 /\ (pc = "create" => warg[w] # connfdp)
  /\ pc = "create" => connfdp \in Cells /\ heap[connfdp] = connfd
  /\ \A v, w \in Threads : wpc[v] = "start" /\ wpc[w] = "start" /\ warg[v] = warg[w] => v = w
  /\ \A x \in Cells : heap[x] # 0 =>
       (pc = "create" /\ connfdp = x) \/ \E w \in Threads : wpc[w] = "start" /\ warg[w] = x

\* An open descriptor is an open conversation, and the only one of its client.
ConnInv ==
  \A f \in Fds : fdtab[f] # NoClient =>
    status[fdtab[f]] = "open" /\ \A g \in Fds : fdtab[g] = fdtab[f] => g = f

\* A thread that writes has the last line read in hand; otherwise all that was
\* read has been written back.
LineInv ==
  /\ \A w \in Threads : Busy(w) =>
       Len(echoed[ConnOf(w)]) = IF wpc[w] = "write" THEN rcvd[ConnOf(w)] - 1 ELSE rcvd[ConnOf(w)]
  /\ \A w \in Threads : wpc[w] = "write" => wline[w] = rcvd[ConnOf(w)]
  /\ MainHolds => Len(echoed[fdtab[connfd]]) = rcvd[fdtab[connfd]]

ThreadInv == PeerInv /\ ThreadTypes /\ HoldInv /\ CellInv /\ ConnInv /\ LineInv

(* The process server. *)

ProcessTypes ==
  /\ holders \in [Clients -> SUBSET {"parent", "child"}]
  /\ pc \in {"accept", "fork", "close"} /\ connfd \in Clients \cup {NoClient}
  /\ child \in [Clients -> {"none", "read", "write", "exit", "zombie", "reaped"}]
  /\ result \in [Clients -> {"none", "done", "aborted"}]
  /\ pending \in BOOLEAN /\ hpc \in {"idle", "loop"}

\* Who has which connection open: the parent the one in hand, a child its own
\* until echo ends; the client sees it open as long as one of them has it.
HolderInv ==
  /\ \A c \in Clients : "parent" \in holders[c] <=> pc # "accept" /\ connfd = c
  /\ \A c \in Clients : "child" \in holders[c] <=> child[c] \in {"read", "write"}
  /\ \A c \in Clients : status[c] = "open" <=> holders[c] # {}
  /\ pc # "accept" => connfd \in Clients
  /\ pc = "fork" => child[connfd] = "none"
  /\ pc = "close" => child[connfd] # "none"

\* How a conversation will end is decided by the child that ends, or by a
\* fork that fails, and is final: a finished client sends no more.
ResultInv ==
  \A c \in Clients :
    /\ status[c] = "none" => child[c] = "none"
    /\ child[c] \in {"exit", "zombie", "reaped"} => result[c] # "none"
    /\ child[c] \in {"none", "read"} /\ status[c] = "open" => Len(echoed[c]) = rcvd[c]
    /\ child[c] = "write" => Len(echoed[c]) = rcvd[c] - 1
    /\ result[c] = "done" => shut[c] /\ Len(echoed[c]) = sent[c]

ProcessInv == PeerInv /\ ProcessTypes /\ HolderInv /\ ResultInv

(* The iterative server and its clients. *)

IterTypes ==
  /\ kind \in [Clients -> {"plain", "rio"}] /\ NL \in [Clients -> SUBSET (1..MaxSend)]
  /\ cpc \in [Clients -> {"start", "gets", "read", "closed"}] /\ got \in [Clients -> Nat]
  /\ pc \in {"accept", "read", "write", "dead"} /\ connfd \in Clients \cup {NoClient}
  /\ wbuf \in 0..MaxSend

\* One conversation at a time, with what is read and not yet written in wbuf,
\* unless the client was gone when it was written.
TurnInv ==
  /\ pc \in {"read", "write"} => connfd \in Clients
  /\ \A c \in Clients : status[c] = "open" <=> pc \in {"read", "write"} /\ connfd = c
  /\ pc # "write" => wbuf = 0
  /\ \A c \in Clients : status[c] = "open" /\ ~rst[c] => Len(echoed[c]) + wbuf = rcvd[c]

\* What a client has read and what is on the way to it is what was written.
WireAt(c) ==
  /\ got[c] + tx[c] <= Len(echoed[c])
  /\ ~shut[c] => got[c] + tx[c] = Len(echoed[c]) /\ ~rst[c]
  /\ cpc[c] # "closed" => ~shut[c]
  /\ cpc[c] = "start" => status[c] = "none" /\ ~Queued(c)

\* process_echo_client is at most one line ahead of what has come back;
\* echo_client, when it reads, has something to come.
AheadAt(c) ==
  /\ kind[c] = "rio" /\ cpc[c] \in {"start", "gets"} => got[c] = sent[c]
  /\ kind[c] = "rio" /\ cpc[c] = "read" =>
       \A k \in NL[c] : (k <= got[c] /\ k < sent[c]) \/ (sent[c] <= k /\ got[c] < k)
  /\ kind[c] = "plain" /\ cpc[c] = "read" => got[c] < sent[c]

WireInv == \A c \in Clients : WireAt(c) /\ AheadAt(c)

IterInv == PeerInv /\ IterTypes /\ TurnInv /\ WireInv

(* The helpers of net.h: between two addresses no socket is ours, while one *)
(* is tried it is the only one.                                             *)
NetInv ==
  /\ sockfd \in Nat \cup {-1}
  /\ npc \in {"client", "server", "connect", "bind", "connected", "bound", "returned"}
  /\ opened = [f \in DOMAIN opened |-> opened[f]] /\ DOMAIN opened \subseteq NetFds
  /\ npc \in {"client", "server"} => sockfd = 0 /\ plist = 0 /\ Sock!Ours = {}
  /\ npc \in {"connect", "bind"} => Sock!Ours = IF Sock!Trying THEN {sockfd} ELSE {}
  /\ npc \in {"connect", "bind"} /\ p = 0 => ~Sock!Trying
  /\ npc \in {"connected", "bound"} => Sock!Ours = {sockfd} /\ opened[sockfd] = npc
  /\ Sock!NetExact

ConnectionInv ==
  /\ server \in {"thread", "process", "iterative", "net"}
  /\ server = "thread" => ThreadInv
  /\ server = "process" => ProcessInv
  /\ server = "iterative" => IterInv
  /\ server = "net" => NetInv

Promise == [Service!ENext]_(Service!evars)
-----------------------------------------------------------------------------
(* Steps that all three servers take, and what each is to a client.        *)

\* The counts of a client are numbers.
LEMMA Counts ==
  ASSUME PeerInv, NEW c \in Clients
  PROVE  /\ sent[c] \in 0..MaxSend /\ rcvd[c] \in 0..MaxSend /\ tx[c] \in 0..SockBuf
         /\ sent[c] \in Nat /\ rcvd[c] \in Nat /\ tx[c] \in Nat
         /\ echoed[c] \in Seq(1..MaxSend) /\ Len(echoed[c]) \in Nat
         /\ Len(echoed[c]) <= rcvd[c] /\ rcvd[c] <= sent[c]
         /\ status[c] = "none" => rcvd[c] = 0 /\ Len(echoed[c]) = 0
         /\ MaxSend \in Nat /\ SockBuf \in Nat
<1>1. sent[c] \in 0..MaxSend /\ rcvd[c] \in 0..MaxSend /\ tx[c] \in 0..SockBuf
  BY DEF PeerInv, PeerTypes
<1>2. echoed[c] \in Seq(1..MaxSend) /\ MaxSend \in Nat /\ SockBuf \in Nat
  BY ThreadAssumption DEF PeerInv, PeerTypes
<1>3. Len(echoed[c]) \in Nat
  BY <1>2, LenProperties
<1>4. Len(echoed[c]) <= rcvd[c] /\ rcvd[c] <= sent[c] /\ (status[c] = "none" => rcvd[c] = 0)
  BY DEF PeerInv, CountInv
<1>5. sent[c] \in Nat /\ rcvd[c] \in Nat /\ tx[c] \in Nat
  BY <1>1, <1>2
<1>6. status[c] = "none" => Len(echoed[c]) = 0
  BY <1>3, <1>4, <1>5
<1> QED
  BY <1>1, <1>2, <1>3, <1>4, <1>5, <1>6

\* A client sends, ends or resets, or reads: the conversations stay.
LEMMA PeerMoves ==
  ASSUME PeerInv, UNCHANGED <<rcvd, status, echoed>>, PeerTypes', QueueInv',
         \A c \in Clients : sent[c] <= sent'[c]
  PROVE  PeerInv'
<1>1. \A c \in Clients : rcvd[c] <= sent'[c]
  <2> SUFFICES ASSUME NEW c \in Clients PROVE rcvd[c] <= sent'[c]
    OBVIOUS
  <2>1. sent'[c] \in 0..MaxSend /\ MaxSend \in Nat
    BY ThreadAssumption DEF PeerTypes
  <2> QED
    BY <2>1, Counts
<1> QED
  BY <1>1 DEF PeerInv, CountInv

\* A client joins the queue.
LEMMA PeerConnects ==
  ASSUME PeerInv, NEW c \in Clients, status[c] = "none", ~Queued(c),
         acceptq' = Append(acceptq, c), UNCHANGED <<sent, shut, rst, tx, rcvd, status, echoed>>
  PROVE  PeerInv' /\ Promise /\ \A d \in Clients : Queued(d)' => Queued(d) \/ d = c
<1>1. acceptq \in Seq(Clients) /\ acceptq' \in Seq(Clients)
  BY AppendProperties DEF PeerInv, PeerTypes
<1>2. PICK n \in Nat : n = Len(acceptq) /\ DOMAIN acceptq = 1..n
  BY <1>1, LenProperties
<1>3. /\ Len(acceptq') = n + 1 /\ acceptq'[n + 1] = c
      /\ \A k \in 1..n : acceptq'[k] = acceptq[k] /\ acceptq[k] # c
  BY <1>1, <1>2, AppendProperties DEF Queued
<1>4. QueueInv'
  BY <1>2, <1>3 DEF PeerInv, QueueInv
<1>5. PeerTypes'
  BY <1>1 DEF PeerInv, PeerTypes
<1>6. \A d \in Clients : sent[d] <= sent'[d]
  <2> SUFFICES ASSUME NEW d \in Clients PROVE sent[d] <= sent[d]
    OBVIOUS
  <2> QED
    BY Counts
<1>7. Promise
  BY DEF Promise, Service!evars
<1>8. ASSUME NEW d \in Clients, Queued(d)' PROVE Queued(d) \/ d = c
  <2>1. PICK k \in DOMAIN acceptq' : acceptq'[k] = d
    BY <1>8 DEF Queued
  <2>2. k \in 1..(n + 1)
    BY <1>1, <1>3, <2>1, LenProperties
  <2>3. CASE k = n + 1
    BY <1>3, <2>1, <2>3
  <2>4. CASE k # n + 1
    <3>1. k \in 1..n
      BY <2>2, <2>4
    <3> QED
      BY <1>2, <1>3, <2>1, <3>1 DEF Queued
  <2> QED
    BY <2>3, <2>4
<1> QED
  BY <1>4, <1>5, <1>6, <1>7, <1>8, PeerMoves

\* accept takes the first client of the queue.
LEMMA PeerAccepts ==
  ASSUME PeerInv, acceptq # <<>>, acceptq' = Tail(acceptq),
         status' = [status EXCEPT ![Head(acceptq)] = "open"],
         UNCHANGED <<sent, shut, rst, tx, rcvd, echoed>>
  PROVE  /\ PeerInv' /\ Promise /\ Head(acceptq) \in Clients /\ status[Head(acceptq)] = "none"
         /\ status'[Head(acceptq)] = "open" /\ Queued(Head(acceptq))
         /\ \A c \in Clients : c # Head(acceptq) => status'[c] = status[c]
         /\ \A c \in Clients : Queued(c)' => Queued(c)
<1>1. PICK h : h = Head(acceptq)
  OBVIOUS
<1>2. acceptq \in Seq(Clients) /\ status \in [Clients -> {"none", "open", "done", "aborted"}]
  BY DEF PeerInv, PeerTypes
<1>3. PICK m \in Nat :
        /\ Len(acceptq) = m + 1 /\ acceptq' \in Seq(Clients) /\ Len(acceptq') = m
        /\ \A k \in 1..m : acceptq'[k] = acceptq[k + 1]
  <2>1. PICK l \in Nat : l = Len(acceptq) /\ l # 0
    BY <1>2, EmptySeq, LenProperties
  <2>2. l - 1 \in Nat /\ l = (l - 1) + 1
    BY <2>1
  <2> QED
    BY <1>2, <2>1, <2>2, HeadTailProperties
<1>4. h = acceptq[1] /\ h \in Clients /\ status[h] = "none" /\ Queued(h)
  <2>1. h = acceptq[1] /\ h \in Clients
    BY <1>1, <1>2, HeadTailProperties
  <2>2. 1 \in 1..Len(acceptq) /\ DOMAIN acceptq = 1..Len(acceptq)
    BY <1>2, <1>3, LenProperties
  <2> QED
    BY <2>1, <2>2 DEF PeerInv, QueueInv, Queued
<1>5. status' = [status EXCEPT ![h] = "open"] /\ status'[h] = "open"
      /\ \A c \in Clients : c # h => status'[c] = status[c]
  BY <1>1, <1>2, <1>4
<1>6. PeerTypes'
  <2>1. status' \in [Clients -> {"none", "open", "done", "aborted"}]
    BY <1>2, <1>5
  <2> QED
    BY <1>3, <2>1 DEF PeerInv, PeerTypes
<1>7. QueueInv'
  <2>1. QueueInv
    BY DEF PeerInv
  <2>2. ASSUME NEW k \in 1..m
        PROVE  /\ acceptq'[k] = acceptq[k + 1] /\ k + 1 \in 1..Len(acceptq)
               /\ acceptq[k + 1] \in Clients /\ acceptq[k + 1] # h
    <3>1. acceptq'[k] = acceptq[k + 1] /\ k + 1 \in 1..Len(acceptq) /\ 1 \in 1..Len(acceptq) /\ k + 1 # 1
      BY <1>3
    <3>2. acceptq[k + 1] \in Clients
      BY <1>2, <3>1, ElementOfSeq
    <3>3. acceptq[k + 1] # h
      BY <1>4, <2>1, <3>1 DEF QueueInv
    <3> QED
      BY <3>1, <3>2, <3>3
  <2>3. ASSUME NEW k \in 1..m
        PROVE  status'[acceptq'[k]] = "none" /\ \A l \in 1..m : acceptq'[l] = acceptq'[k] => l = k
    <3>1. status'[acceptq'[k]] = "none"
      BY <1>5, <2>1, <2>2 DEF QueueInv
    <3>2. ASSUME NEW l \in 1..m, acceptq'[l] = acceptq'[k] PROVE l = k
      <4>1. l + 1 = k + 1
        BY <2>1, <2>2, <3>2 DEF QueueInv
      <4> QED
        BY <4>1
    <3> QED
      BY <3>1, <3>2
  <2> QED
    BY <1>3, <2>3 DEF QueueInv
<1>8. CountInv'
  BY <1>5 DEF PeerInv, CountInv
<1>9. Promise
  <2>1. Service!Open(h)
    BY <1>4, <1>5 DEF Service!Open
  <2> QED
    BY <1>4, <2>1 DEF Promise, Service!ENext
<1>10. ASSUME NEW c \in Clients, Queued(c)' PROVE Queued(c)
  <2>1. PICK k \in DOMAIN acceptq' : acceptq'[k] = c
    BY <1>10 DEF Queued
  <2>2. k \in 1..m
    BY <1>3, <2>1, LenProperties
  <2>3. k + 1 \in 1..(m + 1) /\ acceptq[k + 1] = c
    BY <1>3, <2>1, <2>2
  <2>4. DOMAIN acceptq = 1..(m + 1)
    BY <1>2, <1>3, LenProperties
  <2> QED
    BY <2>3, <2>4 DEF Queued
<1> QED
  BY <1>1, <1>4, <1>5, <1>6, <1>7, <1>8, <1>9, <1>10 DEF PeerInv

\* The last descriptor of a connection is closed.
LEMMA PeerCloses ==
  ASSUME PeerInv, NEW c \in Clients, status[c] = "open", NEW o \in {"done", "aborted"},
         o = "done" => shut[c] /\ Len(echoed[c]) = sent[c],
         status' = [status EXCEPT ![c] = o],
         UNCHANGED <<sent, shut, rst, acceptq, tx, rcvd, echoed>>
  PROVE  /\ PeerInv' /\ Promise /\ status'[c] = o
         /\ \A d \in Clients : d # c => status'[d] = status[d]
<1>1. acceptq \in Seq(Clients) /\ status \in [Clients -> {"none", "open", "done", "aborted"}]
  BY DEF PeerInv, PeerTypes
<1>2. status'[c] = o /\ \A d \in Clients : d # c => status'[d] = status[d]
  BY <1>1
<1>3. PeerTypes'
  <2>1. status' \in [Clients -> {"none", "open", "done", "aborted"}]
    BY <1>1
  <2> QED
    BY <2>1 DEF PeerInv, PeerTypes
<1>4. QueueInv'
  <2>1. \A k \in 1..Len(acceptq) : acceptq[k] \in Clients
    BY <1>1, ElementOfSeq
  <2> QED
    BY <1>2, <2>1 DEF PeerInv, QueueInv
<1>5. CountInv'
  BY <1>2 DEF PeerInv, CountInv
<1>6. Promise
  <2>1. CASE o = "done"
    <3>1. Service!Finish(c)
      BY <2>1 DEF Service!Finish
    <3> QED
      BY <3>1 DEF Promise, Service!ENext
  <2>2. CASE o = "aborted"
    <3>1. status' = [d \in Clients |-> IF d \in {c} THEN "aborted" ELSE status[d]]
      BY <1>1, <2>2
    <3>2. Service!Abort({c})
      BY <3>1 DEF Service!Abort
    <3> QED
      BY <3>2 DEF Promise, Service!ENext
  <2> QED
    BY <2>1, <2>2
<1> QED
  BY <1>2, <1>3, <1>4, <1>5, <1>6 DEF PeerInv

\* The server reads n units of a client's stream.
LEMMA PeerReads ==
  ASSUME PeerInv, NEW c \in Clients, status[c] = "open", NEW n \in Nat, rcvd[c] + n <= sent[c],
         rcvd' = [rcvd EXCEPT ![c] = rcvd[c] + n],
         UNCHANGED <<sent, shut, rst, acceptq, tx, status, echoed>>
  PROVE  /\ PeerInv' /\ Promise /\ rcvd'[c] = rcvd[c] + n
         /\ \A d \in Clients : d # c => rcvd'[d] = rcvd[d]
<1>1. rcvd \in [Clients -> 0..MaxSend]
  BY DEF PeerInv, PeerTypes
<1>2. rcvd[c] + n \in 0..MaxSend /\ Len(echoed[c]) <= rcvd[c] + n
  BY Counts
<1>3. rcvd'[c] = rcvd[c] + n /\ \A d \in Clients : d # c => rcvd'[d] = rcvd[d]
  BY <1>1
<1>4. PeerTypes'
  <2>1. rcvd' \in [Clients -> 0..MaxSend]
    BY <1>1, <1>2
  <2> QED
    BY <2>1 DEF PeerInv, PeerTypes
<1>5. CountInv'
  BY <1>2, <1>3 DEF PeerInv, CountInv
<1>6. QueueInv' /\ Promise
  BY DEF PeerInv, QueueInv, Promise, Service!evars
<1> QED
  BY <1>3, <1>4, <1>5, <1>6 DEF PeerInv

\* write takes the next n units of what was read.
LEMMA PeerWrites ==
  ASSUME PeerInv, NEW c \in Clients, status[c] = "open", NEW n \in Nat \ {0},
         Len(echoed[c]) + n <= rcvd[c],
         echoed' = [echoed EXCEPT ![c] = echoed[c] \o [i \in 1..n |-> Len(echoed[c]) + i]],
         tx' \in [Clients -> 0..SockBuf],
         UNCHANGED <<sent, shut, rst, acceptq, rcvd, status>>
  PROVE  /\ PeerInv' /\ Promise /\ Len(echoed'[c]) = Len(echoed[c]) + n
         /\ \A d \in Clients : d # c => echoed'[d] = echoed[d]
<1>1. echoed \in [Clients -> Seq(1..MaxSend)]
  BY DEF PeerInv, PeerTypes
<1>2. PICK b \in Nat : b = Len(echoed[c])
  BY Counts
<1>3. b + n <= rcvd[c] /\ rcvd[c] \in 0..MaxSend /\ MaxSend \in Nat /\ b + n <= sent[c]
  BY <1>2, Counts
<1>4. PICK s : s = [i \in 1..n |-> b + i]
  OBVIOUS
<1>5. s \in Seq(1..MaxSend) /\ Len(s) = n
  <2>1. \A i \in 1..n : b + i \in 1..MaxSend
    BY <1>3, SMTT(40)
  <2>2. s \in [1..n -> 1..MaxSend]
    BY <1>4, <2>1
  <2> QED
    BY <2>2, FunctionIsSeq
<1>6. echoed' = [echoed EXCEPT ![c] = echoed[c] \o s]
  BY <1>2, <1>4
<1>7. echoed[c] \o s \in Seq(1..MaxSend) /\ Len(echoed[c] \o s) = b + n
  <2>1. echoed[c] \in Seq(1..MaxSend)
    BY Counts
  <2> QED
    BY <1>2, <1>5, <2>1, ConcatProperties
<1>8. /\ echoed' \in [Clients -> Seq(1..MaxSend)] /\ echoed'[c] = echoed[c] \o s
      /\ \A d \in Clients : d # c => echoed'[d] = echoed[d]
  BY <1>1, <1>6, <1>7
<1>9. PeerTypes'
  BY <1>8 DEF PeerInv, PeerTypes
<1>10. CountInv'
  BY <1>3, <1>7, <1>8 DEF PeerInv, CountInv
<1>11. QueueInv'
  BY DEF PeerInv, QueueInv
<1>12. Promise
  <2>1. n \in 1..(sent[c] - Len(echoed[c]))
    BY <1>2, <1>3, Counts
  <2>2. Service!Echo(c)
    BY <2>1 DEF Service!Echo
  <2> QED
    BY <2>2 DEF Promise, Service!ENext
<1> QED
  BY <1>2, <1>7, <1>8, <1>9, <1>10, <1>11, <1>12 DEF PeerInv

\* What a client of the thread or the process server may do at any time.
ClientActs(c) ==
  \/ /\ status[c] = "none" /\ ~Queued(c)
     /\ acceptq' = Append(acceptq, c) /\ UNCHANGED <<sent, shut, rst, tx>>
  \/ /\ ~shut[c] /\ sent[c] < MaxSend
     /\ sent' = [sent EXCEPT ![c] = sent[c] + 1] /\ UNCHANGED <<shut, rst, acceptq, tx>>
  \/ ~shut[c] /\ shut' = [shut EXCEPT ![c] = TRUE] /\ UNCHANGED <<sent, rst, acceptq, tx>>
  \/ /\ rst' = [rst EXCEPT ![c] = TRUE] /\ tx' = [tx EXCEPT ![c] = 0]
     /\ UNCHANGED <<sent, shut, acceptq>>
  \/ tx[c] > 0 /\ tx' = [tx EXCEPT ![c] = tx[c] - 1] /\ UNCHANGED <<sent, shut, rst, acceptq>>

LEMMA PeerActs ==
  ASSUME PeerInv, NEW c \in Clients, ClientActs(c), UNCHANGED <<rcvd, status, echoed>>
  PROVE  PeerInv' /\ Promise /\ \A d \in Clients : shut[d] => shut'[d] /\ sent'[d] = sent[d]
<1>1. /\ PeerTypes /\ QueueInv /\ sent \in [Clients -> 0..MaxSend] /\ tx \in [Clients -> 0..SockBuf]
      /\ shut \in [Clients -> BOOLEAN] /\ rst \in [Clients -> BOOLEAN]
      /\ MaxSend \in Nat /\ SockBuf \in Nat
  BY ThreadAssumption DEF PeerInv, PeerTypes
<1>2. \A d \in Clients : sent[d] \in Nat /\ sent[d] <= sent[d]
  BY <1>1
<1>3. UNCHANGED acceptq => QueueInv'
  BY <1>1 DEF QueueInv
<1>4. CASE status[c] = "none" /\ ~Queued(c)
           /\ acceptq' = Append(acceptq, c) /\ UNCHANGED <<sent, shut, rst, tx>>
  BY <1>4, PeerConnects
<1>5. CASE /\ ~shut[c] /\ sent[c] < MaxSend
           /\ sent' = [sent EXCEPT ![c] = sent[c] + 1] /\ UNCHANGED <<shut, rst, acceptq, tx>>
  <2>1. sent[c] + 1 \in 0..MaxSend /\ sent[c] + 1 > sent[c] /\ sent[c] <= sent[c] + 1
    BY <1>1, <1>5
  <2>2. /\ sent' \in [Clients -> 0..MaxSend] /\ sent'[c] = sent[c] + 1
        /\ \A d \in Clients : d # c => sent'[d] = sent[d]
    BY <1>1, <1>5, <2>1
  <2>3. PeerInv'
    <3>1. PeerTypes'
      BY <1>1, <1>5, <2>2 DEF PeerTypes
    <3>2. \A d \in Clients : sent[d] <= sent'[d]
      BY <1>2, <2>1, <2>2
    <3> QED
      BY <1>3, <1>5, <3>1, <3>2, PeerMoves
  <2>4. Service!ClientSends(c)
    <3>1. sent' = [sent EXCEPT ![c] = sent'[c]]
      BY <1>5, <2>2
    <3> QED
      BY <1>5, <2>1, <2>2, <3>1 DEF Service!ClientSends
  <2>5. Promise
    BY <2>4 DEF Promise, Service!ENext
  <2>6. \A d \in Clients : shut[d] => shut'[d] /\ sent'[d] = sent[d]
    BY <1>5, <2>2
  <2> QED
    BY <2>3, <2>5, <2>6
<1>6. CASE ~shut[c] /\ shut' = [shut EXCEPT ![c] = TRUE] /\ UNCHANGED <<sent, rst, acceptq, tx>>
  <2>1. shut' \in [Clients -> BOOLEAN] /\ \A d \in Clients : shut[d] => shut'[d]
    BY <1>1, <1>6
  <2>2. PeerTypes'
    BY <1>1, <1>6, <2>1 DEF PeerTypes
  <2>3. PeerInv'
    BY <1>2, <1>3, <1>6, <2>2, PeerMoves
  <2>4. Service!ClientEnds(c)
    BY <1>6 DEF Service!ClientEnds
  <2>5. Promise
    BY <2>4 DEF Promise, Service!ENext
  <2> QED
    BY <1>6, <2>1, <2>3, <2>5
<1>7. CASE /\ rst' = [rst EXCEPT ![c] = TRUE] /\ tx' = [tx EXCEPT ![c] = 0]
           /\ UNCHANGED <<sent, shut, acceptq>>
  <2>1. rst' \in [Clients -> BOOLEAN]
    BY <1>1, <1>7
  <2>2. tx' \in [Clients -> 0..SockBuf]
    BY <1>1, <1>7
  <2>3. PeerTypes'
    BY <1>1, <1>7, <2>1, <2>2 DEF PeerTypes
  <2>4. PeerInv'
    BY <1>2, <1>3, <1>7, <2>3, PeerMoves
  <2>5. Promise
    BY <1>7 DEF Promise, Service!evars
  <2> QED
    BY <1>7, <2>4, <2>5
<1>8. CASE tx[c] > 0 /\ tx' = [tx EXCEPT ![c] = tx[c] - 1] /\ UNCHANGED <<sent, shut, rst, acceptq>>
  <2>1. tx[c] - 1 \in 0..SockBuf
    BY <1>1, <1>8
  <2>2. tx' \in [Clients -> 0..SockBuf]
    BY <1>1, <1>8, <2>1
  <2>3. PeerTypes'
    BY <1>1, <1>8, <2>2 DEF PeerTypes
  <2>4. PeerInv'
    BY <1>2, <1>3, <1>8, <2>3, PeerMoves
  <2>5. Promise
    BY <1>8 DEF Promise, Service!evars
  <2> QED
    BY <1>8, <2>4, <2>5
<1> QED
  BY <1>4, <1>5, <1>6, <1>7, <1>8 DEF ClientActs

\* At the start nobody has connected.
LEMMA PeerInit ==
  ASSUME /\ sent = [c \in Clients |-> 0] /\ rcvd = [c \in Clients |-> 0]
         /\ shut = [c \in Clients |-> FALSE] /\ rst = [c \in Clients |-> FALSE]
         /\ acceptq = <<>> /\ tx = [c \in Clients |-> 0]
         /\ status = [c \in Clients |-> "none"] /\ echoed = [c \in Clients |-> <<>>]
  PROVE  PeerInv /\ Service!EInit
<1>1. PeerTypes
  BY ThreadAssumption, EmptySeq DEF PeerTypes
<1>2. QueueInv
  BY DEF QueueInv
<1>3. CountInv
  BY EmptySeq DEF CountInv
<1>4. Service!EInit
  BY DEF Service!EInit
<1> QED
  BY <1>1, <1>2, <1>3, <1>4 DEF PeerInv
-----------------------------------------------------------------------------
(* The thread server. *)

LEMMA ThreadParts ==
  ASSUME ThreadInv
  PROVE  /\ PeerInv /\ ThreadTypes /\ HoldInv /\ CellInv /\ ConnInv /\ LineInv
         /\ fdtab \in [Fds -> Clients \cup {NoClient}] /\ heap \in [Cells -> Fds \cup {0}]
         /\ wpc \in [Threads -> {"none", "start", "read", "write"}]
         /\ warg \in [Threads -> Cells \cup {NoCell}] /\ wfd \in [Threads -> Fds \cup {0}]
         /\ wline \in [Threads -> 0..MaxSend]
         /\ NoClient \notin Clients /\ NoCell \notin Cells /\ Fds \subseteq Nat /\ 0 \notin Fds
  BY ThreadAssumption DEF ThreadInv, ThreadTypes

\* A thread that is busy, and main when it has a descriptor, is about a client.
LEMMA ThreadConn ==
  ASSUME ThreadInv
  PROVE  /\ \A w \in Threads : Busy(w) =>
              /\ FdOf(w) \in Fds /\ ConnOf(w) \in Clients /\ status[ConnOf(w)] = "open"
         /\ MainHolds => /\ connfd \in Fds /\ fdtab[connfd] \in Clients /\ status[fdtab[connfd]] = "open"
<1>1. HoldInv /\ ConnInv /\ fdtab \in [Fds -> Clients \cup {NoClient}]
  BY ThreadParts
<1>2. \A f \in Fds : fdtab[f] # NoClient => fdtab[f] \in Clients /\ status[fdtab[f]] = "open"
  BY <1>1 DEF ConnInv
<1> QED
  BY <1>1, <1>2 DEF HoldInv, ConnOf

\* Clients act: no thread is concerned.
LEMMA ThreadActs ==
  ASSUME ThreadInv, NEW c \in Clients, ClientActs(c),
         UNCHANGED <<pc, connfd, connfdp, workerVars, rcvd, fdtab, heap, status, echoed>>
  PROVE  ThreadInv' /\ Promise
<1> USE DEF workerVars
<1>1. PeerInv' /\ Promise
  BY PeerActs, ThreadParts
<1>2. ThreadTypes'
  BY ThreadParts DEF ThreadTypes
<1>3. (\A w \in Threads : (Busy(w)' <=> Busy(w)) /\ FdOf(w)' = FdOf(w) /\ ConnOf(w)' = ConnOf(w))
      /\ (MainHolds' <=> MainHolds)
  BY DEF Busy, FdOf, ConnOf, MainHolds
<1>4. HoldInv'
  BY <1>3, ThreadParts DEF HoldInv
<1>5. CellInv' /\ ConnInv'
  BY ThreadParts DEF CellInv, ConnInv
<1>6. LineInv'
  BY <1>3, ThreadParts DEF LineInv
<1> QED
  BY <1>1, <1>2, <1>4, <1>5, <1>6 DEF ThreadInv

\* accept: the number was free, so nobody holds it.
LEMMA ThreadAccepts ==
  ASSUME ThreadInv, Accept
  PROVE  ThreadInv' /\ Promise
<1> USE DEF workerVars, clientVars
<1>1. PICK h : h = Head(acceptq)
  OBVIOUS
<1>2. PICK n \in Fds : /\ fdtab[n] = NoClient /\ connfd' = n /\ fdtab' = [fdtab EXCEPT ![n] = h]
  <2> DEFINE free == {f \in Fds : fdtab[f] = NoClient}
  <2>1. free # {} /\ connfd' = Min(free) /\ fdtab' = [fdtab EXCEPT ![Min(free)] = h]
    BY <1>1 DEF Accept
  <2>2. free \subseteq Nat
    BY ThreadParts
  <2>3. Min(free) \in free
    <3> HIDE DEF free
    <3> QED
      BY <2>1, <2>2, MinIsLeast
  <2> QED
    BY <2>1, <2>3
<1>3. /\ pc = "accept" /\ pc' = "malloc" /\ acceptq # <<>> /\ acceptq' = Tail(acceptq)
      /\ status' = [status EXCEPT ![h] = "open"]
      /\ UNCHANGED <<sent, shut, rst, connfdp, wpc, warg, wfd, wline, tx, rcvd, heap, echoed>>
  BY <1>1 DEF Accept
<1>4. /\ PeerInv' /\ Promise /\ h \in Clients /\ status[h] = "none" /\ status'[h] = "open"
      /\ \A c \in Clients : c # h => status'[c] = status[c]
  BY <1>1, <1>3, PeerAccepts, ThreadParts
<1>5. /\ fdtab' \in [Fds -> Clients \cup {NoClient}] /\ fdtab'[n] = h
      /\ \A f \in Fds : f # n => fdtab'[f] = fdtab[f]
  BY <1>2, <1>4, ThreadParts
<1>6. ThreadTypes'
  BY <1>2, <1>3, <1>5, ThreadParts DEF ThreadTypes
<1>7. /\ \A w \in Threads : (Busy(w)' <=> Busy(w)) /\ FdOf(w)' = FdOf(w)
      /\ MainHolds' /\ ~MainHolds
  BY <1>3 DEF Busy, FdOf, MainHolds
<1>8. \A w \in Threads : Busy(w) =>
        FdOf(w) \in Fds /\ FdOf(w) # n /\ ConnOf(w)' = ConnOf(w) /\ ConnOf(w) \in Clients
  <2> SUFFICES ASSUME NEW w \in Threads, Busy(w)
               PROVE  FdOf(w) \in Fds /\ FdOf(w) # n /\ ConnOf(w)' = ConnOf(w) /\ ConnOf(w) \in Clients
    OBVIOUS
  <2>1. FdOf(w) \in Fds /\ FdOf(w) # n
    BY <1>2, ThreadParts DEF HoldInv
  <2>2. ConnOf(w)' = fdtab'[FdOf(w)] /\ ConnOf(w) = fdtab[FdOf(w)]
    BY <1>7 DEF ConnOf
  <2> QED
    BY <1>5, <2>1, <2>2, ThreadConn
<1>9. HoldInv'
  <2>1. \A w \in Threads : Busy(w)' =>
          FdOf(w)' \in Fds /\ fdtab'[FdOf(w)'] # NoClient /\ (MainHolds' => FdOf(w)' # connfd')
    BY <1>2, <1>5, <1>7, <1>8, ThreadParts DEF HoldInv
  <2>2. connfd' \in Fds /\ fdtab'[connfd'] # NoClient
    BY <1>2, <1>4, <1>5, ThreadParts
  <2>3. \A v, w \in Threads : Busy(v)' /\ Busy(w)' /\ FdOf(v)' = FdOf(w)' => v = w
    BY <1>7, ThreadParts DEF HoldInv
  <2>4. \A f \in Fds : fdtab'[f] # NoClient =>
          (MainHolds' /\ connfd' = f) \/ \E w \in Threads : Busy(w)' /\ FdOf(w)' = f
    BY <1>2, <1>5, <1>7, ThreadParts DEF HoldInv
  <2> QED
    BY <2>1, <2>2, <2>3, <2>4 DEF HoldInv
<1>10. CellInv'
  BY <1>3, ThreadParts DEF CellInv
<1>11. ConnInv'
  BY <1>4, <1>5, ThreadParts DEF ConnInv
<1>12. LineInv'
  <2>1. Len(echoed[h]) = rcvd[h]
    BY <1>4, Counts, ThreadParts
  <2>2. fdtab'[connfd'] = h
    BY <1>2, <1>5
  <2>3. \A w \in Threads : wpc[w] = "write" => Busy(w)
    BY DEF Busy
  <2> QED
    BY <1>3, <1>7, <1>8, <2>1, <2>2, <2>3, ThreadParts DEF LineInv
<1> QED
  BY <1>4, <1>6, <1>9, <1>10, <1>11, <1>12 DEF ThreadInv

\* malloc: the cell was free, so no thread has it for its argument.
LEMMA ThreadMallocs ==
  ASSUME ThreadInv, Malloc
  PROVE  ThreadInv' /\ Promise
<1> USE DEF workerVars, clientVars
<1>1. PICK x \in Cells : heap[x] = 0 /\ heap' = [heap EXCEPT ![x] = connfd] /\ connfdp' = x
  BY DEF Malloc
<1>2. /\ pc = "malloc" /\ pc' = "create"
      /\ UNCHANGED <<sent, shut, rst, acceptq, connfd, wpc, warg, wfd, wline, tx, rcvd, fdtab, status, echoed>>
  BY DEF Malloc
<1>3. MainHolds /\ MainHolds' /\ connfd \in Fds /\ connfd # 0
  BY <1>2, ThreadParts DEF MainHolds, HoldInv
<1>4. /\ heap' \in [Cells -> Fds \cup {0}] /\ heap'[x] = connfd
      /\ \A y \in Cells : y # x => heap'[y] = heap[y]
  BY <1>1, <1>3, ThreadParts
<1>5. \A w \in Threads : wpc[w] = "start" => warg[w] \in Cells /\ warg[w] # x
  BY <1>1, ThreadParts DEF CellInv
<1>6. \A w \in Threads : (Busy(w)' <=> Busy(w)) /\ FdOf(w)' = FdOf(w) /\ ConnOf(w)' = ConnOf(w)
  <2>1. \A w \in Threads : (Busy(w)' <=> Busy(w)) /\ FdOf(w)' = FdOf(w)
    BY <1>2, <1>4, <1>5 DEF Busy, FdOf
  <2> QED
    BY <1>2, <2>1 DEF ConnOf
<1>7. PeerInv' /\ Promise
  BY <1>2, ThreadParts DEF PeerInv, PeerTypes, QueueInv, CountInv, Promise, Service!evars
<1>8. ThreadTypes'
  BY <1>1, <1>2, <1>4, ThreadParts DEF ThreadTypes
<1>9. HoldInv'
  BY <1>2, <1>3, <1>6, ThreadParts DEF HoldInv
<1>10. CellInv'
  BY <1>1, <1>2, <1>3, <1>4, <1>5, ThreadParts DEF CellInv
<1>11. ConnInv'
  BY <1>2, ThreadParts DEF ConnInv
<1>12. LineInv'
  BY <1>2, <1>3, <1>6, ThreadParts DEF LineInv
<1> QED
  BY <1>7, <1>8, <1>9, <1>10, <1>11, <1>12 DEF ThreadInv

\* pthread_create: the descriptor goes from main to the thread with its cell.
LEMMA ThreadCreates ==
  ASSUME ThreadInv, PthreadCreate
  PROVE  ThreadInv' /\ Promise
<1> USE DEF workerVars, clientVars
<1>1. PICK u \in Threads : /\ wpc[u] = "none" /\ wpc' = [wpc EXCEPT ![u] = "start"]
                           /\ warg' = [warg EXCEPT ![u] = connfdp]
  BY DEF PthreadCreate
<1>2. /\ pc = "create" /\ pc' = "accept"
      /\ UNCHANGED <<sent, shut, rst, acceptq, connfd, connfdp, wfd, wline, tx, rcvd, fdtab, heap, status, echoed>>
  BY DEF PthreadCreate
<1>3. /\ MainHolds /\ ~MainHolds' /\ connfd \in Fds /\ connfdp \in Cells /\ heap[connfdp] = connfd
      /\ connfd # 0
  BY <1>2, ThreadParts DEF MainHolds, HoldInv, CellInv
<1>4. /\ wpc' \in [Threads -> {"none", "start", "read", "write"}]
      /\ warg' \in [Threads -> Cells \cup {NoCell}]
      /\ wpc'[u] = "start" /\ warg'[u] = connfdp
      /\ \A w \in Threads : w # u => wpc'[w] = wpc[w] /\ warg'[w] = warg[w]
  BY <1>1, <1>3, ThreadParts
<1>5. /\ ~Busy(u) /\ Busy(u)' /\ FdOf(u)' = connfd /\ ConnOf(u)' = fdtab[connfd]
      /\ \A w \in Threads : w # u =>
           (Busy(w)' <=> Busy(w)) /\ FdOf(w)' = FdOf(w) /\ ConnOf(w)' = ConnOf(w)
  BY <1>1, <1>2, <1>3, <1>4 DEF Busy, FdOf, ConnOf
<1>6. PeerInv' /\ Promise
  BY <1>2, ThreadParts DEF PeerInv, PeerTypes, QueueInv, CountInv, Promise, Service!evars
<1>7. ThreadTypes'
  BY <1>2, <1>4, ThreadParts DEF ThreadTypes
<1>8. HoldInv'
  <2>1. HoldInv
    BY ThreadParts
  <2>2. \A w \in Threads : Busy(w)' =>
          FdOf(w)' \in Fds /\ fdtab'[FdOf(w)'] # NoClient /\ (MainHolds' => FdOf(w)' # connfd')
    BY <1>2, <1>3, <1>5, <2>1 DEF HoldInv
  <2>3. \A v, w \in Threads : Busy(v)' /\ Busy(w)' /\ FdOf(v)' = FdOf(w)' => v = w
    BY <1>3, <1>5, <2>1 DEF HoldInv
  <2>4. \A f \in Fds : fdtab'[f] # NoClient =>
          (MainHolds' /\ connfd' = f) \/ \E w \in Threads : Busy(w)' /\ FdOf(w)' = f
    BY <1>2, <1>3, <1>5, <2>1 DEF HoldInv
  <2> QED
    BY <1>3, <2>2, <2>3, <2>4 DEF HoldInv
<1>9. CellInv'
  <2>1. \A w \in Threads : wpc[w] = "start" => w # u /\ warg[w] # connfdp
    BY <1>1, <1>2, ThreadParts DEF CellInv
  <2> QED
    BY <1>2, <1>3, <1>4, <2>1, ThreadParts DEF CellInv
<1>10. ConnInv'
  BY <1>2, ThreadParts DEF ConnInv
<1>11. LineInv'
  <2>1. Len(echoed[fdtab[connfd]]) = rcvd[fdtab[connfd]]
    BY <1>3, ThreadParts DEF LineInv
  <2>2. LineInv
    BY ThreadParts
  <2>3. ASSUME NEW w \in Threads, Busy(w)'
        PROVE  Len(echoed'[ConnOf(w)']) = IF wpc'[w] = "write" THEN rcvd'[ConnOf(w)'] - 1 ELSE rcvd'[ConnOf(w)']
    <3>1. CASE w = u
      BY <1>2, <1>4, <1>5, <2>1, <3>1
    <3>2. CASE w # u
      BY <1>2, <1>4, <1>5, <2>2, <2>3, <3>2 DEF LineInv
    <3> QED
      BY <3>1, <3>2
  <2>4. ASSUME NEW w \in Threads, wpc'[w] = "write" PROVE wline'[w] = rcvd'[ConnOf(w)']
    BY <1>2, <1>4, <1>5, <2>2, <2>4 DEF LineInv
  <2> QED
    BY <1>3, <2>3, <2>4 DEF LineInv
<1> QED
  BY <1>6, <1>7, <1>8, <1>9, <1>10, <1>11 DEF ThreadInv

\* malloc or pthread_create fails: main closes what it had accepted, and gives
\* back the cell if it has one.
LEMMA MainDrops ==
  ASSUME ThreadInv, MainHolds, pc' = "accept", Close(connfd, "aborted"),
         heap' = IF pc = "create" THEN freed(connfdp) ELSE heap,
         UNCHANGED <<sent, shut, rst, acceptq, connfd, connfdp, wpc, warg, wfd, wline, tx, rcvd, echoed>>
  PROVE  ThreadInv' /\ Promise
<1>1. PICK c \in Clients : c = fdtab[connfd] /\ status[c] = "open" /\ connfd \in Fds
  BY ThreadConn
<1>2. status' = [status EXCEPT ![c] = "aborted"] /\ fdtab' = [fdtab EXCEPT ![connfd] = NoClient]
  BY <1>1 DEF Close
<1>3. PeerInv' /\ Promise /\ \A d \in Clients : d # c => status'[d] = status[d]
  BY <1>1, <1>2, PeerCloses, ThreadParts
<1>4. /\ fdtab' \in [Fds -> Clients \cup {NoClient}] /\ fdtab'[connfd] = NoClient
      /\ \A f \in Fds : f # connfd => fdtab'[f] = fdtab[f]
  BY <1>1, <1>2, ThreadParts
<1>5. /\ heap' \in [Cells -> Fds \cup {0}]
      /\ \A x \in Cells : ~(pc = "create" /\ connfdp = x) => heap'[x] = heap[x]
      /\ \A x \in Cells : heap'[x] # 0 => heap[x] # 0 /\ ~(pc = "create" /\ connfdp = x)
  BY ThreadParts DEF freed, CellInv
<1>6. \A w \in Threads : wpc[w] = "start" => heap'[warg[w]] = heap[warg[w]] /\ warg[w] \in Cells
  BY <1>5, ThreadParts DEF CellInv
<1>7. /\ \A w \in Threads : (Busy(w)' <=> Busy(w)) /\ FdOf(w)' = FdOf(w)
      /\ ~MainHolds' /\ pc' # "create"
  BY <1>6 DEF Busy, FdOf, MainHolds
<1>8. \A w \in Threads : Busy(w) =>
        FdOf(w) \in Fds /\ FdOf(w) # connfd /\ fdtab[FdOf(w)] # NoClient /\ ConnOf(w)' = ConnOf(w)
  <2> SUFFICES ASSUME NEW w \in Threads, Busy(w)
               PROVE  FdOf(w) \in Fds /\ FdOf(w) # connfd /\ fdtab[FdOf(w)] # NoClient /\ ConnOf(w)' = ConnOf(w)
    OBVIOUS
  <2>1. FdOf(w) \in Fds /\ FdOf(w) # connfd /\ fdtab[FdOf(w)] # NoClient
    BY ThreadParts DEF HoldInv
  <2> QED
    BY <1>4, <1>7, <2>1 DEF ConnOf
<1>9. ThreadTypes'
  BY <1>4, <1>5, ThreadParts DEF ThreadTypes
<1>10. HoldInv'
  <2>1. HoldInv
    BY ThreadParts
  <2>2. \A w \in Threads : Busy(w)' => FdOf(w)' \in Fds /\ fdtab'[FdOf(w)'] # NoClient
    BY <1>4, <1>7, <1>8
  <2>3. \A v, w \in Threads : Busy(v)' /\ Busy(w)' /\ FdOf(v)' = FdOf(w)' => v = w
    BY <1>7, <2>1 DEF HoldInv
  <2>4. \A f \in Fds : fdtab'[f] # NoClient => \E w \in Threads : Busy(w)' /\ FdOf(w)' = f
    BY <1>4, <1>7, <2>1 DEF HoldInv
  <2> QED
    BY <1>7, <2>2, <2>3, <2>4 DEF HoldInv
<1>11. CellInv'
  BY <1>5, <1>6, <1>7, ThreadParts DEF CellInv
<1>12. ConnInv'
  BY <1>1, <1>3, <1>4, ThreadParts DEF ConnInv
<1>13. LineInv'
  <2>1. \A w \in Threads : wpc[w] = "write" => Busy(w)
    BY DEF Busy
  <2> QED
    BY <1>7, <1>8, <2>1, ThreadParts DEF LineInv
<1> QED
  BY <1>3, <1>9, <1>10, <1>11, <1>12, <1>13 DEF ThreadInv

LEMMA ThreadFails ==
  ASSUME ThreadInv, MallocFails \/ CreateFails
  PROVE  ThreadInv' /\ Promise
<1> USE DEF clientVars, workerVars
<1>1. CASE MallocFails
  <2>1. MainHolds /\ pc # "create"
    BY <1>1 DEF MallocFails, MainHolds
  <2> QED
    BY <1>1, <2>1, MainDrops DEF MallocFails
<1>2. CASE CreateFails
  <2>1. MainHolds /\ pc = "create"
    BY <1>2 DEF CreateFails, MainHolds
  <2> QED
    BY <1>2, <2>1, MainDrops DEF CreateFails
<1> QED
  BY <1>1, <1>2

\* A thread takes its descriptor out of the cell and frees the cell.
LEMMA ThreadStarts ==
  ASSUME ThreadInv, NEW u \in Threads, Start(u)
  PROVE  ThreadInv' /\ Promise
<1> USE DEF clientVars, mainVars
<1>1. PICK x \in Cells : x = warg[u] /\ heap[x] # 0 /\ (pc = "create" => x # connfdp)
  BY ThreadParts DEF Start, CellInv
<1>2. /\ wpc[u] = "start" /\ wfd' = [wfd EXCEPT ![u] = heap[x]] /\ heap' = [heap EXCEPT ![x] = 0]
      /\ warg' = [warg EXCEPT ![u] = NoCell] /\ wpc' = [wpc EXCEPT ![u] = "read"]
      /\ UNCHANGED <<sent, shut, rst, acceptq, pc, connfd, connfdp, wline, tx, rcvd, fdtab, status, echoed>>
  BY <1>1 DEF Start, argument
<1>3. /\ heap' \in [Cells -> Fds \cup {0}] /\ heap'[x] = 0 /\ heap[x] \in Fds
      /\ \A y \in Cells : y # x => heap'[y] = heap[y]
  BY <1>1, <1>2, ThreadParts
<1>4. /\ wpc' \in [Threads -> {"none", "start", "read", "write"}]
      /\ warg' \in [Threads -> Cells \cup {NoCell}] /\ wfd' \in [Threads -> Fds \cup {0}]
      /\ wpc'[u] = "read" /\ wfd'[u] = heap[x]
      /\ \A w \in Threads : w # u => wpc'[w] = wpc[w] /\ warg'[w] = warg[w] /\ wfd'[w] = wfd[w]
  BY <1>2, <1>3, ThreadParts
<1>5. \A w \in Threads : w # u /\ wpc[w] = "start" => warg[w] \in Cells /\ warg[w] # x
  BY <1>1, <1>2, ThreadParts DEF CellInv
<1>6. \A w \in Threads : (Busy(w)' <=> Busy(w)) /\ FdOf(w)' = FdOf(w) /\ ConnOf(w)' = ConnOf(w)
  <2> SUFFICES ASSUME NEW w \in Threads
               PROVE  (Busy(w)' <=> Busy(w)) /\ FdOf(w)' = FdOf(w)
    BY <1>2 DEF ConnOf
  <2>1. CASE w = u
    BY <1>1, <1>2, <1>4, <2>1 DEF Busy, FdOf
  <2>2. CASE w # u
    BY <1>3, <1>4, <1>5, <2>2 DEF Busy, FdOf
  <2> QED
    BY <2>1, <2>2
<1>7. PeerInv' /\ Promise /\ (MainHolds' <=> MainHolds)
  BY <1>2, ThreadParts DEF PeerInv, PeerTypes, QueueInv, CountInv, Promise, Service!evars, MainHolds
<1>8. ThreadTypes'
  BY <1>2, <1>3, <1>4, ThreadParts DEF ThreadTypes
<1>9. HoldInv'
  BY <1>2, <1>6, <1>7, ThreadParts DEF HoldInv
<1>10. CellInv'
  <2>1. CellInv
    BY ThreadParts
  <2>2. \A w \in Threads : wpc'[w] = "start" => w # u /\ wpc[w] = "start" /\ warg'[w] = warg[w]
    BY <1>4
  <2>3. \A w \in Threads : wpc'[w] = "start" =>
          warg'[w] \in Cells /\ heap'[warg'[w]] # 0 /\ (pc' = "create" => warg'[w] # connfdp')
    BY <1>2, <1>3, <1>5, <2>1, <2>2 DEF CellInv
  <2>4. pc' = "create" => connfdp' \in Cells /\ heap'[connfdp'] = connfd'
    BY <1>1, <1>2, <1>3, <2>1 DEF CellInv
  <2>5. \A v, w \in Threads : wpc'[v] = "start" /\ wpc'[w] = "start" /\ warg'[v] = warg'[w] => v = w
    BY <2>1, <2>2 DEF CellInv
  <2>6. \A y \in Cells : heap'[y] # 0 =>
          (pc' = "create" /\ connfdp' = y) \/ \E w \in Threads : wpc'[w] = "start" /\ warg'[w] = y
    <3> SUFFICES ASSUME NEW y \in Cells, heap'[y] # 0, ~(pc' = "create" /\ connfdp' = y)
                 PROVE  \E w \in Threads : wpc'[w] = "start" /\ warg'[w] = y
      OBVIOUS
    <3>1. y # x /\ heap[y] # 0
      BY <1>3
    <3>2. PICK w \in Threads : wpc[w] = "start" /\ warg[w] = y
      BY <1>2, <2>1, <3>1 DEF CellInv
    <3>3. w # u
      BY <1>1, <3>1, <3>2
    <3> QED
      BY <1>4, <3>2, <3>3
  <2> QED
    BY <2>3, <2>4, <2>5, <2>6 DEF CellInv
<1>11. ConnInv'
  BY <1>2, ThreadParts DEF ConnInv
<1>12. LineInv'
  <2>1. LineInv /\ Busy(u)
    BY <1>2, ThreadParts DEF Busy
  <2>2. \A w \in Threads : wpc'[w] = "write" <=> wpc[w] = "write"
    BY <1>2, <1>4
  <2> QED
    BY <1>2, <1>6, <1>7, <2>1, <2>2 DEF LineInv
<1> QED
  BY <1>7, <1>8, <1>9, <1>10, <1>11, <1>12 DEF ThreadInv

\* No two flows of control have the same client.
LEMMA Apart ==
  ASSUME ThreadInv, NEW u \in Threads, Busy(u)
  PROVE  /\ \A w \in Threads : Busy(w) /\ w # u => FdOf(w) # FdOf(u) /\ ConnOf(w) # ConnOf(u)
         /\ MainHolds => connfd # FdOf(u) /\ fdtab[connfd] # ConnOf(u)
<1>1. HoldInv /\ ConnInv
  BY ThreadParts
<1> QED
  BY <1>1 DEF HoldInv, ConnInv, ConnOf

\* A thread that reads or writes: what it is at.
LEMMA ThreadServes ==
  ASSUME ThreadInv, NEW u \in Threads, wpc[u] \in {"read", "write"}
  PROVE  /\ Busy(u) /\ FdOf(u) = wfd[u] /\ ConnOf(u) = fdtab[wfd[u]]
         /\ wfd[u] \in Fds /\ fdtab[wfd[u]] \in Clients /\ status[fdtab[wfd[u]]] = "open"
<1>1. Busy(u) /\ FdOf(u) = wfd[u] /\ ConnOf(u) = fdtab[wfd[u]]
  BY DEF Busy, FdOf, ConnOf
<1> QED
  BY <1>1, ThreadConn

\* rio_readlineb returns a line.
LEMMA ThreadReads ==
  ASSUME ThreadInv, NEW u \in Threads, Read(u)
  PROVE  ThreadInv' /\ Promise
<1> USE DEF clientVars, mainVars
<1>1. PICK c \in Clients : c = fdtab[wfd[u]] /\ c = ConnOf(u) /\ status[c] = "open"
  BY ThreadServes DEF Read
<1>2. /\ wpc[u] = "read" /\ rcvd[c] < sent[c] /\ rcvd' = [rcvd EXCEPT ![c] = rcvd[c] + 1]
      /\ wline' = [wline EXCEPT ![u] = rcvd[c] + 1] /\ wpc' = [wpc EXCEPT ![u] = "write"]
      /\ UNCHANGED <<sent, shut, rst, acceptq, pc, connfd, connfdp, warg, wfd, tx, fdtab, heap, status, echoed>>
  BY <1>1 DEF Read
<1>3. rcvd[c] + 1 <= sent[c] /\ rcvd[c] + 1 \in 0..MaxSend
  BY <1>2, Counts, ThreadParts
<1>4. PeerInv' /\ Promise /\ rcvd'[c] = rcvd[c] + 1 /\ \A d \in Clients : d # c => rcvd'[d] = rcvd[d]
  BY <1>1, <1>2, <1>3, PeerReads, ThreadParts
<1>5. /\ wpc' \in [Threads -> {"none", "start", "read", "write"}] /\ wline' \in [Threads -> 0..MaxSend]
      /\ wpc'[u] = "write" /\ wline'[u] = rcvd[c] + 1
      /\ \A w \in Threads : w # u => wpc'[w] = wpc[w] /\ wline'[w] = wline[w]
  BY <1>2, <1>3, ThreadParts
<1>6. /\ \A w \in Threads : (Busy(w)' <=> Busy(w)) /\ FdOf(w)' = FdOf(w) /\ ConnOf(w)' = ConnOf(w)
      /\ \A w \in Threads : wpc'[w] = "start" <=> wpc[w] = "start"
      /\ Busy(u) /\ (MainHolds' <=> MainHolds)
  BY <1>2, <1>5 DEF Busy, FdOf, ConnOf, MainHolds
<1>7. ThreadTypes'
  BY <1>2, <1>5, ThreadParts DEF ThreadTypes
<1>8. HoldInv'
  BY <1>2, <1>6, ThreadParts DEF HoldInv
<1>9. CellInv'
  BY <1>2, <1>6, ThreadParts DEF CellInv
<1>10. ConnInv'
  BY <1>2, ThreadParts DEF ConnInv
<1>11. LineInv'
  <2>1. LineInv
    BY ThreadParts
  <2>2. ASSUME NEW w \in Threads, Busy(w)'
        PROVE  Len(echoed'[ConnOf(w)']) = IF wpc'[w] = "write" THEN rcvd'[ConnOf(w)'] - 1 ELSE rcvd'[ConnOf(w)']
    <3>1. CASE w = u
      <4>1. Len(echoed[c]) = rcvd[c] /\ rcvd[c] \in Nat
        BY <1>1, <1>2, <1>6, <2>1, Counts, ThreadParts DEF LineInv
      <4> QED
        BY <1>1, <1>2, <1>4, <1>5, <1>6, <3>1, <4>1
    <3>2. CASE w # u
      <4>1. ConnOf(w) \in Clients /\ ConnOf(w) # c
        BY <1>1, <1>6, <2>2, <3>2, Apart, ThreadConn
      <4> QED
        BY <1>2, <1>4, <1>5, <1>6, <2>1, <2>2, <3>2, <4>1 DEF LineInv
    <3> QED
      BY <3>1, <3>2
  <2>3. ASSUME NEW w \in Threads, wpc'[w] = "write" PROVE wline'[w] = rcvd'[ConnOf(w)']
    <3>1. CASE w = u
      BY <1>1, <1>4, <1>5, <1>6, <3>1
    <3>2. CASE w # u
      <4>1. wpc[w] = "write" /\ Busy(w)
        BY <1>5, <2>3, <3>2 DEF Busy
      <4>2. ConnOf(w) \in Clients /\ ConnOf(w) # c
        BY <1>1, <1>6, <3>2, <4>1, Apart, ThreadConn
      <4> QED
        BY <1>4, <1>5, <1>6, <2>1, <3>2, <4>1, <4>2 DEF LineInv
    <3> QED
      BY <3>1, <3>2
  <2>4. MainHolds' => Len(echoed'[fdtab'[connfd']]) = rcvd'[fdtab'[connfd']]
    <3> SUFFICES ASSUME MainHolds PROVE Len(echoed[fdtab[connfd]]) = rcvd'[fdtab[connfd]]
      BY <1>2, <1>6
    <3>1. fdtab[connfd] \in Clients /\ fdtab[connfd] # c
      BY <1>1, <1>6, Apart, ThreadConn
    <3> QED
      BY <1>4, <2>1, <3>1 DEF LineInv
  <2> QED
    BY <2>2, <2>3, <2>4 DEF LineInv
<1> QED
  BY <1>4, <1>7, <1>8, <1>9, <1>10, <1>11 DEF ThreadInv

\* One more number at the end.
LEMMA AppendNext ==
  ASSUME NEW S, NEW s \in Seq(S), NEW e \in S, e = Len(s) + 1
  PROVE  Append(s, e) = s \o [i \in 1..1 |-> Len(s) + i]
<1>1. [i \in 1..1 |-> Len(s) + i] = <<e>>
  BY LenProperties
<1> QED
  BY <1>1, AppendIsConcat

\* rio_writen sends the line in hand back.
LEMMA ThreadWrites ==
  ASSUME ThreadInv, NEW u \in Threads, Write(u)
  PROVE  ThreadInv' /\ Promise
<1> USE DEF clientVars, mainVars
<1>1. PICK c \in Clients : c = fdtab[wfd[u]] /\ c = ConnOf(u) /\ status[c] = "open"
  BY ThreadServes DEF Write
<1>2. /\ wpc[u] = "write" /\ tx[c] < SockBuf /\ tx' = [tx EXCEPT ![c] = tx[c] + 1]
      /\ echoed' = [echoed EXCEPT ![c] = Append(echoed[c], wline[u])]
      /\ wline' = [wline EXCEPT ![u] = 0] /\ wpc' = [wpc EXCEPT ![u] = "read"]
      /\ UNCHANGED <<sent, shut, rst, acceptq, pc, connfd, connfdp, warg, wfd, rcvd, fdtab, heap, status>>
  BY <1>1 DEF Write
<1>3. Busy(u) /\ Len(echoed[c]) = rcvd[c] - 1 /\ wline[u] = rcvd[c] /\ rcvd[c] \in Nat
  BY <1>1, <1>2, Counts, ThreadParts DEF LineInv, Busy
<1>4. /\ wline[u] = Len(echoed[c]) + 1 /\ Len(echoed[c]) + 1 <= rcvd[c] /\ Len(echoed[c]) \in Nat
  BY <1>3, Counts, ThreadParts
<1>5. echoed' = [echoed EXCEPT ![c] = echoed[c] \o [i \in 1..1 |-> Len(echoed[c]) + i]]
  <2>1. echoed[c] \in Seq(1..MaxSend) /\ wline[u] \in 1..MaxSend
    BY <1>3, <1>4, Counts, ThreadParts
  <2>2. Append(echoed[c], wline[u]) = echoed[c] \o [i \in 1..1 |-> Len(echoed[c]) + i]
    BY <1>4, <2>1, AppendNext
  <2> QED
    BY <1>2, <2>2
<1>6. tx' \in [Clients -> 0..SockBuf]
  <2>1. tx[c] + 1 \in 0..SockBuf
    BY <1>2, Counts, ThreadParts
  <2> QED
    BY <1>2, <2>1, ThreadParts DEF PeerInv, PeerTypes
<1>7. /\ PeerInv' /\ Promise /\ Len(echoed'[c]) = Len(echoed[c]) + 1
      /\ \A d \in Clients : d # c => echoed'[d] = echoed[d]
  <2>1. PICK n \in Nat \ {0} : n = 1
    OBVIOUS
  <2>2. /\ Len(echoed[c]) + n <= rcvd[c] /\ UNCHANGED <<sent, shut, rst, acceptq, rcvd, status>>
        /\ echoed' = [echoed EXCEPT ![c] = echoed[c] \o [i \in 1..n |-> Len(echoed[c]) + i]]
    BY <1>2, <1>4, <1>5, <2>1
  <2>3. PeerInv
    BY ThreadParts
  <2>4. /\ PeerInv' /\ Promise /\ Len(echoed'[c]) = Len(echoed[c]) + n
        /\ \A d \in Clients : d # c => echoed'[d] = echoed[d]
    BY <1>1, <1>6, <2>2, <2>3, PeerWrites, Zenon
  <2> QED
    BY <2>1, <2>4
<1>8. /\ wpc' \in [Threads -> {"none", "start", "read", "write"}] /\ wline' \in [Threads -> 0..MaxSend]
      /\ wpc'[u] = "read"
      /\ \A w \in Threads : w # u => wpc'[w] = wpc[w] /\ wline'[w] = wline[w]
  BY <1>2, ThreadAssumption, ThreadParts
<1>9. /\ \A w \in Threads : (Busy(w)' <=> Busy(w)) /\ FdOf(w)' = FdOf(w) /\ ConnOf(w)' = ConnOf(w)
      /\ \A w \in Threads : wpc'[w] = "start" <=> wpc[w] = "start"
      /\ (MainHolds' <=> MainHolds)
  BY <1>2, <1>8 DEF Busy, FdOf, ConnOf, MainHolds
<1>10. ThreadTypes'
  BY <1>2, <1>8, ThreadParts DEF ThreadTypes
<1>11. HoldInv'
  BY <1>2, <1>9, ThreadParts DEF HoldInv
<1>12. CellInv'
  BY <1>2, <1>9, ThreadParts DEF CellInv
<1>13. ConnInv'
  BY <1>2, ThreadParts DEF ConnInv
<1>14. LineInv'
  <2>1. LineInv
    BY ThreadParts
  <2>2. ASSUME NEW w \in Threads, Busy(w)'
        PROVE  Len(echoed'[ConnOf(w)']) = IF wpc'[w] = "write" THEN rcvd'[ConnOf(w)'] - 1 ELSE rcvd'[ConnOf(w)']
    <3>1. CASE w = u
      <4>1. Len(echoed'[c]) = rcvd[c]
        BY <1>3, <1>4, <1>7
      <4> QED
        BY <1>1, <1>2, <1>8, <1>9, <3>1, <4>1
    <3>2. CASE w # u
      <4>1. ConnOf(w) \in Clients /\ ConnOf(w) # c
        BY <1>1, <1>3, <1>9, <2>2, <3>2, Apart, ThreadConn
      <4> QED
        BY <1>2, <1>7, <1>8, <1>9, <2>1, <2>2, <3>2, <4>1 DEF LineInv
    <3> QED
      BY <3>1, <3>2
  <2>3. ASSUME NEW w \in Threads, wpc'[w] = "write" PROVE wline'[w] = rcvd'[ConnOf(w)']
    BY <1>2, <1>8, <1>9, <2>1, <2>3 DEF LineInv
  <2>4. MainHolds' => Len(echoed'[fdtab'[connfd']]) = rcvd'[fdtab'[connfd']]
    <3> SUFFICES ASSUME MainHolds PROVE Len(echoed'[fdtab[connfd]]) = rcvd[fdtab[connfd]]
      BY <1>2, <1>9
    <3>1. fdtab[connfd] \in Clients /\ fdtab[connfd] # c
      BY <1>1, <1>3, Apart, ThreadConn
    <3> QED
      BY <1>7, <2>1, <3>1 DEF LineInv
  <2> QED
    BY <2>2, <2>3, <2>4 DEF LineInv
<1> QED
  BY <1>7, <1>10, <1>11, <1>12, <1>13, <1>14 DEF ThreadInv

\* serve_client closes its descriptor and returns.
LEMMA ThreadFinishes ==
  ASSUME ThreadInv, NEW u \in Threads, Finish(u)
  PROVE  ThreadInv' /\ Promise
<1> USE DEF clientVars, mainVars
<1>1. PICK c \in Clients, f \in Fds :
        /\ f = wfd[u] /\ c = fdtab[f] /\ f = FdOf(u) /\ c = ConnOf(u) /\ Busy(u) /\ status[c] = "open"
  BY ThreadServes DEF Finish
<1>2. PICK o \in {"done", "aborted"} :
        /\ status' = [status EXCEPT ![c] = o] /\ fdtab' = [fdtab EXCEPT ![f] = NoClient]
        /\ o = "done" => wpc[u] = "read" /\ shut[c] /\ rcvd[c] = sent[c]
  BY <1>1 DEF Finish, Close, end_seen
<1>3. /\ wpc[u] \in {"read", "write"} /\ wpc' = [wpc EXCEPT ![u] = "none"]
      /\ wfd' = [wfd EXCEPT ![u] = 0] /\ wline' = [wline EXCEPT ![u] = 0]
      /\ UNCHANGED <<sent, shut, rst, acceptq, pc, connfd, connfdp, warg, tx, rcvd, heap, echoed>>
  BY DEF Finish
<1>4. o = "done" => shut[c] /\ Len(echoed[c]) = sent[c]
  BY <1>1, <1>2, ThreadParts DEF LineInv
<1>5. PeerInv' /\ Promise /\ \A d \in Clients : d # c => status'[d] = status[d]
  BY <1>1, <1>2, <1>3, <1>4, PeerCloses, ThreadParts
<1>6. /\ fdtab' \in [Fds -> Clients \cup {NoClient}] /\ fdtab'[f] = NoClient
      /\ \A g \in Fds : g # f => fdtab'[g] = fdtab[g]
  BY <1>2, ThreadParts
<1>7. /\ wpc' \in [Threads -> {"none", "start", "read", "write"}] /\ wline' \in [Threads -> 0..MaxSend]
      /\ wfd' \in [Threads -> Fds \cup {0}] /\ wpc'[u] = "none"
      /\ \A w \in Threads : w # u => wpc'[w] = wpc[w] /\ wline'[w] = wline[w] /\ wfd'[w] = wfd[w]
  BY <1>3, ThreadAssumption, ThreadParts
<1>8. /\ ~Busy(u)' /\ (MainHolds' <=> MainHolds)
      /\ \A w \in Threads : w # u => (Busy(w)' <=> Busy(w)) /\ FdOf(w)' = FdOf(w)
      /\ \A w \in Threads : wpc'[w] = "start" <=> wpc[w] = "start"
  BY <1>3, <1>7 DEF Busy, FdOf, MainHolds
<1>9. \A w \in Threads : w # u /\ Busy(w) => FdOf(w) \in Fds /\ FdOf(w) # f /\ ConnOf(w)' = ConnOf(w)
  <2> SUFFICES ASSUME NEW w \in Threads, w # u, Busy(w)
               PROVE  FdOf(w) \in Fds /\ FdOf(w) # f /\ ConnOf(w)' = ConnOf(w)
    OBVIOUS
  <2>1. FdOf(w) \in Fds /\ FdOf(w) # f
    BY <1>1, Apart, ThreadConn
  <2> QED
    BY <1>6, <1>8, <2>1 DEF ConnOf
<1>10. MainHolds => connfd \in Fds /\ connfd # f
  BY <1>1, Apart, ThreadConn
<1>11. ThreadTypes'
  BY <1>3, <1>6, <1>7, ThreadParts DEF ThreadTypes
<1>12. HoldInv'
  <2>1. HoldInv
    BY ThreadParts
  <2>2. \A w \in Threads : Busy(w)' =>
          FdOf(w)' \in Fds /\ fdtab'[FdOf(w)'] # NoClient /\ (MainHolds' => FdOf(w)' # connfd')
    BY <1>3, <1>6, <1>8, <1>9, <2>1 DEF HoldInv
  <2>3. MainHolds' => connfd' \in Fds /\ fdtab'[connfd'] # NoClient
    BY <1>3, <1>6, <1>8, <1>10, <2>1 DEF HoldInv
  <2>4. \A v, w \in Threads : Busy(v)' /\ Busy(w)' /\ FdOf(v)' = FdOf(w)' => v = w
    BY <1>8, <2>1 DEF HoldInv
  <2>5. \A g \in Fds : fdtab'[g] # NoClient =>
          (MainHolds' /\ connfd' = g) \/ \E w \in Threads : Busy(w)' /\ FdOf(w)' = g
    <3> SUFFICES ASSUME NEW g \in Fds, fdtab'[g] # NoClient, ~(MainHolds' /\ connfd' = g)
                 PROVE  \E w \in Threads : Busy(w)' /\ FdOf(w)' = g
      OBVIOUS
    <3>1. g # f /\ fdtab[g] # NoClient
      BY <1>6
    <3>2. PICK w \in Threads : Busy(w) /\ FdOf(w) = g
      BY <1>3, <1>8, <2>1, <3>1 DEF HoldInv
    <3> QED
      BY <1>1, <1>8, <3>1, <3>2
  <2> QED
    BY <2>2, <2>3, <2>4, <2>5 DEF HoldInv
<1>13. CellInv'
  BY <1>3, <1>8, ThreadParts DEF CellInv
<1>14. ConnInv'
  BY <1>1, <1>5, <1>6, ThreadParts DEF ConnInv
<1>15. LineInv'
  <2>1. LineInv
    BY ThreadParts
  <2>2. \A w \in Threads : Busy(w)' => w # u /\ Busy(w) /\ ConnOf(w)' = ConnOf(w)
    BY <1>8, <1>9
  <2>3. \A w \in Threads : wpc'[w] = "write" => Busy(w)'
    BY DEF Busy
  <2>4. MainHolds' => MainHolds /\ fdtab'[connfd'] = fdtab[connfd]
    BY <1>3, <1>6, <1>8, <1>10
  <2> QED
    BY <1>3, <1>7, <2>1, <2>2, <2>3, <2>4 DEF LineInv
<1> QED
  BY <1>5, <1>11, <1>12, <1>13, <1>14, <1>15 DEF ThreadInv

LEMMA ThreadInitial ==
  ASSUME Init
  PROVE  ThreadInv /\ Service!EInit
<1> USE DEF Init
<1>1. PeerInv /\ Service!EInit
  BY PeerInit
<1>2. ThreadTypes
  BY ThreadAssumption DEF ThreadTypes
<1>3. HoldInv /\ CellInv /\ ConnInv /\ LineInv
  BY DEF HoldInv, CellInv, ConnInv, LineInv, Busy, MainHolds
<1> QED
  BY <1>1, <1>2, <1>3 DEF ThreadInv

LEMMA ThreadStep ==
  ASSUME ThreadInv, Next
  PROVE  ThreadInv' /\ Promise
<1>1. CASE MainSteps
  BY <1>1, ThreadAccepts, ThreadMallocs, ThreadFails, ThreadCreates DEF MainSteps
<1>2. ASSUME NEW w \in Threads, Worker(w) PROVE ThreadInv' /\ Promise
  BY <1>2, ThreadStarts, ThreadReads, ThreadWrites, ThreadFinishes DEF Worker
<1>3. ASSUME NEW c \in Clients, Connect(c) \/ Send(c) \/ Shutdown(c) \/ Reset(c) \/ Receive(c)
      PROVE  ThreadInv' /\ Promise
  <2>1. UNCHANGED <<pc, connfd, connfdp, workerVars, rcvd, fdtab, heap, status, echoed>>
    BY <1>3 DEF Connect, Send, Shutdown, Reset, Receive, serverVars
  <2>2. ClientActs(c)
    BY <1>3 DEF Connect, Send, Shutdown, Reset, Receive, clientVars, ClientActs
  <2> QED
    BY <2>1, <2>2, ThreadActs
<1> QED
  BY <1>1, <1>2, <1>3 DEF Next

\* One owner for every descriptor, counted.
LEMMA ThreadFds ==
  ASSUME ThreadInv
  PROVE  OneOwnerPerFd
<1>1. HoldInv
  BY ThreadParts
<1>2. /\ \A w \in Running : w \in Threads /\ Busy(w) /\ FdOf(w) = wfd[w]
      /\ \A w \in Started : w \in Threads /\ Busy(w) /\ FdOf(w) = heap[warg[w]]
      /\ \A w \in Threads : Busy(w) => (w \in Running /\ w \notin Started) \/ (w \in Started /\ w \notin Running)
  BY ThreadParts DEF Running, Started, Busy, FdOf
<1>3. MainOwnsFd = IF MainHolds THEN {connfd} ELSE {}
  BY ThreadParts DEF MainOwnsFd, MainHolds, ThreadTypes
<1>4. /\ \A w \in Running : fdtab[wfd[w]] # NoClient
      /\ \A w \in Started : fdtab[heap[warg[w]]] # NoClient
      /\ \A v, w \in Running : wfd[v] = wfd[w] => v = w
  BY <1>1, <1>2 DEF HoldInv
<1>5. ASSUME NEW f \in Fds, fdtab[f] # NoClient
      PROVE  Cardinality({w \in Running : wfd[w] = f})
               + Cardinality({w \in Started : heap[warg[w]] = f})
               + Cardinality({g \in MainOwnsFd : g = f}) = 1
  <2>1. Cardinality({}) = 0 /\ \A x : Cardinality({x}) = 1
    BY FS_EmptySet, FS_Singleton
  <2>2. CASE MainHolds /\ connfd = f
    <3>1. \A w \in Threads : Busy(w) => FdOf(w) # f
      BY <1>1, <2>2 DEF HoldInv
    <3>2. {w \in Running : wfd[w] = f} = {} /\ {w \in Started : heap[warg[w]] = f} = {}
      BY <1>2, <3>1
    <3>3. {g \in MainOwnsFd : g = f} = {f}
      BY <1>3, <2>2
    <3>4. /\ Cardinality({w \in Running : wfd[w] = f}) = 0
          /\ Cardinality({w \in Started : heap[warg[w]] = f}) = 0
          /\ Cardinality({g \in MainOwnsFd : g = f}) = 1
      BY <2>1, <3>2, <3>3, Zenon
    <3> QED
      BY <3>4
  <2>3. CASE ~(MainHolds /\ connfd = f)
    <3>1. {g \in MainOwnsFd : g = f} = {}
      BY <1>3, <2>3
    <3>2. PICK u \in Threads : Busy(u) /\ FdOf(u) = f
      BY <1>1, <1>5, <2>3 DEF HoldInv
    <3>3. \A w \in Threads : Busy(w) /\ FdOf(w) = f => w = u
      BY <1>1, <3>2 DEF HoldInv
    <3>4. CASE u \in Running /\ u \notin Started
      <4>1. {w \in Running : wfd[w] = f} = {u}
        BY <1>2, <3>2, <3>3, <3>4
      <4>2. {w \in Started : heap[warg[w]] = f} = {}
        BY <1>2, <3>3, <3>4
      <4> QED
        BY <2>1, <3>1, <4>1, <4>2
    <3>5. CASE u \in Started /\ u \notin Running
      <4>1. {w \in Running : wfd[w] = f} = {}
        BY <1>2, <3>3, <3>5
      <4>2. {w \in Started : heap[warg[w]] = f} = {u}
        BY <1>2, <3>2, <3>3, <3>5
      <4> QED
        BY <2>1, <3>1, <4>1, <4>2
    <3> QED
      BY <1>2, <3>2, <3>4, <3>5
  <2> QED
    BY <2>2, <2>3
<1> QED
  BY <1>4, <1>5 DEF OneOwnerPerFd

\* One owner for every heap cell in use, none for the others.
LEMMA ThreadCells ==
  ASSUME ThreadInv
  PROVE  OneOwnerPerCell
<1>1. CellInv /\ HoldInv /\ 0 \notin Fds
  BY ThreadParts
<1>2. \A w : w \in Started <=> w \in Threads /\ wpc[w] = "start"
  BY DEF Started
<1>3. Cardinality({}) = 0 /\ \A w : Cardinality({w}) = 1
  BY FS_EmptySet, FS_Singleton
<1>4. ASSUME NEW x \in Cells
      PROVE  heap[x] # 0 <=>
               Cardinality({w \in Started : warg[w] = x})
                 + (IF pc = "create" /\ connfdp = x THEN 1 ELSE 0) = 1
  <2> DEFINE T == {w \in Started : warg[w] = x}
  <2>1. CASE heap[x] = 0
    <3>1. ~(pc = "create" /\ connfdp = x)
      BY <1>1, <2>1 DEF CellInv, HoldInv, MainHolds
    <3>2. T = {}
      BY <1>1, <1>2, <2>1 DEF CellInv
    <3> HIDE DEF T
    <3> QED
      BY <1>3, <2>1, <3>1, <3>2 DEF T
  <2>2. CASE heap[x] # 0 /\ pc = "create" /\ connfdp = x
    <3>1. T = {}
      BY <1>1, <1>2, <2>2 DEF CellInv
    <3> HIDE DEF T
    <3> QED
      BY <1>3, <2>2, <3>1 DEF T
  <2>3. CASE heap[x] # 0 /\ ~(pc = "create" /\ connfdp = x)
    <3>1. PICK u \in Threads : wpc[u] = "start" /\ warg[u] = x
      BY <1>1, <2>3 DEF CellInv
    <3>2. T = {u}
      BY <1>1, <1>2, <3>1 DEF CellInv
    <3>3. Cardinality(T) = 1
      BY <1>3, <3>2, Zenon
    <3> QED
      BY <2>3, <3>3
  <2> QED
    BY <2>1, <2>2, <2>3
<1> QED
  BY <1>4 DEF OneOwnerPerCell

LEMMA ThreadExact ==
  ASSUME ThreadInv
  PROVE  TypeOK /\ OneOwnerPerFd /\ OneOwnerPerCell
<1>1. \A w \in Threads : wpc[w] \in {"read", "write"} => wfd[w] \in Fds
  BY ThreadServes
<1>2. TypeOK
  BY <1>1, ThreadParts DEF TypeOK, ThreadTypes, PeerInv, PeerTypes
<1> QED
  BY <1>2, ThreadFds, ThreadCells
-----------------------------------------------------------------------------
(* The process server. *)

\* Nothing a client can see changes.
LEMMA PeerRests ==
  ASSUME PeerInv, UNCHANGED <<sent, shut, rst, acceptq, tx, rcvd, status, echoed>>
  PROVE  PeerInv' /\ Promise
  BY DEF PeerInv, PeerTypes, QueueInv, CountInv, Promise, Service!evars

LEMMA ProcessParts ==
  ASSUME ProcessInv
  PROVE  /\ PeerInv /\ ProcessTypes /\ HolderInv /\ ResultInv /\ NoClient \notin Clients
         /\ holders \in [Clients -> SUBSET {"parent", "child"}]
         /\ child \in [Clients -> {"none", "read", "write", "exit", "zombie", "reaped"}]
         /\ result \in [Clients -> {"none", "done", "aborted"}]
         /\ status \in [Clients -> {"none", "open", "done", "aborted"}]
  BY ThreadAssumption DEF ProcessInv, ProcessTypes, PeerInv, PeerTypes

\* Clients act: no process is concerned, and what is finished stays so.
LEMMA ProcessActs ==
  ASSUME ProcessInv, NEW c \in Clients, ClientActs(c), UNCHANGED Proc!serverVars
  PROVE  ProcessInv' /\ Promise
<1>1. UNCHANGED <<pc, connfd, pending, hpc, holders, child, rcvd, result, status, echoed>>
  BY DEF Proc!serverVars
<1>2. PeerInv' /\ Promise /\ \A d \in Clients : shut[d] => shut'[d] /\ sent'[d] = sent[d]
  BY <1>1, PeerActs, ProcessParts
<1>3. ProcessTypes' /\ HolderInv'
  BY <1>1, ProcessParts DEF ProcessTypes, HolderInv
<1>4. ResultInv'
  BY <1>1, <1>2, ProcessParts DEF ResultInv
<1> QED
  BY <1>2, <1>3, <1>4 DEF ProcessInv

LEMMA ProcessAccepts ==
  ASSUME ProcessInv, Proc!Accept
  PROVE  ProcessInv' /\ Promise
<1>1. PICK h : h = Head(acceptq)
  OBVIOUS
<1>2. /\ pc = "accept" /\ pc' = "fork" /\ acceptq # <<>> /\ acceptq' = Tail(acceptq) /\ connfd' = h
      /\ holders' = [holders EXCEPT ![h] = {"parent"}]
      /\ status' = [status EXCEPT ![h] = "open"]
      /\ UNCHANGED <<sent, shut, rst, tx, child, rcvd, result, pending, hpc, echoed>>
  BY <1>1 DEF Proc!Accept, Proc!ParentAt, Proc!clientVars
<1>3. /\ PeerInv' /\ Promise /\ h \in Clients /\ status[h] = "none" /\ status'[h] = "open"
      /\ \A c \in Clients : c # h => status'[c] = status[c]
  BY <1>1, <1>2, PeerAccepts, ProcessParts
<1>4. /\ holders' \in [Clients -> SUBSET {"parent", "child"}] /\ holders'[h] = {"parent"}
      /\ \A c \in Clients : c # h => holders'[c] = holders[c]
  BY <1>2, <1>3, ProcessParts
<1>5. child[h] = "none"
  BY <1>3, ProcessParts DEF ResultInv
<1>6. ProcessTypes'
  BY <1>2, <1>3, <1>4, ProcessParts DEF ProcessTypes
<1>7. HolderInv'
  BY <1>2, <1>3, <1>4, <1>5, ProcessParts DEF HolderInv
<1>8. ResultInv'
  <2>1. Len(echoed[h]) = rcvd[h]
    BY <1>3, Counts, ProcessParts
  <2> QED
    BY <1>2, <1>3, <1>5, <2>1, ProcessParts DEF ResultInv
<1> QED
  BY <1>3, <1>6, <1>7, <1>8 DEF ProcessInv

LEMMA ProcessForks ==
  ASSUME ProcessInv, Proc!Fork
  PROVE  ProcessInv' /\ Promise
<1>1. /\ pc = "fork" /\ pc' = "close" /\ child' = [child EXCEPT ![connfd] = "read"]
      /\ holders' = [holders EXCEPT ![connfd] = holders[connfd] \cup {"child"}]
      /\ UNCHANGED <<sent, shut, rst, acceptq, tx, connfd, rcvd, result, status, pending, hpc, echoed>>
  BY DEF Proc!Fork, Proc!ParentAt, Proc!clientVars
<1>2. /\ connfd \in Clients /\ child[connfd] = "none" /\ "parent" \in holders[connfd]
      /\ status[connfd] = "open"
  BY <1>1, ProcessParts DEF HolderInv
<1>3. /\ holders' \in [Clients -> SUBSET {"parent", "child"}]
      /\ holders'[connfd] = holders[connfd] \cup {"child"}
      /\ \A c \in Clients : c # connfd => holders'[c] = holders[c]
  BY <1>1, <1>2, ProcessParts
<1>4. /\ child' \in [Clients -> {"none", "read", "write", "exit", "zombie", "reaped"}]
      /\ child'[connfd] = "read" /\ \A c \in Clients : c # connfd => child'[c] = child[c]
  BY <1>1, <1>2, ProcessParts
<1>5. PeerInv' /\ Promise
  BY <1>1, PeerRests, ProcessParts
<1>6. ProcessTypes'
  BY <1>1, <1>3, <1>4, ProcessParts DEF ProcessTypes
<1>7. HolderInv'
  BY <1>1, <1>2, <1>3, <1>4, ProcessParts DEF HolderInv
<1>8. ResultInv'
  BY <1>1, <1>2, <1>4, ProcessParts DEF ResultInv
<1> QED
  BY <1>5, <1>6, <1>7, <1>8 DEF ProcessInv

\* One process closes its descriptor of a connection: the client sees the end
\* when it was the last.
ClosedBy(c, who, r) ==
  /\ status[c] = "open"
  /\ holders[c] \ {who} = {} => r # "none"
  /\ r = "done" => shut[c] /\ Len(echoed[c]) = sent[c]
  /\ holders' = [holders EXCEPT ![c] = holders[c] \ {who}]
  /\ result' = [result EXCEPT ![c] = r]
  /\ status' = [status EXCEPT ![c] = IF holders'[c] = {} THEN result'[c] ELSE status[c]]
  /\ UNCHANGED <<sent, shut, rst, acceptq, tx, rcvd, echoed>>

Dropped(c, who, r) ==
  /\ holders' \in [Clients -> SUBSET {"parent", "child"}] /\ holders'[c] = holders[c] \ {who}
  /\ \A d \in Clients : d # c => holders'[d] = holders[d]
  /\ result' \in [Clients -> {"none", "done", "aborted"}] /\ result'[c] = r
  /\ \A d \in Clients : d # c => result'[d] = result[d]
  /\ status'[c] = IF holders'[c] = {} THEN r ELSE "open"
  /\ \A d \in Clients : d # c => status'[d] = status[d]

LEMMA ProcessCloses ==
  ASSUME ProcessInv, NEW c \in Clients, NEW who, NEW r \in {"none", "done", "aborted"},
         ClosedBy(c, who, r)
  PROVE  PeerInv' /\ Promise /\ Dropped(c, who, r)
<1> USE DEF ClosedBy, Dropped
<1>1. holders' = [holders EXCEPT ![c] = holders[c] \ {who}] /\ result' = [result EXCEPT ![c] = r]
  OBVIOUS
<1>2. /\ holders' \in [Clients -> SUBSET {"parent", "child"}] /\ holders'[c] = holders[c] \ {who}
      /\ \A d \in Clients : d # c => holders'[d] = holders[d]
  BY <1>1, ProcessParts
<1>3. /\ result' \in [Clients -> {"none", "done", "aborted"}] /\ result'[c] = r
      /\ \A d \in Clients : d # c => result'[d] = result[d]
  BY <1>1, ProcessParts
<1>4. status' = [status EXCEPT ![c] = IF holders'[c] = {} THEN r ELSE status[c]]
  BY <1>3
<1>5. CASE holders'[c] = {}
  <2>1. status' = [status EXCEPT ![c] = r] /\ r \in {"done", "aborted"}
    BY <1>2, <1>4, <1>5
  <2>2. PeerInv' /\ Promise /\ status'[c] = r /\ \A d \in Clients : d # c => status'[d] = status[d]
    BY <2>1, PeerCloses, ProcessParts
  <2> QED
    BY <1>2, <1>3, <1>5, <2>2
<1>6. CASE holders'[c] # {}
  <2>1. status' = status
    BY <1>4, <1>6, ProcessParts
  <2>2. PeerInv' /\ Promise
    BY <2>1, PeerRests, ProcessParts
  <2> QED
    BY <1>2, <1>3, <1>6, <2>1, <2>2
<1> QED
  BY <1>5, <1>6

\* What close does in the parent: after a fork it leaves the result to the
\* child.
ParentDrops(r) ==
  /\ holders' = [holders EXCEPT ![connfd] = holders[connfd] \ {"parent"}]
  /\ result' = [result EXCEPT ![connfd] = r]
  /\ status' = [status EXCEPT ![connfd] = IF holders'[connfd] = {} THEN result'[connfd] ELSE status[connfd]]

LEMMA ParentDrop ==
  /\ Proc!ForkFails => ParentDrops("aborted")
  /\ Proc!ParentClose => ParentDrops(result[connfd])
  BY Zenon DEF Proc!ForkFails, Proc!ParentClose, Proc!CloseCopy, Proc!Close, ParentDrops

\* The parent closes the connection in hand, with the child's copy open or not.
LEMMA ParentCloses ==
  ASSUME ProcessInv, Proc!ForkFails \/ Proc!ParentClose
  PROVE  ProcessInv' /\ Promise
<1>1. PICK r : /\ ParentDrops(r)
               /\ (pc = "fork" /\ r = "aborted") \/ (pc = "close" /\ r = result[connfd])
  <2>1. /\ Proc!ForkFails => pc = "fork"
        /\ Proc!ParentClose => pc = "close"
    BY Zenon DEF Proc!ForkFails, Proc!ParentClose, Proc!ParentAt
  <2> QED
    BY <2>1, ParentDrop, Zenon
<1>2. /\ pc \in {"fork", "close"} /\ pc' = "accept" /\ connfd' = NoClient
      /\ UNCHANGED <<sent, shut, rst, acceptq, tx, child, rcvd, pending, hpc, echoed>>
  BY <1>1 DEF Proc!ForkFails, Proc!ParentClose, Proc!clientVars
<1>3. PICK c \in Clients : c = connfd /\ "parent" \in holders[c] /\ status[c] = "open"
  BY <1>2, ProcessParts DEF HolderInv
<1>4. r \in {"none", "done", "aborted"}
  BY <1>1, <1>3, ProcessParts
<1>5. holders[c] \ {"parent"} = {} => r # "none"
  <2>1. CASE pc = "close" /\ r = result[connfd]
    <3>1. child[c] # "none"
      BY <1>3, <2>1, ProcessParts DEF HolderInv
    <3>2. holders[c] \ {"parent"} = {} => child[c] \notin {"read", "write"}
      BY ProcessParts DEF HolderInv
    <3>3. child[c] \in {"exit", "zombie", "reaped"} => result[c] # "none"
      BY ProcessParts DEF ResultInv
    <3> QED
      BY <1>3, <2>1, <3>1, <3>2, <3>3, ProcessParts
  <2> QED
    BY <1>1, <2>1
<1>6. r = "done" => shut[c] /\ Len(echoed[c]) = sent[c]
  BY <1>1, <1>3, ProcessParts DEF ResultInv
<1>7. PeerInv' /\ Promise /\ Dropped(c, "parent", r)
  <2>1. ClosedBy(c, "parent", r)
    BY <1>1, <1>2, <1>3, <1>5, <1>6 DEF ParentDrops, ClosedBy
  <2> QED
    BY <1>4, <2>1, ProcessCloses, Zenon
<1>8. ProcessTypes'
  BY <1>2, <1>7, ProcessParts DEF ProcessTypes, Dropped
<1>9. HolderInv'
  <2>1. HolderInv
    BY ProcessParts
  <2>2. \A d \in Clients : "parent" \notin holders'[d]
    BY <1>2, <1>3, <1>7, <2>1 DEF HolderInv, Dropped
  <2>3. \A d \in Clients : "child" \in holders'[d] <=> child'[d] \in {"read", "write"}
    BY <1>2, <1>7, <2>1 DEF HolderInv, Dropped
  <2>4. \A d \in Clients : status'[d] = "open" <=> holders'[d] # {}
    BY <1>7, <2>1 DEF HolderInv, Dropped
  <2> QED
    BY <1>2, <2>2, <2>3, <2>4 DEF HolderInv
<1>10. ResultInv'
  <2>1. ResultInv
    BY ProcessParts
  <2>2. status'[c] # "none"
    BY <1>5, <1>7 DEF Dropped
  <2>3. child[c] \in {"exit", "zombie", "reaped"} => r # "none"
    BY <1>1, <1>3, <2>1 DEF ResultInv
  <2>4. status'[c] = "open" => status[c] = "open"
    BY <1>3
  <2>5. \A d \in Clients : status'[d] = "open" => status[d] = "open"
    BY <1>7, <2>4 DEF Dropped
  <2>6. \A d \in Clients : status'[d] = "none" => child'[d] = "none"
    BY <1>2, <1>7, <2>1, <2>2 DEF ResultInv, Dropped
  <2>7. \A d \in Clients : child'[d] \in {"exit", "zombie", "reaped"} => result'[d] # "none"
    BY <1>2, <1>7, <2>1, <2>3 DEF ResultInv, Dropped
  <2>8. \A d \in Clients : result'[d] = "done" => shut'[d] /\ Len(echoed'[d]) = sent'[d]
    BY <1>2, <1>6, <1>7, <2>1 DEF ResultInv, Dropped
  <2> QED
    BY <1>2, <2>1, <2>5, <2>6, <2>7, <2>8 DEF ResultInv
<1> QED
  BY <1>7, <1>8, <1>9, <1>10 DEF ProcessInv

\* echo returns in a child.
LEMMA ChildCloses ==
  ASSUME ProcessInv, NEW c \in Clients, Proc!ChildEnds(c)
  PROVE  ProcessInv' /\ Promise
<1>1. PICK r \in {"none", "done", "aborted"} :
        /\ r # "none" /\ Proc!Close(c, "child", r)
        /\ child[c] \in {"read", "write"}
        /\ r = "done" => child[c] = "read" /\ shut[c] /\ rcvd[c] = sent[c]
  BY DEF Proc!ChildEnds, Proc!end_seen
<1>2. /\ child' = [child EXCEPT ![c] = "exit"]
      /\ UNCHANGED <<sent, shut, rst, acceptq, pc, connfd, hpc, tx, rcvd, pending, echoed>>
  BY DEF Proc!ChildEnds, Proc!childFrame, Proc!clientVars
<1>3. "child" \in holders[c] /\ status[c] = "open"
  BY <1>1, ProcessParts DEF HolderInv
<1>4. r = "done" => shut[c] /\ Len(echoed[c]) = sent[c]
  BY <1>1, <1>3, ProcessParts DEF ResultInv
<1>5. PeerInv' /\ Promise /\ Dropped(c, "child", r)
  <2>1. ClosedBy(c, "child", r)
    BY <1>1, <1>2, <1>3, <1>4 DEF Proc!Close, ClosedBy
  <2> QED
    BY <2>1, ProcessCloses, Zenon
<1>6. /\ child' \in [Clients -> {"none", "read", "write", "exit", "zombie", "reaped"}]
      /\ child'[c] = "exit" /\ \A d \in Clients : d # c => child'[d] = child[d]
  BY <1>2, ProcessParts
<1>7. ProcessTypes'
  BY <1>2, <1>5, <1>6, ProcessParts DEF ProcessTypes, Dropped
<1>8. HolderInv'
  <2>1. HolderInv
    BY ProcessParts
  <2>2. \A d \in Clients : "parent" \in holders'[d] <=> "parent" \in holders[d]
    BY <1>5 DEF Dropped
  <2>3. \A d \in Clients : "child" \in holders'[d] <=> child'[d] \in {"read", "write"}
    BY <1>5, <1>6, <2>1 DEF HolderInv, Dropped
  <2>4. \A d \in Clients : status'[d] = "open" <=> holders'[d] # {}
    BY <1>1, <1>5, <2>1 DEF HolderInv, Dropped
  <2>5. /\ pc' # "accept" => connfd' \in Clients
        /\ pc' = "fork" => child'[connfd'] = "none"
        /\ pc' = "close" => child'[connfd'] # "none"
    BY <1>1, <1>2, <1>6, <2>1 DEF HolderInv
  <2> QED
    BY <1>2, <2>1, <2>2, <2>3, <2>4, <2>5 DEF HolderInv
<1>9. ResultInv'
  <2>1. ResultInv
    BY ProcessParts
  <2>2. status'[c] # "none"
    BY <1>1, <1>5 DEF Dropped
  <2>3. \A d \in Clients : result'[d] = "done" => shut'[d] /\ Len(echoed'[d]) = sent'[d]
    BY <1>2, <1>4, <1>5, <2>1 DEF ResultInv, Dropped
  <2>4. \A d \in Clients : child'[d] \in {"exit", "zombie", "reaped"} => result'[d] # "none"
    BY <1>1, <1>5, <1>6, <2>1 DEF ResultInv, Dropped
  <2> QED
    BY <1>2, <1>5, <1>6, <2>1, <2>2, <2>3, <2>4 DEF ResultInv, Dropped
<1> QED
  BY <1>5, <1>7, <1>8, <1>9 DEF ProcessInv

LEMMA ChildRead ==
  ASSUME ProcessInv, NEW c \in Clients, Proc!ChildReads(c)
  PROVE  ProcessInv' /\ Promise
<1>1. /\ child[c] = "read" /\ rcvd[c] < sent[c] /\ rcvd' = [rcvd EXCEPT ![c] = rcvd[c] + 1]
      /\ child' = [child EXCEPT ![c] = "write"]
      /\ UNCHANGED <<sent, shut, rst, acceptq, pc, connfd, hpc, tx, holders, result, status, pending, echoed>>
  BY DEF Proc!ChildReads, Proc!childFrame, Proc!clientVars
<1>2. status[c] = "open" /\ Len(echoed[c]) = rcvd[c] /\ rcvd[c] \in Nat /\ rcvd[c] + 1 <= sent[c]
  <2>1. status[c] = "open" /\ Len(echoed[c]) = rcvd[c]
    BY <1>1, ProcessParts DEF HolderInv, ResultInv
  <2> QED
    BY <1>1, <2>1, Counts, ProcessParts
<1>3. PeerInv' /\ Promise /\ rcvd'[c] = rcvd[c] + 1 /\ \A d \in Clients : d # c => rcvd'[d] = rcvd[d]
  <2>1. UNCHANGED <<sent, shut, rst, acceptq, tx, status, echoed>>
    BY <1>1
  <2> QED
    BY <1>1, <1>2, <2>1, PeerReads, ProcessParts
<1>4. /\ child' \in [Clients -> {"none", "read", "write", "exit", "zombie", "reaped"}]
      /\ child'[c] = "write" /\ \A d \in Clients : d # c => child'[d] = child[d]
  BY <1>1, ProcessParts
<1>5. ProcessTypes'
  BY <1>1, <1>4, ProcessParts DEF ProcessTypes
<1>6. HolderInv'
  BY <1>1, <1>4, ProcessParts DEF HolderInv
<1>7. ResultInv'
  <2>1. ResultInv
    BY ProcessParts
  <2>2. Len(echoed'[c]) = rcvd'[c] - 1
    BY <1>1, <1>2, <1>3
  <2> QED
    BY <1>1, <1>2, <1>3, <1>4, <2>1, <2>2 DEF ResultInv
<1> QED
  BY <1>3, <1>5, <1>6, <1>7 DEF ProcessInv

LEMMA ChildWrite ==
  ASSUME ProcessInv, NEW c \in Clients, Proc!ChildWrites(c)
  PROVE  ProcessInv' /\ Promise
<1>1. /\ child[c] = "write" /\ tx[c] < SockBuf /\ tx' = [tx EXCEPT ![c] = tx[c] + 1]
      /\ echoed' = [echoed EXCEPT ![c] = Append(echoed[c], rcvd[c])]
      /\ child' = [child EXCEPT ![c] = "read"]
      /\ UNCHANGED <<sent, shut, rst, acceptq, pc, connfd, hpc, holders, rcvd, result, status, pending>>
  BY DEF Proc!ChildWrites, Proc!childFrame, Proc!clientVars
<1>2. /\ status[c] = "open" /\ Len(echoed[c]) \in Nat /\ rcvd[c] = Len(echoed[c]) + 1
      /\ Len(echoed[c]) + 1 <= rcvd[c] /\ rcvd[c] \in 1..MaxSend
  <2>1. status[c] = "open" /\ Len(echoed[c]) = rcvd[c] - 1
    BY <1>1, ProcessParts DEF HolderInv, ResultInv
  <2> QED
    BY <2>1, Counts, ProcessParts
<1>3. Append(echoed[c], rcvd[c]) = echoed[c] \o [i \in 1..1 |-> Len(echoed[c]) + i]
  BY <1>2, AppendNext, Counts, ProcessParts
<1>4. tx' \in [Clients -> 0..SockBuf]
  <2>1. tx[c] + 1 \in 0..SockBuf
    BY <1>1, Counts, ProcessParts
  <2> QED
    BY <1>1, <2>1, ProcessParts DEF PeerInv, PeerTypes
<1>5. /\ PeerInv' /\ Promise /\ Len(echoed'[c]) = Len(echoed[c]) + 1
      /\ \A d \in Clients : d # c => echoed'[d] = echoed[d]
  <2>1. PICK n \in Nat \ {0} : n = 1
    OBVIOUS
  <2>2. /\ Len(echoed[c]) + n <= rcvd[c] /\ UNCHANGED <<sent, shut, rst, acceptq, rcvd, status>>
        /\ echoed' = [echoed EXCEPT ![c] = echoed[c] \o [i \in 1..n |-> Len(echoed[c]) + i]]
    BY <1>1, <1>2, <1>3, <2>1
  <2>3. PeerInv
    BY ProcessParts
  <2>4. /\ PeerInv' /\ Promise /\ Len(echoed'[c]) = Len(echoed[c]) + n
        /\ \A d \in Clients : d # c => echoed'[d] = echoed[d]
    BY <1>2, <1>4, <2>2, <2>3, PeerWrites, Zenon
  <2> QED
    BY <2>1, <2>4
<1>6. /\ child' \in [Clients -> {"none", "read", "write", "exit", "zombie", "reaped"}]
      /\ child'[c] = "read" /\ \A d \in Clients : d # c => child'[d] = child[d]
  BY <1>1, ProcessParts
<1>7. ProcessTypes'
  BY <1>1, <1>6, ProcessParts DEF ProcessTypes
<1>8. HolderInv'
  BY <1>1, <1>6, ProcessParts DEF HolderInv
<1>9. ResultInv'
  <2>1. ResultInv
    BY ProcessParts
  <2>2. Len(echoed'[c]) = rcvd'[c]
    BY <1>1, <1>2, <1>5
  <2>3. result[c] # "done"
    <3>1. Len(echoed[c]) # sent[c]
      BY <1>2, Counts, ProcessParts
    <3> QED
      BY <2>1, <3>1 DEF ResultInv
  <2> QED
    BY <1>1, <1>2, <1>5, <1>6, <2>1, <2>2, <2>3 DEF ResultInv
<1> QED
  BY <1>5, <1>7, <1>8, <1>9 DEF ProcessInv

\* A child dies, SIGCHLD comes, the handler collects.
LEMMA ProcessRests ==
  ASSUME ProcessInv,
         (\E c \in Clients : Proc!ChildExits(c)) \/ Proc!Deliver \/ Proc!HandlerSteps
  PROVE  ProcessInv' /\ Promise
<1>1. UNCHANGED <<sent, shut, rst, acceptq, pc, connfd, tx, holders, rcvd, result, status, echoed>>
  BY DEF Proc!ChildExits, Proc!Deliver, Proc!HandlerSteps, Proc!Reap, Proc!HandlerReturn,
         Proc!childFrame, Proc!handlerFrame, Proc!clientVars
<1>2. pending' \in BOOLEAN /\ hpc' \in {"idle", "loop"}
  BY ProcessParts
     DEF Proc!ChildExits, Proc!Deliver, Proc!HandlerSteps, Proc!Reap, Proc!HandlerReturn,
         Proc!childFrame, ProcessTypes
<1>3. /\ child' \in [Clients -> {"none", "read", "write", "exit", "zombie", "reaped"}]
      /\ \A d \in Clients : child'[d] # child[d] =>
           child[d] \in {"exit", "zombie"} /\ child'[d] \in {"zombie", "reaped"}
  BY ProcessParts DEF Proc!ChildExits, Proc!Deliver, Proc!HandlerSteps, Proc!Reap, Proc!HandlerReturn
<1>4. PeerInv' /\ Promise
  BY <1>1, PeerRests, ProcessParts
<1>5. ProcessTypes'
  BY <1>1, <1>2, <1>3, ProcessParts DEF ProcessTypes
<1>6. HolderInv'
  BY <1>1, <1>3, ProcessParts DEF HolderInv
<1>7. ResultInv'
  BY <1>1, <1>3, ProcessParts DEF ResultInv
<1> QED
  BY <1>4, <1>5, <1>6, <1>7 DEF ProcessInv

LEMMA ProcessInitial ==
  ASSUME Proc!Init
  PROVE  ProcessInv /\ Service!EInit
<1> USE DEF Proc!Init
<1>1. PeerInv /\ Service!EInit
  BY PeerInit
<1>2. ProcessTypes
  BY DEF ProcessTypes
<1>3. HolderInv /\ ResultInv
  BY DEF HolderInv, ResultInv
<1> QED
  BY <1>1, <1>2, <1>3 DEF ProcessInv

LEMMA ProcessStep ==
  ASSUME ProcessInv, Proc!Next
  PROVE  ProcessInv' /\ Promise
<1>1. CASE Proc!ParentSteps
  BY <1>1, ProcessAccepts, ProcessForks, ParentCloses DEF Proc!ParentSteps
<1>2. CASE Proc!Deliver \/ Proc!HandlerSteps
  BY <1>2, ProcessRests
<1>3. ASSUME NEW c \in Clients, Proc!ChildSteps(c) PROVE ProcessInv' /\ Promise
  BY <1>3, ChildRead, ChildWrite, ChildCloses, ProcessRests DEF Proc!ChildSteps
<1>4. ASSUME NEW c \in Clients,
             Proc!Connect(c) \/ Proc!Send(c) \/ Proc!Shutdown(c) \/ Proc!Reset(c) \/ Proc!Receive(c)
      PROVE  ProcessInv' /\ Promise
  <2>1. UNCHANGED Proc!serverVars
    BY <1>4 DEF Proc!Connect, Proc!Send, Proc!Shutdown, Proc!Reset, Proc!Receive
  <2>2. Proc!Queued(c) <=> Queued(c)
    BY DEF Proc!Queued, Queued
  <2>3. ClientActs(c)
    BY <1>4, <2>2 DEF Proc!Connect, Proc!Send, Proc!Shutdown, Proc!Reset, Proc!Receive,
                      Proc!clientVars, ClientActs
  <2> QED
    BY <2>1, <2>3, ProcessActs
<1> QED
  BY <1>1, <1>2, <1>3, <1>4 DEF Proc!Next

LEMMA ProcessExact ==
  ASSUME ProcessInv
  PROVE  Proc!TypeOK /\ Proc!NoDescriptorLeak
<1>1. Proc!TypeOK
  BY ProcessParts DEF Proc!TypeOK, ProcessTypes, PeerInv, PeerTypes
<1>2. Proc!NoDescriptorLeak
  BY ProcessParts DEF Proc!NoDescriptorLeak, HolderInv
<1> QED
  BY <1>1, <1>2
-----------------------------------------------------------------------------
(* The iterative server and its clients. *)

LEMMA IterParts ==
  ASSUME IterInv
  PROVE  /\ PeerInv /\ IterTypes /\ TurnInv /\ WireInv /\ NoClient \notin Clients
         /\ cpc \in [Clients -> {"start", "gets", "read", "closed"}] /\ got \in [Clients -> Nat]
         /\ sent \in [Clients -> 0..MaxSend] /\ tx \in [Clients -> 0..SockBuf]
         /\ shut \in [Clients -> BOOLEAN] /\ rst \in [Clients -> BOOLEAN]
         /\ wbuf \in 0..MaxSend /\ wbuf \in Nat /\ MaxSend \in Nat /\ SockBuf \in Nat
  BY ThreadAssumption, SMTT(40) DEF IterInv, IterTypes, PeerInv, PeerTypes

\* What has come back to a client was written, and what was written was sent.
LEMMA IterCounts ==
  ASSUME IterInv, NEW c \in Clients
  PROVE  /\ got[c] \in Nat /\ tx[c] \in Nat /\ Len(echoed[c]) \in Nat /\ sent[c] \in Nat
         /\ got[c] + tx[c] <= Len(echoed[c]) /\ Len(echoed[c]) <= sent[c]
         /\ got[c] + tx[c] <= sent[c] /\ got[c] <= sent[c]
<1>1. /\ got[c] \in Nat /\ tx[c] \in Nat /\ Len(echoed[c]) \in Nat /\ rcvd[c] \in Nat /\ sent[c] \in Nat
      /\ Len(echoed[c]) <= rcvd[c] /\ rcvd[c] <= sent[c]
  BY Counts, IterParts
<1>2. got[c] + tx[c] <= Len(echoed[c])
  BY IterParts DEF WireInv, WireAt
<1> QED
  BY <1>1, <1>2

\* One client moves and the server does not.
LEMMA IterMoves ==
  ASSUME IterInv, NEW c \in Clients, PeerInv',
         UNCHANGED <<kind, NL, rst, pc, connfd, rcvd, wbuf, status, echoed>>,
         cpc' \in [Clients -> {"start", "gets", "read", "closed"}], got' \in [Clients -> Nat],
         \A d \in Clients : d # c =>
           /\ cpc'[d] = cpc[d] /\ sent'[d] = sent[d] /\ shut'[d] = shut[d]
           /\ got'[d] = got[d] /\ tx'[d] = tx[d] /\ (Queued(d)' => Queued(d)),
         WireAt(c)', AheadAt(c)'
  PROVE  IterInv'
<1>1. IterTypes'
  BY IterParts DEF IterTypes
<1>2. TurnInv'
  BY IterParts DEF TurnInv
<1>3. ASSUME NEW d \in Clients, d # c PROVE WireAt(d)' /\ AheadAt(d)'
  <2>1. WireAt(d) /\ AheadAt(d)
    BY IterParts DEF WireInv
  <2>2. WireAt(d)'
    BY <1>3, <2>1 DEF WireAt
  <2>3. AheadAt(d)'
    BY <1>3, <2>1 DEF AheadAt
  <2> QED
    BY <2>2, <2>3
<1>4. WireInv'
  BY <1>3 DEF WireInv
<1> QED
  BY <1>1, <1>2, <1>4 DEF IterInv

\* open_clientfd.
LEMMA IterConnects ==
  ASSUME IterInv, NEW c \in Clients, Iter!Connect(c)
  PROVE  IterInv' /\ Promise
<1>1. /\ cpc[c] = "start"
      /\ UNCHANGED <<kind, NL, sent, shut, got, tx, rst, pc, connfd, rcvd, wbuf, status, echoed>>
  BY DEF Iter!Connect, Iter!serverVars
<1>2. WireAt(c) /\ AheadAt(c)
  BY IterParts DEF WireInv
<1>3. status[c] = "none" /\ ~Queued(c)
  BY <1>1, <1>2 DEF WireAt
<1>4. CASE acceptq' = Append(acceptq, c) /\ cpc' = [cpc EXCEPT ![c] = "gets"]
  <2>1. PeerInv' /\ Promise /\ \A d \in Clients : Queued(d)' => Queued(d) \/ d = c
    <3>1. UNCHANGED <<sent, shut, rst, tx, rcvd, status, echoed>>
      BY <1>1
    <3> QED
      BY <1>3, <1>4, <3>1, IterParts, PeerConnects
  <2>2. /\ cpc' \in [Clients -> {"start", "gets", "read", "closed"}] /\ cpc'[c] = "gets"
        /\ \A d \in Clients : d # c => cpc'[d] = cpc[d]
    BY <1>4, IterParts
  <2>3. ~shut[c]
    BY <1>1, <1>2 DEF WireAt
  <2>4. WireAt(c)' /\ AheadAt(c)'
    BY <1>1, <1>2, <2>2, <2>3 DEF WireAt, AheadAt
  <2>5. \A d \in Clients : d # c =>
          /\ cpc'[d] = cpc[d] /\ sent'[d] = sent[d] /\ shut'[d] = shut[d]
          /\ got'[d] = got[d] /\ tx'[d] = tx[d] /\ (Queued(d)' => Queued(d))
    BY <1>1, <2>1, <2>2
  <2>6. /\ UNCHANGED <<kind, NL, rst, pc, connfd, rcvd, wbuf, status, echoed>>
        /\ got' \in [Clients -> Nat]
    BY <1>1, IterParts
  <2> QED
    BY <2>1, <2>2, <2>4, <2>5, <2>6, IterMoves
<1>5. CASE UNCHANGED acceptq /\ cpc' = [cpc EXCEPT ![c] = "closed"]
  <2>1. PeerInv' /\ Promise
    BY <1>1, <1>5, IterParts, PeerRests
  <2>2. /\ cpc' \in [Clients -> {"start", "gets", "read", "closed"}] /\ cpc'[c] = "closed"
        /\ \A d \in Clients : d # c => cpc'[d] = cpc[d]
    BY <1>5, IterParts
  <2>3. WireAt(c)' /\ AheadAt(c)'
    BY <1>1, <1>2, <2>2 DEF WireAt, AheadAt
  <2>4. \A d \in Clients : d # c =>
          /\ cpc'[d] = cpc[d] /\ sent'[d] = sent[d] /\ shut'[d] = shut[d]
          /\ got'[d] = got[d] /\ tx'[d] = tx[d] /\ (Queued(d)' => Queued(d))
    BY <1>1, <1>5, <2>2 DEF Queued
  <2>5. /\ UNCHANGED <<kind, NL, rst, pc, connfd, rcvd, wbuf, status, echoed>>
        /\ got' \in [Clients -> Nat]
    BY <1>1, IterParts
  <2> QED
    BY <2>1, <2>2, <2>3, <2>4, <2>5, IterMoves
<1> QED
  BY <1>4, <1>5 DEF Iter!Connect, Iter!Goes

LEMMA IterMin == \A S : Iter!Min(S) = Min(S)
  BY DEF Iter!Min, Min

\* fgets and write: the line is not empty, and ends where the next one begins.
LEMMA LineEnds ==
  ASSUME IterInv, NEW c \in Clients, sent[c] < MaxSend
  PROVE  /\ Iter!LineEnd(c) \in 0..MaxSend /\ sent[c] < Iter!LineEnd(c)
         /\ \A k \in NL[c] : k > sent[c] => Iter!LineEnd(c) <= k
<1> DEFINE S == {MaxSend} \cup {k \in NL[c] : k > sent[c]}
<1>1. NL[c] \subseteq 1..MaxSend /\ MaxSend \in Nat /\ sent[c] \in Nat
  BY IterParts, Counts DEF IterTypes
<1>2. S \subseteq Nat /\ S # {} /\ \A k \in S : k \in 0..MaxSend /\ k > sent[c]
  BY <1>1
<1>3. Min(S) \in S /\ \A k \in S : Min(S) <= k
  <2> HIDE DEF S
  <2> QED
    BY <1>2, MinIsLeast
<1>4. Iter!LineEnd(c) = Min(S)
  BY IterMin DEF Iter!LineEnd
<1> QED
  BY <1>2, <1>3, <1>4

LEMMA IterSends ==
  ASSUME IterInv, NEW c \in Clients, Iter!SendLine(c)
  PROVE  IterInv' /\ Promise
<1>1. PICK e : e = Iter!LineEnd(c)
  OBVIOUS
<1>2. /\ cpc[c] = "gets" /\ sent[c] < MaxSend /\ sent' = [sent EXCEPT ![c] = e]
      /\ cpc' = [cpc EXCEPT ![c] = "read"]
      /\ UNCHANGED <<kind, NL, shut, got, acceptq, tx, rst, pc, connfd, rcvd, wbuf, status, echoed>>
  BY <1>1 DEF Iter!SendLine, Iter!Goes, Iter!serverVars
<1>3. e \in 0..MaxSend /\ sent[c] < e /\ \A k \in NL[c] : k > sent[c] => e <= k
  BY <1>1, <1>2, LineEnds
<1>4. /\ sent' \in [Clients -> 0..MaxSend] /\ sent'[c] = e
      /\ \A d \in Clients : d # c => sent'[d] = sent[d]
  BY <1>2, <1>3, IterParts
<1>5. /\ cpc' \in [Clients -> {"start", "gets", "read", "closed"}] /\ cpc'[c] = "read"
      /\ \A d \in Clients : d # c => cpc'[d] = cpc[d]
  BY <1>2, IterParts
<1>6. WireAt(c) /\ AheadAt(c) /\ ~shut[c]
  BY <1>2, IterParts DEF WireInv, WireAt
<1>7. PICK s \in Nat, g \in Nat, t \in Nat, l \in Nat :
        s = sent[c] /\ g = got[c] /\ t = tx[c] /\ l = Len(echoed[c]) /\ l <= s /\ g + t <= l
        /\ e \in Nat /\ s < e
  <2>1. e \in Nat
    BY <1>3, IterParts
  <2> QED
    BY <1>3, <2>1, IterCounts
<1>8. PeerInv'
  <2>1. PeerTypes' /\ QueueInv'
    BY <1>2, <1>4, IterParts, SMTT(40) DEF PeerInv, PeerTypes, QueueInv
  <2>2. \A d \in Clients : sent[d] <= sent'[d]
    <3> SUFFICES ASSUME NEW d \in Clients PROVE sent[d] <= sent'[d]
      OBVIOUS
    <3>1. sent[d] \in Nat
      BY Counts, IterParts
    <3>2. CASE d = c
      BY <1>4, <1>7, <3>2
    <3>3. CASE d # c
      BY <1>4, <3>1, <3>3
    <3> QED
      BY <3>2, <3>3
  <2>3. UNCHANGED <<rcvd, status, echoed>>
    BY <1>2
  <2> QED
    BY <2>1, <2>2, <2>3, IterParts, PeerMoves
<1>9. Promise
  <2>1. sent' = [sent EXCEPT ![c] = sent'[c]] /\ sent'[c] > sent[c]
    BY <1>2, <1>4, <1>7
  <2>2. Service!ClientSends(c)
    BY <1>2, <1>6, <2>1 DEF Service!ClientSends
  <2> QED
    BY <2>2 DEF Promise, Service!ENext
<1>10. WireAt(c)'
  BY <1>2, <1>5, <1>6 DEF WireAt
<1>11. AheadAt(c)'
  <2>1. kind[c] = "rio" => g = s
    BY <1>2, <1>6, <1>7 DEF AheadAt
  <2>2. ASSUME kind[c] = "rio", NEW k \in NL[c] PROVE (k <= g /\ k < e) \/ (e <= k /\ g < k)
    <3>1. k \in Nat
      BY IterParts DEF IterTypes
    <3>2. k > s => e <= k
      BY <1>3, <1>7
    <3> QED
      BY <1>7, <2>1, <2>2, <3>1, <3>2
  <2>3. g < e
    BY <1>7
  <2> QED
    BY <1>2, <1>4, <1>5, <1>7, <2>2, <2>3 DEF AheadAt
<1>12. \A d \in Clients : d # c =>
         /\ cpc'[d] = cpc[d] /\ sent'[d] = sent[d] /\ shut'[d] = shut[d]
         /\ got'[d] = got[d] /\ tx'[d] = tx[d] /\ (Queued(d)' => Queued(d))
  BY <1>2, <1>4, <1>5 DEF Queued
<1>13. /\ UNCHANGED <<kind, NL, rst, pc, connfd, rcvd, wbuf, status, echoed>>
       /\ got' \in [Clients -> Nat]
  BY <1>2, IterParts
<1> QED
  BY <1>5, <1>8, <1>9, <1>10, <1>11, <1>12, <1>13, IterMoves

\* The client closes, or is killed.
LEMMA IterCloses ==
  ASSUME IterInv, NEW c \in Clients, cpc[c] \in {"gets", "read"}, Iter!Close(c)
  PROVE  IterInv' /\ Promise
<1>1. /\ shut' = [shut EXCEPT ![c] = TRUE] /\ tx' = [tx EXCEPT ![c] = 0]
      /\ cpc' = [cpc EXCEPT ![c] = "closed"]
      /\ UNCHANGED <<kind, NL, sent, got, acceptq, rst, pc, connfd, rcvd, wbuf, status, echoed>>
  BY DEF Iter!Close, Iter!Goes, Iter!serverVars
<1>2. /\ shut' \in [Clients -> BOOLEAN] /\ shut'[c] /\ \A d \in Clients : d # c => shut'[d] = shut[d]
  BY <1>1, IterParts
<1>3. /\ tx' \in [Clients -> 0..SockBuf] /\ tx'[c] = 0 /\ \A d \in Clients : d # c => tx'[d] = tx[d]
  BY <1>1, IterParts
<1>4. /\ cpc' \in [Clients -> {"start", "gets", "read", "closed"}] /\ cpc'[c] = "closed"
      /\ \A d \in Clients : d # c => cpc'[d] = cpc[d]
  BY <1>1, IterParts
<1>5. WireAt(c) /\ ~shut[c]
  BY IterParts DEF WireInv, WireAt
<1>6. PeerInv'
  <2>1. PeerTypes' /\ QueueInv'
    BY <1>1, <1>2, <1>3, IterParts DEF PeerInv, PeerTypes, QueueInv
  <2>2. \A d \in Clients : sent[d] <= sent'[d]
    <3> SUFFICES ASSUME NEW d \in Clients PROVE sent[d] <= sent'[d]
      OBVIOUS
    <3>1. sent[d] \in Nat
      BY Counts, IterParts
    <3> QED
      BY <1>1, <3>1
  <2>3. UNCHANGED <<rcvd, status, echoed>>
    BY <1>1
  <2> QED
    BY <2>1, <2>2, <2>3, IterParts, PeerMoves
<1>7. Promise
  <2>1. Service!ClientEnds(c)
    BY <1>1, <1>5 DEF Service!ClientEnds
  <2> QED
    BY <2>1 DEF Promise, Service!ENext
<1>8. WireAt(c)' /\ AheadAt(c)'
  <2>1. got[c] + 0 <= Len(echoed[c])
    BY <1>5, Counts, IterParts DEF WireAt
  <2> QED
    BY <1>1, <1>2, <1>3, <1>4, <2>1 DEF WireAt, AheadAt
<1>9. \A d \in Clients : d # c =>
        /\ cpc'[d] = cpc[d] /\ sent'[d] = sent[d] /\ shut'[d] = shut[d]
        /\ got'[d] = got[d] /\ tx'[d] = tx[d] /\ (Queued(d)' => Queued(d))
  BY <1>1, <1>2, <1>3, <1>4 DEF Queued
<1>10. /\ UNCHANGED <<kind, NL, rst, pc, connfd, rcvd, wbuf, status, echoed>>
       /\ got' \in [Clients -> Nat]
  BY <1>1, IterParts
<1> QED
  BY <1>4, <1>6, <1>7, <1>8, <1>9, <1>10, IterMoves

\* The client reads n bytes that were on the way.
LEMMA IterReceives ==
  ASSUME IterInv, NEW c \in Clients, cpc[c] = "read", NEW n \in Nat, n <= tx[c],
         NEW where \in {"gets", "read"},
         got' = [got EXCEPT ![c] = got[c] + n], tx' = [tx EXCEPT ![c] = tx[c] - n],
         cpc' = [cpc EXCEPT ![c] = where],
         UNCHANGED <<kind, NL, sent, shut, acceptq, rst, pc, connfd, rcvd, wbuf, status, echoed>>,
         AheadAt(c)'
  PROVE  IterInv' /\ Promise
<1>1. /\ got[c] \in Nat /\ got' \in [Clients -> Nat] /\ got'[c] = got[c] + n
      /\ \A d \in Clients : d # c => got'[d] = got[d]
  BY IterParts
<1>2. /\ tx[c] \in Nat /\ tx' \in [Clients -> 0..SockBuf] /\ tx'[c] = tx[c] - n
      /\ \A d \in Clients : d # c => tx'[d] = tx[d]
  <2>1. tx[c] \in Nat /\ tx[c] - n \in 0..SockBuf
    BY IterParts, Counts
  <2> QED
    BY <2>1, IterParts
<1>3. /\ cpc' \in [Clients -> {"start", "gets", "read", "closed"}] /\ cpc'[c] = where
      /\ \A d \in Clients : d # c => cpc'[d] = cpc[d]
  BY IterParts
<1>4. WireAt(c) /\ got'[c] + tx'[c] = got[c] + tx[c]
  BY <1>1, <1>2, IterParts DEF WireInv
<1>5. PeerInv'
  <2>1. PeerTypes' /\ QueueInv'
    BY <1>2, IterParts, SMTT(40) DEF PeerInv, PeerTypes, QueueInv
  <2>2. \A d \in Clients : sent[d] <= sent'[d]
    <3> SUFFICES ASSUME NEW d \in Clients PROVE sent[d] <= sent'[d]
      OBVIOUS
    <3>1. sent[d] \in Nat
      BY Counts, IterParts
    <3> QED
      BY <3>1
  <2> QED
    BY <2>1, <2>2, IterParts, PeerMoves
<1>6. Promise
  BY DEF Promise, Service!evars
<1>7. WireAt(c)'
  BY <1>3, <1>4 DEF WireAt
<1>8. \A d \in Clients : d # c =>
        /\ cpc'[d] = cpc[d] /\ sent'[d] = sent[d] /\ shut'[d] = shut[d]
        /\ got'[d] = got[d] /\ tx'[d] = tx[d] /\ (Queued(d)' => Queued(d))
  BY <1>1, <1>2, <1>3 DEF Queued
<1> QED
  BY <1>1, <1>3, <1>5, <1>6, <1>7, <1>8, IterMoves

LEMMA IterReads ==
  ASSUME IterInv, NEW c \in Clients, Iter!ReadOnce(c) \/ Iter!ReadByte(c)
  PROVE  IterInv' /\ Promise
<1>1. /\ cpc[c] = "read" /\ got[c] \in Nat /\ tx[c] \in Nat /\ sent[c] \in Nat
      /\ UNCHANGED <<kind, NL, sent, shut, acceptq, rst, pc, connfd, rcvd, wbuf, status, echoed>>
  BY Counts, IterParts DEF Iter!ReadOnce, Iter!ReadByte, Iter!serverVars
<1>2. WireAt(c) /\ AheadAt(c)
  BY IterParts DEF WireInv
<1>3. CASE Iter!ReadOnce(c)
  <2>1. PICK n \in 1..tx[c] :
          got' = [got EXCEPT ![c] = got[c] + n] /\ tx' = [tx EXCEPT ![c] = tx[c] - n]
    BY <1>3 DEF Iter!ReadOnce
  <2>2. kind[c] = "plain" /\ cpc' = [cpc EXCEPT ![c] = "gets"] /\ cpc'[c] = "gets"
    BY <1>3, IterParts DEF Iter!ReadOnce, Iter!Goes
  <2>3. n \in Nat /\ n <= tx[c]
    BY <1>1, <2>1
  <2>4. AheadAt(c)'
    BY <1>1, <2>2 DEF AheadAt
  <2> QED
    BY <1>1, <2>1, <2>2, <2>3, <2>4, IterReceives
<1>4. CASE Iter!ReadByte(c)
  <2>1. PICK where \in {"gets", "read"} : where = IF got[c] + 1 \in NL[c] THEN "gets" ELSE "read"
    OBVIOUS
  <2>2. /\ kind[c] = "rio" /\ tx[c] > 0 /\ got' = [got EXCEPT ![c] = got[c] + 1]
        /\ tx' = [tx EXCEPT ![c] = tx[c] - 1] /\ cpc' = [cpc EXCEPT ![c] = where]
    BY <1>4, <2>1 DEF Iter!ReadByte, Iter!Goes
  <2>3. cpc'[c] = where /\ got'[c] = got[c] + 1 /\ 1 \in Nat /\ 1 <= tx[c]
    BY <1>1, <2>2, IterParts
  <2>4. got[c] + 1 <= sent[c]
    BY <2>3, IterCounts
  <2>5. \A k \in NL[c] : k \in Nat /\ ((k <= got[c] /\ k < sent[c]) \/ (sent[c] <= k /\ got[c] < k))
    BY <1>1, <1>2, <2>2, IterParts DEF AheadAt, IterTypes
  <2>6. AheadAt(c)'
    <3>1. CASE where = "gets"
      <4>1. got[c] + 1 \in NL[c]
        BY <2>1, <3>1
      <4>2. got[c] + 1 = sent[c]
        BY <1>1, <2>4, <2>5, <4>1
      <4> QED
        BY <1>1, <2>2, <2>3, <3>1, <4>2 DEF AheadAt
    <3>2. CASE where = "read"
      <4>1. got[c] + 1 \notin NL[c]
        BY <2>1, <3>2
      <4>2. \A k \in NL[c] : (k <= got[c] + 1 /\ k < sent[c]) \/ (sent[c] <= k /\ got[c] + 1 < k)
        BY <1>1, <2>5, <4>1
      <4> QED
        BY <1>1, <2>2, <2>3, <3>2, <4>2 DEF AheadAt
    <3> QED
      BY <3>1, <3>2
  <2> QED
    BY <1>1, <2>2, <2>3, <2>6, IterReceives
<1> QED
  BY <1>3, <1>4

\* The server moves: the clients' positions stay.
LEMMA IterServes ==
  ASSUME IterInv, PeerInv', TurnInv',
         UNCHANGED <<kind, NL, cpc, sent, shut, got>>,
         pc' \in {"accept", "read", "write", "dead"}, connfd' \in Clients \cup {NoClient},
         wbuf' \in 0..MaxSend,
         \A c \in Clients :
           /\ got[c] + tx'[c] <= Len(echoed'[c])
           /\ ~shut[c] => got[c] + tx'[c] = Len(echoed'[c]) /\ ~rst'[c]
           /\ cpc[c] = "start" => status'[c] = status[c] /\ (Queued(c)' => Queued(c))
  PROVE  IterInv'
<1>1. IterTypes'
  BY IterParts DEF IterTypes
<1>2. ASSUME NEW c \in Clients PROVE WireAt(c)' /\ AheadAt(c)'
  <2>1. WireAt(c) /\ AheadAt(c)
    BY IterParts DEF WireInv
  <2>2. WireAt(c)'
    BY <2>1 DEF WireAt
  <2>3. AheadAt(c)'
    BY <2>1 DEF AheadAt
  <2> QED
    BY <2>2, <2>3
<1>3. WireInv'
  BY <1>2 DEF WireInv
<1> QED
  BY <1>1, <1>3 DEF IterInv

\* What holds of every client as long as nothing is written.
LEMMA IterWire ==
  ASSUME IterInv, NEW c \in Clients
  PROVE  /\ got[c] + tx[c] <= Len(echoed[c])
         /\ ~shut[c] => got[c] + tx[c] = Len(echoed[c]) /\ ~rst[c]
         /\ cpc[c] = "start" => status[c] = "none" /\ ~Queued(c)
  BY IterParts DEF WireInv, WireAt

\* While a client is served, it is the one in hand.
LEMMA IterTurn ==
  ASSUME IterInv, pc \in {"read", "write"}
  PROVE  /\ connfd \in Clients /\ status[connfd] = "open" /\ cpc[connfd] # "start"
         /\ ~rst[connfd] => Len(echoed[connfd]) + wbuf = rcvd[connfd]
         /\ pc = "read" => wbuf = 0
         /\ \A c \in Clients : c # connfd => status[c] # "open"
<1>1. connfd \in Clients /\ status[connfd] = "open"
  BY IterParts DEF TurnInv
<1>2. cpc[connfd] # "start"
  BY <1>1, IterWire
<1> QED
  BY <1>1, <1>2, IterParts DEF TurnInv

LEMMA IterAccepts ==
  ASSUME IterInv, Iter!Accept
  PROVE  IterInv' /\ Promise
<1>1. PICK h : h = Head(acceptq)
  OBVIOUS
<1>2. /\ pc = "accept" /\ pc' = "read" /\ acceptq # <<>> /\ acceptq' = Tail(acceptq) /\ connfd' = h
      /\ status' = [status EXCEPT ![h] = "open"]
      /\ UNCHANGED <<kind, NL, cpc, sent, shut, got, tx, rst, rcvd, wbuf, echoed>>
  BY <1>1 DEF Iter!Accept, Iter!clientVars
<1>3. /\ PeerInv' /\ Promise /\ h \in Clients /\ status[h] = "none" /\ status'[h] = "open" /\ Queued(h)
      /\ \A c \in Clients : c # h => status'[c] = status[c]
      /\ \A c \in Clients : Queued(c)' => Queued(c)
  <2>1. UNCHANGED <<sent, shut, rst, tx, rcvd, echoed>>
    BY <1>2
  <2> QED
    BY <1>1, <1>2, <2>1, IterParts, PeerAccepts
<1>4. TurnInv'
  <2>1. TurnInv /\ wbuf = 0
    BY <1>2, IterParts DEF TurnInv
  <2>2. \A c \in Clients : status'[c] = "open" <=> c = h
    BY <1>2, <1>3, <2>1 DEF TurnInv
  <2>3. Len(echoed[h]) + 0 = rcvd[h]
    BY <1>3, Counts, IterParts
  <2> QED
    BY <1>2, <1>3, <2>1, <2>2, <2>3 DEF TurnInv
<1>5. \A c \in Clients :
        /\ got[c] + tx'[c] <= Len(echoed'[c])
        /\ ~shut[c] => got[c] + tx'[c] = Len(echoed'[c]) /\ ~rst'[c]
        /\ cpc[c] = "start" => status'[c] = status[c] /\ (Queued(c)' => Queued(c))
  BY <1>2, <1>3, IterWire
<1>6. pc' \in {"accept", "read", "write", "dead"} /\ connfd' \in Clients \cup {NoClient}
      /\ wbuf' \in 0..MaxSend /\ UNCHANGED <<kind, NL, cpc, sent, shut, got>>
  BY <1>2, <1>3, IterParts
<1> QED
  BY <1>3, <1>4, <1>5, <1>6, IterServes

LEMMA IterRead ==
  ASSUME IterInv, Iter!Read
  PROVE  IterInv' /\ Promise
<1>1. PICK n \in 1..(sent[connfd] - rcvd[connfd]) :
        wbuf' = n /\ rcvd' = [rcvd EXCEPT ![connfd] = rcvd[connfd] + n]
  BY DEF Iter!Read
<1>2. /\ pc = "read" /\ pc' = "write"
      /\ UNCHANGED <<kind, NL, cpc, sent, shut, got, acceptq, tx, rst, connfd, status, echoed>>
  BY DEF Iter!Read, Iter!clientVars
<1>3. PICK c \in Clients : c = connfd /\ status[c] = "open" /\ wbuf = 0
        /\ (~rst[c] => Len(echoed[c]) + wbuf = rcvd[c])
        /\ \A d \in Clients : d # c => status[d] # "open"
  BY <1>2, IterTurn
<1>4. n \in Nat /\ rcvd[c] + n <= sent[c] /\ n \in 0..MaxSend /\ rcvd[c] \in Nat /\ Len(echoed[c]) \in Nat
  BY <1>1, <1>3, Counts, IterParts
<1>5. PeerInv' /\ Promise /\ rcvd'[c] = rcvd[c] + n /\ \A d \in Clients : d # c => rcvd'[d] = rcvd[d]
  <2>1. UNCHANGED <<sent, shut, rst, acceptq, tx, status, echoed>>
    BY <1>2
  <2> QED
    BY <1>1, <1>3, <1>4, <2>1, IterParts, PeerReads
<1>6. TurnInv'
  <2>1. ~rst[c] => Len(echoed[c]) + n = rcvd'[c]
    BY <1>3, <1>4, <1>5
  <2> QED
    BY <1>1, <1>2, <1>3, <2>1, IterParts DEF TurnInv
<1>7. \A d \in Clients :
        /\ got[d] + tx'[d] <= Len(echoed'[d])
        /\ ~shut[d] => got[d] + tx'[d] = Len(echoed'[d]) /\ ~rst'[d]
        /\ cpc[d] = "start" => status'[d] = status[d] /\ (Queued(d)' => Queued(d))
  BY <1>2, IterWire DEF Queued
<1>8. pc' \in {"accept", "read", "write", "dead"} /\ connfd' \in Clients \cup {NoClient}
      /\ wbuf' \in 0..MaxSend /\ UNCHANGED <<kind, NL, cpc, sent, shut, got>>
  BY <1>1, <1>2, <1>3, <1>4
<1> QED
  BY <1>5, <1>6, <1>7, <1>8, IterServes

\* read returns 0 or -1.
LEMMA IterEnds ==
  ASSUME IterInv, Iter!ReadEof \/ Iter!ReadFails
  PROVE  IterInv' /\ Promise
<1>1. PICK o \in {"done", "aborted"} :
        /\ pc = "read" /\ Iter!CloseConn(o)
        /\ o = "done" => shut[connfd] /\ rcvd[connfd] = sent[connfd] /\ ~rst[connfd]
  BY DEF Iter!ReadEof, Iter!ReadFails, Iter!end_read
<1>2. /\ status' = [status EXCEPT ![connfd] = o] /\ pc' = "accept" /\ connfd' = NoClient
      /\ UNCHANGED <<kind, NL, cpc, sent, shut, got, acceptq, tx, rst, rcvd, wbuf, echoed>>
  BY <1>1 DEF Iter!CloseConn, Iter!clientVars
<1>3. PICK c \in Clients : c = connfd /\ status[c] = "open" /\ wbuf = 0 /\ cpc[c] # "start"
        /\ (~rst[c] => Len(echoed[c]) + wbuf = rcvd[c])
        /\ \A d \in Clients : d # c => status[d] # "open"
  BY <1>1, IterTurn
<1>4. o = "done" => shut[c] /\ Len(echoed[c]) = sent[c]
  BY <1>1, <1>3, Counts, IterParts
<1>5. PeerInv' /\ Promise /\ status'[c] = o /\ \A d \in Clients : d # c => status'[d] = status[d]
  <2>1. UNCHANGED <<sent, shut, rst, acceptq, tx, rcvd, echoed>>
    BY <1>2
  <2> QED
    BY <1>2, <1>3, <1>4, <2>1, IterParts, PeerCloses
<1>6. TurnInv'
  <2>1. \A d \in Clients : status'[d] # "open"
    BY <1>3, <1>5
  <2> QED
    BY <1>2, <1>3, <2>1 DEF TurnInv
<1>7. \A d \in Clients :
        /\ got[d] + tx'[d] <= Len(echoed'[d])
        /\ ~shut[d] => got[d] + tx'[d] = Len(echoed'[d]) /\ ~rst'[d]
        /\ cpc[d] = "start" => status'[d] = status[d] /\ (Queued(d)' => Queued(d))
  BY <1>2, <1>3, <1>5, IterWire DEF Queued
<1>8. pc' \in {"accept", "read", "write", "dead"} /\ connfd' \in Clients \cup {NoClient}
      /\ wbuf' \in 0..MaxSend /\ UNCHANGED <<kind, NL, cpc, sent, shut, got>>
  BY <1>2, IterParts
<1> QED
  BY <1>5, <1>6, <1>7, <1>8, IterServes

LEMMA IterWrites ==
  ASSUME IterInv, Iter!Write
  PROVE  IterInv' /\ Promise
<1>1. PICK n \in 1..Min({wbuf, SockBuf - tx[connfd]}) :
        /\ tx' = [tx EXCEPT ![connfd] = tx[connfd] + n]
        /\ echoed' = [echoed EXCEPT ![connfd] =
                        echoed[connfd] \o [i \in 1..n |-> rcvd[connfd] - wbuf + i]]
        /\ wbuf' = wbuf - n /\ pc' = IF n = wbuf THEN "read" ELSE "write"
  BY IterMin DEF Iter!Write
<1>2. /\ pc = "write" /\ ~shut[connfd]
      /\ UNCHANGED <<kind, NL, cpc, sent, shut, got, acceptq, rst, connfd, rcvd, status>>
  BY DEF Iter!Write, Iter!clientVars
<1>3. PICK c \in Clients : c = connfd /\ status[c] = "open"
        /\ (~rst[c] => Len(echoed[c]) + wbuf = rcvd[c])
        /\ \A d \in Clients : d # c => status[d] # "open"
  BY <1>2, IterTurn
<1>4. PICK l \in Nat, t \in Nat, g \in Nat :
        /\ l = Len(echoed[c]) /\ t = tx[c] /\ g = got[c] /\ ~rst[c]
        /\ g + t = l /\ l + wbuf = rcvd[c] /\ rcvd[c] \in Nat /\ t <= SockBuf
  <2>1. tx[c] <= SockBuf /\ rcvd[c] \in Nat
    BY Counts, IterParts
  <2> QED
    BY <1>2, <1>3, <2>1, IterCounts, IterWire
<1>5. wbuf \in Nat /\ SockBuf \in Nat /\ n \in Nat \ {0} /\ n <= wbuf /\ t + n <= SockBuf /\ n \in Nat
  <2>1. wbuf \in Nat /\ SockBuf \in Nat
    BY IterParts
  <2>2. Min({wbuf, SockBuf - t}) = IF wbuf <= SockBuf - t THEN wbuf ELSE SockBuf - t
    BY <1>4, <2>1, MinOfTwo, SMTT(40)
  <2>3. n \in 1..(IF wbuf <= SockBuf - t THEN wbuf ELSE SockBuf - t)
    BY <1>1, <1>3, <1>4, <2>2
  <2> QED
    BY <1>4, <2>1, <2>3
<1>6. tx' \in [Clients -> 0..SockBuf] /\ tx'[c] = t + n /\ \A d \in Clients : d # c => tx'[d] = tx[d]
  <2>1. t + n \in 0..SockBuf
    BY <1>4, <1>5
  <2> QED
    BY <1>1, <1>3, <1>4, <2>1, IterParts
<1>7. /\ PeerInv' /\ Promise /\ Len(echoed'[c]) = l + n
      /\ \A d \in Clients : d # c => echoed'[d] = echoed[d]
  <2>1. rcvd[c] - wbuf = l /\ l + n <= rcvd[c]
    BY <1>4, <1>5
  <2>2. /\ Len(echoed[c]) + n <= rcvd[c] /\ n \in Nat \ {0} /\ PeerInv
        /\ echoed' = [echoed EXCEPT ![c] = echoed[c] \o [i \in 1..n |-> Len(echoed[c]) + i]]
    BY <1>1, <1>3, <1>4, <1>5, <2>1, IterParts
  <2>3. UNCHANGED <<sent, shut, rst, acceptq, rcvd, status>>
    BY <1>2
  <2>4. /\ PeerInv' /\ Promise /\ Len(echoed'[c]) = Len(echoed[c]) + n
        /\ \A d \in Clients : d # c => echoed'[d] = echoed[d]
    BY <1>3, <1>6, <2>2, <2>3, PeerWrites, Zenon
  <2> QED
    BY <1>4, <2>4
<1>8. wbuf' \in Nat /\ wbuf' \in 0..MaxSend /\ (l + n) + wbuf' = rcvd[c] /\ (pc' # "write" => wbuf' = 0)
  BY <1>1, <1>4, <1>5, IterParts, SMTT(40)
<1>9. TurnInv'
  <2>1. pc' \in {"read", "write"}
    BY <1>1
  <2>2. \A d \in Clients : status'[d] = "open" <=> d = connfd'
    BY <1>2, <1>3
  <2> QED
    BY <1>2, <1>3, <1>7, <1>8, <2>1, <2>2 DEF TurnInv
<1>10. g + (t + n) = l + n /\ l + n \in Nat
  <2>1. n \in Nat /\ g + t = l
    BY <1>4, <1>5
  <2> QED
    BY <2>1
<1>11. \A d \in Clients :
         /\ got[d] + tx'[d] <= Len(echoed'[d])
         /\ ~shut[d] => got[d] + tx'[d] = Len(echoed'[d]) /\ ~rst'[d]
         /\ cpc[d] = "start" => status'[d] = status[d] /\ (Queued(d)' => Queued(d))
  <2> SUFFICES ASSUME NEW d \in Clients
               PROVE  /\ got[d] + tx'[d] <= Len(echoed'[d])
                      /\ ~shut[d] => got[d] + tx'[d] = Len(echoed'[d]) /\ ~rst'[d]
                      /\ cpc[d] = "start" => status'[d] = status[d] /\ (Queued(d)' => Queued(d))
    OBVIOUS
  <2>1. CASE d = c
    <3>1. got[d] + tx'[d] = Len(echoed'[d]) /\ Len(echoed'[d]) \in Nat
      BY <1>4, <1>6, <1>7, <1>10, <2>1
    <3> QED
      BY <1>2, <1>4, <2>1, <3>1 DEF Queued
  <2>2. CASE d # c
    BY <1>2, <1>6, <1>7, <2>2, IterWire DEF Queued
  <2> QED
    BY <2>1, <2>2
<1>12. pc' \in {"accept", "read", "write", "dead"} /\ connfd' \in Clients \cup {NoClient}
       /\ wbuf' \in 0..MaxSend /\ UNCHANGED <<kind, NL, cpc, sent, shut, got>>
  BY <1>1, <1>2, <1>3, <1>8
<1> QED
  BY <1>7, <1>9, <1>11, <1>12, IterServes

LEMMA IterLoses ==
  ASSUME IterInv, Iter!WriteLost
  PROVE  IterInv' /\ Promise
<1>1. /\ pc = "write" /\ pc' = "read" /\ shut[connfd] /\ rst' = [rst EXCEPT ![connfd] = TRUE] /\ wbuf' = 0
      /\ UNCHANGED <<kind, NL, cpc, sent, shut, got, acceptq, tx, connfd, rcvd, status, echoed>>
  BY DEF Iter!WriteLost, Iter!clientVars
<1>2. PICK c \in Clients : c = connfd /\ status[c] = "open"
        /\ \A d \in Clients : d # c => status[d] # "open"
  BY <1>1, IterTurn
<1>3. /\ rst' \in [Clients -> BOOLEAN] /\ rst'[c] /\ \A d \in Clients : d # c => rst'[d] = rst[d]
  BY <1>1, <1>2, IterParts
<1>4. PeerInv' /\ Promise
  <2>1. PeerTypes' /\ QueueInv'
    BY <1>1, <1>3, IterParts DEF PeerInv, PeerTypes, QueueInv
  <2>2. CountInv'
    BY <1>1, IterParts DEF PeerInv, CountInv
  <2>3. Promise
    BY <1>1 DEF Promise, Service!evars
  <2> QED
    BY <2>1, <2>2, <2>3 DEF PeerInv
<1>5. TurnInv'
  BY <1>1, <1>2, <1>3 DEF TurnInv
<1>6. \A d \in Clients :
        /\ got[d] + tx'[d] <= Len(echoed'[d])
        /\ ~shut[d] => got[d] + tx'[d] = Len(echoed'[d]) /\ ~rst'[d]
        /\ cpc[d] = "start" => status'[d] = status[d] /\ (Queued(d)' => Queued(d))
  BY <1>1, <1>2, <1>3, IterWire DEF Queued
<1>7. pc' \in {"accept", "read", "write", "dead"} /\ connfd' \in Clients \cup {NoClient}
      /\ wbuf' \in 0..MaxSend /\ UNCHANGED <<kind, NL, cpc, sent, shut, got>>
  BY <1>1, <1>2, IterParts
<1> QED
  BY <1>4, <1>5, <1>6, <1>7, IterServes

\* SIGPIPE kills the server.
LEMMA IterDies ==
  ASSUME IterInv, Iter!Sigpipe
  PROVE  IterInv' /\ Promise
<1> DEFINE S == {c \in Clients : status[c] = "open" \/ Queued(c)}
<1>1. /\ pc' = "dead" /\ connfd' = NoClient /\ wbuf' = 0 /\ acceptq' = <<>>
      /\ status' = [c \in Clients |-> IF c \in S THEN "aborted" ELSE status[c]]
      /\ UNCHANGED <<kind, NL, cpc, sent, shut, got, tx, rst, rcvd, echoed>>
  BY DEF Iter!Sigpipe, Iter!clientVars, Queued
<1>2. acceptq \in Seq(Clients) /\ status \in [Clients -> {"none", "open", "done", "aborted"}]
  BY IterParts DEF PeerInv, PeerTypes
<1>3. \A c \in S : status[c] \in {"none", "open"}
  <2>1. DOMAIN acceptq = 1..Len(acceptq)
    BY <1>2, LenProperties
  <2> QED
    BY <2>1, IterParts DEF PeerInv, QueueInv, Queued
<1>4. PeerTypes'
  <2>1. acceptq' \in Seq(Clients)
    BY <1>1, EmptySeq
  <2>2. status' \in [Clients -> {"none", "open", "done", "aborted"}]
    BY <1>1, <1>2
  <2> QED
    BY <1>1, <2>1, <2>2, IterParts DEF PeerInv, PeerTypes
<1>5. QueueInv'
  BY <1>1, EmptySeq DEF QueueInv
<1>6. \A c \in Clients : /\ status'[c] # "open" /\ (status'[c] = "none" => status[c] = "none")
                         /\ (cpc[c] = "start" => status'[c] = status[c])
  BY <1>1, IterWire
<1>7. CountInv'
  BY <1>1, <1>6, IterParts DEF PeerInv, CountInv
<1>8. Promise
  <2>1. S \subseteq Clients
    OBVIOUS
  <2>2. Service!Abort(S)
    BY <1>1, <1>3 DEF Service!Abort
  <2> QED
    BY <2>1, <2>2 DEF Promise, Service!ENext
<1>9. TurnInv'
  BY <1>1, <1>6 DEF TurnInv
<1>10. \A c \in Clients : ~Queued(c)'
  <2>1. DOMAIN acceptq' = {}
    BY <1>1
  <2> QED
    BY <2>1 DEF Queued
<1>11. \A c \in Clients :
         /\ got[c] + tx'[c] <= Len(echoed'[c])
         /\ ~shut[c] => got[c] + tx'[c] = Len(echoed'[c]) /\ ~rst'[c]
         /\ cpc[c] = "start" => status'[c] = status[c] /\ (Queued(c)' => Queued(c))
  BY <1>1, <1>6, <1>10, IterWire
<1>12. pc' \in {"accept", "read", "write", "dead"} /\ connfd' \in Clients \cup {NoClient}
       /\ wbuf' \in 0..MaxSend /\ UNCHANGED <<kind, NL, cpc, sent, shut, got>>
  BY <1>1, IterParts
<1>13. PeerInv'
  BY <1>4, <1>5, <1>7 DEF PeerInv
<1> QED
  BY <1>8, <1>9, <1>11, <1>12, <1>13, IterServes

LEMMA IterStep ==
  ASSUME IterInv, Iter!IterNext
  PROVE  IterInv' /\ Promise
<1>1. CASE Iter!ServerSteps \/ Iter!ReadFails
  BY <1>1, IterAccepts, IterRead, IterEnds, IterWrites, IterLoses, IterDies DEF Iter!ServerSteps
<1>2. ASSUME NEW c \in Clients, Iter!ClientSteps(c) \/ Iter!Killed(c) PROVE IterInv' /\ Promise
  <2>1. CASE Iter!Connect(c) \/ Iter!SendLine(c) \/ Iter!ReadOnce(c) \/ Iter!ReadByte(c)
    BY <2>1, IterConnects, IterSends, IterReads
  <2>2. CASE Iter!EndOfInput(c) \/ Iter!SendFails(c) \/ Iter!ReadEnds(c) \/ Iter!Killed(c)
    <3>1. cpc[c] \in {"gets", "read"} /\ Iter!Close(c)
      BY <2>2 DEF Iter!EndOfInput, Iter!SendFails, Iter!ReadEnds, Iter!Killed
    <3> QED
      BY <3>1, IterCloses
  <2> QED
    BY <1>2, <2>1, <2>2 DEF Iter!ClientSteps
<1> QED
  BY <1>1, <1>2 DEF Iter!IterNext

LEMMA IterInitial ==
  ASSUME Iter!IterInit
  PROVE  IterInv /\ Service!EInit
<1> USE DEF Iter!IterInit
<1>1. PeerInv /\ Service!EInit
  BY PeerInit
<1>2. IterTypes
  BY PerClientAssumption, ThreadAssumption DEF IterTypes
<1>3. TurnInv
  BY DEF TurnInv
<1>4. WireInv
  BY EmptySeq DEF WireInv, WireAt, AheadAt, Queued
<1> QED
  BY <1>1, <1>2, <1>3, <1>4 DEF IterInv

\* When client and server wait for each other, all that was sent is back.
LEMMA IterExact ==
  ASSUME IterInv
  PROVE  Iter!IterTypeOK /\ Iter!InStep /\ Iter!WaitOnlyUnfinished
<1>1. Iter!IterTypeOK
  <2>1. \A c \in Clients : tx[c] \in 0..SockBuf /\ got[c] \in 0..Len(echoed[c])
                           /\ rcvd[c] \in 0..sent[c] /\ sent[c] \in 0..MaxSend
    <3> SUFFICES ASSUME NEW c \in Clients
                 PROVE  tx[c] \in 0..SockBuf /\ got[c] \in 0..Len(echoed[c])
                        /\ rcvd[c] \in 0..sent[c] /\ sent[c] \in 0..MaxSend
      OBVIOUS
    <3>1. got[c] \in 0..Len(echoed[c])
      BY IterCounts
    <3>2. tx[c] \in 0..SockBuf /\ rcvd[c] \in 0..sent[c] /\ sent[c] \in 0..MaxSend
      BY Counts, IterParts
    <3> QED
      BY <3>1, <3>2
  <2> QED
    BY <2>1, IterParts DEF Iter!IterTypeOK, IterTypes
<1>2. Iter!InStep
  BY IterParts DEF Iter!InStep, WireInv, AheadAt
<1>3. ASSUME NEW c \in Clients, Iter!MutualWait(c) PROVE kind[c] = "rio" /\ sent[c] \notin NL[c]
  <2>1. connfd = c /\ pc = "read" /\ rcvd[c] = sent[c] /\ cpc[c] = "read" /\ tx[c] = 0
    BY <1>3 DEF Iter!MutualWait
  <2>2. WireAt(c) /\ AheadAt(c)
    BY IterParts DEF WireInv
  <2>3. ~rst[c] /\ got[c] + tx[c] = Len(echoed[c])
    BY <2>1, <2>2 DEF WireAt
  <2>4. Len(echoed[c]) + 0 = rcvd[c]
    BY <2>1, <2>3, IterTurn
  <2>5. got[c] = sent[c] /\ sent[c] \in Nat
    BY <2>1, <2>3, <2>4, IterCounts
  <2>6. kind[c] \in {"plain", "rio"}
    BY IterParts DEF IterTypes
  <2>7. kind[c] = "rio"
    BY <2>1, <2>2, <2>5, <2>6 DEF AheadAt
  <2>8. sent[c] \notin NL[c]
    BY <2>1, <2>2, <2>5, <2>7 DEF AheadAt
  <2> QED
    BY <2>7, <2>8
<1> QED
  BY <1>1, <1>2, <1>3 DEF Iter!WaitOnlyUnfinished
-----------------------------------------------------------------------------
(* The helpers of net.h. *)

LEMMA NetInitial ==
  ASSUME Sock!NetInit
  PROVE  NetInv
<1>1. PICK S \in SUBSET NetFds : opened = [f \in S |-> "other"]
  BY DEF Sock!NetInit
<1>2. DOMAIN opened = S /\ \A f \in S : opened[f] = "other"
  BY <1>1
<1>3. Sock!Ours = {}
  BY <1>2 DEF Sock!Ours
<1>4. opened = [f \in DOMAIN opened |-> opened[f]]
  BY <1>1, <1>2
<1> QED
  BY <1>2, <1>3, <1>4 DEF NetInv, Sock!NetInit, Sock!NetExact

\* getaddrinfo.
LEMMA NetResolves ==
  ASSUME NetInv, Sock!Resolve \/ Sock!ResolveFails
  PROVE  NetInv'
<1>1. npc \in {"client", "server"} /\ UNCHANGED <<opened, sockfd>>
  BY DEF Sock!Resolve, Sock!ResolveFails
<1>2. sockfd = 0 /\ plist = 0 /\ Sock!Ours = {} /\ Sock!Ours' = {} /\ 0 \notin NetFds
      /\ DOMAIN opened' \subseteq NetFds /\ opened' = [f \in DOMAIN opened' |-> opened'[f]]
  BY <1>1, PerClientAssumption DEF NetInv, Sock!Ours
<1>3. ~Sock!Trying'
  BY <1>1, <1>2 DEF Sock!Trying
<1>4. CASE Sock!Resolve
  <2>1. npc' \in {"connect", "bind"}
    BY <1>4 DEF Sock!Resolve
  <2> QED
    BY <1>1, <1>2, <1>3, <2>1 DEF NetInv, Sock!NetExact
<1>5. CASE Sock!ResolveFails
  <2>1. npc' = "returned" /\ nret' = -1 /\ plist' = plist
    BY <1>5 DEF Sock!ResolveFails, Sock!Return
  <2> QED
    BY <1>1, <1>2, <2>1 DEF NetInv, Sock!NetExact
<1> QED
  BY <1>4, <1>5

LEMMA NetSocket ==
  ASSUME NetInv, Sock!Socket
  PROVE  NetInv'
<1>1. PICK n \in NetFds \ DOMAIN opened :
        /\ sockfd' = n
        /\ opened' = [f \in DOMAIN opened \cup {n} |-> IF f = n THEN "socket" ELSE opened[f]]
  <2> DEFINE free == NetFds \ DOMAIN opened
  <2>1. free # {} /\ free \subseteq Nat
    BY PerClientAssumption DEF Sock!Socket
  <2>2. Min(free) \in free
    <3> HIDE DEF free
    <3> QED
      BY <2>1, MinIsLeast
  <2>3. sockfd' = Min(free)
    BY DEF Sock!Socket, Sock!Min, Min
  <2> QED
    BY <2>2, <2>3 DEF Sock!Socket
<1>2. npc \in {"connect", "bind"} /\ p # 0 /\ ~Sock!Trying /\ UNCHANGED <<npc, plist, p, nret>>
  BY DEF Sock!Socket, Sock!InLoop
<1>3. /\ DOMAIN opened' = DOMAIN opened \cup {n} /\ opened'[n] = "socket"
      /\ \A f \in DOMAIN opened : opened'[f] = opened[f]
  BY <1>1
<1>4. Sock!Ours = {} /\ Sock!Ours' = {sockfd'} /\ Sock!Trying'
  BY <1>1, <1>2, <1>3 DEF NetInv, Sock!Ours, Sock!Trying
<1>5. opened' = [f \in DOMAIN opened' |-> opened'[f]] /\ DOMAIN opened' \subseteq NetFds /\ sockfd' \in Nat
  BY <1>1, <1>3, PerClientAssumption DEF NetInv
<1> QED
  BY <1>2, <1>4, <1>5 DEF NetInv, Sock!NetExact

LEMMA NetSocketFails ==
  ASSUME NetInv, Sock!SocketFails
  PROVE  NetInv'
<1>1. /\ npc \in {"connect", "bind"} /\ ~Sock!Trying /\ sockfd' = -1 /\ UNCHANGED <<npc, opened>>
  BY DEF Sock!SocketFails, Sock!InLoop
<1>2. -1 \notin NetFds
  BY PerClientAssumption
<1>3. ~Sock!Trying' /\ Sock!Ours' = {}
  BY <1>1, <1>2 DEF NetInv, Sock!Trying, Sock!Ours
<1> QED
  BY <1>1, <1>3 DEF NetInv, Sock!NetExact

\* close: nothing of ours is left.
LEMMA NetCloses ==
  ASSUME NetInv, Sock!Ours = {sockfd}, opened' = Sock!Closed
  PROVE  /\ Sock!Ours' = {} /\ sockfd \notin DOMAIN opened'
         /\ opened' = [f \in DOMAIN opened' |-> opened'[f]] /\ DOMAIN opened' \subseteq NetFds
<1>1. /\ DOMAIN opened' = DOMAIN opened \ {sockfd}
      /\ \A f \in DOMAIN opened' : opened'[f] = opened[f]
  BY DEF Sock!Closed
<1>2. opened' = [f \in DOMAIN opened' |-> opened'[f]]
  BY DEF Sock!Closed
<1> QED
  BY <1>1, <1>2 DEF NetInv, Sock!Ours

LEMMA NetTries ==
  ASSUME NetInv, Sock!AddrFails \/ Sock!AddrWorks
  PROVE  NetInv'
<1>1. npc \in {"connect", "bind"} /\ p # 0 /\ Sock!Trying /\ UNCHANGED sockfd
  BY DEF Sock!AddrFails, Sock!AddrWorks, Sock!InLoop
<1>2. Sock!Ours = {sockfd} /\ sockfd \in DOMAIN opened
  BY <1>1 DEF NetInv, Sock!Trying
<1>3. CASE Sock!AddrFails
  <2>1. npc' = npc /\ opened' = Sock!Closed
    BY <1>3 DEF Sock!AddrFails
  <2>2. /\ Sock!Ours' = {} /\ ~Sock!Trying'
        /\ opened' = [f \in DOMAIN opened' |-> opened'[f]] /\ DOMAIN opened' \subseteq NetFds
    BY <1>1, <1>2, <2>1, NetCloses DEF Sock!Trying
  <2> QED
    BY <1>1, <2>1, <2>2 DEF NetInv, Sock!NetExact
<1>4. CASE Sock!AddrWorks
  <2>1. /\ npc' \in {"connected", "bound"} /\ opened' = [opened EXCEPT ![sockfd] = npc']
    BY <1>1, <1>4 DEF Sock!AddrWorks
  <2>2. /\ DOMAIN opened' = DOMAIN opened /\ opened'[sockfd] = npc'
        /\ \A f \in DOMAIN opened : f # sockfd => opened'[f] = opened[f]
        /\ opened' = [f \in DOMAIN opened' |-> opened'[f]]
    BY <1>2, <2>1 DEF NetInv
  <2>3. Sock!Ours' = {sockfd}
    BY <1>2, <2>1, <2>2 DEF Sock!Ours
  <2> QED
    BY <1>1, <2>1, <2>2, <2>3 DEF NetInv, Sock!NetExact
<1> QED
  BY <1>3, <1>4

\* After the loop.
LEMMA NetReturns ==
  ASSUME NetInv, Sock!NoneWorked \/ Sock!Connected \/ Sock!Listen
  PROVE  NetInv'
<1>1. npc' = "returned" /\ plist' = 0 /\ UNCHANGED sockfd
  BY DEF Sock!NoneWorked, Sock!Connected, Sock!Listen, Sock!Return
<1>2. CASE Sock!NoneWorked
  <2>1. npc \in {"connect", "bind"} /\ p = 0 /\ nret' = -1 /\ opened' = opened
    BY <1>2 DEF Sock!NoneWorked, Sock!Return
  <2>2. Sock!Ours = {} /\ Sock!Ours' = {}
    BY <2>1 DEF NetInv, Sock!Ours
  <2> QED
    BY <1>1, <2>1, <2>2 DEF NetInv, Sock!NetExact
<1>3. CASE Sock!Connected
  <2>1. npc = "connected" /\ nret' = sockfd /\ opened' = opened
    BY <1>3 DEF Sock!Connected, Sock!Return
  <2>2. Sock!Ours = {sockfd} /\ Sock!Ours' = {sockfd} /\ opened[sockfd] = "connected"
    BY <2>1 DEF NetInv, Sock!Ours
  <2>3. sockfd # -1
    BY <2>2, PerClientAssumption DEF NetInv, Sock!Ours
  <2> QED
    BY <1>1, <2>1, <2>2, <2>3 DEF NetInv, Sock!NetExact
<1>4. CASE Sock!Listen
  <2>1. npc = "bound" /\ Sock!Ours = {sockfd}
    BY <1>4 DEF Sock!Listen, NetInv
  <2>2. sockfd \in DOMAIN opened /\ sockfd # -1
    BY <2>1, PerClientAssumption DEF NetInv, Sock!Ours
  <2>3. CASE nret' = sockfd /\ opened' = [opened EXCEPT ![sockfd] = "listening"]
    <3>1. /\ DOMAIN opened' = DOMAIN opened /\ opened'[sockfd] = "listening"
          /\ \A f \in DOMAIN opened : f # sockfd => opened'[f] = opened[f]
          /\ opened' = [f \in DOMAIN opened' |-> opened'[f]]
      BY <2>2, <2>3 DEF NetInv
    <3>2. Sock!Ours' = {sockfd}
      BY <2>1, <2>2, <3>1 DEF Sock!Ours
    <3> QED
      BY <1>1, <2>2, <2>3, <3>1, <3>2 DEF NetInv, Sock!NetExact
  <2>4. CASE nret' = -1 /\ opened' = Sock!Closed
    <3>1. /\ Sock!Ours' = {}
          /\ opened' = [f \in DOMAIN opened' |-> opened'[f]] /\ DOMAIN opened' \subseteq NetFds
      BY <2>1, <2>4, NetCloses
    <3> QED
      BY <1>1, <2>4, <3>1 DEF NetInv, Sock!NetExact
  <2> QED
    BY <1>4, <2>3, <2>4 DEF Sock!Listen, Sock!Return
<1> QED
  BY <1>2, <1>3, <1>4

LEMMA NetStep ==
  ASSUME NetInv, Sock!NetNext
  PROVE  NetInv'
  BY NetResolves, NetSocket, NetSocketFails, NetTries, NetReturns DEF Sock!NetNext
-----------------------------------------------------------------------------
(* All of them together. *)

\* A step that changes nothing.
LEMMA ConnectionRests ==
  ASSUME ConnectionInv, UNCHANGED mcVars
  PROVE  ConnectionInv' /\ Promise
<1> USE DEF mcVars, vars, clientVars, mainVars, workerVars, processOnly, iterOnly, netVars
<1>1. PeerInv => PeerInv'
  BY DEF PeerInv, PeerTypes, QueueInv, CountInv
<1>2. ThreadInv => ThreadInv'
  <2> SUFFICES ASSUME ThreadInv PROVE ThreadInv'
    OBVIOUS
  <2>1. \A w \in Threads : (Busy(w)' <=> Busy(w)) /\ FdOf(w)' = FdOf(w) /\ ConnOf(w)' = ConnOf(w)
    BY DEF Busy, FdOf, ConnOf
  <2>2. MainHolds' <=> MainHolds
    BY DEF MainHolds
  <2>3. ThreadTypes' /\ CellInv' /\ ConnInv'
    BY ThreadParts DEF ThreadTypes, CellInv, ConnInv
  <2>4. HoldInv'
    BY <2>1, <2>2, ThreadParts DEF HoldInv
  <2>5. LineInv'
    BY <2>1, <2>2, ThreadParts DEF LineInv
  <2> QED
    BY <1>1, <2>3, <2>4, <2>5, ThreadParts DEF ThreadInv
<1>3. ProcessInv => ProcessInv'
  BY <1>1 DEF ProcessInv, ProcessTypes, HolderInv, ResultInv
<1>4. IterInv => IterInv'
  BY <1>1 DEF IterInv, IterTypes, TurnInv, WireInv, WireAt, AheadAt, Queued
<1>5. NetInv => NetInv'
  BY DEF NetInv, Sock!Ours, Sock!Trying, Sock!NetExact
<1>6. Promise
  BY DEF Promise, Service!evars
<1> QED
  BY <1>2, <1>3, <1>4, <1>5, <1>6 DEF ConnectionInv

LEMMA ConnectionStep ==
  ASSUME ConnectionInv, [MCNext]_mcVars
  PROVE  ConnectionInv' /\ Promise
<1>1. CASE InThreads(Next)
  <2>1. server = "thread" /\ server' = "thread" /\ Next
    BY <1>1 DEF InThreads
  <2>2. ThreadInv' /\ Promise
    BY <2>1, ThreadStep DEF ConnectionInv
  <2> QED
    BY <2>1, <2>2 DEF ConnectionInv
<1>2. CASE InProcesses(Proc!Next)
  <2>1. server = "process" /\ server' = "process" /\ Proc!Next
    BY <1>2 DEF InProcesses
  <2>2. ProcessInv' /\ Promise
    BY <2>1, ProcessStep DEF ConnectionInv
  <2> QED
    BY <2>1, <2>2 DEF ConnectionInv
<1>3. CASE InIter(Iter!IterNext)
  <2>1. server = "iterative" /\ server' = "iterative" /\ Iter!IterNext
    BY <1>3 DEF InIter
  <2>2. IterInv' /\ Promise
    BY <2>1, IterStep DEF ConnectionInv
  <2> QED
    BY <2>1, <2>2 DEF ConnectionInv
<1>4. CASE InNet(Sock!NetNext)
  <2>1. server = "net" /\ server' = "net" /\ Sock!NetNext /\ UNCHANGED vars
    BY <1>4 DEF InNet
  <2>2. NetInv'
    BY <2>1, NetStep DEF ConnectionInv
  <2>3. Promise
    BY <2>1 DEF Promise, Service!evars, vars, clientVars
  <2> QED
    BY <2>1, <2>2, <2>3 DEF ConnectionInv
<1>5. CASE UNCHANGED mcVars
  BY <1>5, ConnectionRests
<1> QED
  BY <1>1, <1>2, <1>3, <1>4, <1>5 DEF MCNext

LEMMA ConnectionInitial ==
  ASSUME MCInit
  PROVE  ConnectionInv /\ Service!EInit
<1>1. CASE server = "thread" /\ Init
  BY <1>1, ThreadInitial DEF ConnectionInv
<1>2. CASE server = "process" /\ Proc!Init
  BY <1>2, ProcessInitial DEF ConnectionInv
<1>3. CASE server = "iterative" /\ Iter!IterInit
  BY <1>3, IterInitial DEF ConnectionInv
<1>4. CASE server = "net" /\ Sock!NetInit /\ Init
  BY <1>4, NetInitial, ThreadInitial DEF ConnectionInv
<1> QED
  BY <1>1, <1>2, <1>3, <1>4 DEF MCInit

LEMMA ConnectionInvariant == MCSpec => []ConnectionInv
<1>1. MCInit => ConnectionInv
  BY ConnectionInitial
<1>2. ConnectionInv /\ [MCNext]_mcVars => ConnectionInv'
  BY ConnectionStep
<1> QED
  BY <1>1, <1>2, PTL DEF MCSpec

\* Of the thread server every descriptor and every heap cell in use has one
\* owner, whatever number or cell is handed out again; the process server's
\* parent holds no connection but the one it is working on; open_clientfd and
\* open_serverfd leave open what they return and nothing else; and
\* process_echo_client stays in step with the iterative server, with which it
\* can wait for each other only over a line without newline.
THEOREM ConnectionsAreExact == MCSpec => []ConnectionsExact
<1>1. ConnectionInv => ConnectionsExact
  BY ThreadExact, ProcessExact, IterExact DEF ConnectionInv, ConnectionsExact, NetInv
<1> QED
  BY <1>1, ConnectionInvariant, PTL

\* The thread, the process and the iterative server keep the promise of
\* EchoService: what serve_client, echo and the loop of echo_server.c write to
\* a client is what it sent, in order, and they close in good order only what
\* is complete.
THEOREM ConnectionsEcho == MCSpec => ImplementsEcho
<1>1. MCInit => Service!EInit
  BY ConnectionInitial
<1>2. ConnectionInv /\ [MCNext]_mcVars => [Service!ENext]_(Service!evars)
  BY ConnectionStep DEF Promise
<1> QED
  BY <1>1, <1>2, ConnectionInvariant, PTL DEF MCSpec, ImplementsEcho, Service!ESpec
=============================================================================
