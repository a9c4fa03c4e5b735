---------------------------- MODULE ThreadServer ----------------------------
(***************************************************************************)
(* The thread-per-connection echo server                                   *)
(* (Chapter12/12.3/experiments/thread_echo_server.c).  All threads share   *)
(* one descriptor table, where the lowest free number is handed out again, *)
(* and one heap, where malloc may return what was just freed.  main passes *)
(* a descriptor to a detached worker in a heap cell.  A client's stream is *)
(* counted in lines, what rio_readlineb returns.                           *)
(***************************************************************************)
EXTENDS Integers, Sequences, FiniteSets, FiniteSetsExt

CONSTANTS Clients, NoClient,
          Fds,       \* descriptor numbers for connections
          Threads,   \* threads that can exist at a time
          Cells, NoCell,   \* heap cells that can be allocated at a time
          SockBuf, MaxSend \* room for lines; bound: lines a client sends

ASSUME ThreadAssumption ==
  /\ NoClient \notin Clients /\ NoCell \notin Cells /\ Fds \subseteq Nat \ {0}
  /\ SockBuf \in Nat \ {0} /\ MaxSend \in Nat

VARIABLES
  sent, shut, rst,   \* clients: lines sent, stream ended, connection reset
  acceptq, tx, rcvd, \* kernel: waiting connections; lines not yet read; lines read
  fdtab,             \* kernel: the connection behind each descriptor
  heap,              \* contents of the cells in use, 0 = free
  pc, connfd, connfdp,   \* main
  wpc, warg, wfd, wline, \* workers: position, argument, connfd, line in hand
  status,            \* conversation
  echoed             \* history: lines written back

clientVars == <<sent, shut, rst>>
mainVars == <<acceptq, pc, connfd, connfdp>>
workerVars == <<wpc, warg, wfd, wline>>
vars == <<clientVars, mainVars, workerVars, tx, rcvd, fdtab, heap, status, echoed>>

Queued(c) == \E k \in DOMAIN acceptq : acceptq[k] = c
Connected(c) == status[c] = "open" \/ Queued(c)

Init ==
  /\ sent = [c \in Clients |-> 0] /\ rcvd = [c \in Clients |-> 0]
  /\ shut = [c \in Clients |-> FALSE] /\ rst = [c \in Clients |-> FALSE]
  /\ acceptq = <<>> /\ tx = [c \in Clients |-> 0]
  /\ fdtab = [f \in Fds |-> NoClient] /\ heap = [x \in Cells |-> 0]
  /\ pc = "accept" /\ connfd = 0 /\ connfdp = NoCell
  /\ wpc = [w \in Threads |-> "none"] /\ warg = [w \in Threads |-> NoCell]
  /\ wfd = [w \in Threads |-> 0] /\ wline = [w \in Threads |-> 0]
  /\ status = [c \in Clients |-> "none"] /\ echoed = [c \in Clients |-> <<>>]
-----------------------------------------------------------------------------
(* Clients. *)

serverVars == <<pc, connfd, connfdp, workerVars, rcvd, fdtab, heap, status, echoed>>

Connect(c) ==
  /\ status[c] = "none" /\ ~Queued(c)
  /\ acceptq' = Append(acceptq, c)
  /\ UNCHANGED <<clientVars, tx, serverVars>>

Send(c) ==
  /\ Connected(c) /\ ~shut[c] /\ ~rst[c] /\ sent[c] < MaxSend
  /\ sent' = [sent EXCEPT ![c] = @ + 1]
  /\ UNCHANGED <<shut, rst, acceptq, tx, serverVars>>

Shutdown(c) ==
  /\ Connected(c) /\ ~shut[c] /\ ~rst[c]
  /\ shut' = [shut EXCEPT ![c] = TRUE]
  /\ UNCHANGED <<sent, rst, acceptq, tx, serverVars>>

Reset(c) ==
  /\ Connected(c) /\ ~rst[c]
  /\ rst' = [rst EXCEPT ![c] = TRUE] /\ tx' = [tx EXCEPT ![c] = 0]
  /\ UNCHANGED <<sent, shut, acceptq, serverVars>>

Receive(c) ==
  /\ tx[c] > 0
  /\ tx' = [tx EXCEPT ![c] = @ - 1]
  /\ UNCHANGED <<clientVars, acceptq, serverVars>>
-----------------------------------------------------------------------------
(* main *)

\* close(f): the descriptor is gone for every thread.
Close(f, how) ==
  /\ fdtab' = [fdtab EXCEPT ![f] = NoClient]
  /\ status' = [status EXCEPT ![fdtab[f]] = how]

Accept ==
  /\ pc = "accept" /\ acceptq # <<>>
  /\ LET free == {f \in Fds : fdtab[f] = NoClient} IN
       /\ free # {}
       /\ connfd' = Min(free)
       /\ fdtab' = [fdtab EXCEPT ![Min(free)] = Head(acceptq)]
  /\ status' = [status EXCEPT ![Head(acceptq)] = "open"]
  /\ acceptq' = Tail(acceptq)
  /\ pc' = "malloc"
  /\ UNCHANGED <<clientVars, connfdp, workerVars, tx, rcvd, heap, echoed>>

\* malloc, and *connfdp = connfd.
Malloc ==
  /\ pc = "malloc"
  /\ \E x \in Cells :
       /\ heap[x] = 0
       /\ heap' = [heap EXCEPT ![x] = connfd]
       /\ connfdp' = x
  /\ pc' = "create"
  /\ UNCHANGED <<clientVars, acceptq, connfd, workerVars, tx, rcvd, fdtab, status, echoed>>

MallocFails ==
  /\ pc = "malloc"
  /\ Close(connfd, "aborted")
  /\ pc' = "accept"
  /\ UNCHANGED <<clientVars, acceptq, connfd, connfdp, workerVars, tx, rcvd, heap, echoed>>

\* connfd and connfdp keep their values until the next round: main does not
\* touch what they refer to any more.
PthreadCreate ==
  /\ pc = "create"
  /\ \E w \in Threads :
       /\ wpc[w] = "none"
       /\ wpc' = [wpc EXCEPT ![w] = "start"]
       /\ warg' = [warg EXCEPT ![w] = connfdp]
  /\ pc' = "accept"
  /\ UNCHANGED <<clientVars, acceptq, connfd, connfdp, wfd, wline, tx, rcvd, fdtab, heap, status, echoed>>

freed(x) == [heap EXCEPT ![x] = 0]

CreateFails ==
  /\ pc = "create"
  /\ heap' = freed(connfdp)
  /\ Close(connfd, "aborted")
  /\ pc' = "accept"
  /\ UNCHANGED <<clientVars, acceptq, connfd, connfdp, workerVars, tx, rcvd, echoed>>
-----------------------------------------------------------------------------
(* serve_client *)

argument_shared(w) == connfd            \* mutant: main passes &connfd
argument(w) == heap[warg[w]]

\* connfd = *(int *)arg; free(arg); pthread_detach.
Start(w) ==
  /\ wpc[w] = "start"
  /\ wfd' = [wfd EXCEPT ![w] = argument(w)]
  /\ heap' = [heap EXCEPT ![warg[w]] = 0]
  /\ warg' = [warg EXCEPT ![w] = NoCell]
  /\ wpc' = [wpc EXCEPT ![w] = "read"]
  /\ UNCHANGED <<clientVars, mainVars, wline, tx, rcvd, fdtab, status, echoed>>

\* rio_readlineb on whatever the descriptor refers to now.
Read(w) ==
  LET c == fdtab[wfd[w]] IN
    /\ wpc[w] = "read" /\ c # NoClient /\ rcvd[c] < sent[c]
    /\ rcvd' = [rcvd EXCEPT ![c] = @ + 1]
    /\ wline' = [wline EXCEPT ![w] = rcvd[c] + 1]
    /\ wpc' = [wpc EXCEPT ![w] = "write"]
    /\ UNCHANGED <<clientVars, mainVars, warg, wfd, tx, fdtab, heap, status, echoed>>

Write(w) ==
  LET c == fdtab[wfd[w]] IN
    /\ wpc[w] = "write" /\ c # NoClient /\ ~rst[c] /\ tx[c] < SockBuf
    /\ tx' = [tx EXCEPT ![c] = @ + 1]
    /\ echoed' = [echoed EXCEPT ![c] = Append(@, wline[w])]
    /\ wpc' = [wpc EXCEPT ![w] = "read"] /\ wline' = [wline EXCEPT ![w] = 0]
    /\ UNCHANGED <<clientVars, mainVars, warg, wfd, rcvd, fdtab, heap, status>>

end_seen_early(c) == shut[c]            \* mutant: the last lines are not read
end_seen(c) == shut[c] /\ rcvd[c] = sent[c]

\* End of file or an error; then close(connfd), and the thread is gone.
Finish(w) ==
  LET c == fdtab[wfd[w]] IN
    /\ wpc[w] \in {"read", "write"} /\ c # NoClient
    /\ \/ wpc[w] = "read" /\ end_seen(c) /\ ~rst[c] /\ Close(wfd[w], "done")
       \/ rst[c] /\ Close(wfd[w], "aborted")
    /\ wpc' = [wpc EXCEPT ![w] = "none"]
    /\ wfd' = [wfd EXCEPT ![w] = 0] /\ wline' = [wline EXCEPT ![w] = 0]
    /\ UNCHANGED <<clientVars, mainVars, warg, tx, rcvd, heap, echoed>>

MainSteps == Accept \/ Malloc \/ MallocFails \/ PthreadCreate \/ CreateFails
Worker(w) == Start(w) \/ Read(w) \/ Write(w) \/ Finish(w)

Next ==
  \/ MainSteps
  \/ \E w \in Threads : Worker(w)
  \/ \E c \in Clients : Connect(c) \/ Send(c) \/ Shutdown(c) \/ Reset(c) \/ Receive(c)

Spec == Init /\ [][Next]_vars
-----------------------------------------------------------------------------
(* Properties. *)

\* Type invariant; a worker's descriptor number is a descriptor number.
TypeOK ==
  /\ sent \in [Clients -> 0..MaxSend] /\ rcvd \in [Clients -> 0..MaxSend]
  /\ shut \in [Clients -> BOOLEAN] /\ rst \in [Clients -> BOOLEAN]
  /\ acceptq \in Seq(Clients) /\ tx \in [Clients -> 0..SockBuf]
  /\ fdtab \in [Fds -> Clients \cup {NoClient}] /\ heap \in [Cells -> Fds \cup {0}]
  /\ pc \in {"accept", "malloc", "create"}
  /\ connfd \in Fds \cup {0} /\ connfdp \in Cells \cup {NoCell}
  /\ wpc \in [Threads -> {"none", "start", "read", "write"}]
  /\ warg \in [Threads -> Cells \cup {NoCell}] /\ wfd \in [Threads -> Fds \cup {0}]
  /\ \A w \in Threads : wpc[w] \in {"read", "write"} => wfd[w] \in Fds
  /\ wline \in [Threads -> 0..MaxSend]
  /\ status \in [Clients -> {"none", "open", "done", "aborted"}]
  /\ echoed \in [Clients -> Seq(1..MaxSend)]

\* Who is responsible for a descriptor, and for a heap cell.
MainOwnsFd == IF pc \in {"malloc", "create"} THEN {connfd} ELSE {}
Started == {w \in Threads : wpc[w] = "start"}
Running == {w \in Threads : wpc[w] \in {"read", "write"}}

\* Every open descriptor belongs to main alone, to one heap argument on its
\* way, or to one worker; none is open without an owner and no owner's is
\* closed.  So no thread reads, writes or closes another's connection, although
\* numbers are reused at once (thread_echo_server.c 117).
OneOwnerPerFd ==
  /\ \A w \in Running : fdtab[wfd[w]] # NoClient
  /\ \A w \in Started : fdtab[heap[warg[w]]] # NoClient
  /\ \A v, w \in Running : wfd[v] = wfd[w] => v = w
  /\ \A f \in Fds : fdtab[f] # NoClient =>
       Cardinality({w \in Running : wfd[w] = f})
         + Cardinality({w \in Started : heap[warg[w]] = f})
         + Cardinality({g \in MainOwnsFd : g = f}) = 1

\* Every heap cell in use belongs to main or to one worker that has not freed
\* it yet: none leaks and none is freed twice, on any path.
OneOwnerPerCell ==
  \A x \in Cells : heap[x] # 0 <=>
    Cardinality({w \in Started : warg[w] = x})
      + (IF pc = "create" /\ connfdp = x THEN 1 ELSE 0) = 1

Service == INSTANCE EchoService WITH conn <- status

\* The server keeps the promise of EchoService, line by line.
ImplementsEcho == Service!ESpec

\* A client that ends its stream sees the connection end.
StreamsEnd ==
  \A c \in Clients : Connected(c) /\ shut[c] ~> status[c] \in {"done", "aborted"}
=============================================================================
