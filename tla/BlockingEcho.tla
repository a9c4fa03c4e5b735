---------------------------- MODULE BlockingEcho ----------------------------
(***************************************************************************)
(* What the select, poll and level-triggered epoll echo servers of         *)
(* Chapter12/12.2/experiments have in common: clients, blocking sockets,   *)
(* descriptor numbers (the kernel hands out the lowest free one, so they   *)
(* are reused at once), and echo_once, whose read and write calls are      *)
(* steps of their own.  A blocking call that has nothing to do is a step   *)
(* that is not enabled: the one thread of the server waits in it.          *)
(* The k-th byte of a client's stream is the number k.                     *)
(***************************************************************************)
EXTENDS Integers, Sequences, FiniteSets, FiniteSetsExt

CONSTANTS Clients,
          listenfd,
          Fds,       \* the other descriptor numbers of the process
          MAXLINE,
          SockBuf,   \* room of a socket's send buffer
          MaxSend    \* bound: bytes each client sends

ASSUME EchoAssumption ==
  /\ {listenfd, MAXLINE, SockBuf} \subseteq Nat \ {0} /\ MaxSend \in [Clients -> Nat]
  /\ Fds \subseteq Nat /\ IsFiniteSet(Fds) /\ \A f \in Fds : f > listenfd

VARIABLES
  sent, shut, rst,  \* clients: bytes sent, stream ended, connection reset
  acceptq,          \* kernel: connections waiting for accept
  rcvd, tx,         \* kernel: bytes the server has read; bytes the client has not read
  fd,               \* descriptor of each accepted connection, else 0
  status,           \* conversation: none, open, done or aborted
  pc, curfd,        \* the server's position; the descriptor echo_once works on
  wbuf, rc,         \* echo_once: bytes rio_writen has left, and the result
  echoed            \* history: all bytes write() has accepted

clientVars == <<sent, shut, rst>>
socketVars == <<acceptq, rcvd, tx, fd, status>>
echoVars == <<clientVars, socketVars, pc, curfd, wbuf, rc, echoed>>

Available(c) == sent[c] - rcvd[c]
Queued(c) == \E i \in DOMAIN acceptq : acceptq[i] = c
Connected(c) == status[c] = "open" \/ Queued(c)
InUse == {fd[c] : c \in {d \in Clients : status[d] = "open"}}
Owner(f) == CHOOSE c \in Clients : status[c] = "open" /\ fd[c] = f
Cur == Owner(curfd)

\* What select, poll and epoll_wait report.
Readable(c) == Available(c) > 0 \/ shut[c] \/ rst[c]
Ready(f) == IF f = listenfd THEN acceptq # <<>> ELSE f \in InUse /\ Readable(Owner(f))

EchoInit ==
  /\ sent = [c \in Clients |-> 0] /\ rcvd = [c \in Clients |-> 0]
  /\ shut = [c \in Clients |-> FALSE] /\ rst = [c \in Clients |-> FALSE]
  /\ acceptq = <<>>
  /\ tx = [c \in Clients |-> 0] /\ fd = [c \in Clients |-> 0]
  /\ status = [c \in Clients |-> "none"] /\ echoed = [c \in Clients |-> <<>>]
  /\ pc = "wait" /\ curfd = 0 /\ wbuf = <<>> /\ rc = "ok"
-----------------------------------------------------------------------------
(* Clients. *)

Connect(c) ==
  /\ pc # "stopped" /\ status[c] = "none" /\ ~Queued(c)
  /\ acceptq' = Append(acceptq, c)
  /\ UNCHANGED <<clientVars, rcvd, tx, fd, status, pc, curfd, wbuf, rc, echoed>>

Send(c) ==
  /\ Connected(c) /\ ~shut[c] /\ ~rst[c] /\ sent[c] < MaxSend[c]
  /\ sent' = [sent EXCEPT ![c] = @ + 1]
  /\ UNCHANGED <<shut, rst, socketVars, pc, curfd, wbuf, rc, echoed>>

Shutdown(c) ==
  /\ Connected(c) /\ ~shut[c] /\ ~rst[c]
  /\ shut' = [shut EXCEPT ![c] = TRUE]
  /\ UNCHANGED <<sent, rst, socketVars, pc, curfd, wbuf, rc, echoed>>

Reset(c) ==
  /\ Connected(c) /\ ~rst[c]
  /\ rst' = [rst EXCEPT ![c] = TRUE]
  /\ tx' = [tx EXCEPT ![c] = 0]
  /\ UNCHANGED <<sent, shut, acceptq, rcvd, fd, status, pc, curfd, wbuf, rc, echoed>>

Receive(c) ==
  /\ tx[c] > 0
  /\ tx' = [tx EXCEPT ![c] = @ - 1]
  /\ UNCHANGED <<clientVars, acceptq, rcvd, fd, status, pc, curfd, wbuf, rc, echoed>>

ClientSteps == \E c \in Clients : Connect(c) \/ Send(c) \/ Shutdown(c) \/ Reset(c) \/ Receive(c)
-----------------------------------------------------------------------------
(* accept, and close. *)

NewFd == Min(Fds \ InUse)

\* accept returns a new descriptor; a kept one is open from here on.
AcceptAs(outcome) ==
  /\ acceptq # <<>> /\ Fds \ InUse # {}
  /\ acceptq' = Tail(acceptq)
  /\ status' = [status EXCEPT ![Head(acceptq)] = outcome]
  /\ fd' = [fd EXCEPT ![Head(acceptq)] = IF outcome = "open" THEN NewFd ELSE 0]
  /\ UNCHANGED <<clientVars, rcvd, tx, curfd, wbuf, rc, echoed>>

\* accept fails (no descriptor left, an aborted connection, EINTR).
AcceptFails == UNCHANGED <<clientVars, socketVars, curfd, wbuf, rc, echoed>>

\* close of the current descriptor; the number is free again.
Close(outcome) ==
  /\ status' = [status EXCEPT ![Cur] = outcome]
  /\ fd' = [fd EXCEPT ![Cur] = 0]
  /\ curfd' = 0 /\ rc' = "ok"
  /\ UNCHANGED <<clientVars, acceptq, rcvd, tx, wbuf, echoed>>

\* The wait call failed for good: the loop is left and the process ends.
Stop ==
  /\ pc = "wait"
  /\ pc' = "stopped"
  /\ status' = [c \in Clients |-> IF Connected(c) THEN "aborted" ELSE status[c]]
  /\ fd' = [c \in Clients |-> 0] /\ acceptq' = <<>>
  /\ UNCHANGED <<clientVars, rcvd, tx, curfd, wbuf, rc, echoed>>
-----------------------------------------------------------------------------
(* echo_once(curfd): rc is "ok" for its 0, "eof" and "error" for its -1.   *)

Chunk(c, n) == [i \in 1..n |-> rcvd[c] + i]

EchoRead ==
  /\ pc = "read"
  /\ \E n \in 1..Min({MAXLINE, Available(Cur)}) :
       /\ wbuf' = Chunk(Cur, n)
       /\ rcvd' = [rcvd EXCEPT ![Cur] = @ + n]
  /\ pc' = "write"
  /\ UNCHANGED <<clientVars, acceptq, tx, fd, status, curfd, rc, echoed>>

EchoReturns(result) ==
  /\ pc' = "served" /\ rc' = result
  /\ UNCHANGED <<clientVars, socketVars, curfd, echoed>>

EchoEof == pc = "read" /\ shut[Cur] /\ Available(Cur) = 0 /\ ~rst[Cur]
           /\ EchoReturns("eof") /\ UNCHANGED wbuf
EchoError == pc = "read" /\ rst[Cur] /\ EchoReturns("error") /\ UNCHANGED wbuf
EchoInterrupted == pc = "read" /\ EchoReturns("ok") /\ UNCHANGED wbuf

unsent(n) == SubSeq(wbuf, n + 1, Len(wbuf))

EchoWrite ==
  /\ pc = "write" /\ ~rst[Cur]
  /\ \E n \in 1..Min({Len(wbuf), SockBuf - tx[Cur]}) :
       /\ tx' = [tx EXCEPT ![Cur] = @ + n]
       /\ echoed' = [echoed EXCEPT ![Cur] = @ \o SubSeq(wbuf, 1, n)]
       /\ wbuf' = unsent(n)
  /\ UNCHANGED <<clientVars, acceptq, rcvd, fd, status, pc, curfd, rc>>

EchoWritten == pc = "write" /\ wbuf = <<>> /\ EchoReturns("ok") /\ UNCHANGED wbuf
\* Mutant: a failed write is tried again.
EchoBroken_retried == pc = "write" /\ wbuf # <<>> /\ rst[Cur] /\ UNCHANGED echoVars

EchoBroken == pc = "write" /\ wbuf # <<>> /\ rst[Cur] /\ EchoReturns("error") /\ wbuf' = <<>>

EchoSteps ==
  EchoRead \/ EchoEof \/ EchoError \/ EchoInterrupted \/ EchoWrite \/ EchoWritten \/ EchoBroken
-----------------------------------------------------------------------------
(* Properties of all three servers. *)

\* Type invariant of the shared state.
EchoTypeOK ==
  /\ \A c \in Clients : sent[c] \in 0..MaxSend[c] /\ rcvd[c] \in 0..sent[c]
  /\ shut \in [Clients -> BOOLEAN] /\ rst \in [Clients -> BOOLEAN]
  /\ acceptq \in Seq(Clients)
  /\ tx \in [Clients -> 0..SockBuf] /\ fd \in [Clients -> Fds \cup {0}]
  /\ status \in [Clients -> {"none", "open", "done", "aborted"}]
  /\ \A c \in Clients : echoed[c] \in Seq(1..rcvd[c])
  /\ curfd \in Fds \cup {0} /\ rc \in {"ok", "eof", "error"}
  /\ wbuf # <<>> => pc = "write" /\ wbuf \in Seq(1..rcvd[Cur])

\* The server calls read only on an open descriptor that has something to
\* say, so that this blocking call never stops the one thread: readiness
\* noted before an accept, a close or a reuse of the number is not stale.
ReadNeverBlocks == pc = "read" => curfd \in InUse /\ Readable(Cur)

Service == INSTANCE EchoService WITH conn <- status

\* The servers keep the promise of EchoService to every client.
ImplementsEcho == Service!ESpec

\* rio_writen on a blocking socket waits for the client to read: the one
\* thread of the server comes back to its wait call again and again, or it
\* stands in the write to one client that has stopped reading, for good.  No
\* other call of the loop can hold it up.
StallsOnlyOnWrite ==
  \/ []<>(pc \in {"wait", "stopped"})
  \/ \E c \in Clients : <>[](pc = "write" /\ Cur = c /\ tx[c] = SockBuf /\ ~rst[c])

ClientsRead == \A c \in Clients : []<>(tx[c] < SockBuf)

Owed(c) == \/ status[c] = "open" /\ Len(echoed[c]) < sent[c]
           \/ Connected(c) /\ shut[c]

\* As long as no client stops reading, what is owed to a client is settled:
\* the echo catches up with what it sent, and it is let go in the end once it
\* has ended its stream, unless its connection fails.  (A client that does stop
\* reading holds up all the others: StallsOnlyOnWrite.)
EchoCompletes == ClientsRead => \A c \in Clients : Owed(c) ~> ~Owed(c)
=============================================================================
