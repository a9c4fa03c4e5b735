--------------------------- MODULE ProcessServer ---------------------------
(***************************************************************************)
(* The process-per-connection echo server                                  *)
(* (Chapter12/12.1/experiments/process_echo_server.c).  After fork the     *)
(* connection is open in parent and child, and the client sees its end     *)
(* only when both have closed it.  The parent's SIGCHLD handler collects   *)
(* children.  A client's stream is counted in lines, what rio_readlineb    *)
(* returns; the k-th line is the number k.                                 *)
(***************************************************************************)
EXTENDS Integers, Sequences, FiniteSets

CONSTANTS Clients, NoClient,
          SockBuf,   \* lines a socket's send buffer has room for
          MaxSend    \* bound: lines a client sends

VARIABLES
  sent, shut, rst,   \* clients: lines sent, stream ended, connection reset
  acceptq, tx,       \* kernel: waiting connections; lines not yet read by the client
  holders,           \* kernel: which processes have the connection open
  pc, connfd,        \* parent: position and the connection in hand
  child,             \* position of the child that serves each client
  rcvd,              \* lines the child has read
  result,            \* how the child's echo ended
  status,            \* conversation, as the client sees it
  pending, hpc,      \* SIGCHLD pending; handler: idle or in its loop
  echoed             \* history: lines written back

clientVars == <<sent, shut, rst>>
parentVars == <<acceptq, pc, connfd, pending, hpc>>
vars == <<clientVars, parentVars, tx, holders, child, rcvd, result, status, echoed>>

Queued(c) == \E k \in DOMAIN acceptq : acceptq[k] = c
Connected(c) == status[c] = "open" \/ Queued(c)

Init ==
  /\ sent = [c \in Clients |-> 0] /\ rcvd = [c \in Clients |-> 0]
  /\ shut = [c \in Clients |-> FALSE] /\ rst = [c \in Clients |-> FALSE]
  /\ acceptq = <<>> /\ tx = [c \in Clients |-> 0] /\ holders = [c \in Clients |-> {}]
  /\ pc = "accept" /\ connfd = NoClient
  /\ child = [c \in Clients |-> "none"] /\ result = [c \in Clients |-> "none"]
  /\ status = [c \in Clients |-> "none"] /\ echoed = [c \in Clients |-> <<>>]
  /\ pending = FALSE /\ hpc = "idle"

\* close in one process: the connection ends with its last descriptor.
Close(c, who, how) ==
  /\ holders' = [holders EXCEPT ![c] = @ \ {who}]
  /\ result' = [result EXCEPT ![c] = IF how = "" THEN @ ELSE how]
  /\ status' = [status EXCEPT ![c] = IF holders'[c] = {} THEN result'[c] ELSE @]
-----------------------------------------------------------------------------
(* Clients. *)

serverVars == <<pc, connfd, pending, hpc, holders, child, rcvd, result, status, echoed>>

Connect(c) ==
  /\ status[c] = "none" /\ ~Queued(c)
  /\ acceptq' = Append(acceptq, c)
  /\ UNCHANGED <<clientVars, tx, serverVars>>

Send(c) ==
  /\ Connected(c) /\ ~shut[c] /\ ~rst[c] /\ sent[c] < MaxSend
  /\ sent' = [sent EXCEPT ![c] = @ + 1]
  /\ UNCHANGED <<shut, rst, acceptq, tx, serverVars>>

Shutdown(c) ==
  /\ Connected(c) /\ ~shut[c] /\ ~rst[c]
  /\ shut' = [shut EXCEPT ![c] = TRUE]
  /\ UNCHANGED <<sent, rst, acceptq, tx, serverVars>>

Reset(c) ==
  /\ Connected(c) /\ ~rst[c]
  /\ rst' = [rst EXCEPT ![c] = TRUE] /\ tx' = [tx EXCEPT ![c] = 0]
  /\ UNCHANGED <<sent, shut, acceptq, serverVars>>

Receive(c) ==
  /\ tx[c] > 0
  /\ tx' = [tx EXCEPT ![c] = @ - 1]
  /\ UNCHANGED <<clientVars, acceptq, serverVars>>
-----------------------------------------------------------------------------
(* The parent. *)

ParentAt(l) == pc = l /\ hpc = "idle"

Accept ==
  /\ ParentAt("accept") /\ acceptq # <<>>
  /\ connfd' = Head(acceptq) /\ acceptq' = Tail(acceptq)
  /\ holders' = [holders EXCEPT ![Head(acceptq)] = {"parent"}]
  /\ status' = [status EXCEPT ![Head(acceptq)] = "open"]
  /\ pc' = "fork"
  /\ UNCHANGED <<clientVars, tx, child, rcvd, result, pending, hpc, echoed>>

Fork ==
  /\ ParentAt("fork")
  /\ child' = [child EXCEPT ![connfd] = "read"]
  /\ holders' = [holders EXCEPT ![connfd] = @ \cup {"child"}]
  /\ pc' = "close"
  /\ UNCHANGED <<clientVars, acceptq, tx, connfd, rcvd, result, status, pending, hpc, echoed>>

\* fork failed: the connection is closed at once.
ForkFails ==
  /\ ParentAt("fork")
  /\ Close(connfd, "parent", "aborted")
  /\ connfd' = NoClient /\ pc' = "accept"
  /\ UNCHANGED <<clientVars, acceptq, tx, child, rcvd, pending, hpc, echoed>>

CloseCopy == Close(connfd, "parent", "")

ParentClose ==
  /\ ParentAt("close")
  /\ CloseCopy
  /\ connfd' = NoClient /\ pc' = "accept"
  /\ UNCHANGED <<clientVars, acceptq, tx, child, rcvd, pending, hpc, echoed>>
-----------------------------------------------------------------------------
(* A child: echo(connfd), close, _exit. *)

childFrame == <<clientVars, acceptq, pc, connfd, hpc>>

ChildReads(c) ==
  /\ child[c] = "read" /\ rcvd[c] < sent[c]
  /\ rcvd' = [rcvd EXCEPT ![c] = @ + 1]
  /\ child' = [child EXCEPT ![c] = "write"]
  /\ UNCHANGED <<childFrame, tx, holders, result, status, pending, echoed>>

ChildWrites(c) ==
  /\ child[c] = "write" /\ ~rst[c] /\ tx[c] < SockBuf
  /\ tx' = [tx EXCEPT ![c] = @ + 1]
  /\ echoed' = [echoed EXCEPT ![c] = Append(@, rcvd[c])]
  /\ child' = [child EXCEPT ![c] = "read"]
  /\ UNCHANGED <<childFrame, holders, rcvd, result, status, pending>>

end_seen_never(c) == FALSE             \* mutant: 0 does not end the loop
end_seen(c) == shut[c] /\ rcvd[c] = sent[c]

\* The loop ends: 0 at end of file, an error of readlineb or writen.
ChildEnds(c) ==
  /\ \/ child[c] = "read" /\ end_seen(c) /\ ~rst[c] /\ Close(c, "child", "done")
     \/ child[c] \in {"read", "write"} /\ rst[c] /\ Close(c, "child", "aborted")
  /\ child' = [child EXCEPT ![c] = "exit"]
  /\ UNCHANGED <<childFrame, tx, rcvd, pending, echoed>>

ChildExits(c) ==
  /\ child[c] = "exit"
  /\ child' = [child EXCEPT ![c] = "zombie"]
  /\ pending' = TRUE
  /\ UNCHANGED <<childFrame, tx, holders, rcvd, result, status, echoed>>
-----------------------------------------------------------------------------
(* sigchld_handler: waitpid with WNOHANG until nobody is left. *)

handlerFrame == <<clientVars, acceptq, pc, connfd, tx, holders, rcvd, result, status, echoed>>

Deliver ==
  /\ pending /\ hpc = "idle"
  /\ pending' = FALSE /\ hpc' = "loop"
  /\ UNCHANGED <<handlerFrame, child>>

Reap(c) ==
  /\ hpc = "loop" /\ child[c] = "zombie"
  /\ child' = [child EXCEPT ![c] = "reaped"]
  /\ UNCHANGED <<handlerFrame, pending, hpc>>

nobody_left_once == TRUE               \* mutant: if in place of while
nobody_left == \A c \in Clients : child[c] # "zombie"

HandlerReturn ==
  /\ hpc = "loop" /\ nobody_left
  /\ hpc' = "idle"
  /\ UNCHANGED <<handlerFrame, child, pending>>

ParentSteps == Accept \/ Fork \/ ForkFails \/ ParentClose
HandlerSteps == (\E c \in Clients : Reap(c)) \/ HandlerReturn
ChildSteps(c) == ChildReads(c) \/ ChildWrites(c) \/ ChildEnds(c) \/ ChildExits(c)

Next ==
  \/ ParentSteps \/ Deliver \/ HandlerSteps
  \/ \E c \in Clients : ChildSteps(c)
  \/ \E c \in Clients : Connect(c) \/ Send(c) \/ Shutdown(c) \/ Reset(c) \/ Receive(c)

Spec == Init /\ [][Next]_vars
-----------------------------------------------------------------------------
(* Properties. *)

\* Type invariant.
TypeOK ==
  /\ sent \in [Clients -> 0..MaxSend] /\ rcvd \in [Clients -> 0..MaxSend]
  /\ shut \in [Clients -> BOOLEAN] /\ rst \in [Clients -> BOOLEAN]
  /\ acceptq \in Seq(Clients) /\ tx \in [Clients -> 0..SockBuf]
  /\ holders \in [Clients -> SUBSET {"parent", "child"}]
  /\ pc \in {"accept", "fork", "close"} /\ connfd \in Clients \cup {NoClient}
  /\ child \in [Clients -> {"none", "read", "write", "exit", "zombie", "reaped"}]
  /\ result \in [Clients -> {"none", "done", "aborted"}]
  /\ status \in [Clients -> {"none", "open", "done", "aborted"}]
  /\ pending \in BOOLEAN /\ hpc \in {"idle", "loop"}
  /\ echoed \in [Clients -> Seq(1..MaxSend)]

\* The parent holds at most the one connection it is working on, on every
\* path: its descriptor table does not fill up however many clients come.
NoDescriptorLeak ==
  /\ \A c \in Clients : "parent" \in holders[c] => c = connfd
  /\ \A c \in Clients : "child" \in holders[c] <=> child[c] \in {"read", "write"}

(* ImplementsEcho and StreamsEnd of ThreadServer are about the variables    *)
(* both servers have; MCPerClient checks them of both, and that no child    *)
(* stays a zombie although deaths share one pending SIGCHLD.                *)
=============================================================================
