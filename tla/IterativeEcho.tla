---------------------------- MODULE IterativeEcho ----------------------------
(***************************************************************************)
(* The iterative echo server (Chapter11/experiments/echo_server.c), with   *)
(* the clients the repository has for it and its like: echo_client.c,      *)
(* which reads once for each line it sends ("plain"), and                  *)
(* process_echo_client.c, which reads up to a newline ("rio").  The server *)
(* serves one client at a time with blocking calls, ignores the result of  *)
(* write and leaves SIGPIPE at its default.                                *)
(* The k-th byte of a client's stream is the number k; a line is what      *)
(* fgets returns.                                                          *)
(***************************************************************************)
EXTENDS Integers, Sequences, FiniteSetsExt

CONSTANTS Clients, NoClient,
          SockBuf,   \* room of a socket's send buffer
          MaxSend,   \* bytes of a client's input
          Programs   \* which client programs run together

VARIABLES
  kind, NL,               \* clients: which program, and the newlines of its input
  cpc, sent, shut, got,   \* position, bytes written, closed, bytes read back
  acceptq, tx,            \* kernel: waiting connections; bytes on the way to a client
  rst,                    \* kernel: the server has written to a client that is gone
  pc, connfd, rcvd, wbuf, \* server: position, client in hand, bytes read, bytes to write
  status,                 \* conversation
  echoed                  \* history: bytes write() has accepted

clientVars == <<kind, NL, cpc, sent, shut, got>>
serverVars == <<pc, connfd, rcvd, wbuf, status, echoed>>
vars == <<clientVars, acceptq, tx, rst, serverVars>>

IterInit ==
  /\ kind \in Programs /\ NL \in [Clients -> SUBSET (1..MaxSend)]
  /\ cpc = [c \in Clients |-> "start"]
  /\ sent = [c \in Clients |-> 0] /\ got = [c \in Clients |-> 0] /\ rcvd = [c \in Clients |-> 0]
  /\ shut = [c \in Clients |-> FALSE] /\ rst = [c \in Clients |-> FALSE]
  /\ acceptq = <<>> /\ tx = [c \in Clients |-> 0]
  /\ pc = "accept" /\ connfd = NoClient /\ wbuf = 0
  /\ status = [c \in Clients |-> "none"] /\ echoed = [c \in Clients |-> <<>>]
-----------------------------------------------------------------------------
(* The clients. *)

\* The server's end of the connection is gone, and all it sent has been read.
Ended(c) == status[c] \in {"done", "aborted"} /\ tx[c] = 0

Goes(c, where) == cpc' = [cpc EXCEPT ![c] = where]

\* open_clientfd; without a server it fails and the client exits.
Connect(c) ==
  /\ cpc[c] = "start"
  /\ \/ pc # "dead" /\ acceptq' = Append(acceptq, c) /\ Goes(c, "gets")
     \/ pc = "dead" /\ Goes(c, "closed") /\ UNCHANGED acceptq
  /\ UNCHANGED <<kind, NL, sent, shut, got, tx, rst, serverVars>>

LineEnd(c) == Min({MaxSend} \cup {k \in NL[c] : k > sent[c]})

\* fgets, and the write of the line.
SendLine(c) ==
  /\ cpc[c] = "gets" /\ sent[c] < MaxSend /\ status[c] \in {"none", "open"}
  /\ sent' = [sent EXCEPT ![c] = LineEnd(c)]
  /\ Goes(c, "read")
  /\ UNCHANGED <<kind, NL, shut, got, acceptq, tx, rst, serverVars>>

\* close, or the end of the process: what has not been read is discarded.
Close(c) ==
  /\ Goes(c, "closed")
  /\ shut' = [shut EXCEPT ![c] = TRUE] /\ tx' = [tx EXCEPT ![c] = 0]
  /\ UNCHANGED <<kind, NL, sent, got, acceptq, rst, serverVars>>

\* End of input; or the write fails, or kills the client.
EndOfInput(c) == cpc[c] = "gets" /\ sent[c] = MaxSend /\ Close(c)
SendFails(c) == cpc[c] = "gets" /\ status[c] \in {"done", "aborted"} /\ Close(c)
ReadEnds(c) == cpc[c] = "read" /\ Ended(c) /\ Close(c)
Killed(c) == cpc[c] \in {"gets", "read"} /\ Close(c)

\* echo_client: one read, of whatever is there.
ReadOnce(c) ==
  /\ cpc[c] = "read" /\ kind[c] = "plain"
  /\ \E n \in 1..tx[c] : got' = [got EXCEPT ![c] = @ + n] /\ tx' = [tx EXCEPT ![c] = @ - n]
  /\ Goes(c, "gets")
  /\ UNCHANGED <<kind, NL, sent, shut, acceptq, rst, serverVars>>

\* process_echo_client: rio_readlineb takes byte after byte up to a newline.
ReadByte(c) ==
  /\ cpc[c] = "read" /\ kind[c] = "rio" /\ tx[c] > 0
  /\ got' = [got EXCEPT ![c] = @ + 1] /\ tx' = [tx EXCEPT ![c] = @ - 1]
  /\ Goes(c, IF got[c] + 1 \in NL[c] THEN "gets" ELSE "read")
  /\ UNCHANGED <<kind, NL, sent, shut, acceptq, rst, serverVars>>

ClientSteps(c) ==
  Connect(c) \/ SendLine(c) \/ EndOfInput(c) \/ SendFails(c) \/ ReadEnds(c) \/ ReadOnce(c) \/ ReadByte(c)
-----------------------------------------------------------------------------
(* The server. *)

Accept ==
  /\ pc = "accept" /\ acceptq # <<>>
  /\ connfd' = Head(acceptq) /\ acceptq' = Tail(acceptq)
  /\ status' = [status EXCEPT ![Head(acceptq)] = "open"]
  /\ pc' = "read"
  /\ UNCHANGED <<clientVars, tx, rst, rcvd, wbuf, echoed>>

Read ==
  /\ pc = "read"
  /\ \E n \in 1..(sent[connfd] - rcvd[connfd]) :
       wbuf' = n /\ rcvd' = [rcvd EXCEPT ![connfd] = @ + n]
  /\ pc' = "write"
  /\ UNCHANGED <<clientVars, acceptq, tx, rst, connfd, status, echoed>>

\* read returns 0 or -1: close(connfd).
CloseConn(how) ==
  /\ status' = [status EXCEPT ![connfd] = how]
  /\ pc' = "accept" /\ connfd' = NoClient
  /\ UNCHANGED <<clientVars, acceptq, tx, rst, rcvd, wbuf, echoed>>

end_read == shut[connfd] /\ rcvd[connfd] = sent[connfd]

ReadEof ==
  /\ pc = "read" /\ end_read
  /\ CloseConn(IF rst[connfd] THEN "aborted" ELSE "done")

ReadFails == pc = "read" /\ CloseConn("aborted")

\* A blocking write copies as there is room, until all is copied.
Write ==
  /\ pc = "write" /\ ~shut[connfd]
  /\ \E n \in 1..Min({wbuf, SockBuf - tx[connfd]}) :
       /\ tx' = [tx EXCEPT ![connfd] = @ + n]
       /\ echoed' = [echoed EXCEPT ![connfd] = @ \o [i \in 1..n |-> rcvd[connfd] - wbuf + i]]
       /\ wbuf' = wbuf - n
       /\ pc' = IF n = wbuf THEN "read" ELSE "write"
  /\ UNCHANGED <<clientVars, acceptq, rst, connfd, rcvd, status>>

\* The client has closed: the bytes are lost, and the answer is a reset.
WriteLost ==
  /\ pc = "write" /\ shut[connfd]
  /\ rst' = [rst EXCEPT ![connfd] = TRUE]
  /\ wbuf' = 0 /\ pc' = "read"
  /\ UNCHANGED <<clientVars, acceptq, tx, connfd, rcvd, status, echoed>>

\* After the reset the next write raises SIGPIPE: the server dies, and with it
\* every connection, the queued ones too.
Sigpipe ==
  /\ pc = "write" /\ rst[connfd]
  /\ pc' = "dead" /\ connfd' = NoClient /\ wbuf' = 0 /\ acceptq' = <<>>
  /\ status' = [c \in Clients |->
       IF status[c] = "open" \/ \E k \in DOMAIN acceptq : acceptq[k] = c THEN "aborted" ELSE status[c]]
  /\ UNCHANGED <<clientVars, tx, rst, rcvd, echoed>>

ServerSteps == Accept \/ Read \/ ReadEof \/ Write \/ WriteLost \/ Sigpipe

IterNext == ServerSteps \/ ReadFails \/ \E c \in Clients : ClientSteps(c) \/ Killed(c)
IterSpec == IterInit /\ [][IterNext]_vars
-----------------------------------------------------------------------------
(* Properties. *)

\* Type invariant.
IterTypeOK ==
  /\ cpc \in [Clients -> {"start", "gets", "read", "closed"}]
  /\ pc \in {"accept", "read", "write", "dead"} /\ wbuf \in 0..MaxSend
  /\ \A c \in Clients : tx[c] \in 0..SockBuf /\ got[c] \in 0..Len(echoed[c])
                        /\ rcvd[c] \in 0..sent[c] /\ sent[c] \in 0..MaxSend

\* process_echo_client stays in step: when it asks for the next line, all it
\* has sent is back, unless the connection failed.  (echo_client takes one read
\* for a whole line and may lag.)
InStep ==
  \A c \in Clients :
    kind[c] = "rio" /\ cpc[c] = "gets" /\ status[c] \in {"none", "open"} => got[c] = sent[c]

\* Client and server each wait for the other.
MutualWait(c) ==
  /\ connfd = c /\ pc = "read" /\ rcvd[c] = sent[c]
  /\ cpc[c] = "read" /\ tx[c] = 0

\* That happens only to process_echo_client, and only over a last line without
\* newline: echo_client, for all its lag, always has a byte to wait for.
WaitOnlyUnfinished ==
  \A c \in Clients : MutualWait(c) => kind[c] = "rio" /\ sent[c] \notin NL[c]

\* Every client ends, whatever dies on the way (the server, by SIGPIPE,
\* included), unless a client and the server wait for each other; then the
\* clients behind it wait too.
ClientsEnd ==
  \/ <>(\A c \in Clients : cpc[c] = "closed")
  \/ \E c \in Clients : <>[]MutualWait(c)
=============================================================================
