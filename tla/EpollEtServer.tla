---------------------------- MODULE EpollEtServer ----------------------------
(***************************************************************************)
(* The edge-triggered echo server                                          *)
(* (Chapter12/12.2/experiments/epoll_et_echo_server.c): one thread, one    *)
(* system call per step, so that clients and the kernel act between any    *)
(* two calls.  The kernel keeps a ready list: an event on a registered     *)
(* descriptor appends it once, epoll_wait takes it off and reports its     *)
(* state of that moment, and EPOLL_CTL_ADD and _MOD test the state anew.   *)
(* The output buffer is the byte queue that OutputBuffer implements.       *)
(* The k-th byte of a client's stream is the number k.                     *)
(***************************************************************************)
EXTENDS Integers, Sequences, FiniteSets, FiniteSetsExt, SeqFilter

CONSTANTS Clients,
          Listen,                \* the listening socket (data.ptr = NULL)
          NoClient,
          MAX_EVENTS,
          READ_BUFFER_SIZE,
          MAX_OUTPUT_CAPACITY,
          SockBuf,               \* room of a socket's send buffer
          MaxSend                \* bound: bytes a client sends

ASSUME EpollAssumption ==
  /\ Listen \notin Clients /\ NoClient \notin Clients
  /\ {MAX_EVENTS, READ_BUFFER_SIZE, MAX_OUTPUT_CAPACITY, SockBuf} \subseteq Nat \ {0}
  /\ MaxSend \in Nat

VARIABLES
  sent, shut, rst,     \* clients: bytes sent, stream ended, connection reset
  acceptq,             \* kernel: connections waiting for accept
  rcvd,                \* kernel: bytes the server has read from each client
  tx,                  \* kernel: bytes in the send buffer, not yet read by the client
  rdlist, interest,    \* epoll: ready list and registered events
  status,              \* connection: none, open, and how it was closed
  output, peer_eof,    \* fields of struct connection
  pc, batch, cur, ev,  \* event loop: events left, the connection and its events
  buf, ret,            \* drain_input's data; where flush_output returns to
  echoed               \* history: all bytes write() has accepted

clientVars == <<sent, shut, rst>>
kernelVars == <<acceptq, rcvd, tx>>
epollVars == <<rdlist, interest>>
connVars == <<status, output, peer_eof, echoed>>
loopVars == <<pc, batch, cur, ev, buf, ret>>
vars == <<clientVars, kernelVars, epollVars, connVars, loopVars>>

Sources == Clients \cup {Listen}
Flags == {"IN", "OUT", "RDHUP", "ERR", "HUP"}
Available(c) == sent[c] - rcvd[c]
Queued(c) == \E i \in DOMAIN acceptq : acceptq[i] = c
Connected(c) == status[c] = "open" \/ Queued(c)

Init ==
  /\ sent = [c \in Clients |-> 0] /\ rcvd = [c \in Clients |-> 0]
  /\ shut = [c \in Clients |-> FALSE] /\ rst = [c \in Clients |-> FALSE]
  /\ acceptq = <<>> /\ rdlist = <<>>
  /\ tx = [c \in Clients |-> 0]
  /\ interest = [c \in Clients |-> {}]
  /\ status = [c \in Clients |-> "none"]
  /\ output = [c \in Clients |-> <<>>] /\ echoed = [c \in Clients |-> <<>>]
  /\ peer_eof = [c \in Clients |-> FALSE]
  /\ pc = "wait" /\ batch = <<>> /\ cur = NoClient /\ ev = {} /\ buf = <<>> /\ ret = "read"
-----------------------------------------------------------------------------
(* The kernel's side of epoll. *)

\* What poll would report for the connection of c.
Poll(c) ==
  (IF Available(c) > 0 \/ shut[c] \/ rst[c] THEN {"IN"} ELSE {})
    \cup (IF shut[c] \/ rst[c] THEN {"RDHUP"} ELSE {})
    \cup (IF tx[c] < SockBuf \/ rst[c] THEN {"OUT"} ELSE {})
    \cup (IF rst[c] THEN {"ERR", "HUP"} ELSE {})

\* Errors and hangups are always of interest.
Reported(c) == Poll(c) \cap (interest[c] \cup {"ERR", "HUP"})

Enlist(list, src) ==
  IF \E i \in DOMAIN list : list[i] = src THEN list ELSE Append(list, src)

Delist(list, src) == Filter(list, Sources \ {src})

\* A change on c's socket: an edge if the descriptor is registered for it.
Edge(c, flags) ==
  rdlist' = IF status[c] = "open" /\ flags \cap (interest[c] \cup {"ERR", "HUP"}) # {}
            THEN Enlist(rdlist, c) ELSE rdlist
-----------------------------------------------------------------------------
(* Clients. *)

Connect(c) ==
  /\ pc # "stopped" /\ status[c] = "none" /\ ~Queued(c)
  /\ acceptq' = Append(acceptq, c)
  /\ rdlist' = Enlist(rdlist, Listen)
  /\ UNCHANGED <<clientVars, rcvd, tx, interest, connVars, loopVars>>

Send(c) ==
  /\ Connected(c) /\ ~shut[c] /\ ~rst[c] /\ sent[c] < MaxSend
  /\ sent' = [sent EXCEPT ![c] = @ + 1]
  /\ Edge(c, {"IN"})
  /\ UNCHANGED <<shut, rst, kernelVars, interest, connVars, loopVars>>

Shutdown(c) ==
  /\ Connected(c) /\ ~shut[c] /\ ~rst[c]
  /\ shut' = [shut EXCEPT ![c] = TRUE]
  /\ Edge(c, {"IN", "RDHUP"})
  /\ UNCHANGED <<sent, rst, kernelVars, interest, connVars, loopVars>>

Reset(c) ==
  /\ Connected(c) /\ ~rst[c]
  /\ rst' = [rst EXCEPT ![c] = TRUE]
  /\ tx' = [tx EXCEPT ![c] = 0]
  /\ Edge(c, {"ERR", "HUP"})
  /\ UNCHANGED <<sent, shut, acceptq, rcvd, interest, connVars, loopVars>>

\* The client reads; room in a send buffer that was full is an edge.
Receive(c) ==
  /\ tx[c] > 0
  /\ tx' = [tx EXCEPT ![c] = @ - 1]
  /\ Edge(c, IF tx[c] = SockBuf THEN {"OUT"} ELSE {})
  /\ UNCHANGED <<clientVars, acceptq, rcvd, interest, connVars, loopVars>>
-----------------------------------------------------------------------------
(* Pieces of the server's code. *)

\* Mutants: EPOLLOUT is always, or never, asked for.
connection_events_out(eof, pending) == (IF eof THEN {} ELSE {"IN", "RDHUP"}) \cup {"OUT"}
connection_events_in(eof, pending) == IF eof THEN {} ELSE {"IN", "RDHUP"}

connection_events(eof, pending) ==
  (IF eof THEN {} ELSE {"IN", "RDHUP"}) \cup (IF pending > 0 THEN {"OUT"} ELSE {})

\* EPOLL_CTL_ADD and EPOLL_CTL_MOD register the events and test them at once.
Register(c, events) ==
  /\ interest' = [interest EXCEPT ![c] = events]
  /\ rdlist' = IF Poll(c) \cap (events \cup {"ERR", "HUP"}) # {}
               THEN Enlist(rdlist, c) ELSE rdlist

\* The connection is freed and its entry leaves the ready list.
close_connection(c, how) ==
  /\ status' = [status EXCEPT ![c] = how]
  /\ interest' = [interest EXCEPT ![c] = {}]
  /\ output' = [output EXCEPT ![c] = <<>>]
  /\ rdlist' = Delist(rdlist, c)
  /\ UNCHANGED <<clientVars, kernelVars, peer_eof, echoed>>

Goto(label) == pc' = label /\ UNCHANGED <<batch, cur, ev, buf, ret>>

\* `continue' of the for loop over the events.
NextEvent ==
  /\ pc' = "next" /\ batch' = Tail(batch)
  /\ cur' = NoClient /\ ev' = {} /\ buf' = <<>> /\ ret' = "read"

CloseCurrent(how) == close_connection(cur, how) /\ NextEvent

\* The event loop is left; the process ends and its descriptors with it.
Stop ==
  /\ pc' = "stopped" /\ batch' = <<>> /\ cur' = NoClient /\ ev' = {}
  /\ status' = [c \in Clients |-> IF Connected(c) THEN "aborted" ELSE status[c]]
  /\ acceptq' = <<>> /\ rdlist' = <<>>
  /\ UNCHANGED <<clientVars, rcvd, tx, interest, output, peer_eof, echoed, buf, ret>>
-----------------------------------------------------------------------------
(* The event loop. *)

epoll_wait ==
  /\ pc = "wait"
  /\ LET happened == Filter(rdlist, {s \in Sources : s = Listen \/ Reported(s) # {}})
         n == Min({Len(happened), MAX_EVENTS})
     IN  /\ n > 0
         /\ batch' = [i \in 1..n |-> [src |-> happened[i],
                        events |-> IF happened[i] = Listen THEN {"IN"} ELSE Reported(happened[i])]]
         /\ rdlist' = SubSeq(happened, n + 1, Len(happened))
  /\ pc' = "next"
  /\ UNCHANGED <<clientVars, kernelVars, interest, connVars, cur, ev, buf, ret>>

\* epoll_wait fails for another reason than EINTR.
WaitError == pc = "wait" /\ Stop

BatchDone ==
  /\ pc = "next" /\ batch = <<>>
  /\ Goto("wait")
  /\ UNCHANGED <<clientVars, kernelVars, epollVars, connVars>>

\* The event at hand, its flags, and whose it is.
event == Head(batch)
AtListen == pc = "next" /\ batch # <<>> /\ event.src = Listen
AtClient == pc = "next" /\ batch # <<>> /\ event.src # Listen

DispatchListen ==
  /\ AtListen
  /\ Goto("accept")
  /\ UNCHANGED <<clientVars, kernelVars, epollVars, connVars>>

\* EPOLLERR or EPOLLHUP on the listening socket ends the server.
ListenError == AtListen /\ Stop

\* Mutant: no `continue' after the close.
AfterError_fall ==
  pc' = "read" /\ cur' = event.src /\ ev' = event.events /\ UNCHANGED <<batch, buf, ret>>
AfterError == NextEvent

DispatchError ==
  /\ AtClient /\ "ERR" \in event.events
  /\ close_connection(event.src, "aborted")
  /\ AfterError

Dispatch ==
  /\ AtClient /\ "ERR" \notin event.events
  /\ cur' = event.src /\ ev' = event.events
  /\ \/ /\ event.events \cap {"IN", "RDHUP", "HUP"} # {}
        /\ pc' = "read" /\ ret' = "read"
     \/ /\ event.events = {"OUT"}
        /\ pc' = "flush" /\ ret' = "finish"
  /\ UNCHANGED <<clientVars, kernelVars, epollVars, connVars, batch, buf>>

(* drain_accept_queue *)

AfterAccept_once == NextEvent     \* mutant: one accept per event
AfterAccept == UNCHANGED loopVars

Accept ==
  /\ pc = "accept" /\ acceptq # <<>>
  /\ acceptq' = Tail(acceptq)
  /\ status' = [status EXCEPT ![Head(acceptq)] = "open"]
  /\ Register(Head(acceptq), connection_events(FALSE, 0))
  /\ AfterAccept
  /\ UNCHANGED <<clientVars, rcvd, tx, output, peer_eof, echoed>>

\* calloc or EPOLL_CTL_ADD failed: the new connection is closed.
AcceptDropped ==
  /\ pc = "accept" /\ acceptq # <<>>
  /\ acceptq' = Tail(acceptq)
  /\ status' = [status EXCEPT ![Head(acceptq)] = "aborted"]
  /\ UNCHANGED <<clientVars, rcvd, tx, epollVars, output, peer_eof, echoed, loopVars>>

AcceptAgain ==   \* EAGAIN
  /\ pc = "accept" /\ acceptq = <<>>
  /\ NextEvent
  /\ UNCHANGED <<clientVars, kernelVars, epollVars, connVars>>

AcceptError == pc = "accept" /\ Stop

(* drain_input *)

Chunk(c, n) == [i \in 1..n |-> rcvd[c] + i]

Read ==
  /\ pc = "read"     \* data is delivered before a reset is reported
  /\ \E n \in 1..Min({READ_BUFFER_SIZE, Available(cur)}) :
       /\ buf' = Chunk(cur, n)
       /\ rcvd' = [rcvd EXCEPT ![cur] = @ + n]
  /\ pc' = "append"
  /\ UNCHANGED <<clientVars, acceptq, tx, epollVars, connVars, batch, cur, ev, ret>>

\* End of input, or EAGAIN; main goes on to EPOLLOUT.
ReadEnds ==
  /\ pc = "read" /\ ~rst[cur] /\ Available(cur) = 0
  /\ peer_eof' = [peer_eof EXCEPT ![cur] = @ \/ shut[cur]]
  /\ pc' = IF "OUT" \in ev THEN "flush" ELSE "finish"
  /\ ret' = "finish"
  /\ UNCHANGED <<clientVars, kernelVars, epollVars, status, output, echoed, batch, cur, ev, buf>>

ReadError == pc = "read" /\ rst[cur] /\ CloseCurrent("aborted")

append_output ==
  /\ pc = "append" /\ Len(buf) <= MAX_OUTPUT_CAPACITY - Len(output[cur])
  /\ output' = [output EXCEPT ![cur] = @ \o buf]
  /\ buf' = <<>>
  /\ pc' = "flush"
  /\ UNCHANGED <<clientVars, kernelVars, epollVars, status, peer_eof, echoed, batch, cur, ev, ret>>

\* ENOBUFS, or realloc failed: drain_input returns -1.
AppendFails == pc = "append" /\ CloseCurrent("aborted")

(* flush_output *)

Unwritten(out, n) == SubSeq(out, n + 1, Len(out))

FlushWrite ==
  /\ pc = "flush" /\ output[cur] # <<>> /\ ~rst[cur]
  /\ \E n \in 1..Min({Len(output[cur]), SockBuf - tx[cur]}) :
       /\ tx' = [tx EXCEPT ![cur] = @ + n]
       /\ echoed' = [echoed EXCEPT ![cur] = @ \o SubSeq(output[cur], 1, n)]
       /\ output' = [output EXCEPT ![cur] = Unwritten(@, n)]
  /\ UNCHANGED <<clientVars, acceptq, rcvd, epollVars, status, peer_eof, loopVars>>

\* Everything is written, or EAGAIN.
FlushReturns ==
  /\ pc = "flush"
  /\ output[cur] = <<>> \/ (tx[cur] = SockBuf /\ ~rst[cur])
  /\ Goto(ret)
  /\ UNCHANGED <<clientVars, kernelVars, epollVars, connVars>>

FlushError == pc = "flush" /\ output[cur] # <<>> /\ rst[cur] /\ CloseCurrent("aborted")

(* The end of an event: close, or register anew what to wait for. *)

Finished_eof(c) == peer_eof[c]    \* mutant: pending output or not
Finished(c) == peer_eof[c] /\ output[c] = <<>>

CloseFinished == pc = "finish" /\ Finished(cur) /\ CloseCurrent("done")

modify_connection ==
  /\ pc = "finish" /\ ~Finished(cur)
  /\ Register(cur, connection_events(peer_eof[cur], Len(output[cur])))
  /\ NextEvent
  /\ UNCHANGED <<clientVars, kernelVars, connVars>>

ModifyFails == pc = "finish" /\ ~Finished(cur) /\ CloseCurrent("aborted")

Work ==
  \/ epoll_wait \/ BatchDone \/ DispatchListen \/ ListenError \/ DispatchError \/ Dispatch
  \/ Accept \/ AcceptDropped \/ AcceptAgain \/ AcceptError
  \/ Read \/ ReadEnds \/ ReadError \/ append_output \/ AppendFails
  \/ FlushWrite \/ FlushReturns \/ FlushError
  \/ CloseFinished \/ modify_connection \/ ModifyFails

Next ==
  \/ Work \/ WaitError
  \/ \E c \in Clients : Connect(c) \/ Send(c) \/ Shutdown(c) \/ Reset(c) \/ Receive(c)

Spec == Init /\ [][Next]_vars

\* The server thread keeps running and its waiting ends when there are events;
\* epoll_wait need not fail, and clients need not do anything.
FairSpec == Spec /\ WF_vars(Work)

\* Every client reads what is written to it.
ClientsRead == \A c \in Clients : WF_vars(Receive(c))
-----------------------------------------------------------------------------
(* Properties. *)

\* Type invariant; the connection being handled exists and the send buffer
\* stays within its room.
TypeOK ==
  /\ sent \in [Clients -> 0..MaxSend] /\ rcvd \in [Clients -> 0..MaxSend]
  /\ shut \in [Clients -> BOOLEAN] /\ rst \in [Clients -> BOOLEAN]
  /\ acceptq \in Seq(Clients) /\ rdlist \in Seq(Sources)
  /\ tx \in [Clients -> 0..SockBuf]
  /\ interest \in [Clients -> SUBSET Flags]
  /\ status \in [Clients -> {"none", "open", "done", "aborted"}]
  /\ output \in [Clients -> Seq(1..MaxSend)] /\ echoed \in [Clients -> Seq(1..MaxSend)]
  /\ peer_eof \in [Clients -> BOOLEAN]
  /\ pc \in {"wait", "next", "accept", "read", "append", "flush", "finish", "stopped"}
  /\ batch \in Seq([src : Sources, events : SUBSET Flags])
  /\ cur \in Clients \cup {NoClient} /\ ev \subseteq Flags
  /\ buf \in Seq(1..MaxSend) /\ ret \in {"read", "finish"}

Enlisted(src) == \E i \in DOMAIN rdlist : rdlist[i] = src

\* Nothing is forgotten: whenever the loop goes to sleep in epoll_wait, every
\* connection that has work for the server, and a nonempty accept queue, is on
\* the ready list.  With edge triggering no later event would bring it back.
NoLostWakeup ==
  pc = "wait" =>
    /\ acceptq # <<>> => Enlisted(Listen)
    /\ \A c \in Clients : status[c] = "open" =>
         /\ (Available(c) > 0 \/ (shut[c] /\ ~peer_eof[c]) \/ rst[c]) => Enlisted(c)
         /\ (output[c] # <<>> /\ tx[c] < SockBuf) => Enlisted(c)

\* No event refers to a freed struct connection: every event left in the
\* array, and the connection in hand, is open, and none is listed twice.
EventsAreLive ==
  /\ TypeOK
  /\ \A i \in DOMAIN batch : batch[i].src # Listen => status[batch[i].src] = "open"
  /\ \A i, j \in DOMAIN batch : batch[i].src = batch[j].src => i = j
  /\ cur # NoClient => status[cur] = "open"

Service == INSTANCE EchoService WITH conn <- status

\* The server keeps the promise of EchoService to every client; in particular
\* a client that ends its stream gets all of its bytes back before the close.
ImplementsEcho == Service!ESpec

\* When clients read their echo, it catches up with what was sent, unless the
\* connection fails, and a client that ends its stream is let go in the end.
EchoCompletes == ClientsRead =>
  \A c \in Clients :
    /\ status[c] = "open" /\ Len(echoed[c]) < sent[c]
         ~> Len(echoed[c]) = sent[c] \/ status[c] = "aborted"
    /\ Connected(c) /\ shut[c] ~> status[c] \in {"done", "aborted"}

\* The loop does not spin: once the clients are quiet, even if some never read
\* their echo, the server sleeps in epoll_wait (or has stopped) for good
\* (epoll_et_echo_server.c 344).
Quiescence == <>[](pc \in {"wait", "stopped"})
=============================================================================
