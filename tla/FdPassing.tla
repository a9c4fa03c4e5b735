------------------------------ MODULE FdPassing ------------------------------
(***************************************************************************)
(* The three programs of Chapter10/experiments that pass an open file over *)
(* a Unix-domain connection with SCM_RIGHTS:                               *)
(*   "pair"   uds_passfd.c, parent and child over a socketpair;            *)
(*   "named"  passfd_send.c and independent runs of passfd_recv.c;         *)
(*   "raii"   passfd_cpp.cpp with UnixSocket of unix_socket.hpp, parent    *)
(*            and child over a named socket.                               *)
(* send_fd and recv_fd are the same in all three.  Any call that can fail  *)
(* may fail; uds_die, exit and an uncaught or caught exception end the     *)
(* process, and the kernel closes what it held.                            *)
(* A descriptor is named for what it refers to: "listen", "conn" (the end  *)
(* of the connection a process uses), "peer" (after fork, the other end),  *)
(* "file".  The k-th byte of the file is the number k.                     *)
(***************************************************************************)
EXTENDS Integers, Sequences, FiniteSets, FiniteSetsExt

CONSTANTS Receivers,
          Child,      \* the one that is forked in "pair" and "raii"
          content,    \* bytes a read asks for
          FileLen

VARIABLES
  prog,        \* which of the three
  spc, sfd,    \* sender: position, descriptors
  rpc, rfd,    \* receivers: position, descriptors
  sexit, rexit,\* exit codes: -1 while running
  path,        \* the socket's name: "none", "stale" or "bound"
  link,        \* connection of each receiver: none, queued, up or reset
  msg,         \* kernel: the message with the open file is in flight
  offset,      \* of the open file, shared by all who hold it
  got          \* bytes each receiver has read

senderVars == <<spc, sfd, sexit>>
receiverVars == <<rpc, rfd, rexit, got>>
kernelVars == <<path, link, msg, offset>>
vars == <<prog, senderVars, receiverVars, kernelVars>>

Listening == "listen" \in sfd \/ \E r \in Receivers : "listen" \in rfd[r]

Init ==
  /\ prog \in {"pair", "named", "raii"}
  /\ spc = IF prog = "pair" THEN "fork" ELSE "bind"
  /\ sfd = IF prog = "pair" THEN {"conn", "peer"} ELSE {"listen"}
  /\ rpc = [r \in Receivers |-> "idle"] /\ rfd = [r \in Receivers |-> {}]
  /\ sexit = -1 /\ rexit = [r \in Receivers |-> -1]
  /\ path \in IF prog = "pair" THEN {"none"} ELSE {"none", "stale"}
  /\ link = [r \in Receivers |-> "none"] /\ msg = [r \in Receivers |-> FALSE]
  /\ offset = 0 /\ got = [r \in Receivers |-> <<>>]

\* With the last descriptor of the listening socket, what it has queued goes.
AfterClose == link' = [r \in Receivers |->
  IF link[r] = "queued" /\ ~Listening' THEN "reset" ELSE link[r]]

\* The sender ends: its descriptors are closed.
SenderExit(code) ==
  /\ spc' = "done" /\ sfd' = {} /\ sexit' = code
  /\ UNCHANGED <<prog, receiverVars, msg, offset>>

\* uds_die; main of passfd_cpp.cpp removes the name in its catch clause.
uds_die ==
  /\ SenderExit(1)
  /\ path' = IF prog = "raii" THEN "none" ELSE path
  /\ AfterClose
-----------------------------------------------------------------------------
(* The sender. *)

SenderTo(l) == spc' = l /\ UNCHANGED <<prog, sexit, receiverVars>>

\* unlink, bind: what an earlier run left behind is removed first.
Bind ==
  /\ spc = "bind"
  /\ path' = "bound"
  /\ SenderTo("listen")
  /\ UNCHANGED <<sfd, link, msg, offset>>

Listen ==
  /\ spc = "listen"
  /\ SenderTo(IF prog = "raii" THEN "fork" ELSE "accept")
  /\ UNCHANGED <<sfd, kernelVars>>

\* The child inherits every descriptor.
Fork ==
  /\ spc = "fork"
  /\ spc' = IF prog = "pair" THEN "closepeer" ELSE "accept"
  /\ rpc' = [rpc EXCEPT ![Child] = IF prog = "pair" THEN "closepeer" ELSE "connect"]
  /\ rfd' = [rfd EXCEPT ![Child] = sfd]
  /\ link' = [link EXCEPT ![Child] = IF prog = "pair" THEN "up" ELSE "none"]
  /\ UNCHANGED <<prog, sfd, sexit, rexit, got, path, msg, offset>>

ForkFails ==
  /\ spc = "fork"
  /\ SenderExit(1) /\ AfterClose /\ UNCHANGED path

\* The parent's close(sv[1]).
CloseUnused ==
  /\ spc = "closepeer"
  /\ sfd' = sfd \ {"peer"}
  /\ SenderTo("open")
  /\ UNCHANGED kernelVars

Accept ==
  /\ spc = "accept"
  /\ \E r \in Receivers :
       /\ link[r] = "queued"
       /\ link' = [link EXCEPT ![r] = "up"]
  /\ sfd' = sfd \cup {"conn"}
  /\ SenderTo("open")
  /\ UNCHANGED <<path, msg, offset>>

OpenFile ==
  /\ spc = "open"
  /\ sfd' = sfd \cup {"file"}
  /\ SenderTo("send")
  /\ UNCHANGED kernelVars

\* passfd_cpp.cpp returns 1 here, without an exception.
OpenFails ==
  /\ spc = "open"
  /\ SenderExit(1) /\ AfterClose /\ UNCHANGED path

\* The receiving end of the connection that is up.
Linked == CHOOSE r \in Receivers : link[r] = "up"
ReceiverEnd == "conn" \in rfd[Linked] \/ "peer" \in sfd

AfterSend == IF prog = "raii" THEN "wait" ELSE "closefile"

send_fd ==
  /\ spc = "send" /\ ReceiverEnd
  /\ msg' = [msg EXCEPT ![Linked] = TRUE]
  /\ SenderTo(AfterSend)
  /\ UNCHANGED <<sfd, path, link, offset>>

\* sendmsg to an end that is closed: SIGPIPE, at its default action.
SendKilled ==
  /\ spc = "send" /\ ~ReceiverEnd
  /\ SenderExit(141) /\ AfterClose /\ UNCHANGED path

CloseFile ==
  /\ spc = "closefile"
  /\ sfd' = sfd \ {"file"}
  /\ SenderTo("closeconn")
  /\ UNCHANGED kernelVars

CloseConn ==
  /\ spc = "closeconn"
  /\ sfd' = sfd \ {"conn"}
  /\ SenderTo(IF prog = "pair" THEN "wait" ELSE "closelisten")
  /\ UNCHANGED kernelVars

CloseListen ==
  /\ spc = "closelisten"
  /\ sfd' = sfd \ {"listen"}
  /\ SenderTo("unlink")
  /\ AfterClose
  /\ UNCHANGED <<path, msg, offset>>

\* wait(NULL), waitpid(pid, ...).
WaitChild ==
  /\ spc = "wait" /\ rpc[Child] = "done"
  /\ SenderTo("unlink")
  /\ UNCHANGED <<sfd, kernelVars>>

Return ==
  /\ spc = "unlink"
  /\ SenderExit(0)
  /\ path' = "none"
  /\ AfterClose

\* socket fails, or, after unlink, bind.
BindFails ==
  /\ spc = "bind"
  /\ SenderExit(1) /\ AfterClose
  /\ path' \in IF prog = "raii" THEN {"none"} ELSE {path, "none"}

\* The other calls that report an error to uds_die or by an exception.
SenderFails == spc \in {"listen", "accept", "send"} /\ uds_die
-----------------------------------------------------------------------------
(* A receiver. *)

frame == <<prog, senderVars>>
ReceiverTo(r, l) == rpc' = [rpc EXCEPT ![r] = l]

ReceiverExit(r, code) ==
  /\ ReceiverTo(r, "done")
  /\ rfd' = [rfd EXCEPT ![r] = {}] /\ rexit' = [rexit EXCEPT ![r] = code]
  /\ msg' = [msg EXCEPT ![r] = FALSE]   \* what it has not received is discarded
  /\ path' = IF code # 0 /\ prog = "raii" THEN "none" ELSE path   \* catch
  /\ UNCHANGED <<frame, offset, got>>
  /\ AfterClose

\* passfd_recv is started at any time.
Start(r) ==
  /\ prog = "named" /\ rpc[r] = "idle"
  /\ ReceiverTo(r, "connect")
  /\ UNCHANGED <<frame, rfd, rexit, got, kernelVars>>

Reachable == path = "bound" /\ Listening /\ spc # "listen"

Connect(r) ==
  /\ rpc[r] = "connect" /\ Reachable
  /\ link' = [link EXCEPT ![r] = "queued"]
  /\ rfd' = [rfd EXCEPT ![r] = @ \cup {"conn"}]
  /\ ReceiverTo(r, "recv")
  /\ UNCHANGED <<frame, rexit, got, path, msg, offset>>

ConnectRefused(r) == rpc[r] = "connect" /\ ~Reachable /\ ReceiverExit(r, 1)
ConnectFails(r) == rpc[r] = "connect" /\ ReceiverExit(r, 1)

\* The child's close(sv[0]).
without_peer_kept(fds) == fds        \* mutant: the child keeps the parent's end
without_peer(fds) == fds \ {"peer"}

ChildCloses(r) ==
  /\ rpc[r] = "closepeer"
  /\ rfd' = [rfd EXCEPT ![r] = without_peer(@)]
  /\ ReceiverTo(r, "recv")
  /\ UNCHANGED <<frame, rexit, got, kernelVars>>

\* The descriptor arrives under a number of this process.
recv_fd(r) ==
  /\ rpc[r] = "recv" /\ msg[r]
  /\ msg' = [msg EXCEPT ![r] = FALSE]
  /\ rfd' = [rfd EXCEPT ![r] = @ \cup {"file"}]
  /\ ReceiverTo(r, "read")
  /\ UNCHANGED <<frame, rexit, got, path, link, offset>>

SenderEnd(r) == "conn" \in sfd \/ "peer" \in rfd[r]

\* End of stream or a reset: there is no message with a descriptor.
NoDescriptor(r) ==
  /\ rpc[r] = "recv" /\ ~msg[r]
  /\ link[r] = "reset" \/ (link[r] = "up" /\ ~SenderEnd(r))
  /\ ReceiverExit(r, 1)

\* recvmsg fails, or the process has no room for one more descriptor.
RecvFails(r) == rpc[r] = "recv" /\ ReceiverExit(r, 1)

chunk == Min({content, FileLen - offset})

\* passfd_recv.c and uds_passfd.c read once; passfd_cpp.cpp until read
\* returns 0.
Read(r) ==
  /\ rpc[r] = "read"
  /\ got' = [got EXCEPT ![r] = @ \o [i \in 1..chunk |-> offset + i]]
  /\ offset' = offset + chunk
  /\ ReceiverTo(r, IF prog = "raii" /\ chunk > 0 THEN "read" ELSE "exit")
  /\ UNCHANGED <<frame, rfd, rexit, path, link, msg>>

\* read fails: uds_die, but the loop of passfd_cpp.cpp just ends.
ReadFails(r) ==
  /\ rpc[r] = "read"
  /\ IF prog = "raii"
     THEN ReceiverTo(r, "exit") /\ UNCHANGED <<frame, rfd, rexit, got, kernelVars>>
     ELSE ReceiverExit(r, 1)

ReceiverReturns(r) == rpc[r] = "exit" /\ ReceiverExit(r, 0)
-----------------------------------------------------------------------------
SenderSteps ==
  \/ Bind \/ Listen \/ Fork \/ CloseUnused \/ Accept \/ OpenFile \/ send_fd
  \/ CloseFile \/ CloseConn \/ CloseListen \/ WaitChild \/ Return
SenderFailures == BindFails \/ ForkFails \/ OpenFails \/ SendKilled \/ SenderFails
ReceiverSteps(r) ==
  \/ Connect(r) \/ ConnectRefused(r) \/ ChildCloses(r) \/ recv_fd(r) \/ NoDescriptor(r)
  \/ Read(r) \/ ReceiverReturns(r)
ReceiverFailures(r) == ConnectFails(r) \/ RecvFails(r) \/ ReadFails(r)

AllOver == spc = "done" /\ \A r \in Receivers : rpc[r] \in {"idle", "done"}

Next ==
  \/ SenderSteps \/ SenderFailures
  \/ \E r \in Receivers : Start(r) \/ ReceiverSteps(r) \/ ReceiverFailures(r)

Spec == Init /\ [][Next]_vars
-----------------------------------------------------------------------------
(* Properties. *)

\* Type invariant.
TypeOK ==
  /\ spc \in {"fork", "bind", "listen", "closepeer", "accept", "open", "send", "closefile",
              "closeconn", "closelisten", "wait", "unlink", "done"}
  /\ sfd \subseteq {"listen", "conn", "peer", "file"} /\ sexit \in {-1, 0, 1, 141}
  /\ rpc \in [Receivers -> {"idle", "connect", "closepeer", "recv", "read", "exit", "done"}]
  /\ rfd \in [Receivers -> SUBSET {"listen", "conn", "peer", "file"}]
  /\ rexit \in [Receivers -> {-1, 0, 1}] /\ path \in {"none", "stale", "bound"}
  /\ link \in [Receivers -> {"none", "queued", "up", "reset"}]
  /\ msg \in [Receivers -> BOOLEAN] /\ offset \in 0..FileLen
  /\ got \in [Receivers -> Seq(1..FileLen)]

\* Who refers to the open file: the sender, the message, or one receiver.
Holds(r) == msg[r] \/ "file" \in rfd[r]

\* Once the sender has closed its descriptor, the file is kept open by the
\* message or by the one receiver that has it; the sender reports success
\* only when it was handed over.
HandedOver ==
  /\ \A r, q \in Receivers : Holds(r) /\ Holds(q) => r = q
  /\ (spc \in {"closeconn", "closelisten", "wait", "unlink"} \/ sexit = 0) =>
       \E r \in Receivers : link[r] = "up" /\ (Holds(r) \/ rpc[r] = "done")

\* The offset at which a receiver began to read.
From(r) == offset - Len(got[r])

\* What a receiver has read is one piece of the file that ends at the offset of
\* the open file it was handed, however the reads were cut; nobody moves that
\* offset in between.  A C receiver that succeeds has all that it asked for
\* and that was left.  Parent and child of uds_passfd.c and passfd_cpp.cpp
\* begin at the start of the file; where passfd_recv.c begins is the sender's
\* affair (passfd_send.c 9-12, 60-65) and not stated here.
ContentExact ==
  \A r \in Receivers :
    /\ got[r] = [i \in 1..Len(got[r]) |-> From(r) + i]
    /\ got[r] # <<>> /\ prog # "named" => From(r) = 0
    /\ rexit[r] = 0 /\ prog # "raii" => Len(got[r]) = Min({content, FileLen - From(r)})

\* A sender that succeeds leaves no name behind, and of parent and child of
\* passfd_cpp.cpp one removes it on every path on which there is a child.
NameRemoved ==
  /\ sexit = 0 => path # "bound"
  /\ AllOver /\ prog = "raii" /\ rpc[Child] = "done" => path = "none"

\* The two ways passfd_cpp.cpp can wait forever: the parent in accept for a
\* child that could not connect, and, after accept failed, the child for an
\* answer on a listening socket that its own inherited descriptor keeps open.
AcceptsNobody == spc = "accept" /\ \A r \in Receivers : link[r] # "queued"
HoldsOwnListener(r) == spc = "done" /\ link[r] = "queued" /\ "listen" \in rfd[r]

\* Every process ends, whichever call fails in the other one, except in these
\* two situations: a receiver is told that there will be no descriptor.
PassingEnds ==
  /\ []<>(spc = "done" \/ AcceptsNobody)
  /\ \A r \in Receivers : rpc[r] # "idle" ~> rpc[r] = "done" \/ HoldsOwnListener(r)
=============================================================================
