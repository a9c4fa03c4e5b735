---------------------------- MODULE SelectServer ----------------------------
(***************************************************************************)
(* The select echo server (select_echo_server.c): the long-lived set       *)
(* all_reads, the set ready_reads that select overwrites, and maxfd.       *)
(***************************************************************************)
EXTENDS BlockingEcho

CONSTANT FD_SETSIZE

VARIABLES all_reads, ready_reads, maxfd, nready,
          i          \* the for loop's fd

selectVars == <<all_reads, ready_reads, maxfd, nready, i>>
vars == <<echoVars, selectVars>>

Init ==
  /\ EchoInit
  /\ all_reads = {listenfd} /\ ready_reads = {} /\ maxfd = listenfd
  /\ nready = 0 /\ i = 0

Goto(label) == pc' = label /\ UNCHANGED <<clientVars, socketVars, curfd, wbuf, rc, echoed>>

select ==
  /\ pc = "wait"
  /\ ready_reads' = {f \in all_reads : f <= maxfd /\ Ready(f)}
  /\ nready' = Cardinality(ready_reads')
  /\ nready' > 0
  /\ i' = 0
  /\ Goto(IF listenfd \in ready_reads' THEN "accept" ELSE "scan")
  /\ UNCHANGED <<all_reads, maxfd>>

\* --nready == 0 after the listening socket: back to select.
afterAccept ==
  /\ nready' = nready - 1
  /\ pc' = IF nready = 1 THEN "wait" ELSE "scan"
  /\ UNCHANGED <<ready_reads, i>>

raised_never(f) == maxfd              \* mutant: maxfd keeps its first value
raised(f) == IF f > maxfd THEN f ELSE maxfd

Accept ==
  /\ pc = "accept"
  /\ AcceptAs("open") /\ NewFd < FD_SETSIZE
  /\ all_reads' = all_reads \cup {NewFd}
  /\ maxfd' = raised(NewFd)
  /\ afterAccept

Reject ==
  /\ pc = "accept"
  /\ AcceptAs("aborted") /\ NewFd >= FD_SETSIZE
  /\ UNCHANGED <<all_reads, maxfd>>
  /\ afterAccept

AcceptFailure == pc = "accept" /\ AcceptFails /\ afterAccept /\ UNCHANGED <<all_reads, maxfd>>

\* Mutant: FD_ISSET looks at the long-lived set.
to_serve_all == {f \in all_reads \ {listenfd} : i <= f /\ f <= maxfd}

\* Descriptors the loop has yet to serve.
to_serve == {f \in ready_reads \ {listenfd} : i <= f /\ f <= maxfd}

Scan ==
  /\ pc = "scan" /\ nready > 0 /\ to_serve # {}
  /\ pc' = "read" /\ curfd' = Min(to_serve)
  /\ i' = Min(to_serve) + 1 /\ nready' = nready - 1
  /\ UNCHANGED <<clientVars, socketVars, wbuf, rc, echoed, all_reads, ready_reads, maxfd>>

ScanOver ==
  /\ pc = "scan" /\ (nready = 0 \/ to_serve = {})
  /\ Goto("wait")
  /\ UNCHANGED selectVars

Echo == EchoSteps /\ UNCHANGED selectVars

Served ==
  /\ pc = "served" /\ rc = "ok"
  /\ Goto("scan") /\ UNCHANGED selectVars

recompute_maxfd(reads) == Max(reads)

kept(f) == all_reads \ {f}

CloseServed ==
  /\ pc = "served" /\ rc # "ok"
  /\ Close(IF rc = "eof" THEN "done" ELSE "aborted")
  /\ all_reads' = kept(curfd)
  /\ maxfd' = IF curfd = maxfd THEN recompute_maxfd(all_reads') ELSE maxfd
  /\ pc' = "scan"
  /\ UNCHANGED <<ready_reads, nready, i>>

WaitError == Stop /\ UNCHANGED selectVars

Work ==
  \/ select \/ Accept \/ Reject \/ AcceptFailure \/ Scan \/ ScanOver
  \/ Echo \/ Served \/ CloseServed

Server == Work \/ WaitError

Next == Server \/ (ClientSteps /\ UNCHANGED selectVars)

Spec == Init /\ [][Next]_vars
-----------------------------------------------------------------------------
\* Type invariant.
TypeOK ==
  /\ EchoTypeOK
  /\ pc \in {"wait", "accept", "scan", "read", "write", "served", "stopped"}
  /\ all_reads \subseteq Fds \cup {listenfd} /\ ready_reads \subseteq Fds \cup {listenfd}
  /\ maxfd \in Fds \cup {listenfd} /\ nready \in 0..(Cardinality(Fds) + 1) /\ i \in Nat

\* all_reads is the listening socket and the open connections, all of them
\* within FD_SETSIZE, and maxfd is its largest element: select never looks at
\* a closed descriptor and never overlooks an open one.
SetsExact ==
  pc # "stopped" =>
    /\ all_reads = {listenfd} \cup InUse
    /\ maxfd = Max(all_reads)
    /\ \A f \in all_reads : f < FD_SETSIZE
=============================================================================
