----------------------------- MODULE PollServer -----------------------------
(***************************************************************************)
(* The poll echo server (poll_echo_server.c): a compact array of pollfds   *)
(* whose last entry takes the place of a removed one, during the scan that *)
(* walks over the array.                                                   *)
(***************************************************************************)
EXTENDS BlockingEcho

CONSTANT MAX_CLIENTS

ASSUME PollAssumption == MAX_CLIENTS \in Nat

VARIABLES fds,        \* the array; entry 0 is the listening socket
          nfds, nready,
          i           \* the for loop's index

pollVars == <<fds, nfds, nready, i>>
vars == <<echoVars, pollVars>>

Revents == {"IN", "HUP", "ERR"}

\* Entries past nfds are uninitialised and not read.
Init ==
  /\ EchoInit
  /\ fds = [k \in 0..MAX_CLIENTS |-> [fd |-> IF k = 0 THEN listenfd ELSE 0, revents |-> {}]]
  /\ nfds = 1 /\ nready = 0 /\ i = 1

Goto(label) == pc' = label /\ UNCHANGED <<clientVars, socketVars, curfd, wbuf, rc, echoed>>

revents(f) ==
  IF ~Ready(f) THEN {}
  ELSE IF f # listenfd /\ rst[Owner(f)] THEN {"IN", "HUP", "ERR"} ELSE {"IN"}

poll ==
  /\ pc = "wait"
  /\ fds' = [k \in 0..MAX_CLIENTS |->
               IF k < nfds THEN [fds[k] EXCEPT !.revents = revents(fds[k].fd)] ELSE fds[k]]
  /\ nready' = Cardinality({k \in 0..(nfds - 1) : fds'[k].revents # {}})
  /\ nready' > 0
  /\ i' = 1
  /\ Goto(IF fds'[0].revents # {} THEN "accept" ELSE "scan")
  /\ UNCHANGED nfds

afterAccept ==
  /\ nready' = nready - 1
  /\ pc' = IF nready = 1 THEN "wait" ELSE "scan"
  /\ UNCHANGED i

entry(k, f) == [fd |-> f, revents |-> {}]

Accept ==
  /\ pc = "accept"
  /\ nfds < MAX_CLIENTS + 1
  /\ AcceptAs("open")
  /\ fds' = [fds EXCEPT ![nfds] = entry(nfds, NewFd)]
  /\ nfds' = nfds + 1
  /\ afterAccept

TooManyClients ==
  /\ pc = "accept"
  /\ nfds >= MAX_CLIENTS + 1
  /\ AcceptAs("aborted")
  /\ UNCHANGED <<fds, nfds>>
  /\ afterAccept

AcceptFailure == pc = "accept" /\ AcceptFails /\ afterAccept /\ UNCHANGED <<fds, nfds>>

\* Entries the loop has yet to serve.
to_serve == {k \in i..(nfds - 1) : fds[k].revents # {}}

Scan ==
  /\ pc = "scan" /\ nready > 0 /\ to_serve # {}
  /\ pc' = "read" /\ i' = Min(to_serve) /\ curfd' = fds[Min(to_serve)].fd
  /\ nready' = nready - 1
  /\ UNCHANGED <<clientVars, socketVars, wbuf, rc, echoed, fds, nfds>>

ScanOver ==
  /\ pc = "scan" /\ (nready = 0 \/ to_serve = {})
  /\ Goto("wait")
  /\ UNCHANGED pollVars

Echo == EchoSteps /\ UNCHANGED pollVars

close_it == rc # "ok" \/ "ERR" \in fds[i].revents

Served ==
  /\ pc = "served" /\ ~close_it
  /\ i' = i + 1
  /\ Goto("scan") /\ UNCHANGED <<fds, nfds, nready>>

remove_pollfd(k) == [fds EXCEPT ![k] = fds[nfds - 1]]

index_skips(k) == k + 1           \* mutant: no --i before the loop's ++i
index_after(k) == k

CloseServed ==
  /\ pc = "served" /\ close_it
  /\ Close(IF rc = "eof" THEN "done" ELSE "aborted")
  /\ fds' = remove_pollfd(i)
  /\ nfds' = nfds - 1
  /\ i' = index_after(i)
  /\ pc' = "scan"
  /\ UNCHANGED nready

WaitError == Stop /\ UNCHANGED pollVars

Work ==
  \/ poll \/ Accept \/ TooManyClients \/ AcceptFailure \/ Scan \/ ScanOver
  \/ Echo \/ Served \/ CloseServed

Server == Work \/ WaitError

Next == Server \/ (ClientSteps /\ UNCHANGED pollVars)

Spec == Init /\ [][Next]_vars
-----------------------------------------------------------------------------
\* Type invariant.
TypeOK ==
  /\ EchoTypeOK
  /\ pc \in {"wait", "accept", "scan", "read", "write", "served", "stopped"}
  /\ fds \in [0..MAX_CLIENTS -> [fd : Fds \cup {0, listenfd}, revents : SUBSET Revents]]
  /\ nfds \in 1..(MAX_CLIENTS + 1) /\ nready \in 0..(MAX_CLIENTS + 1) /\ i \in 1..(MAX_CLIENTS + 1)

\* The array lists the open connections, each once, after the listening
\* socket: no slot holds a closed descriptor and none has been lost.
ArrayExact ==
  pc # "stopped" =>
    /\ fds[0].fd = listenfd
    /\ {fds[k].fd : k \in 1..(nfds - 1)} = InUse
    /\ Cardinality(InUse) = nfds - 1

\* No ready entry is passed over: the connections still counted in nready are
\* those the scan has before it, whatever was removed or added on the way.
ScanComplete == pc = "scan" => nready = Cardinality(to_serve)
=============================================================================
