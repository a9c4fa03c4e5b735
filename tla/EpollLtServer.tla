---------------------------- MODULE EpollLtServer ----------------------------
(***************************************************************************)
(* The level-triggered epoll echo server (epoll_echo_server.c).  Events    *)
(* name connections by descriptor number, and connections are accepted and *)
(* closed between two events of one array.  The kernel serves the ready    *)
(* descriptors in turn, at most MAX_EVENTS at a time.                      *)
(***************************************************************************)
EXTENDS BlockingEcho, SequencesExt, SeqFilter

CONSTANT MAX_EVENTS

VARIABLES interest,   \* kernel: registered descriptors, in turn of service
          events,     \* what is left of the events array
          raised_by   \* history: the connection behind each of these events

epollVars == <<interest, events, raised_by>>
vars == <<echoVars, epollVars>>

Flags == {"IN", "RDHUP", "HUP", "ERR"}

\* Registered for EPOLLIN | EPOLLRDHUP; errors and hangups always are.
Poll(f) ==
  IF ~Ready(f) THEN {}
  ELSE {"IN"} \cup (IF f = listenfd THEN {}
                    ELSE (IF shut[Owner(f)] \/ rst[Owner(f)] THEN {"RDHUP"} ELSE {})
                           \cup (IF rst[Owner(f)] THEN {"HUP", "ERR"} ELSE {}))

Init ==
  /\ EchoInit
  /\ interest = <<listenfd>> /\ events = <<>> /\ raised_by = <<>>

Goto(label) == pc' = label /\ UNCHANGED <<clientVars, socketVars, curfd, wbuf, rc, echoed>>

\* To the next event of the array.
Advance == events' = Tail(events) /\ raised_by' = Tail(raised_by)

epoll_wait ==
  /\ pc = "wait"
  /\ \E ready \in {Filter(interest, {f \in ToSet(interest) : Poll(f) # {}})} :
     LET n == Min({Len(ready), MAX_EVENTS})
         taken == SubSeq(ready, 1, n)
     IN  /\ n > 0
         /\ events' = [k \in 1..n |-> [fd |-> taken[k], events |-> Poll(taken[k])]]
         /\ raised_by' = [k \in 1..n |-> IF taken[k] = listenfd THEN {} ELSE {Owner(taken[k])}]
         /\ interest' = Filter(interest, ToSet(interest) \ ToSet(taken)) \o taken
  /\ Goto("event")

EventsDone ==
  /\ pc = "event" /\ events = <<>>
  /\ Goto("wait") /\ UNCHANGED epollVars

AtListen == pc = "event" /\ events # <<>> /\ Head(events).fd = listenfd
AtClient == pc = "event" /\ events # <<>> /\ Head(events).fd # listenfd

Accept ==
  /\ AtListen
  /\ AcceptAs("open")
  /\ interest' = Append(interest, NewFd)
  /\ Advance /\ UNCHANGED pc

\* EPOLL_CTL_ADD fails: the new descriptor is closed.
AddFails ==
  /\ AtListen
  /\ AcceptAs("aborted")
  /\ Advance /\ UNCHANGED <<pc, interest>>

AcceptFailure == AtListen /\ AcceptFails /\ Advance /\ UNCHANGED <<pc, interest>>

\* EPOLLERR closes at once; EPOLLIN reads; a hangup alone closes too.
Dispatch ==
  /\ AtClient
  /\ curfd' = Head(events).fd
  /\ LET ev == Head(events).events IN
       \/ "ERR" \notin ev /\ "IN" \in ev /\ pc' = "read" /\ UNCHANGED rc
       \/ ("ERR" \in ev \/ "IN" \notin ev) /\ pc' = "served" /\ rc' = "error"
  /\ UNCHANGED <<clientVars, socketVars, wbuf, echoed, epollVars>>

Echo == EchoSteps /\ UNCHANGED epollVars

\* After data the descriptor is kept, RDHUP or not: the next round reads EOF.
AfterData == Goto("event") /\ Advance
kept_on_rdhup(ev) == "RDHUP" \notin ev    \* mutant: RDHUP closes after data
kept(ev) == TRUE

Served ==
  /\ pc = "served" /\ rc = "ok" /\ kept(Head(events).events)
  /\ AfterData /\ UNCHANGED interest

AfterClose == Advance

deregistered(f) == Filter(interest, ToSet(interest) \ {f})

close_epoll_fd ==
  /\ pc = "served" /\ (rc # "ok" \/ ~kept(Head(events).events))
  /\ Close(IF rc = "error" THEN "aborted" ELSE "done")
  /\ interest' = deregistered(curfd)
  /\ pc' = "event" /\ AfterClose

WaitError == Stop /\ UNCHANGED epollVars

Work ==
  \/ epoll_wait \/ EventsDone \/ Accept \/ AddFails \/ AcceptFailure \/ Dispatch
  \/ Echo \/ Served \/ close_epoll_fd

Server == Work \/ WaitError

Next == Server \/ (ClientSteps /\ UNCHANGED epollVars)

Spec == Init /\ [][Next]_vars
-----------------------------------------------------------------------------
\* Type invariant.
TypeOK ==
  /\ EchoTypeOK
  /\ pc \in {"wait", "event", "read", "write", "served", "stopped"}
  /\ interest \in Seq(Fds \cup {listenfd})
  /\ events \in Seq([fd : Fds \cup {listenfd}, events : SUBSET Flags])
  /\ Len(events) <= MAX_EVENTS

\* epoll watches the listening socket and the open connections, each once.
InterestExact ==
  pc # "stopped" => ToSet(interest) = {listenfd} \cup InUse /\ IsInjective(interest)

\* An event left in the array still belongs to the connection that raised it:
\* a number that was closed and accepted anew between two events of one array
\* is never served on the strength of the old connection's event.
EventsNotStale ==
  \A k \in DOMAIN events : \A c \in raised_by[k] : status[c] = "open" /\ fd[c] = events[k].fd
=============================================================================
