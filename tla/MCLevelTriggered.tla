-------------------------- MODULE MCLevelTriggered --------------------------
(***************************************************************************)
(* TLC instance of the three level-triggered servers, SelectServer,        *)
(* PollServer and EpollLtServer.  They serve the same clients over the     *)
(* same sockets and differ in how they wait: a behaviour is that of one of *)
(* them, chosen at the start.                                              *)
(***************************************************************************)
EXTENDS PollServer, TLC

CONSTANTS FD_SETSIZE, MAX_EVENTS, c1, c2, c3

\* The select server ends at once when its listening socket is out of range.
ASSUME LevelAssumption ==
  FD_SETSIZE \in Nat /\ listenfd < FD_SETSIZE /\ MAX_EVENTS \in Nat \ {0}

VARIABLES server,                              \* which program runs
          all_reads, ready_reads, maxfd,       \* select
          interest, events, raised_by          \* epoll

Select == INSTANCE SelectServer
Epoll == INSTANCE EpollLtServer

selectOnly == <<all_reads, ready_reads, maxfd>>
pollOnly == <<fds, nfds>>
epollOnly == <<interest, events, raised_by>>
waitVars == <<selectOnly, pollOnly, epollOnly, nready, i>>
mcVars == <<server, echoVars, waitVars>>

NoSelect == all_reads = {} /\ ready_reads = {} /\ maxfd = 0
NoPoll == fds = <<>> /\ nfds = 0
NoEpoll == interest = <<>> /\ events = <<>> /\ raised_by = <<>>

MCInit ==
  \/ server = "select" /\ Select!Init /\ NoPoll /\ NoEpoll
  \/ server = "poll" /\ Init /\ NoSelect /\ NoEpoll
  \/ server = "epoll" /\ Epoll!Init /\ NoSelect /\ NoPoll /\ nready = 0 /\ i = 0

RunSelect == server = "select" /\ Select!Server /\ UNCHANGED <<server, pollOnly, epollOnly>>
RunPoll == server = "poll" /\ Server /\ UNCHANGED <<server, selectOnly, epollOnly>>
RunEpoll == server = "epoll" /\ Epoll!Server /\ UNCHANGED <<server, selectOnly, pollOnly, nready, i>>

MCNext == RunSelect \/ RunPoll \/ RunEpoll \/ (ClientSteps /\ UNCHANGED <<server, waitVars>>)

MCSpec == MCInit /\ [][MCNext]_mcVars

\* accept takes a connection off the queue, whatever becomes of it.
Accepting ==
  \/ server = "select" /\ (Select!Accept \/ Select!Reject) /\ UNCHANGED <<server, pollOnly, epollOnly>>
  \/ server = "poll" /\ (Accept \/ TooManyClients) /\ UNCHANGED <<server, selectOnly, epollOnly>>
  \/ /\ server = "epoll" /\ (Epoll!Accept \/ Epoll!AddFails)
     /\ UNCHANGED <<server, selectOnly, pollOnly, nready, i>>

Working ==
  \/ server = "select" /\ Select!Work /\ UNCHANGED <<server, pollOnly, epollOnly>>
  \/ server = "poll" /\ Work /\ UNCHANGED <<server, selectOnly, epollOnly>>
  \/ server = "epoll" /\ Epoll!Work /\ UNCHANGED <<server, selectOnly, pollOnly, nready, i>>

(* The server works when there is something to do, and the wait call need  *)
(* not fail; accept and read do not fail for ever on a connection that is  *)
(* there.  Of the clients nothing is assumed.                              *)
MCFairSpec ==
  /\ MCSpec
  /\ WF_mcVars(Working)
  /\ SF_mcVars(Accepting)
  /\ \A f \in Fds :
       SF_mcVars(curfd = f /\ (EchoRead \/ EchoEof \/ EchoError) /\ UNCHANGED <<server, waitVars>>)

OneByte == [c \in Clients |-> 1]
\* One client sends two bytes, so that a write can be partial.
TwoBytes == [c \in Clients |-> IF c = c1 THEN 2 ELSE 1]
ClientSymmetry == Permutations(Clients)

\* The bookkeeping of each server names exactly its open connections
\* (SetsExact, ArrayExact and InterestExact), and the work a wait call
\* announced stays what it was while it is done: the poll server's scan, which
\* removes entries as it goes, skips none, and the epoll server never serves a
\* connection on an event another one raised.
BookkeepingExact ==
  /\ server = "select" => Select!TypeOK /\ Select!SetsExact
  /\ server = "poll" => TypeOK /\ ArrayExact /\ ScanComplete
  /\ server = "epoll" => Epoll!TypeOK /\ Epoll!InterestExact /\ Epoll!EventsNotStale
=============================================================================
