----------------------------- MODULE MCPerClient -----------------------------
(***************************************************************************)
(* TLC instance of the echo servers without an event loop: ThreadServer    *)
(* and ProcessServer, which give every client a flow of control of its     *)
(* own, over the same clients; IterativeEcho, which serves one after the   *)
(* other, with the client programs; and Net, the helpers they all open     *)
(* their sockets with.  A behaviour is that of one of them, chosen at the  *)
(* start.                                                                  *)
(***************************************************************************)
EXTENDS ThreadServer

CONSTANTS NetFds, MaxAddrs, Programs

ASSUME PerClientAssumption ==
  /\ Programs \subseteq [Clients -> {"plain", "rio"}]
  /\ NetFds \subseteq Nat \ 0..2

VARIABLES server,                                 \* which program runs
          holders, child, result, pending, hpc,   \* the process server's own
          kind, NL, cpc, got, wbuf,               \* the iterative server's and its clients'
          npc, plist, p, opened, sockfd, nret     \* net.h's

Proc == INSTANCE ProcessServer
Iter == INSTANCE IterativeEcho
Sock == INSTANCE Net

threadOnly == <<connfdp, workerVars, fdtab, heap>>
processOnly == <<holders, child, result, pending, hpc>>
\* One client of each kind; which is which makes no difference.
OneOfEach ==
  {CHOOSE k \in [Clients -> {"plain", "rio"}] : \E c, d \in Clients : k[c] # k[d]}

iterOnly == <<kind, NL, cpc, got, wbuf>>
netVars == <<npc, plist, p, opened, sockfd, nret>>
mcVars == <<server, vars, processOnly, iterOnly, netVars>>

NoThreads ==
  /\ connfdp = NoCell /\ fdtab = <<>> /\ heap = <<>>
  /\ wpc = <<>> /\ warg = <<>> /\ wfd = <<>> /\ wline = <<>>
NoProcesses ==
  holders = <<>> /\ child = <<>> /\ result = <<>> /\ pending = FALSE /\ hpc = "idle"
NoIter ==
  kind = <<>> /\ NL = <<>> /\ cpc = [c \in Clients |-> "closed"] /\ got = <<>> /\ wbuf = 0
NoNet == npc = "none" /\ plist = 0 /\ p = 0 /\ opened = <<>> /\ sockfd = 0 /\ nret = 0

MCInit ==
  \/ server = "thread" /\ Init /\ NoProcesses /\ NoIter /\ NoNet
  \/ server = "process" /\ Proc!Init /\ NoThreads /\ NoIter /\ NoNet
  \/ server = "iterative" /\ Iter!IterInit /\ NoThreads /\ NoProcesses /\ NoNet
  \/ server = "net" /\ Sock!NetInit /\ Init /\ NoProcesses /\ NoIter

InThreads(A) == server = "thread" /\ A /\ UNCHANGED <<server, processOnly, iterOnly, netVars>>
InProcesses(A) == server = "process" /\ A /\ UNCHANGED <<server, threadOnly, iterOnly, netVars>>
InIter(A) == server = "iterative" /\ A /\ UNCHANGED <<server, threadOnly, processOnly, netVars>>
InNet(A) == server = "net" /\ A /\ UNCHANGED <<server, vars, processOnly, iterOnly>>

MCNext ==
  InThreads(Next) \/ InProcesses(Proc!Next) \/ InIter(Iter!IterNext) \/ InNet(Sock!NetNext)

MCSpec == MCInit /\ [][MCNext]_mcVars

\* All threads and all processes run, SIGCHLD is delivered, clients read.
MCFairSpec ==
  /\ MCSpec
  /\ WF_mcVars(InThreads(MainSteps))
  /\ \A w \in Threads : WF_mcVars(InThreads(Worker(w)))
  /\ WF_mcVars(InProcesses(Proc!ParentSteps))
  /\ WF_mcVars(InProcesses(Proc!Deliver)) /\ WF_mcVars(InProcesses(Proc!HandlerSteps))
  /\ \A c \in Clients : WF_mcVars(InProcesses(Proc!ChildSteps(c)))
  /\ WF_mcVars(InIter(Iter!ServerSteps)) /\ \A c \in Clients : WF_mcVars(InIter(Iter!ClientSteps(c)))
  /\ \A c \in Clients : WF_mcVars(InThreads(Receive(c)) \/ InProcesses(Proc!Receive(c)))

\* Every descriptor and every heap argument of the thread server has exactly
\* one owner at a time, the process server's parent keeps no connection it has
\* handed over, and open_clientfd and open_serverfd leave open what they return
\* and nothing else; the line client stays in step with the iterative server,
\* and the two wait for each other only over a line without newline.
ConnectionsExact ==
  /\ server = "thread" => TypeOK /\ OneOwnerPerFd /\ OneOwnerPerCell
  /\ server = "process" => Proc!TypeOK /\ Proc!NoDescriptorLeak
  /\ server = "net" => Sock!NetExact
  /\ server = "iterative" => Iter!IterTypeOK /\ Iter!InStep /\ Iter!WaitOnlyUnfinished

\* A client of the thread or process server that ends its stream sees the
\* connection end, and the clients of the iterative one end except behind such
\* a mutual wait.
StreamsComeToEnd == (server \in {"iterative", "net"} \/ StreamsEnd) /\ Iter!ClientsEnd

\* The process server's parent leaves no zombie.
ChildrenReaped ==
  \A c \in Clients :
    (server = "process" /\ child[c] = "zombie") ~> (server = "process" /\ child[c] = "reaped")
=============================================================================
