--------------------------------- MODULE Net ---------------------------------
(***************************************************************************)
(* open_clientfd and open_serverfd of Chapter11/socket/net.h, with which   *)
(* all servers and clients of chapters 11 and 12 begin: the loop over the  *)
(* addresses getaddrinfo found, each of which may fail at socket or at     *)
(* connect or bind, and the listen after it.  The descriptors of the       *)
(* process and the list of addresses are what may leak.                    *)
(***************************************************************************)
EXTENDS Integers, FiniteSetsExt

CONSTANTS NetFds,      \* descriptor numbers above the standard ones
          MaxAddrs     \* bound: addresses getaddrinfo returns

VARIABLES npc,         \* position
          plist,       \* the allocated list: its length, 0 = none
          p,           \* the address at hand
          opened,      \* descriptors of the process: number -> stage of the socket
          sockfd,      \* clientfd or listenfd
          nret         \* the result

netVars == <<npc, plist, p, opened, sockfd, nret>>

NetInit ==
  /\ npc \in {"client", "server"}
  /\ plist = 0 /\ p = 0 /\ sockfd = 0 /\ nret = 0
  /\ \E S \in SUBSET NetFds : opened = [f \in S |-> "other"]

Return(r) == npc' = "returned" /\ nret' = r

\* getaddrinfo.
Resolve ==
  /\ npc \in {"client", "server"}
  /\ \E n \in 1..MaxAddrs : plist' = n
  /\ p' = 1 /\ npc' = IF npc = "client" THEN "connect" ELSE "bind"
  /\ UNCHANGED <<opened, sockfd, nret>>

ResolveFails == npc \in {"client", "server"} /\ Return(-1) /\ UNCHANGED <<plist, p, opened, sockfd>>

InLoop == npc \in {"connect", "bind"} /\ p # 0
Trying == sockfd \in DOMAIN opened                  \* this address has its socket
NextAddr == IF p < plist THEN p + 1 ELSE 0          \* p = p->ai_next

\* socket() for the next address; the lowest number that is free.
Socket ==
  /\ InLoop /\ ~Trying /\ NetFds \ DOMAIN opened # {}
  /\ sockfd' = Min(NetFds \ DOMAIN opened)
  /\ opened' = [f \in DOMAIN opened \cup {sockfd'} |-> IF f = sockfd' THEN "socket" ELSE opened[f]]
  /\ UNCHANGED <<npc, plist, p, nret>>

SocketFails ==
  /\ InLoop /\ ~Trying
  /\ sockfd' = -1 /\ p' = NextAddr
  /\ UNCHANGED <<npc, plist, opened, nret>>

Closed == [f \in DOMAIN opened \ {sockfd} |-> opened[f]]

\* connect or bind fails: close, and on to the next address.
AddrFails ==
  /\ InLoop /\ Trying
  /\ opened' = Closed /\ p' = NextAddr
  /\ UNCHANGED <<npc, plist, sockfd, nret>>

\* It succeeds: the loop is left.
AddrWorks ==
  /\ InLoop /\ Trying
  /\ opened' = [opened EXCEPT ![sockfd] = IF npc = "connect" THEN "connected" ELSE "bound"]
  /\ npc' = IF npc = "connect" THEN "connected" ELSE "bound"
  /\ UNCHANGED <<plist, p, sockfd, nret>>

\* After the loop freeaddrinfo, and -1 when no address worked.
NoneWorked ==
  /\ npc \in {"connect", "bind"} /\ p = 0
  /\ plist' = 0 /\ Return(-1)
  /\ UNCHANGED <<p, opened, sockfd>>

Connected == npc = "connected" /\ plist' = 0 /\ Return(sockfd) /\ UNCHANGED <<p, opened, sockfd>>

Listen ==
  /\ npc = "bound" /\ plist' = 0
  /\ \/ Return(sockfd) /\ opened' = [opened EXCEPT ![sockfd] = "listening"]
     \/ Return(-1) /\ opened' = Closed
  /\ UNCHANGED <<p, sockfd>>

NetNext ==
  \/ Resolve \/ ResolveFails \/ Socket \/ SocketFails \/ AddrFails \/ AddrWorks
  \/ NoneWorked \/ Connected \/ Listen
-----------------------------------------------------------------------------
(* Properties. *)

Ours == {f \in DOMAIN opened : opened[f] # "other"}

\* The helper returns a connected or listening descriptor, the only one it has
\* left open, or -1 and none; on every path through the addresses, and with
\* the list released.
NetExact ==
  npc = "returned" =>
    /\ plist = 0
    /\ Ours = IF nret = -1 THEN {} ELSE {nret}
    /\ \A f \in Ours : opened[f] \in {"connected", "listening"}
=============================================================================
