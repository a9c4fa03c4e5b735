------------------------------ MODULE UdsServer ------------------------------
(***************************************************************************)
(* The Unix-domain echo server and its clients (uds_server.c, uds_client.c *)
(* and fill_uds_addr of uds.h, Chapter10/experiments).  The server answers *)
(* one client at a time, line by line, in upper case; a client sends a     *)
(* line of its standard input and waits for the answer.  The name is a     *)
(* file, which outlives a server that is killed, or, with '@', abstract.   *)
(* The k-th line of a client is the number k and its upper case -k; the    *)
(* last line of an input may lack its newline.                             *)
(***************************************************************************)
EXTENDS Integers, Sequences, FiniteSets

CONSTANTS Clients, NoClient,
          MaxLines,    \* bound: lines of a client's input
          MaxStarts    \* bound: times the server is started

VARIABLES
  abstract,         \* g_sock_path[0] = '@'
  upc, cur, line,   \* server: position, connection served, line in hand
  sockfile,         \* the name in the file system: "none", "stale" or "live"
  starts,           \* times the server was started
  queue,            \* kernel: connections waiting for accept
  cli, sent, part,  \* clients: position, lines sent, last one without newline
  rcvd, reply,      \* kernel: lines the server has read; answers on their way
  heard             \* answers each client has printed

server == <<upc, cur, line, sockfile, starts>>
clients == <<cli, sent, part, heard>>
vars == <<abstract, server, queue, clients, rcvd, reply>>

Session(c) == c = cur \/ \E k \in DOMAIN queue : queue[k] = c

Init ==
  /\ abstract \in BOOLEAN
  /\ upc = "down" /\ cur = NoClient /\ line = 0 /\ starts = 0
  /\ sockfile \in IF abstract THEN {"none"} ELSE {"none", "stale"}
  /\ queue = <<>>
  /\ cli = [c \in Clients |-> "idle"] /\ sent = [c \in Clients |-> 0]
  /\ part = [c \in Clients |-> FALSE] /\ heard = [c \in Clients |-> <<>>]
  /\ rcvd = [c \in Clients |-> 0] /\ reply = [c \in Clients |-> <<>>]

\* unlink of a path; the abstract name has no file.
cleanup == IF abstract THEN sockfile ELSE "none"

buf_toupper_lost(k) == k     \* mutant: the result of toupper is not stored
buf_toupper(k) == -k
-----------------------------------------------------------------------------
(* The server. *)

Start ==
  /\ upc = "down" /\ starts < MaxStarts
  /\ upc' = "bind" /\ starts' = starts + 1
  /\ UNCHANGED <<abstract, cur, line, sockfile, queue, clients, rcvd, reply>>

\* cleanup, then bind, which fails on a name that exists.
Bind ==
  /\ upc = "bind" /\ cleanup = "none"
  /\ sockfile' = IF abstract THEN "none" ELSE "live"
  /\ upc' = "register"
  /\ UNCHANGED <<abstract, cur, line, starts, queue, clients, rcvd, reply>>

Advance(from, to) ==
  /\ upc = from /\ upc' = to
  /\ UNCHANGED <<abstract, cur, line, sockfile, starts, queue, clients, rcvd, reply>>

Register == Advance("register", "listen")   \* atexit, signal
Listen == Advance("listen", "accept")

Accept ==
  /\ upc = "accept" /\ queue # <<>>
  /\ cur' = Head(queue) /\ queue' = Tail(queue)
  /\ upc' = "read"
  /\ UNCHANGED <<abstract, line, sockfile, starts, clients, rcvd, reply>>

\* rio_readlineb returns a line, or what there is at the end of the stream.
LineReady(c) ==
  /\ rcvd[c] < sent[c]
  /\ part[c] /\ rcvd[c] + 1 = sent[c] => cli[c] = "closed"

ReadLine ==
  /\ upc = "read" /\ LineReady(cur)
  /\ rcvd' = [rcvd EXCEPT ![cur] = @ + 1]
  /\ line' = buf_toupper(rcvd[cur] + 1)
  /\ upc' = "write"
  /\ UNCHANGED <<abstract, cur, sockfile, starts, queue, clients, reply>>

CloseConnection ==
  /\ cur' = NoClient /\ line' = 0 /\ upc' = "accept"
  /\ UNCHANGED <<abstract, sockfile, starts, queue, clients, rcvd, reply>>

\* rio_readlineb returns 0, or -1 when answers were lost with the client.
ReadEnd == upc = "read" /\ cli[cur] = "closed" /\ CloseConnection

WriteLine ==
  /\ upc = "write" /\ cli[cur] # "closed"
  /\ reply' = [reply EXCEPT ![cur] = Append(@, line)]
  /\ line' = 0 /\ upc' = "read"
  /\ UNCHANGED <<abstract, cur, sockfile, starts, queue, clients, rcvd>>

\* SIGPIPE is ignored: the loop is left on EPIPE.
WriteFails == upc = "write" /\ cli[cur] = "closed" /\ CloseConnection

\* The process ends; its connections and its abstract name end with it.
GoDown(file) ==
  /\ upc' = "down" /\ cur' = NoClient /\ line' = 0 /\ queue' = <<>>
  /\ sockfile' = file
  /\ UNCHANGED <<abstract, starts, clients, rcvd, reply>>

leftover == IF sockfile = "live" THEN "stale" ELSE sockfile

\* socket, fill_uds_addr or, after cleanup, bind fail: atexit is not yet set.
BindFails == upc = "bind" /\ \E f \in {sockfile, cleanup} : GoDown(f)
\* listen or accept fail: uds_die, exit, atexit.
Dies == upc \in {"listen", "accept"} /\ GoDown(cleanup)
\* SIGINT or SIGTERM: on_signal once it is installed.
on_signal ==
  /\ upc # "down"
  /\ GoDown(IF upc \in {"bind", "register"} THEN leftover ELSE cleanup)
\* SIGKILL: the file stays.
Killed == upc # "down" /\ GoDown(leftover)
-----------------------------------------------------------------------------
(* A client. *)

ClientTo(c, l) == cli' = [cli EXCEPT ![c] = l] /\ UNCHANGED <<abstract, server, rcvd>>

Connect(c) ==
  /\ cli[c] = "idle"
  /\ upc \in {"accept", "read", "write"} /\ (abstract \/ sockfile = "live")
  /\ queue' = Append(queue, c)
  /\ ClientTo(c, "type")
  /\ UNCHANGED <<sent, part, heard, reply>>

ConnectFails(c) ==
  /\ cli[c] = "idle"
  /\ ClientTo(c, "closed")
  /\ UNCHANGED <<queue, sent, part, heard, reply>>

\* fgets, rio_writen.
Type(c) ==
  /\ cli[c] = "type" /\ Session(c) /\ sent[c] < MaxLines /\ ~part[c]
  /\ sent' = [sent EXCEPT ![c] = @ + 1]
  /\ \E unfinished \in BOOLEAN : part' = [part EXCEPT ![c] = unfinished]
  /\ ClientTo(c, "await")
  /\ UNCHANGED <<queue, heard, reply>>

\* rio_readlineb, printf.
Hear(c) ==
  /\ cli[c] = "await" /\ reply[c] # <<>>
  /\ heard' = [heard EXCEPT ![c] = Append(@, Head(reply[c]))]
  /\ reply' = [reply EXCEPT ![c] = Tail(@)]
  /\ ClientTo(c, "type")
  /\ UNCHANGED <<queue, sent, part>>

Leave(c) ==
  /\ reply' = [reply EXCEPT ![c] = <<>>]
  /\ ClientTo(c, "closed")
  /\ UNCHANGED <<queue, sent, part, heard>>

\* The input ends, or the write fails: close.
EndOfInput(c) == cli[c] = "type" /\ Leave(c)
\* rio_readlineb returns 0 or -1: "server closed".
ServerClosed(c) == cli[c] = "await" /\ reply[c] = <<>> /\ ~Session(c) /\ Leave(c)
\* The user kills the client.
ClientKilled(c) == cli[c] \in {"type", "await"} /\ Leave(c)
-----------------------------------------------------------------------------
ServerSteps ==
  \/ Bind \/ Register \/ Listen \/ Accept
  \/ ReadLine \/ ReadEnd \/ WriteLine \/ WriteFails
ServerEnds == BindFails \/ Dies \/ on_signal \/ Killed
ClientSteps(c) == Type(c) \/ Hear(c) \/ EndOfInput(c) \/ ServerClosed(c)

Next ==
  \/ Start \/ ServerSteps \/ ServerEnds
  \/ \E c \in Clients : Connect(c) \/ ConnectFails(c) \/ ClientSteps(c) \/ ClientKilled(c)

Spec == Init /\ [][Next]_vars
-----------------------------------------------------------------------------
(* Properties. *)

\* Type invariant.
TypeOK ==
  /\ upc \in {"down", "bind", "register", "listen", "accept", "read", "write"}
  /\ cur \in Clients \cup {NoClient} /\ line \in -MaxLines..0
  /\ sockfile \in {"none", "stale", "live"} /\ starts \in 0..MaxStarts
  /\ queue \in Seq(Clients)
  /\ cli \in [Clients -> {"idle", "type", "await", "closed"}]
  /\ sent \in [Clients -> 0..MaxLines] /\ part \in [Clients -> BOOLEAN]
  /\ rcvd \in [Clients -> 0..MaxLines]
  /\ reply \in [Clients -> Seq(-MaxLines..-1)] /\ heard \in [Clients -> Seq(-MaxLines..-1)]

\* A client hears its own lines in upper case, in order, each once, although
\* the server's one buffer serves all and servers come and go.
AnswersExact ==
  \A c \in Clients :
    LET answers == heard[c] \o reply[c]
    IN  answers = [i \in 1..Len(answers) |-> -i] /\ Len(answers) <= sent[c]

\* The name leads to a server exactly while one is bound to it.
NameExact == sockfile = "live" <=> ~abstract /\ upc \notin {"down", "bind"}

\* The client waits for an answer and the server for the rest of the line.
EachWaits(c) ==
  c = cur /\ upc = "read" /\ ~LineReady(c) /\ cli[c] = "await" /\ reply[c] = <<>>

\* Client and server wait for each other only when the input of the client
\* ends without a newline: then both wait forever (uds_client.c 38-43).
WaitOnlyUnfinished == \A c \in Clients : EachWaits(c) => part[c]

\* A server that is started comes to serve although an earlier one was killed
\* and left its file, and, unless some input ends without a newline, every
\* session comes to its end, in turn.
UdsServes ==
  /\ upc = "bind" ~> upc \in {"accept", "down"}
  /\ ([]\A c \in Clients : ~part[c]) => \A c \in Clients : Session(c) ~> ~Session(c)
=============================================================================
