------------------------ MODULE LevelTriggeredProofs ------------------------
(***************************************************************************)
(* The select, poll and level-triggered epoll servers, for any clients,    *)
(* any descriptor numbers and any limits: their one thread never blocks in *)
(* read, their bookkeeping names exactly the open connections, no ready    *)
(* connection is skipped or mistaken for another, and each of them is the  *)
(* echo service its clients are promised.                                  *)
(*                                                                         *)
(* What the servers share is proved once: CoreInv is kept by every step of *)
(* BlockingEcho.  On top of it each server has an invariant of its own,    *)
(* which says that what the wait call noted is still true when it is used. *)
(***************************************************************************)
EXTENDS MCLevelTriggered, DataLemmas, FiniteSetTheorems

Echoing == {"read", "write", "served"}
Serving == {"accept", "scan", "event"} \cup Echoing

\* c is the open connection behind descriptor f.
Has(c, f) == status[c] = "open" /\ fd[c] = f

\* f is an open connection on which read does not block.
Ripe(f) == \E c \in Clients : Has(c, f) /\ Readable(c)

\* Bytes of c that echo_once has read and not written yet.
InHand(c) == IF pc = "write" /\ Has(c, curfd) THEN Len(wbuf) ELSE 0

TypeInv ==
  /\ sent \in [Clients -> Nat] /\ rcvd \in [Clients -> Nat]
  /\ \A c \in Clients : sent[c] <= MaxSend[c] /\ rcvd[c] <= sent[c]
  /\ shut \in [Clients -> BOOLEAN] /\ rst \in [Clients -> BOOLEAN]
  /\ acceptq \in Seq(Clients)
  /\ tx \in [Clients -> 0..SockBuf] /\ fd \in [Clients -> Fds \cup {0}]
  /\ status \in [Clients -> {"none", "open", "done", "aborted"}]
  /\ echoed \in [Clients -> Seq(Nat)]
  /\ curfd \in Fds \cup {0} /\ rc \in {"ok", "eof", "error"} /\ wbuf \in Seq(Nat)
  /\ pc # "write" => wbuf = <<>>

\* No two open connections have one descriptor.
FdInv ==
  \A c \in Clients : status[c] = "open" =>
    fd[c] \in Fds /\ \A d \in Clients : Has(d, fd[c]) => d = c

\* Who waits for accept waits once, and has no conversation yet.
QueueInv ==
  /\ \A k \in 1..Len(acceptq) :
       status[acceptq[k]] = "none" /\ \A l \in 1..Len(acceptq) : acceptq[l] = acceptq[k] => l = k
  /\ \A c \in Clients : status[c] = "none" => rcvd[c] = 0 /\ echoed[c] = <<>>

\* echo_once works on an open connection; end of file is final.
CurInv ==
  /\ pc \in Echoing => \E c \in Clients : Has(c, curfd)
  /\ pc # "served" => rc = "ok"
  /\ pc = "read" => Ripe(curfd)
  /\ pc = "served" /\ rc = "eof" =>
       \A c \in Clients : Has(c, curfd) => shut[c] /\ sent[c] = rcvd[c]

\* What is written is the stream from its beginning; what is read and not
\* written is in hand, unless the write has failed.
FlowInv ==
  /\ \A c \in Clients : Len(echoed[c]) <= rcvd[c]
                        /\ \A k \in 1..Len(echoed[c]) : echoed[c][k] = k
  /\ \A c \in Clients :
       status[c] = "open" /\ ~(pc = "served" /\ rc = "error" /\ Has(c, curfd))
         => Len(echoed[c]) + InHand(c) = rcvd[c]
  /\ pc = "write" =>
       \A c \in Clients : Has(c, curfd) =>
         \A k \in 1..Len(wbuf) : wbuf[k] = Len(echoed[c]) + k

CoreInv == TypeInv /\ FdInv /\ QueueInv /\ CurInv /\ FlowInv

Promise == [Service!ENext]_(Service!evars)
-----------------------------------------------------------------------------
(* Descriptors and their owners. *)

\* The owner of a descriptor in use is the connection that has it.
LEMMA OwnerIs ==
  ASSUME FdInv, NEW c \in Clients, NEW f, Has(c, f)
  PROVE  f \in InUse /\ f \in Fds /\ Owner(f) = c
<1>1. f \in InUse /\ f \in Fds
  BY DEF FdInv, Has, InUse
<1>2. Owner(f) \in Clients /\ Has(Owner(f), f)
  BY DEF Owner, Has
<1> QED
  BY <1>1, <1>2 DEF FdInv, Has

\* A descriptor in use has an owner.
LEMMA InUseIs ==
  ASSUME NEW f \in InUse
  PROVE  \E c \in Clients : Has(c, f)
  BY DEF InUse, Has

\* The connection echo_once works on.
LEMMA CurIs ==
  ASSUME CoreInv, pc \in Echoing
  PROVE  /\ Cur \in Clients /\ Has(Cur, curfd) /\ curfd \in InUse /\ curfd \in Fds
         /\ \A d \in Clients : Has(d, curfd) => d = Cur
<1>1. PICK c \in Clients : Has(c, curfd)
  BY DEF CoreInv, CurInv
<1>2. FdInv
  BY DEF CoreInv
<1>3. curfd \in InUse /\ curfd \in Fds /\ Cur = c
  BY <1>1, <1>2, OwnerIs DEF Cur
<1>4. \A d \in Clients : Has(d, curfd) => d = c
  BY <1>1, <1>2 DEF FdInv, Has
<1> QED
  BY <1>1, <1>3, <1>4

\* What is ripe is ready, and the other way round.
LEMMA RipeIs ==
  ASSUME CoreInv, NEW f \in Fds
  PROVE  /\ Ready(f) <=> Ripe(f)
         /\ Ripe(f) => f \in InUse
<1>1. FdInv /\ f # listenfd
  BY EchoAssumption DEF CoreInv
<1>2. ASSUME Ready(f) PROVE Ripe(f)
  <2>1. f \in InUse /\ Readable(Owner(f))
    BY <1>1, <1>2 DEF Ready
  <2>2. PICK c \in Clients : Has(c, f)
    BY <2>1, InUseIs
  <2>3. Owner(f) = c
    BY <1>1, <2>2, OwnerIs
  <2> QED
    BY <2>1, <2>2, <2>3 DEF Ripe
<1>3. ASSUME Ripe(f) PROVE Ready(f) /\ f \in InUse
  <2>1. PICK c \in Clients : Has(c, f) /\ Readable(c)
    BY <1>3 DEF Ripe
  <2>2. f \in InUse /\ Owner(f) = c
    BY <1>1, <2>1, OwnerIs
  <2> QED
    BY <1>1, <2>1, <2>2 DEF Ready
<1> QED
  BY <1>2, <1>3
-----------------------------------------------------------------------------
(* SelectServer and EpollLtServer are instances with definitions of their  *)
(* own; where they extend BlockingEcho these say the same.                 *)

LEMMA SelectShares ==
  /\ Select!EchoSteps = EchoSteps
  /\ \A o : Select!AcceptAs(o) = AcceptAs(o)
  /\ Select!AcceptFails = AcceptFails
  /\ \A o : Select!Close(o) = Close(o)
  /\ Select!Stop = Stop
  /\ \A l : Select!Goto(l) = Goto(l)
  /\ \A f : Select!Ready(f) = Ready(f)
  /\ Select!InUse = InUse /\ Select!NewFd = NewFd
  /\ Select!EchoInit = EchoInit /\ Select!EchoTypeOK = EchoTypeOK
  /\ \A S : Select!Cardinality(S) = Cardinality(S)
  /\ \A S : Select!Max(S) = Max(S) /\ Select!Min(S) = Min(S)
<1> USE DEF Select!clientVars, clientVars, Select!socketVars, socketVars, Select!Available, Available,
            Select!Cur, Cur, Select!Owner, Owner, Select!InUse, InUse, Select!Min, Min
<1>1. Select!EchoSteps = EchoSteps
  BY Zenon DEF Select!EchoSteps, EchoSteps, Select!EchoRead, EchoRead, Select!EchoEof, EchoEof, Select!EchoError, EchoError, Select!EchoInterrupted, EchoInterrupted, Select!EchoWrite, EchoWrite, Select!EchoWritten, EchoWritten, Select!EchoBroken, EchoBroken, Select!EchoReturns, EchoReturns, Select!unsent, unsent, Select!Chunk, Chunk
<1>2. \A o : Select!AcceptAs(o) = AcceptAs(o)
  BY Zenon DEF Select!AcceptAs, AcceptAs, Select!NewFd, NewFd
<1>3. Select!AcceptFails = AcceptFails
  BY Zenon DEF Select!AcceptFails, AcceptFails
<1>4. \A o : Select!Close(o) = Close(o)
  BY Zenon DEF Select!Close, Close
<1>5. Select!Stop = Stop
  BY Zenon DEF Select!Stop, Stop, Select!Connected, Connected, Select!Queued, Queued
<1>6. \A l : Select!Goto(l) = Goto(l)
  BY Zenon DEF Select!Goto, Goto
<1>7. \A f : Select!Ready(f) = Ready(f)
  BY Zenon DEF Select!Ready, Ready, Select!Readable, Readable
<1>8. Select!InUse = InUse /\ Select!NewFd = NewFd
  BY Zenon DEF Select!NewFd, NewFd
<1>9. Select!EchoInit = EchoInit /\ Select!EchoTypeOK = EchoTypeOK
  BY Zenon DEF Select!EchoInit, EchoInit, Select!EchoTypeOK, EchoTypeOK
<1>10. \A S : Select!Cardinality(S) = Cardinality(S)
  BY Zenon DEF Select!Cardinality, Cardinality
<1>11. \A S : Select!Max(S) = Max(S) /\ Select!Min(S) = Min(S)
  BY Zenon DEF Select!Max, Max
<1> QED
  BY <1>1, <1>2, <1>3, <1>4, <1>5, <1>6, <1>7, <1>8, <1>9, <1>10, <1>11, Zenon
-----------------------------------------------------------------------------
(* Steps of BlockingEcho that keep CoreInv, and what each is to a client.  *)

LEMMA InitCore ==
  ASSUME EchoInit
  PROVE  CoreInv /\ Service!EInit
<1>1. TypeInv
  BY EchoAssumption, EmptySeq DEF EchoInit, TypeInv
<1>2. FdInv /\ QueueInv
  BY DEF EchoInit, FdInv, QueueInv
<1>3. CurInv /\ FlowInv
  BY DEF EchoInit, CurInv, FlowInv, Echoing
<1>4. Service!EInit
  BY DEF EchoInit, Service!EInit
<1> QED
  BY <1>1, <1>2, <1>3, <1>4 DEF CoreInv

\* A step that lets clients send, end or reset, and changes nothing else.
LEMMA OutsideKeeps ==
  ASSUME CoreInv, UNCHANGED <<rcvd, fd, status, pc, curfd, wbuf, rc, echoed>>, TypeInv', QueueInv',
         \A c \in Clients : /\ sent[c] <= sent'[c] /\ (shut[c] => shut'[c] /\ sent'[c] = sent[c])
                            /\ (rst[c] => rst'[c])
  PROVE  CoreInv' /\ InUse' = InUse /\ \A f : Ripe(f) => Ripe(f)'
<1>1. InUse' = InUse /\ \A c \in Clients : \A f : Has(c, f)' <=> Has(c, f)
  BY DEF InUse, Has
<1>2. \A c \in Clients : Readable(c) => Readable(c)'
  <2> SUFFICES ASSUME NEW c \in Clients, Readable(c) PROVE Readable(c)'
    OBVIOUS
  <2>1. sent[c] \in Nat /\ sent'[c] \in Nat /\ rcvd[c] \in Nat /\ rcvd'[c] = rcvd[c]
    BY DEF CoreInv, TypeInv
  <2> QED
    BY <2>1 DEF Readable, Available
<1>3. \A f : Ripe(f) => Ripe(f)'
  BY <1>1, <1>2 DEF Ripe
<1>4. FdInv'
  BY <1>1 DEF CoreInv, FdInv
<1>5. CurInv'
  BY <1>1, <1>3 DEF CoreInv, CurInv
<1>6. FlowInv'
  <2>1. \A c \in Clients : InHand(c)' = InHand(c)
    BY <1>1 DEF InHand
  <2> QED
    BY <1>1, <2>1 DEF CoreInv, FlowInv
<1> QED
  BY <1>1, <1>3, <1>4, <1>5, <1>6 DEF CoreInv

\* Clients connect, send, end, reset and read.
LEMMA ClientKeeps ==
  ASSUME CoreInv, ClientSteps
  PROVE  /\ CoreInv' /\ Promise /\ InUse' = InUse /\ UNCHANGED <<fd, status, pc, curfd, rc>>
         /\ \A f : Ripe(f) => Ripe(f)'
<1> USE DEF clientVars, socketVars
<1>1. PICK c \in Clients : Connect(c) \/ Send(c) \/ Shutdown(c) \/ Reset(c) \/ Receive(c)
  BY DEF ClientSteps
<1>2. /\ TypeInv /\ QueueInv /\ sent \in [Clients -> Nat] /\ rcvd \in [Clients -> Nat]
      /\ shut \in [Clients -> BOOLEAN] /\ rst \in [Clients -> BOOLEAN]
      /\ tx \in [Clients -> 0..SockBuf] /\ SockBuf \in Nat
  BY EchoAssumption DEF CoreInv, TypeInv
<1> DEFINE Rest == UNCHANGED <<rcvd, fd, status, pc, curfd, wbuf, rc, echoed>>
           Grows == \A d \in Clients : /\ sent[d] <= sent'[d]
                                       /\ (shut[d] => shut'[d] /\ sent'[d] = sent[d])
                                       /\ (rst[d] => rst'[d])
<1>3. CASE Connect(c)
  <2>1. Rest /\ UNCHANGED <<sent, shut, rst, tx>> /\ acceptq' = Append(acceptq, c)
        /\ status[c] = "none" /\ ~Queued(c)
    BY <1>3 DEF Connect
  <2>2. Grows
    BY <1>2, <2>1
  <2>3. acceptq \in Seq(Clients) /\ acceptq' \in Seq(Clients)
    BY <1>2, <2>1, AppendProperties DEF TypeInv
  <2>4. TypeInv'
    BY <1>2, <2>1, <2>3 DEF TypeInv
  <2>5. PICK n \in Nat : n = Len(acceptq) /\ DOMAIN acceptq = 1..n
    BY <2>3, LenProperties
  <2>6. /\ Len(acceptq') = n + 1 /\ acceptq'[n + 1] = c
        /\ \A k \in 1..n : acceptq'[k] = acceptq[k] /\ acceptq[k] # c
    BY <2>1, <2>3, <2>5, AppendProperties DEF Queued
  <2>7. QueueInv'
    BY <1>2, <2>1, <2>5, <2>6 DEF QueueInv
  <2>8. Promise
    BY <2>1 DEF Promise, Service!evars
  <2> QED
    BY <2>1, <2>2, <2>4, <2>7, <2>8, OutsideKeeps
<1>4. CASE Send(c)
  <2>1. /\ Rest /\ UNCHANGED <<shut, rst, tx, acceptq>> /\ sent' = [sent EXCEPT ![c] = sent[c] + 1]
        /\ ~shut[c] /\ sent[c] < MaxSend[c]
    BY <1>4 DEF Send
  <2>2. sent' \in [Clients -> Nat] /\ sent'[c] = sent[c] + 1 /\ \A d \in Clients : d # c => sent'[d] = sent[d]
    BY <1>2, <2>1
  <2>3. Grows
    BY <1>2, <2>1, <2>2
  <2>4. TypeInv'
    <3>1. \A d \in Clients : sent'[d] <= MaxSend[d] /\ rcvd[d] <= sent'[d]
      BY <1>2, <2>1, <2>2, EchoAssumption, SMTT(40) DEF TypeInv
    <3> QED
      BY <1>2, <2>1, <2>2, <3>1 DEF TypeInv
  <2>5. QueueInv'
    BY <1>2, <2>1 DEF QueueInv
  <2>6. Service!ClientSends(c)
    BY <1>2, <2>1, <2>2 DEF Service!ClientSends
  <2>7. Promise
    BY <2>6 DEF Promise, Service!ENext
  <2> QED
    BY <2>1, <2>3, <2>4, <2>5, <2>7, OutsideKeeps
<1>5. CASE Shutdown(c)
  <2>1. /\ Rest /\ UNCHANGED <<sent, rst, tx, acceptq>> /\ shut' = [shut EXCEPT ![c] = TRUE] /\ ~shut[c]
    BY <1>5 DEF Shutdown
  <2>2. shut' \in [Clients -> BOOLEAN] /\ \A d \in Clients : shut[d] => shut'[d]
    BY <1>2, <2>1
  <2>3. Grows
    BY <1>2, <2>1, <2>2
  <2>4. TypeInv' /\ QueueInv'
    BY <1>2, <2>1, <2>2 DEF TypeInv, QueueInv
  <2>5. Service!ClientEnds(c)
    BY <2>1 DEF Service!ClientEnds
  <2>6. Promise
    BY <2>5 DEF Promise, Service!ENext
  <2> QED
    BY <2>1, <2>3, <2>4, <2>6, OutsideKeeps
<1>6. CASE Reset(c)
  <2>1. /\ Rest /\ UNCHANGED <<sent, shut, acceptq>> /\ rst' = [rst EXCEPT ![c] = TRUE]
        /\ tx' = [tx EXCEPT ![c] = 0]
    BY <1>6 DEF Reset
  <2>2. rst' \in [Clients -> BOOLEAN] /\ (\A d \in Clients : rst[d] => rst'[d])
    BY <1>2, <2>1
  <2>3. tx' \in [Clients -> 0..SockBuf]
    BY <1>2, <2>1
  <2>4. Grows
    BY <1>2, <2>1, <2>2
  <2>5. TypeInv' /\ QueueInv'
    BY <1>2, <2>1, <2>2, <2>3 DEF TypeInv, QueueInv
  <2>6. Promise
    BY <2>1 DEF Promise, Service!evars
  <2> QED
    BY <2>1, <2>4, <2>5, <2>6, OutsideKeeps
<1>7. CASE Receive(c)
  <2>1. /\ Rest /\ UNCHANGED <<sent, shut, rst, acceptq>> /\ tx' = [tx EXCEPT ![c] = tx[c] - 1] /\ tx[c] > 0
    BY <1>7 DEF Receive
  <2>2. tx' \in [Clients -> 0..SockBuf]
    BY <1>2, <2>1
  <2>3. Grows
    BY <1>2, <2>1
  <2>4. TypeInv' /\ QueueInv'
    BY <1>2, <2>1, <2>2 DEF TypeInv, QueueInv
  <2>5. Promise
    BY <2>1 DEF Promise, Service!evars
  <2> QED
    BY <2>1, <2>3, <2>4, <2>5, OutsideKeeps
<1> QED
  BY <1>1, <1>3, <1>4, <1>5, <1>6, <1>7

\* Away from echo_once nothing is in hand and no error is noted.
LEMMA Idle ==
  ASSUME CoreInv, pc \notin Echoing \/ (pc = "served" /\ rc = "ok")
  PROVE  /\ rc = "ok" /\ wbuf = <<>> /\ pc # "write"
         /\ \A c \in Clients : status[c] = "open" => Len(echoed[c]) = rcvd[c]
<1>1. rc = "ok" /\ pc # "write" /\ wbuf = <<>>
  BY DEF CoreInv, TypeInv, CurInv, Echoing
<1>2. ASSUME NEW c \in Clients, status[c] = "open" PROVE Len(echoed[c]) = rcvd[c]
  <2>1. Len(echoed[c]) + 0 = rcvd[c]
    BY <1>1, <1>2 DEF CoreInv, FlowInv, InHand
  <2>2. Len(echoed[c]) \in Nat
    BY LenProperties DEF CoreInv, TypeInv
  <2> QED
    BY <2>1, <2>2
<1> QED
  BY <1>1, <1>2

\* The server moves on without touching a connection.
LEMMA RestKeeps ==
  ASSUME CoreInv, UNCHANGED <<clientVars, socketVars, curfd, wbuf, rc, echoed>>,
         pc \notin Echoing \/ (pc = "served" /\ rc = "ok"), pc' \notin Echoing
  PROVE  CoreInv' /\ Promise /\ InUse' = InUse /\ \A f : Ripe(f) => Ripe(f)'
<1> USE DEF clientVars, socketVars
<1>1. InUse' = InUse /\ \A c \in Clients : \A f : Has(c, f)' <=> Has(c, f)
  BY DEF InUse, Has
<1>2. rc = "ok" /\ wbuf = <<>> /\ \A c \in Clients : status[c] = "open" => Len(echoed[c]) = rcvd[c]
  BY Idle
<1>3. \A f : Ripe(f) => Ripe(f)'
  BY <1>1 DEF Ripe, Readable, Available
<1>4. TypeInv' /\ FdInv' /\ QueueInv'
  BY <1>1, <1>2 DEF CoreInv, TypeInv, FdInv, QueueInv
<1>5. CurInv'
  BY <1>2 DEF CurInv, Echoing
<1>6. FlowInv'
  <2>1. \A c \in Clients : InHand(c)' = 0 /\ rcvd[c] \in Nat
    BY DEF InHand, Echoing, CoreInv, TypeInv
  <2>2. \A c \in Clients : status[c] = "open" => Len(echoed[c]) + 0 = rcvd[c]
    BY <1>2, <2>1
  <2> QED
    BY <2>1, <2>2 DEF CoreInv, FlowInv, Echoing
<1>7. Promise
  BY DEF Promise, Service!evars
<1> QED
  BY <1>1, <1>3, <1>4, <1>5, <1>6, <1>7 DEF CoreInv

\* The server turns to a descriptor that is ripe, to read, or because of an
\* error on it.
LEMMA StartKeeps ==
  ASSUME CoreInv, pc \notin Echoing, UNCHANGED <<clientVars, socketVars, wbuf, echoed>>,
         NEW f \in Fds, Ripe(f), curfd' = f,
         \/ pc' = "read" /\ UNCHANGED rc
         \/ pc' = "served" /\ rc' = "error"
  PROVE  CoreInv' /\ Promise /\ InUse' = InUse /\ \A g : Ripe(g) => Ripe(g)'
<1> USE DEF clientVars, socketVars
<1>1. InUse' = InUse /\ \A c \in Clients : \A g : Has(c, g)' <=> Has(c, g)
  BY DEF InUse, Has
<1>2. rc = "ok" /\ wbuf = <<>> /\ \A c \in Clients : status[c] = "open" => Len(echoed[c]) = rcvd[c]
  BY Idle
<1>3. \A g : Ripe(g) => Ripe(g)'
  BY <1>1 DEF Ripe, Readable, Available
<1>4. TypeInv' /\ FdInv' /\ QueueInv'
  BY <1>1, <1>2 DEF CoreInv, TypeInv, FdInv, QueueInv
<1>5. CurInv'
  <2>1. Ripe(f)' /\ \E c \in Clients : Has(c, f)
    BY <1>3 DEF Ripe
  <2> QED
    BY <1>1, <1>2, <2>1 DEF CurInv
<1>6. FlowInv'
  <2>1. \A c \in Clients : InHand(c)' = 0 /\ rcvd[c] \in Nat
    BY DEF InHand, CoreInv, TypeInv
  <2>2. \A c \in Clients : status[c] = "open" => Len(echoed[c]) + 0 = rcvd[c]
    BY <1>2, <2>1
  <2> QED
    BY <2>1, <2>2 DEF CoreInv, FlowInv
<1>7. Promise
  BY DEF Promise, Service!evars
<1> QED
  BY <1>1, <1>3, <1>4, <1>5, <1>6, <1>7 DEF CoreInv

\* accept takes the first of the queue; a connection that is kept gets a
\* descriptor nobody has.
LEMMA AcceptKeeps ==
  ASSUME CoreInv, NEW o \in {"open", "aborted"}, AcceptAs(o), pc \notin Echoing, pc' \notin Echoing
  PROVE  /\ CoreInv' /\ Promise /\ NewFd \in Fds \ InUse /\ curfd' = curfd
         /\ InUse' = IF o = "open" THEN InUse \cup {NewFd} ELSE InUse
         /\ \A f : Ripe(f) => Ripe(f)'
         /\ \A c \in Clients : \A f : Has(c, f) => Has(c, f)'
<1> USE DEF clientVars
<1>1. PICK h, n : h = Head(acceptq) /\ n = NewFd
  OBVIOUS
<1>2. /\ acceptq # <<>> /\ acceptq' = Tail(acceptq) /\ status' = [status EXCEPT ![h] = o]
      /\ fd' = [fd EXCEPT ![h] = IF o = "open" THEN n ELSE 0]
      /\ UNCHANGED <<sent, shut, rst, rcvd, tx, curfd, wbuf, rc, echoed>>
  BY <1>1 DEF AcceptAs
<1>3. n \in Fds /\ n \notin InUse
  <2>1. Fds \ InUse # {} /\ Fds \ InUse \subseteq Nat
    BY EchoAssumption DEF AcceptAs
  <2> QED
    BY <1>1, <2>1, MinIsLeast DEF NewFd
<1>4. /\ acceptq \in Seq(Clients) /\ status \in [Clients -> {"none", "open", "done", "aborted"}]
      /\ fd \in [Clients -> Fds \cup {0}]
  BY DEF CoreInv, TypeInv
<1>5. PICK m \in Nat :
        /\ Len(acceptq) = m + 1 /\ acceptq' \in Seq(Clients) /\ Len(acceptq') = m
        /\ \A k \in 1..m : acceptq'[k] = acceptq[k + 1]
  <2>1. PICK l \in Nat : l = Len(acceptq) /\ l # 0
    BY <1>2, <1>4, EmptySeq, LenProperties
  <2>2. l - 1 \in Nat /\ l = (l - 1) + 1
    BY <2>1
  <2> QED
    BY <1>2, <1>4, <2>1, <2>2, HeadTailProperties
<1>6. h = acceptq[1] /\ h \in Clients /\ status[h] = "none" /\ rcvd[h] = 0 /\ echoed[h] = <<>>
  <2>1. h = acceptq[1] /\ h \in Clients
    BY <1>1, <1>2, <1>4, HeadTailProperties
  <2>2. 1 \in 1..Len(acceptq)
    BY <1>5
  <2> QED
    BY <2>1, <2>2 DEF CoreInv, QueueInv
<1>7. /\ status'[h] = o /\ \A c \in Clients : c # h => status'[c] = status[c] /\ fd'[c] = fd[c]
      /\ o = "open" => fd'[h] = n
  BY <1>2, <1>4, <1>6
<1>8. /\ \A c \in Clients : c # h => \A f : Has(c, f)' <=> Has(c, f)
      /\ \A f : ~Has(h, f) /\ (Has(h, f)' <=> o = "open" /\ f = n)
  BY <1>6, <1>7 DEF Has
<1>9. InUse' = IF o = "open" THEN InUse \cup {n} ELSE InUse
  <2>1. InUse = {f \in Fds \cup {0} : \E c \in Clients : Has(c, f)}
    BY <1>4 DEF InUse, Has
  <2>2. fd' \in [Clients -> Fds \cup {0}]
    BY <1>2, <1>3, <1>4
  <2>3. InUse' = {f \in Fds \cup {0} : \E c \in Clients : Has(c, f)'}
    BY <2>2 DEF InUse, Has
  <2> QED
    BY <1>3, <1>6, <1>8, <2>1, <2>3
<1>10. \A f : Ripe(f) => Ripe(f)'
  BY <1>2, <1>8 DEF Ripe, Readable, Available
<1>11. rc = "ok" /\ wbuf = <<>> /\ \A c \in Clients : status[c] = "open" => Len(echoed[c]) = rcvd[c]
  BY Idle
<1>12. TypeInv'
  <2>1. status' \in [Clients -> {"none", "open", "done", "aborted"}] /\ fd' \in [Clients -> Fds \cup {0}]
    BY <1>2, <1>3, <1>4
  <2> QED
    BY <1>2, <1>5, <1>11, <2>1 DEF CoreInv, TypeInv
<1>13. FdInv'
  <2>1. \A c \in Clients : c # h => ~Has(c, n)
    BY <1>3 DEF Has, InUse
  <2>2. FdInv
    BY DEF CoreInv
  <2>3. ASSUME NEW c \in Clients, status'[c] = "open"
        PROVE  fd'[c] \in Fds /\ \A d \in Clients : status'[d] = "open" /\ fd'[d] = fd'[c] => d = c
    <3>1. CASE c = h
      BY <1>3, <1>7, <2>1, <2>3, <3>1 DEF Has
    <3>2. CASE c # h
      <4>1. status[c] = "open" /\ fd'[c] = fd[c] /\ fd[c] # n
        BY <1>7, <2>1, <2>3, <3>2 DEF Has
      <4> QED
        BY <1>7, <2>2, <3>2, <4>1 DEF FdInv, Has
    <3> QED
      BY <3>1, <3>2
  <2> QED
    BY <2>3 DEF FdInv, Has
<1>14. QueueInv'
  <2>1. QueueInv /\ o # "none"
    BY DEF CoreInv
  <2>2. ASSUME NEW k \in 1..m
        PROVE  /\ acceptq'[k] = acceptq[k + 1] /\ k + 1 \in 1..Len(acceptq)
               /\ acceptq[k + 1] \in Clients /\ acceptq[k + 1] # h
    <3>1. acceptq'[k] = acceptq[k + 1] /\ k + 1 \in 1..Len(acceptq) /\ 1 \in 1..Len(acceptq) /\ k + 1 # 1
      BY <1>5
    <3>2. acceptq[k + 1] \in Clients
      BY <1>4, <3>1, ElementOfSeq
    <3>3. acceptq[k + 1] # h
      BY <1>6, <2>1, <3>1 DEF QueueInv
    <3> QED
      BY <3>1, <3>2, <3>3
  <2>3. ASSUME NEW k \in 1..m
        PROVE  /\ status'[acceptq'[k]] = "none"
               /\ \A l \in 1..m : acceptq'[l] = acceptq'[k] => l = k
    <3>1. status'[acceptq'[k]] = "none"
      BY <1>7, <2>1, <2>2 DEF QueueInv
    <3>2. ASSUME NEW l \in 1..m, acceptq'[l] = acceptq'[k] PROVE l = k
      <4>1. l + 1 = k + 1
        BY <2>1, <2>2, <3>2 DEF QueueInv
      <4> QED
        BY <4>1
    <3> QED
      BY <3>1, <3>2
  <2>4. \A c \in Clients : status'[c] = "none" => rcvd'[c] = 0 /\ echoed'[c] = <<>>
    BY <1>2, <1>7, <2>1 DEF QueueInv
  <2> QED
    BY <1>5, <2>3, <2>4 DEF QueueInv
<1>15. CurInv'
  BY <1>2, <1>11 DEF CurInv, Echoing
<1>16. FlowInv'
  <2>1. \A c \in Clients : InHand(c)' = 0 /\ rcvd[c] \in Nat
    BY DEF InHand, Echoing, CoreInv, TypeInv
  <2>2. Len(<<>>) = 0
    OBVIOUS
  <2>3. \A c \in Clients : status'[c] = "open" => Len(echoed[c]) + 0 = rcvd[c]
    BY <1>6, <1>7, <1>11, <2>1, <2>2
  <2> QED
    BY <1>2, <2>1, <2>3 DEF CoreInv, FlowInv, Echoing
<1>17. Promise
  <2>1. CASE o = "open"
    <3>1. Service!Open(h)
      BY <1>2, <1>6, <2>1 DEF Service!Open
    <3> QED
      BY <1>6, <3>1 DEF Promise, Service!ENext
  <2>2. CASE o = "aborted"
    <3>1. status' = [c \in Clients |-> IF c \in {h} THEN "aborted" ELSE status[c]]
      BY <1>2, <1>4, <2>2
    <3>2. Service!Abort({h})
      BY <1>2, <1>6, <3>1 DEF Service!Abort
    <3> QED
      BY <1>6, <3>2 DEF Promise, Service!ENext
  <2> QED
    BY <2>1, <2>2
<1>18. \A c \in Clients : \A f : Has(c, f) => Has(c, f)'
  BY <1>8
<1> QED
  BY <1>1, <1>2, <1>3, <1>9, <1>10, <1>18, <1>12, <1>13, <1>14, <1>15, <1>16, <1>17 DEF CoreInv

\* close ends the conversation echo_once was about, in good order only after
\* end of file; its descriptor is free again.
LEMMA CloseKeeps ==
  ASSUME CoreInv, pc = "served", pc' \notin Echoing, NEW o \in {"done", "aborted"}, Close(o),
         o = "done" => rc = "eof"
  PROVE  /\ CoreInv' /\ Promise /\ InUse' = InUse \ {curfd} /\ curfd \in InUse
         /\ \A f : f # curfd /\ Ripe(f) => Ripe(f)'
         /\ \A c \in Clients : \A f : f # curfd /\ Has(c, f) => Has(c, f)'
<1> USE DEF clientVars
<1>1. PICK h \in Clients : h = Cur /\ Has(h, curfd) /\ curfd \in InUse /\ curfd \in Fds
                           /\ \A d \in Clients : Has(d, curfd) => d = h
  BY CurIs DEF Echoing
<1>2. /\ status' = [status EXCEPT ![h] = o] /\ fd' = [fd EXCEPT ![h] = 0] /\ curfd' = 0 /\ rc' = "ok"
      /\ UNCHANGED <<sent, shut, rst, acceptq, rcvd, tx, wbuf, echoed>>
  BY <1>1 DEF Close
<1>3. /\ acceptq \in Seq(Clients) /\ status \in [Clients -> {"none", "open", "done", "aborted"}]
      /\ fd \in [Clients -> Fds \cup {0}] /\ wbuf = <<>>
  BY DEF CoreInv, TypeInv
<1>4. status'[h] = o /\ \A c \in Clients : c # h => status'[c] = status[c] /\ fd'[c] = fd[c]
  BY <1>2, <1>3
<1>5. /\ \A c \in Clients : c # h => \A f : Has(c, f)' <=> Has(c, f)
      /\ \A f : ~Has(h, f)' /\ (Has(h, f) <=> f = curfd)
  BY <1>1, <1>4 DEF Has
<1>6. InUse' = InUse \ {curfd}
  <2>1. InUse = {f \in Fds \cup {0} : \E c \in Clients : Has(c, f)}
    BY <1>3 DEF InUse, Has
  <2>2. fd' \in [Clients -> Fds \cup {0}]
    BY <1>2, <1>3
  <2>3. InUse' = {f \in Fds \cup {0} : \E c \in Clients : Has(c, f)'}
    BY <2>2 DEF InUse, Has
  <2> QED
    BY <1>1, <1>5, <2>1, <2>3
<1>7. \A f : f # curfd /\ Ripe(f) => Ripe(f)'
  BY <1>2, <1>5 DEF Ripe, Readable, Available
<1>8. TypeInv'
  <2>1. status' \in [Clients -> {"none", "open", "done", "aborted"}] /\ fd' \in [Clients -> Fds \cup {0}]
    BY <1>2, <1>3
  <2> QED
    BY <1>2, <1>3, <2>1 DEF CoreInv, TypeInv
<1>9. FdInv'
  <2>1. FdInv /\ o # "open"
    BY DEF CoreInv
  <2>2. ASSUME NEW c \in Clients, status'[c] = "open"
        PROVE  fd'[c] \in Fds /\ \A d \in Clients : status'[d] = "open" /\ fd'[d] = fd'[c] => d = c
    BY <1>4, <2>1, <2>2 DEF FdInv, Has
  <2> QED
    BY <2>2 DEF FdInv, Has
<1>10. QueueInv'
  <2>1. QueueInv /\ o # "none" /\ status[h] = "open"
    BY <1>1 DEF CoreInv, Has
  <2>2. \A k \in 1..Len(acceptq) : acceptq[k] \in Clients
    BY <1>3, ElementOfSeq
  <2> QED
    BY <1>2, <1>4, <2>1, <2>2 DEF QueueInv
<1>11. CurInv'
  BY <1>2 DEF CurInv, Echoing
<1>12. \A c \in Clients : InHand(c)' = 0 /\ InHand(c) = 0
  BY DEF InHand, Echoing
<1>13. FlowInv'
  <2>1. \A c \in Clients : status'[c] = "open" => c # h /\ status[c] = "open"
    BY <1>4
  <2> QED
    BY <1>1, <1>2, <1>12, <2>1 DEF CoreInv, FlowInv, Echoing
<1>14. Promise
  <2>1. CASE o = "done"
    <3>1. shut[h] /\ sent[h] = rcvd[h] /\ rc = "eof"
      BY <1>1, <2>1 DEF CoreInv, CurInv
    <3>2. Len(echoed[h]) + 0 = rcvd[h] /\ Len(echoed[h]) \in Nat
      BY <1>1, <1>12, <3>1, LenProperties DEF CoreInv, FlowInv, TypeInv, Has
    <3>3. Service!Finish(h)
      BY <1>1, <1>2, <2>1, <3>1, <3>2 DEF Service!Finish, Has
    <3> QED
      BY <3>3 DEF Promise, Service!ENext
  <2>2. CASE o = "aborted"
    <3>1. status' = [c \in Clients |-> IF c \in {h} THEN "aborted" ELSE status[c]]
      BY <1>2, <1>3, <2>2
    <3>2. Service!Abort({h})
      BY <1>1, <1>2, <3>1 DEF Service!Abort, Has
    <3> QED
      BY <3>2 DEF Promise, Service!ENext
  <2> QED
    BY <2>1, <2>2
<1>15. \A c \in Clients : \A f : f # curfd /\ Has(c, f) => Has(c, f)'
  BY <1>5
<1> QED
  BY <1>1, <1>6, <1>7, <1>8, <1>9, <1>10, <1>11, <1>13, <1>14, <1>15 DEF CoreInv

\* The process ends, and every conversation with it.
LEMMA StopKeeps ==
  ASSUME CoreInv, Stop
  PROVE  CoreInv' /\ Promise
<1> USE DEF clientVars
<1>1. /\ pc = "wait" /\ pc' = "stopped" /\ acceptq' = <<>>
      /\ status' = [c \in Clients |-> IF Connected(c) THEN "aborted" ELSE status[c]]
      /\ fd' = [c \in Clients |-> 0]
      /\ UNCHANGED <<sent, shut, rst, rcvd, tx, curfd, wbuf, rc, echoed>>
  BY DEF Stop
<1>2. /\ acceptq \in Seq(Clients) /\ status \in [Clients -> {"none", "open", "done", "aborted"}]
      /\ rc = "ok" /\ wbuf = <<>>
  BY <1>1 DEF CoreInv, TypeInv, CurInv
<1>3. \A c \in Clients : /\ status'[c] # "open"
                         /\ status'[c] = "none" => status[c] = "none"
                         /\ Connected(c) => status[c] \in {"none", "open"}
  <2> SUFFICES ASSUME NEW c \in Clients
               PROVE  /\ status'[c] # "open" /\ (status'[c] = "none" => status[c] = "none")
                      /\ Connected(c) => status[c] \in {"none", "open"}
    OBVIOUS
  <2>1. Queued(c) => status[c] = "none"
    <3>1. DOMAIN acceptq = 1..Len(acceptq)
      BY <1>2, LenProperties
    <3> QED
      BY <3>1 DEF Queued, CoreInv, QueueInv
  <2> QED
    BY <1>1, <2>1 DEF Connected
<1>4. status' \in [Clients -> {"none", "open", "done", "aborted"}]
  BY <1>1, <1>2
<1>5. TypeInv'
  BY <1>1, <1>2, <1>4, EmptySeq DEF CoreInv, TypeInv
<1>6. FdInv' /\ QueueInv'
  BY <1>1, <1>3 DEF CoreInv, FdInv, QueueInv
<1>7. CurInv' /\ FlowInv'
  BY <1>1, <1>2, <1>3 DEF CoreInv, CurInv, FlowInv, Echoing
<1>8. Promise
  <2> DEFINE S == {c \in Clients : Connected(c)}
  <2>1. status' = [c \in Clients |-> IF c \in S THEN "aborted" ELSE status[c]]
    BY <1>1
  <2>2. Service!Abort(S) /\ S \in SUBSET Clients
    BY <1>1, <1>3, <2>1 DEF Service!Abort
  <2> QED
    BY <2>2 DEF Promise, Service!ENext
<1> QED
  BY <1>5, <1>6, <1>7, <1>8 DEF CoreInv

\* What a step of echo_once keeps: only the connection it works on changes.
EchoFrame ==
  /\ UNCHANGED <<sent, shut, rst, acceptq, fd, status, curfd>>
  /\ rcvd' \in [Clients -> Nat] /\ \A c \in Clients : c # Cur => rcvd'[c] = rcvd[c] /\ echoed'[c] = echoed[c]

LEMMA FrameKeeps ==
  ASSUME CoreInv, pc \in Echoing, EchoFrame
  PROVE  /\ InUse' = InUse /\ FdInv' /\ (\A c \in Clients : \A f : Has(c, f)' <=> Has(c, f))
         /\ \A f : f # curfd /\ Ripe(f) => Ripe(f)'
<1>1. InUse' = InUse /\ \A c \in Clients : \A f : Has(c, f)' <=> Has(c, f)
  BY DEF EchoFrame, InUse, Has
<1>2. FdInv'
  BY <1>1 DEF CoreInv, FdInv, EchoFrame
<1>3. \A c \in Clients : \A f : Has(c, f) /\ f # curfd => c # Cur
  BY CurIs DEF Has
<1>4. \A f : f # curfd /\ Ripe(f) => Ripe(f)'
  <2> SUFFICES ASSUME NEW f, f # curfd, Ripe(f) PROVE Ripe(f)'
    OBVIOUS
  <2>1. PICK c \in Clients : Has(c, f) /\ Readable(c)
    BY DEF Ripe
  <2>2. Readable(c)'
    BY <1>3, <2>1 DEF Readable, Available, EchoFrame
  <2> QED
    BY <1>1, <2>1, <2>2 DEF Ripe
<1> QED
  BY <1>1, <1>2, <1>4

\* echo_once returns: with everything written, or at end of file, or with an
\* error, and then what it had in hand is dropped.
LEMMA ReturnKeeps ==
  ASSUME CoreInv, pc \in {"read", "write"}, NEW r \in {"ok", "eof", "error"}, EchoReturns(r), wbuf' = <<>>,
         r # "error" => wbuf = <<>>,
         r = "eof" => shut[Cur] /\ Available(Cur) = 0
  PROVE  /\ CoreInv' /\ Promise /\ InUse' = InUse /\ UNCHANGED <<fd, status, curfd>> /\ pc' = "served"
         /\ \A f : f # curfd /\ Ripe(f) => Ripe(f)'
<1> USE DEF clientVars, socketVars
<1>1. PICK h \in Clients : h = Cur /\ Has(h, curfd) /\ \A d \in Clients : Has(d, curfd) => d = h
  BY CurIs DEF Echoing
<1>2. /\ pc' = "served" /\ rc' = r
      /\ UNCHANGED <<sent, shut, rst, acceptq, rcvd, tx, fd, status, curfd, echoed>>
  BY DEF EchoReturns
<1>3. EchoFrame /\ pc \in Echoing
  BY <1>2 DEF EchoFrame, CoreInv, TypeInv, Echoing
<1>4. /\ InUse' = InUse /\ FdInv' /\ (\A c \in Clients : \A f : Has(c, f)' <=> Has(c, f))
      /\ \A f : f # curfd /\ Ripe(f) => Ripe(f)'
  BY <1>3, FrameKeeps
<1>5. TypeInv' /\ QueueInv'
  BY <1>2, EmptySeq DEF CoreInv, TypeInv, QueueInv
<1>6. CurInv'
  <2>1. r = "eof" => shut[h] /\ sent[h] = rcvd[h]
    BY <1>1 DEF Available, CoreInv, TypeInv
  <2> QED
    BY <1>1, <1>2, <1>4, <2>1 DEF CurInv
<1>7. FlowInv'
  <2>1. \A c \in Clients : InHand(c)' = 0
    BY <1>2 DEF InHand
  <2>2. \A c \in Clients : r # "error" => InHand(c) = 0
    BY DEF InHand
  <2>3. \A c \in Clients : c # h => InHand(c) = 0
    BY <1>1 DEF InHand
  <2> QED
    BY <1>1, <1>2, <1>4, <2>1, <2>2, <2>3 DEF CoreInv, FlowInv
<1>8. Promise
  BY <1>2 DEF Promise, Service!evars
<1> QED
  BY <1>2, <1>4, <1>5, <1>6, <1>7, <1>8 DEF CoreInv

\* read of what there is, at most MAXLINE bytes.
LEMMA ReadKeeps ==
  ASSUME CoreInv, EchoRead
  PROVE  /\ CoreInv' /\ Promise /\ InUse' = InUse /\ UNCHANGED <<fd, status, curfd>> /\ pc' = "write"
         /\ \A f : f # curfd /\ Ripe(f) => Ripe(f)'
<1> USE DEF clientVars
<1>1. pc = "read" /\ pc \in Echoing
  BY DEF EchoRead, Echoing
<1>2. PICK h \in Clients : h = Cur /\ Has(h, curfd) /\ \A d \in Clients : Has(d, curfd) => d = h
  BY <1>1, CurIs
<1>3. /\ sent \in [Clients -> Nat] /\ rcvd \in [Clients -> Nat] /\ echoed \in [Clients -> Seq(Nat)]
      /\ MAXLINE \in Nat /\ wbuf = <<>>
  BY <1>1, EchoAssumption DEF CoreInv, TypeInv
<1>4. PICK n \in 1..Min({MAXLINE, Available(h)}) :
        wbuf' = Chunk(h, n) /\ rcvd' = [rcvd EXCEPT ![h] = rcvd[h] + n]
  BY <1>2 DEF EchoRead
<1>5. n \in Nat /\ n <= sent[h] - rcvd[h]
  <2>1. Available(h) \in Int /\ Available(h) = sent[h] - rcvd[h]
    BY <1>3 DEF Available
  <2>2. Min({MAXLINE, Available(h)}) = IF MAXLINE <= Available(h) THEN MAXLINE ELSE Available(h)
    BY <1>3, <2>1, MinOfTwo, SMTT(40)
  <2> QED
    BY <1>3, <1>4, <2>1, <2>2
<1>6. /\ pc' = "write" /\ UNCHANGED <<sent, shut, rst, acceptq, tx, fd, status, curfd, rc, echoed>>
  BY DEF EchoRead
<1>7. /\ rcvd' \in [Clients -> Nat] /\ rcvd'[h] = rcvd[h] + n
      /\ \A c \in Clients : c # h => rcvd'[c] = rcvd[c]
  BY <1>3, <1>4, <1>5
<1>8. wbuf' \in Seq(Nat) /\ Len(wbuf') = n /\ \A k \in 1..n : wbuf'[k] = rcvd[h] + k
  <2>1. wbuf' = [k \in 1..n |-> rcvd[h] + k]
    BY <1>4 DEF Chunk
  <2>2. wbuf' \in [1..n -> Nat]
    BY <1>3, <1>5, <2>1
  <2> QED
    BY <1>5, <2>1, <2>2, LenProperties
<1>9. EchoFrame
  BY <1>2, <1>6, <1>7 DEF EchoFrame
<1>10. /\ InUse' = InUse /\ FdInv' /\ (\A c \in Clients : \A f : Has(c, f)' <=> Has(c, f))
       /\ \A f : f # curfd /\ Ripe(f) => Ripe(f)'
  BY <1>1, <1>9, FrameKeeps
<1>11. TypeInv'
  <2>1. ASSUME NEW c \in Clients PROVE sent[c] <= MaxSend[c] /\ rcvd'[c] <= sent[c]
    <3>1. sent[c] <= MaxSend[c] /\ rcvd[c] <= sent[c]
      BY DEF CoreInv, TypeInv
    <3>2. rcvd'[h] <= sent[h]
      BY <1>3, <1>5, <1>7
    <3> QED
      BY <1>7, <3>1, <3>2
  <2> QED
    BY <1>6, <1>7, <1>8, <2>1 DEF CoreInv, TypeInv
<1>12. QueueInv'
  <2>1. status[h] = "open"
    BY <1>2 DEF Has
  <2> QED
    BY <1>6, <1>7, <2>1 DEF CoreInv, QueueInv
<1>13. CurInv'
  BY <1>1, <1>2, <1>6, <1>10 DEF CoreInv, CurInv
<1>14. \A c \in Clients : InHand(c) = 0 /\ InHand(c)' = IF c = h THEN n ELSE 0
  BY <1>1, <1>2, <1>6, <1>8, <1>10 DEF InHand
<1>15. \A c \in Clients : Len(echoed[c]) \in Nat
  BY <1>3, LenProperties
<1>16. Len(echoed[h]) = rcvd[h]
  <2>1. Len(echoed[h]) + 0 = rcvd[h]
    BY <1>1, <1>2, <1>14 DEF CoreInv, FlowInv, Has
  <2> QED
    BY <1>15, <2>1
<1>17. FlowInv'
  <2>1. ASSUME NEW c \in Clients
        PROVE  Len(echoed'[c]) <= rcvd'[c] /\ \A k \in 1..Len(echoed'[c]) : echoed'[c][k] = k
    <3>1. Len(echoed[c]) <= rcvd[c] /\ \A k \in 1..Len(echoed[c]) : echoed[c][k] = k
      BY DEF CoreInv, FlowInv
    <3>2. Len(echoed[h]) <= rcvd'[h]
      BY <1>5, <1>7, <1>15, <1>16
    <3> QED
      BY <1>6, <1>7, <3>1, <3>2
  <2>2. ASSUME NEW c \in Clients, status'[c] = "open" PROVE Len(echoed'[c]) + InHand(c)' = rcvd'[c]
    <3>1. CASE c = h
      BY <1>5, <1>6, <1>7, <1>14, <1>16, <3>1
    <3>2. CASE c # h
      BY <1>1, <1>6, <1>7, <1>14, <2>2, <3>2 DEF CoreInv, FlowInv
    <3> QED
      BY <3>1, <3>2
  <2>3. ASSUME NEW c \in Clients, Has(c, curfd)'
        PROVE  \A k \in 1..Len(wbuf') : wbuf'[k] = Len(echoed'[c]) + k
    <3>1. c = h
      BY <1>2, <1>6, <1>10, <2>3 DEF Has
    <3> QED
      BY <1>6, <1>8, <1>16, <3>1
  <2> QED
    BY <2>1, <2>2, <2>3 DEF FlowInv
<1>18. Promise
  BY <1>6 DEF Promise, Service!evars
<1> QED
  BY <1>6, <1>10, <1>11, <1>12, <1>13, <1>17, <1>18 DEF CoreInv

\* write takes the first bytes of what is in hand, which are the next bytes of
\* the stream.
LEMMA WriteKeeps ==
  ASSUME CoreInv, EchoWrite
  PROVE  /\ CoreInv' /\ Promise /\ InUse' = InUse /\ UNCHANGED <<fd, status, curfd>> /\ pc' = "write"
         /\ \A f : f # curfd /\ Ripe(f) => Ripe(f)'
<1> USE DEF clientVars
<1>1. pc = "write" /\ pc \in Echoing
  BY DEF EchoWrite, Echoing
<1>2. PICK h \in Clients : h = Cur /\ Has(h, curfd) /\ \A d \in Clients : Has(d, curfd) => d = h
  BY <1>1, CurIs
<1>3. /\ sent \in [Clients -> Nat] /\ rcvd \in [Clients -> Nat] /\ echoed \in [Clients -> Seq(Nat)]
      /\ tx \in [Clients -> 0..SockBuf] /\ SockBuf \in Nat /\ wbuf \in Seq(Nat)
  BY EchoAssumption DEF CoreInv, TypeInv
<1>4. PICK n :
        /\ n \in 1..Min({Len(wbuf), SockBuf - tx[h]})
        /\ tx' = [tx EXCEPT ![h] = tx[h] + n]
        /\ echoed' = [echoed EXCEPT ![h] = echoed[h] \o SubSeq(wbuf, 1, n)]
        /\ wbuf' = unsent(n)
  BY <1>2 DEF EchoWrite
<1>5. PICK m \in Nat, e \in Nat : m = Len(wbuf) /\ e = Len(echoed[h])
  BY <1>3, LenProperties
<1>6. n \in Nat /\ 1 <= n /\ n <= m /\ n <= SockBuf - tx[h]
  <2>1. PICK room \in Int : room = SockBuf - tx[h]
    BY <1>3
  <2>2. Min({m, room}) = IF m <= room THEN m ELSE room
    BY MinOfTwo
  <2>3. n \in 1..Min({m, room})
    BY <1>4, <1>5, <2>1
  <2> QED
    BY <2>1, <2>2, <2>3
<1>7. /\ pc' = "write" /\ UNCHANGED <<sent, shut, rst, acceptq, rcvd, fd, status, curfd, rc>>
  BY <1>1 DEF EchoWrite
<1>8. tx' \in [Clients -> 0..SockBuf]
  BY <1>3, <1>4, <1>6
<1>9. e + m = rcvd[h] /\ \A k \in 1..m : wbuf[k] = e + k
  BY <1>1, <1>2, <1>5 DEF CoreInv, FlowInv, InHand, Has
<1> DEFINE taken == SubSeq(wbuf, 1, n)
<1>10. taken \in Seq(Nat) /\ Len(taken) = n /\ \A k \in 1..n : taken[k] = e + k
  <2>1. 0 + n <= m /\ 0 + 1 = 1 /\ 0 + n = n
    BY <1>6
  <2>2. /\ SubSeq(wbuf, 0 + 1, 0 + n) \in Seq(Nat) /\ Len(SubSeq(wbuf, 0 + 1, 0 + n)) = n
        /\ \A k \in 1..n : SubSeq(wbuf, 0 + 1, 0 + n)[k] = wbuf[0 + k]
    BY <1>3, <1>5, <1>6, <2>1, PieceIs, SMTT(40)
  <2>3. \A k \in 1..n : k \in 1..m /\ 0 + k = k
    BY <1>6
  <2> QED
    BY <1>9, <2>1, <2>2, <2>3
<1>11. /\ wbuf' \in Seq(Nat) /\ Len(wbuf') = m - n
       /\ \A k \in 1..(m - n) : wbuf'[k] = (e + n) + k
  <2>1. PICK q \in Nat : q = m - n /\ n + q = m
    BY <1>6
  <2>2. wbuf' = SubSeq(wbuf, n + 1, n + q)
    BY <1>4, <1>5, <2>1 DEF unsent
  <2>3. n + q <= Len(wbuf)
    BY <1>5, <2>1
  <2>4. wbuf' \in Seq(Nat) /\ Len(wbuf') = q /\ \A k \in 1..q : wbuf'[k] = wbuf[n + k]
    <3>1. PICK p \in Nat, w \in Seq(Nat) : p = n /\ w = wbuf
      BY <1>3, <1>6
    <3>2. p + q <= Len(w)
      BY <2>3, <3>1
    <3>3. /\ SubSeq(w, p + 1, p + q) \in Seq(Nat) /\ Len(SubSeq(w, p + 1, p + q)) = q
          /\ \A k \in 1..q : SubSeq(w, p + 1, p + q)[k] = w[p + k]
      BY <3>2, PieceIs, ZenonT(60)
    <3> QED
      BY <2>2, <3>1, <3>3
  <2>5. \A k \in 1..q : n + k \in 1..m /\ e + (n + k) = (e + n) + k
    BY <1>6, <2>1
  <2> QED
    BY <1>9, <2>1, <2>4, <2>5
<1>12. /\ echoed'[h] = echoed[h] \o taken /\ \A c \in Clients : c # h => echoed'[c] = echoed[c]
  BY <1>3, <1>4
<1>13. /\ echoed'[h] \in Seq(Nat) /\ Len(echoed'[h]) = e + n /\ \A k \in 1..(e + n) : echoed'[h][k] = k
  <2>1. \A k \in 1..e : echoed[h][k] = k
    BY <1>5 DEF CoreInv, FlowInv
  <2>2. echoed[h] \in Seq(Nat)
    BY <1>3
  <2>3. /\ echoed'[h] \in Seq(Nat) /\ Len(echoed'[h]) = e + n
        /\ \A k \in 1..(e + n) : echoed'[h][k] = IF k <= e THEN echoed[h][k] ELSE taken[k - e]
    BY <1>5, <1>10, <1>12, <2>2, ConcatProperties, SMTT(40)
  <2>4. \A k \in 1..(e + n) : ~(k <= e) => k - e \in 1..n /\ e + (k - e) = k
    BY <1>5, <1>6
  <2> HIDE DEF taken
  <2>5. ASSUME NEW k \in 1..(e + n) PROVE echoed'[h][k] = k
    <3>1. CASE k <= e
      <4>1. k \in 1..e
        BY <3>1
      <4> QED
        BY <2>1, <2>3, <3>1, <4>1
    <3>2. CASE ~(k <= e)
      BY <1>10, <2>3, <2>4, <3>2
    <3> QED
      BY <3>1, <3>2
  <2> QED
    BY <2>3, <2>5
<1>14. echoed' \in [Clients -> Seq(Nat)]
  BY <1>3, <1>4, <1>12, <1>13
<1>15. EchoFrame
  BY <1>2, <1>3, <1>7, <1>12 DEF EchoFrame
<1>16. /\ InUse' = InUse /\ FdInv' /\ (\A c \in Clients : \A f : Has(c, f)' <=> Has(c, f))
       /\ \A f : f # curfd /\ Ripe(f) => Ripe(f)'
  BY <1>1, <1>15, FrameKeeps
<1>17. TypeInv'
  BY <1>7, <1>8, <1>11, <1>14 DEF CoreInv, TypeInv
<1>18. QueueInv'
  <2>1. status[h] = "open"
    BY <1>2 DEF Has
  <2> QED
    BY <1>7, <1>12, <2>1 DEF CoreInv, QueueInv
<1>19. CurInv'
  BY <1>1, <1>2, <1>7, <1>16 DEF CoreInv, CurInv
<1>20. FlowInv'
  <2>1. ASSUME NEW c \in Clients
        PROVE  Len(echoed'[c]) <= rcvd'[c] /\ \A k \in 1..Len(echoed'[c]) : echoed'[c][k] = k
    <3>1. Len(echoed[c]) <= rcvd[c] /\ \A k \in 1..Len(echoed[c]) : echoed[c][k] = k
      BY DEF CoreInv, FlowInv
    <3>2. e + n <= rcvd[h]
      BY <1>5, <1>6, <1>9
    <3> QED
      BY <1>7, <1>12, <1>13, <3>1, <3>2
  <2>2. ASSUME NEW c \in Clients, status'[c] = "open" PROVE Len(echoed'[c]) + InHand(c)' = rcvd'[c]
    <3>1. CASE c = h
      <4>1. InHand(h)' = m - n
        BY <1>2, <1>7, <1>11, <1>16 DEF InHand
      <4>2. (e + n) + (m - n) = e + m
        BY <1>6
      <4> QED
        BY <1>7, <1>9, <1>13, <3>1, <4>1, <4>2
    <3>2. CASE c # h
      <4>1. InHand(c)' = 0 /\ InHand(c) = 0
        BY <1>2, <1>7, <1>16, <3>2 DEF InHand
      <4> QED
        BY <1>1, <1>7, <1>12, <2>2, <3>2, <4>1 DEF CoreInv, FlowInv
    <3> QED
      BY <3>1, <3>2
  <2>3. ASSUME NEW c \in Clients, Has(c, curfd)'
        PROVE  \A k \in 1..Len(wbuf') : wbuf'[k] = Len(echoed'[c]) + k
    <3>1. c = h
      BY <1>2, <1>7, <1>16, <2>3 DEF Has
    <3> QED
      BY <1>11, <1>13, <3>1
  <2> QED
    BY <1>7, <2>1, <2>2, <2>3 DEF FlowInv
<1>21. Promise
  <2>1. taken = [k \in 1..n |-> Len(echoed[h]) + k]
    <3>1. DOMAIN taken = 1..n
      BY <1>10, LenProperties
    <3>2. taken = [k \in 1..n |-> taken[k]]
      BY <1>10, <3>1, LenProperties
    <3> HIDE DEF taken
    <3> QED
      BY <1>5, <1>10, <3>2
  <2>2. echoed' = [echoed EXCEPT ![h] = echoed[h] \o [k \in 1..n |-> Len(echoed[h]) + k]]
    BY <1>4, <2>1
  <2>3. n \in 1..(sent[h] - Len(echoed[h]))
    <3>1. rcvd[h] <= sent[h] /\ rcvd[h] \in Nat /\ sent[h] \in Nat
      BY <1>3 DEF CoreInv, TypeInv
    <3> QED
      BY <1>5, <1>6, <1>9, <3>1, SMTT(40)
  <2>4. status[h] = "open"
    BY <1>2 DEF Has
  <2>5. Service!Echo(h)
    BY <1>7, <2>2, <2>3, <2>4 DEF Service!Echo
  <2> QED
    BY <2>5 DEF Promise, Service!ENext
<1> QED
  BY <1>7, <1>16, <1>17, <1>18, <1>19, <1>20, <1>21 DEF CoreInv

\* Every step of echo_once.
LEMMA EchoKeeps ==
  ASSUME CoreInv, EchoSteps
  PROVE  /\ CoreInv' /\ Promise /\ InUse' = InUse /\ UNCHANGED <<fd, status, curfd>>
         /\ pc \in {"read", "write"} /\ pc' \in {"write", "served"}
         /\ \A f : f # curfd /\ Ripe(f) => Ripe(f)'
<1>1. TypeInv
  BY DEF CoreInv
<1>2. CASE EchoRead
  BY <1>2, ReadKeeps DEF EchoRead
<1>3. CASE EchoEof
  BY <1>1, <1>3, ReturnKeeps DEF EchoEof, TypeInv
<1>4. CASE EchoError
  BY <1>1, <1>4, ReturnKeeps DEF EchoError, TypeInv
<1>5. CASE EchoInterrupted
  BY <1>1, <1>5, ReturnKeeps DEF EchoInterrupted, TypeInv
<1>6. CASE EchoWrite
  BY <1>6, WriteKeeps DEF EchoWrite
<1>7. CASE EchoWritten
  BY <1>7, ReturnKeeps DEF EchoWritten
<1>8. CASE EchoBroken
  BY <1>8, ReturnKeeps DEF EchoBroken
<1> QED
  BY <1>2, <1>3, <1>4, <1>5, <1>6, <1>7, <1>8 DEF EchoSteps
-----------------------------------------------------------------------------
(* The select server. *)

\* all_reads and maxfd are exact, and a descriptor that select reported and
\* the scan has before it is still open and still readable: an accept, and a
\* close of what the scan has behind it, leave it alone.
SelectInv ==
  /\ pc \in {"wait", "accept", "scan", "read", "write", "served", "stopped"}
  /\ all_reads \subseteq Fds \cup {listenfd} /\ ready_reads \subseteq Fds \cup {listenfd}
  /\ maxfd \in Fds \cup {listenfd} /\ nready \in 0..(Cardinality(Fds) + 1) /\ i \in Nat
  /\ pc # "stopped" => /\ all_reads = {listenfd} \cup InUse /\ maxfd \in all_reads
                       /\ \A f \in all_reads : f <= maxfd /\ f < FD_SETSIZE
  /\ pc = "accept" => nready >= 1
  /\ pc \in Serving => \A f \in ready_reads : f # listenfd /\ i <= f => Ripe(f)
  /\ pc \in Echoing => curfd < i

\* What is the same after a step that leaves the sets alone.
LEMMA SelectSame ==
  ASSUME SelectInv, UNCHANGED <<all_reads, ready_reads, maxfd>>, InUse' = InUse, pc # "stopped",
         pc' \in {"wait", "accept", "scan", "read", "write", "served"},
         nready' \in 0..(Cardinality(Fds) + 1), i' \in Nat, pc' # "accept",
         pc' \in Serving => \A f \in ready_reads : f # listenfd /\ i' <= f => Ripe(f)',
         pc' \in Echoing => curfd' < i'
  PROVE  SelectInv'
  BY DEF SelectInv

LEMMA SelectWaits ==
  ASSUME CoreInv, SelectInv, Select!select
  PROVE  CoreInv' /\ SelectInv' /\ Promise
<1>1. /\ pc = "wait" /\ ready_reads' = {f \in all_reads : f <= maxfd /\ Ready(f)}
      /\ nready' = Cardinality(ready_reads') /\ nready' > 0 /\ i' = 0 /\ UNCHANGED <<all_reads, maxfd>>
      /\ Goto(IF listenfd \in ready_reads' THEN "accept" ELSE "scan")
  BY SelectShares DEF Select!select
<1>2. /\ pc' \in {"accept", "scan"} /\ UNCHANGED <<clientVars, socketVars, curfd, wbuf, rc, echoed>>
  BY <1>1 DEF Goto
<1>3. CoreInv' /\ Promise /\ InUse' = InUse /\ \A f : Ripe(f) => Ripe(f)'
  BY <1>1, <1>2, RestKeeps DEF Echoing
<1>4. ready_reads' \subseteq Fds \cup {listenfd}
  BY <1>1 DEF SelectInv
<1>5. nready' \in 0..(Cardinality(Fds) + 1)
  <2>1. IsFiniteSet(Fds) /\ listenfd \notin Fds
    BY EchoAssumption
  <2>2. IsFiniteSet(Fds \cup {listenfd}) /\ Cardinality(Fds \cup {listenfd}) = Cardinality(Fds) + 1
    BY <2>1, FS_AddElement
  <2>3. /\ Cardinality(ready_reads') \in Nat /\ Cardinality(Fds) \in Nat
        /\ Cardinality(ready_reads') <= Cardinality(Fds) + 1
    BY <1>4, <2>1, <2>2, FS_Subset, FS_CardinalityType
  <2> QED
    BY <1>1, <2>3
<1>6. \A f \in ready_reads' : f # listenfd => Ripe(f)'
  BY <1>1, <1>3, <1>4, RipeIs
<1>7. SelectInv'
  BY <1>1, <1>2, <1>3, <1>4, <1>5, <1>6 DEF SelectInv, Echoing
<1> QED
  BY <1>3, <1>7

\* After an accept, whatever became of it.
LEMMA SelectCounts ==
  ASSUME SelectInv, pc = "accept", Select!afterAccept
  PROVE  /\ pc' \in {"wait", "scan"} /\ nready' \in 0..(Cardinality(Fds) + 1)
         /\ UNCHANGED <<ready_reads, i>>
<1>1. nready \in 0..(Cardinality(Fds) + 1) /\ nready >= 1 /\ Cardinality(Fds) \in Nat
  BY EchoAssumption, FS_CardinalityType DEF SelectInv
<1>2. nready' = nready - 1 /\ pc' \in {"wait", "scan"} /\ UNCHANGED <<ready_reads, i>>
  BY DEF Select!afterAccept
<1> QED
  BY <1>1, <1>2

LEMMA SelectAccepts ==
  ASSUME CoreInv, SelectInv, Select!Accept \/ Select!Reject \/ Select!AcceptFailure
  PROVE  CoreInv' /\ SelectInv' /\ Promise
<1>1. pc = "accept" /\ Select!afterAccept
  BY DEF Select!Accept, Select!Reject, Select!AcceptFailure
<1>2. /\ pc' \in {"wait", "scan"} /\ nready' \in 0..(Cardinality(Fds) + 1)
      /\ UNCHANGED <<ready_reads, i>>
  BY <1>1, SelectCounts
<1>3. pc \notin Echoing /\ pc' \notin Echoing /\ pc \in Serving /\ pc' # "accept" /\ pc' # "stopped"
  BY <1>1, <1>2 DEF Echoing, Serving
<1>4. /\ all_reads = {listenfd} \cup InUse /\ maxfd \in all_reads
      /\ \A f \in all_reads : f <= maxfd /\ f < FD_SETSIZE
      /\ \A f \in ready_reads : f # listenfd /\ i <= f => Ripe(f)
  BY <1>1, <1>3 DEF SelectInv
<1>5. CASE Select!Accept
  <2>1. PICK n : n = NewFd
    OBVIOUS
  <2>2. /\ AcceptAs("open") /\ n < FD_SETSIZE /\ all_reads' = all_reads \cup {n}
        /\ maxfd' = IF n > maxfd THEN n ELSE maxfd
    BY <1>5, <2>1, SelectShares DEF Select!Accept, Select!raised
  <2>3. /\ CoreInv' /\ Promise /\ n \in Fds /\ InUse' = InUse \cup {n}
        /\ \A f : Ripe(f) => Ripe(f)'
    BY <1>3, <2>1, <2>2, AcceptKeeps
  <2>4. /\ all_reads' \subseteq Fds \cup {listenfd} /\ maxfd' \in Fds \cup {listenfd}
    BY <2>2, <2>3 DEF SelectInv
  <2>5. maxfd' \in all_reads' /\ \A f \in all_reads' : f <= maxfd' /\ f < FD_SETSIZE
    <3>1. all_reads \subseteq Nat /\ n \in Nat /\ maxfd \in Nat
      BY <2>3, EchoAssumption DEF SelectInv
    <3> QED
      BY <1>4, <2>2, <3>1
  <2>6. all_reads' = {listenfd} \cup InUse'
    BY <1>4, <2>2, <2>3
  <2>7. SelectInv'
    BY <1>2, <1>3, <1>4, <2>3, <2>4, <2>5, <2>6 DEF SelectInv
  <2> QED
    BY <2>3, <2>7
<1>6. CASE Select!Reject
  <2>1. AcceptAs("aborted") /\ UNCHANGED <<all_reads, maxfd>>
    BY <1>6, SelectShares DEF Select!Reject
  <2>2. CoreInv' /\ Promise /\ InUse' = InUse /\ \A f : Ripe(f) => Ripe(f)'
    BY <1>3, <2>1, AcceptKeeps
  <2>3. SelectInv'
    BY <1>1, <1>2, <1>3, <1>4, <2>1, <2>2 DEF SelectInv
  <2> QED
    BY <2>2, <2>3
<1>7. CASE Select!AcceptFailure
  <2>1. AcceptFails /\ UNCHANGED <<all_reads, maxfd>>
    BY <1>7, SelectShares DEF Select!AcceptFailure
  <2>2. CoreInv' /\ Promise /\ InUse' = InUse /\ \A f : Ripe(f) => Ripe(f)'
    BY <1>3, <2>1, RestKeeps DEF AcceptFails
  <2>3. SelectInv'
    BY <1>1, <1>2, <1>3, <1>4, <2>1, <2>2 DEF SelectInv
  <2> QED
    BY <2>2, <2>3
<1> QED
  BY <1>5, <1>6, <1>7

LEMMA SelectScans ==
  ASSUME CoreInv, SelectInv, Select!Scan
  PROVE  CoreInv' /\ SelectInv' /\ Promise
<1>1. PICK f : f = Select!Min(Select!to_serve)
  OBVIOUS
<1>2. /\ pc = "scan" /\ nready > 0 /\ Select!to_serve # {} /\ pc' = "read" /\ curfd' = f
      /\ i' = f + 1 /\ nready' = nready - 1
      /\ UNCHANGED <<clientVars, socketVars, wbuf, rc, echoed, all_reads, ready_reads, maxfd>>
  BY <1>1 DEF Select!Scan, Select!clientVars, Select!socketVars, clientVars, socketVars
<1>3. f \in ready_reads /\ f \in Fds /\ f \in Nat /\ i <= f /\ i \in Nat
  <2>1. Select!to_serve \subseteq Nat
    BY EchoAssumption DEF Select!to_serve, SelectInv
  <2>2. f \in Select!to_serve
    BY <1>1, <1>2, <2>1, SelectShares, MinIsLeast
  <2> QED
    BY <2>1, <2>2 DEF Select!to_serve, SelectInv
<1>4. pc \in Serving /\ pc \notin Echoing
  BY <1>2 DEF Serving, Echoing
<1>5. Ripe(f)
  BY <1>3, <1>4, EchoAssumption DEF SelectInv
<1>6. CoreInv' /\ Promise /\ InUse' = InUse /\ \A g : Ripe(g) => Ripe(g)'
  BY <1>2, <1>3, <1>4, <1>5, StartKeeps
<1>7. nready' \in 0..(Cardinality(Fds) + 1)
  BY <1>2, EchoAssumption, FS_CardinalityType DEF SelectInv
<1>8. \A g \in ready_reads : g # listenfd /\ i' <= g => Ripe(g)'
  <2>1. \A g \in ready_reads : g \in Nat /\ (i' <= g => i <= g)
    BY <1>2, <1>3, EchoAssumption DEF SelectInv
  <2> QED
    BY <1>4, <1>6, <2>1 DEF SelectInv
<1>9. SelectInv'
  BY <1>2, <1>3, <1>6, <1>7, <1>8, SelectSame
<1> QED
  BY <1>6, <1>9

\* The scan is over, or goes on after a descriptor that is kept.
LEMMA SelectGoesOn ==
  ASSUME CoreInv, SelectInv, Select!ScanOver \/ Select!Served
  PROVE  CoreInv' /\ SelectInv' /\ Promise
<1>1. /\ pc \in {"scan", "served"} /\ (pc = "served" => rc = "ok") /\ pc' \in {"wait", "scan"}
      /\ (pc' = "scan" => pc = "served")
      /\ UNCHANGED <<clientVars, socketVars, curfd, wbuf, rc, echoed>>
      /\ UNCHANGED <<all_reads, ready_reads, maxfd, nready, i>>
  BY DEF Select!ScanOver, Select!Served, Select!Goto, Select!clientVars, Select!socketVars,
         clientVars, socketVars, Select!selectVars
<1>2. CoreInv' /\ Promise /\ InUse' = InUse /\ \A f : Ripe(f) => Ripe(f)'
  BY <1>1, RestKeeps DEF Echoing
<1>3. SelectInv'
  BY <1>1, <1>2 DEF SelectInv, Serving, Echoing
<1> QED
  BY <1>2, <1>3

LEMMA SelectEchoes ==
  ASSUME CoreInv, SelectInv, Select!Echo
  PROVE  CoreInv' /\ SelectInv' /\ Promise
<1>1. EchoSteps /\ UNCHANGED <<all_reads, ready_reads, maxfd, nready, i>>
  BY SelectShares DEF Select!Echo, Select!selectVars
<1>2. /\ CoreInv' /\ Promise /\ InUse' = InUse /\ curfd' = curfd
      /\ pc \in {"read", "write"} /\ pc' \in {"write", "served"}
      /\ \A f : f # curfd /\ Ripe(f) => Ripe(f)'
  BY <1>1, EchoKeeps
<1>3. curfd < i /\ curfd \in Nat /\ i \in Nat /\ \A f \in ready_reads : f \in Nat
  BY <1>2, EchoAssumption, SMTT(40) DEF SelectInv, Echoing, CoreInv, TypeInv
<1>4. \A f \in ready_reads : f # listenfd /\ i' <= f => Ripe(f)'
  BY <1>1, <1>2, <1>3 DEF SelectInv, Serving, Echoing
<1>5. SelectInv'
  BY <1>1, <1>2, <1>3, <1>4 DEF SelectInv
<1> QED
  BY <1>2, <1>5

LEMMA SelectCloses ==
  ASSUME CoreInv, SelectInv, Select!CloseServed
  PROVE  CoreInv' /\ SelectInv' /\ Promise
<1>1. PICK o \in {"done", "aborted"} : Close(o) /\ (o = "done" => rc = "eof")
  BY SelectShares DEF Select!CloseServed
<1>2. /\ pc = "served" /\ pc' = "scan" /\ UNCHANGED <<ready_reads, nready, i>>
      /\ all_reads' = all_reads \ {curfd}
      /\ maxfd' = IF curfd = maxfd THEN Max(all_reads') ELSE maxfd
  BY SelectShares DEF Select!CloseServed, Select!kept, Select!recompute_maxfd
<1>3. pc \in Echoing /\ pc \in Serving /\ pc' \notin Echoing
  BY <1>2 DEF Echoing, Serving
<1>4. /\ CoreInv' /\ Promise /\ InUse' = InUse \ {curfd} /\ curfd \in InUse
      /\ \A f : f # curfd /\ Ripe(f) => Ripe(f)'
  BY <1>1, <1>2, <1>3, CloseKeeps
<1>5. /\ all_reads = {listenfd} \cup InUse /\ maxfd \in all_reads
      /\ \A f \in all_reads : f <= maxfd /\ f < FD_SETSIZE
      /\ all_reads \subseteq Nat /\ maxfd \in Nat /\ curfd \in Fds /\ curfd # listenfd
      /\ curfd < i /\ curfd \in Nat /\ i \in Nat
  <2>1. curfd \in Fds
    BY <1>3, CurIs
  <2>2. all_reads \subseteq Nat /\ maxfd \in Nat
    BY EchoAssumption DEF SelectInv
  <2> QED
    BY <1>2, <1>3, <2>1, <2>2, EchoAssumption DEF SelectInv
<1>6. all_reads' = {listenfd} \cup InUse' /\ all_reads' \subseteq Fds \cup {listenfd}
  BY <1>2, <1>4, <1>5 DEF SelectInv
<1>7. maxfd' \in all_reads' /\ \A f \in all_reads' : f <= maxfd' /\ f < FD_SETSIZE
  <2>1. CASE curfd = maxfd
    <3>1. all_reads' \subseteq Nat /\ all_reads' # {} /\ \A f \in all_reads' : f <= maxfd
      BY <1>2, <1>5, <1>6
    <3>2. Max(all_reads') \in all_reads' /\ \A f \in all_reads' : f <= Max(all_reads')
      BY <1>5, <3>1, MaxIsGreatest
    <3> QED
      BY <1>2, <1>5, <2>1, <3>2
  <2>2. CASE curfd # maxfd
    BY <1>2, <1>5, <2>2
  <2> QED
    BY <2>1, <2>2
<1>8. \A f \in ready_reads : f # listenfd /\ i <= f => Ripe(f)'
  <2>1. \A f \in ready_reads : f \in Nat
    BY EchoAssumption DEF SelectInv
  <2> QED
    BY <1>3, <1>4, <1>5, <2>1 DEF SelectInv
<1>9. SelectInv'
  BY <1>2, <1>3, <1>6, <1>7, <1>8 DEF SelectInv
<1> QED
  BY <1>4, <1>9

\* Every step of the select server, from a state of the invariant.
LEMMA SelectStep ==
  ASSUME CoreInv, SelectInv, Select!Server
  PROVE  CoreInv' /\ SelectInv' /\ Promise
<1>1. CASE Select!select
  BY <1>1, SelectWaits
<1>2. CASE Select!Accept \/ Select!Reject \/ Select!AcceptFailure
  BY <1>2, SelectAccepts
<1>3. CASE Select!Scan
  BY <1>3, SelectScans
<1>4. CASE Select!ScanOver \/ Select!Served
  BY <1>4, SelectGoesOn
<1>5. CASE Select!Echo
  BY <1>5, SelectEchoes
<1>6. CASE Select!CloseServed
  BY <1>6, SelectCloses
<1>7. CASE Select!WaitError
  <2>1. Stop /\ UNCHANGED <<all_reads, ready_reads, maxfd, nready, i>>
    BY <1>7, SelectShares DEF Select!WaitError, Select!selectVars
  <2>2. pc' = "stopped" /\ CoreInv' /\ Promise
    BY <2>1, StopKeeps DEF Stop
  <2>3. SelectInv'
    BY <2>1, <2>2 DEF SelectInv, Serving, Echoing
  <2> QED
    BY <2>2, <2>3
<1> QED
  BY <1>1, <1>2, <1>3, <1>4, <1>5, <1>6, <1>7 DEF Select!Server, Select!Work
-----------------------------------------------------------------------------
(* The poll server. *)

\* The array lists the listening socket, and each open connection once.
Listed ==
  /\ fds[0].fd = listenfd
  /\ \A k \in 1..(nfds - 1) : fds[k].fd \in InUse
  /\ \A f \in InUse : \E k \in 1..(nfds - 1) : fds[k].fd = f
  /\ \A k, l \in 1..(nfds - 1) : fds[k].fd = fds[l].fd => k = l

\* nready counts the entries that the scan has before it, from the call of
\* poll to the last of them, and each of these is still open and readable.
PollInv ==
  /\ pc \in {"wait", "accept", "scan", "read", "write", "served", "stopped"}
  /\ fds \in [0..MAX_CLIENTS -> [fd : Fds \cup {0, listenfd}, revents : SUBSET Revents]]
  /\ nfds \in 1..(MAX_CLIENTS + 1) /\ nready \in 0..(MAX_CLIENTS + 1) /\ i \in 1..(MAX_CLIENTS + 1)
  /\ pc # "stopped" => Listed
  /\ pc = "accept" => i = 1 /\ nready = Cardinality(to_serve) + 1
  /\ pc = "scan" => nready = Cardinality(to_serve)
  /\ pc \in Echoing => i \in to_serve /\ fds[i].fd = curfd /\ nready = Cardinality(to_serve) - 1
  /\ pc \in Serving =>
       \A k \in to_serve : (pc \in {"write", "served"} => k # i) => Ripe(fds[k].fd)

LEMMA ToServeIs ==
  ASSUME PollInv
  PROVE  /\ IsFiniteSet(to_serve) /\ to_serve \subseteq 1..(nfds - 1)
         /\ Cardinality(to_serve) \in Nat /\ Cardinality(to_serve) <= nfds - 1
         /\ \A k \in to_serve : i <= k /\ k \in 0..MAX_CLIENTS
<1>1. nfds \in 1..(MAX_CLIENTS + 1) /\ i \in 1..(MAX_CLIENTS + 1) /\ MAX_CLIENTS \in Nat
  BY PollAssumption DEF PollInv
<1>2. to_serve \subseteq 1..(nfds - 1) /\ \A k \in to_serve : i <= k /\ k \in 0..MAX_CLIENTS
  BY <1>1 DEF to_serve
<1>3. PICK m \in Nat : m = nfds - 1
  BY <1>1
<1>4. IsFiniteSet(1..m) /\ Cardinality(1..m) = m
  BY FS_Interval
<1>5. IsFiniteSet(to_serve) /\ Cardinality(to_serve) <= Cardinality(1..m)
  BY <1>2, <1>3, <1>4, FS_Subset
<1>6. Cardinality(to_serve) \in Nat
  BY <1>5, FS_CardinalityType
<1> QED
  BY <1>2, <1>3, <1>4, <1>5, <1>6

\* A listed entry is a connection's descriptor.
LEMMA EntryIs ==
  ASSUME CoreInv, PollInv, pc # "stopped", NEW k \in 1..(nfds - 1)
  PROVE  fds[k].fd \in Fds /\ fds[k].fd \in InUse
<1>1. fds[k].fd \in InUse
  BY DEF PollInv, Listed
<1>2. PICK c \in Clients : Has(c, fds[k].fd)
  BY <1>1, InUseIs
<1> QED
  BY <1>1, <1>2, OwnerIs DEF CoreInv

LEMMA PollWaits ==
  ASSUME CoreInv, PollInv, poll
  PROVE  CoreInv' /\ PollInv' /\ Promise
<1> DEFINE E(k) == fds'[k]
<1>1. /\ pc = "wait"
      /\ fds' = [k \in 0..MAX_CLIENTS |->
                   IF k < nfds THEN [fds[k] EXCEPT !.revents = revents(fds[k].fd)] ELSE fds[k]]
      /\ nready' = Cardinality({k \in 0..(nfds - 1) : fds'[k].revents # {}})
      /\ i' = 1 /\ nfds' = nfds
      /\ Goto(IF fds'[0].revents # {} THEN "accept" ELSE "scan")
  BY DEF poll
<1>2. /\ pc' = (IF fds'[0].revents # {} THEN "accept" ELSE "scan")
      /\ UNCHANGED <<clientVars, socketVars, curfd, wbuf, rc, echoed>>
  BY <1>1 DEF Goto
<1>3. CoreInv' /\ Promise /\ InUse' = InUse /\ \A f : Ripe(f) => Ripe(f)'
  BY <1>1, <1>2, RestKeeps DEF Echoing
<1>4. /\ nfds \in Nat /\ 1 <= nfds /\ nfds <= MAX_CLIENTS + 1 /\ MAX_CLIENTS \in Nat
      /\ fds \in [0..MAX_CLIENTS -> [fd : Fds \cup {0, listenfd}, revents : SUBSET Revents]]
  BY PollAssumption DEF PollInv
<1>5. \A f : revents(f) \in SUBSET Revents /\ (revents(f) # {} => Ready(f))
  BY DEF revents, Revents
<1>6. \A k \in 0..MAX_CLIENTS :
        /\ fds'[k] \in [fd : Fds \cup {0, listenfd}, revents : SUBSET Revents]
        /\ fds'[k].fd = fds[k].fd /\ (k < nfds => fds'[k].revents = revents(fds[k].fd))
  <2> SUFFICES ASSUME NEW k \in 0..MAX_CLIENTS
               PROVE  /\ fds'[k] \in [fd : Fds \cup {0, listenfd}, revents : SUBSET Revents]
                      /\ fds'[k].fd = fds[k].fd /\ (k < nfds => fds'[k].revents = revents(fds[k].fd))
    OBVIOUS
  <2>1. fds[k] \in [fd : Fds \cup {0, listenfd}, revents : SUBSET Revents]
    BY <1>4
  <2>2. fds'[k] = IF k < nfds THEN [fds[k] EXCEPT !.revents = revents(fds[k].fd)] ELSE fds[k]
    BY <1>1
  <2> QED
    BY <1>5, <2>1, <2>2
<1>7. fds' \in [0..MAX_CLIENTS -> [fd : Fds \cup {0, listenfd}, revents : SUBSET Revents]]
  BY <1>1, <1>6
<1>8. \A k \in 0..(nfds - 1) : k \in 0..MAX_CLIENTS /\ k < nfds
  BY <1>4
<1>9. Listed'
  <2>1. Listed
    BY <1>1 DEF PollInv
  <2>2. \A k \in 0..(nfds - 1) : fds'[k].fd = fds[k].fd
    BY <1>6, <1>8
  <2>3. 0 \in 0..(nfds - 1) /\ \A k \in 1..(nfds - 1) : k \in 0..(nfds - 1)
    BY <1>4
  <2> QED
    BY <1>1, <1>3, <2>1, <2>2, <2>3 DEF Listed
<1> DEFINE S == {k \in 1..(nfds - 1) : fds'[k].revents # {}}
<1>10. to_serve' = S
  BY <1>1 DEF to_serve
<1>11. IsFiniteSet(S) /\ Cardinality(S) \in Nat /\ Cardinality(S) <= nfds - 1
  <2>1. PICK m \in Nat : m = nfds - 1
    BY <1>4
  <2>2. IsFiniteSet(1..m) /\ Cardinality(1..m) = m
    BY FS_Interval
  <2>3. S \subseteq 1..m
    BY <2>1
  <2> QED
    BY <2>1, <2>2, <2>3, FS_Subset, FS_CardinalityType
<1>12. nready' = IF fds'[0].revents # {} THEN Cardinality(S) + 1 ELSE Cardinality(S)
  <2>1. 0 \notin S
    OBVIOUS
  <2>2. {k \in 0..(nfds - 1) : fds'[k].revents # {}} = IF fds'[0].revents # {} THEN S \cup {0} ELSE S
    BY <1>4
  <2> HIDE DEF S
  <2> QED
    BY <1>1, <1>11, <2>1, <2>2, FS_AddElement
<1>13. \A k \in S : Ripe(fds[k].fd)'
  <2> SUFFICES ASSUME NEW k \in S PROVE Ripe(fds[k].fd)'
    OBVIOUS
  <2>1. k \in 1..(nfds - 1) /\ k \in 0..(nfds - 1) /\ k \in 0..MAX_CLIENTS
    BY <1>4
  <2>2. fds'[k].fd = fds[k].fd /\ Ready(fds[k].fd)
    BY <1>5, <1>6, <1>8, <2>1
  <2>3. fds[k].fd \in Fds
    BY <1>1, <2>1, EntryIs
  <2>4. PICK f \in Fds : f = fds[k].fd /\ f = fds'[k].fd
    BY <2>2, <2>3
  <2>5. Ripe(f)'
    BY <1>3, <2>2, <2>4, RipeIs, SMTT(40)
  <2> QED
    BY <2>4, <2>5 DEF Ripe, Has
<1>14. PollInv'
  <2> HIDE DEF S
  <2>1. nready' \in 0..(MAX_CLIENTS + 1) /\ i' \in 1..(MAX_CLIENTS + 1) /\ nfds' \in 1..(MAX_CLIENTS + 1)
    BY <1>1, <1>4, <1>11, <1>12
  <2> QED
    BY <1>1, <1>2, <1>7, <1>9, <1>10, <1>12, <1>13, <2>1 DEF PollInv, Echoing
<1> QED
  BY <1>3, <1>14

\* A new connection takes the first free entry, which the scan does not count.
LEMMA PollAccepts ==
  ASSUME CoreInv, PollInv, Accept \/ TooManyClients \/ AcceptFailure
  PROVE  CoreInv' /\ PollInv' /\ Promise
<1>1. pc = "accept" /\ afterAccept
  BY DEF Accept, TooManyClients, AcceptFailure
<1>2. nready' = nready - 1 /\ pc' \in {"wait", "scan"} /\ i' = i
  BY <1>1 DEF afterAccept
<1>3. pc \notin Echoing /\ pc' \notin Echoing /\ pc \in Serving
  BY <1>1, <1>2 DEF Echoing, Serving
<1>4. /\ Listed /\ i = 1 /\ nready = Cardinality(to_serve) + 1
      /\ \A k \in to_serve : Ripe(fds[k].fd)
      /\ nfds \in Nat /\ 1 <= nfds /\ nfds <= MAX_CLIENTS + 1 /\ MAX_CLIENTS \in Nat
      /\ fds \in [0..MAX_CLIENTS -> [fd : Fds \cup {0, listenfd}, revents : SUBSET Revents]]
  BY <1>1, <1>3, PollAssumption DEF PollInv
<1>5. /\ to_serve \subseteq 1..(nfds - 1) /\ Cardinality(to_serve) \in Nat
      /\ Cardinality(to_serve) <= nfds - 1
  BY ToServeIs
<1>6. nready' = Cardinality(to_serve) /\ nready' \in 0..(MAX_CLIENTS + 1)
  BY <1>2, <1>4, <1>5
<1>7. ASSUME CoreInv', Promise, InUse' = InUse, UNCHANGED <<fds, nfds>>, \A f : Ripe(f) => Ripe(f)'
      PROVE  PollInv'
  <2>1. to_serve' = to_serve
    BY <1>2, <1>7 DEF to_serve
  <2>2. Listed'
    BY <1>4, <1>7 DEF Listed
  <2>3. \A k \in to_serve : Ripe(fds[k].fd)'
    BY <1>4, <1>7 DEF Ripe, Has
  <2> QED
    BY <1>2, <1>3, <1>4, <1>6, <1>7, <2>1, <2>2, <2>3 DEF PollInv
<1>8. CASE Accept
  <2>1. PICK n : n = NewFd
    OBVIOUS
  <2>2. /\ nfds < MAX_CLIENTS + 1 /\ AcceptAs("open")
        /\ fds' = [fds EXCEPT ![nfds] = [fd |-> n, revents |-> {}]] /\ nfds' = nfds + 1
    BY <1>8, <2>1 DEF Accept, entry
  <2>3. /\ CoreInv' /\ Promise /\ n \in Fds /\ n \notin InUse /\ InUse' = InUse \cup {n}
        /\ \A f : Ripe(f) => Ripe(f)'
    BY <1>3, <2>1, <2>2, AcceptKeeps
  <2>4. nfds \in 0..MAX_CLIENTS /\ nfds' \in 1..(MAX_CLIENTS + 1) /\ nfds' - 1 = nfds
    BY <1>4, <2>2
  <2>5. /\ fds' \in [0..MAX_CLIENTS -> [fd : Fds \cup {0, listenfd}, revents : SUBSET Revents]]
        /\ fds'[nfds].fd = n /\ fds'[nfds].revents = {}
        /\ \A k \in 0..MAX_CLIENTS : k # nfds => fds'[k] = fds[k]
    BY <1>4, <2>2, <2>3, <2>4
  <2>6. \A k \in 0..(nfds - 1) : k \in 0..MAX_CLIENTS /\ k # nfds /\ fds'[k] = fds[k]
    BY <1>4, <2>5
  <2>7. \A k \in 1..nfds : k = nfds \/ (k \in 1..(nfds - 1) /\ k \in 0..(nfds - 1))
    BY <1>4
  <2>8. Listed'
    <3>1. fds'[0].fd = listenfd
      BY <1>4, <2>6 DEF Listed
    <3>2. \A k \in 1..nfds : fds'[k].fd \in InUse'
      BY <1>4, <2>3, <2>5, <2>6, <2>7 DEF Listed
    <3>3. \A f \in InUse' : \E k \in 1..nfds : fds'[k].fd = f
      <4>1. nfds \in 1..nfds /\ 1..(nfds - 1) \subseteq 1..nfds
        BY <1>4
      <4>2. \A k \in 1..(nfds - 1) : fds'[k].fd = fds[k].fd
        BY <2>6
      <4> QED
        BY <1>4, <2>3, <2>5, <4>1, <4>2 DEF Listed
    <3>4. ASSUME NEW k \in 1..nfds, NEW l \in 1..nfds, fds'[k].fd = fds'[l].fd PROVE k = l
      <4>1. \A m \in 1..(nfds - 1) : fds'[m].fd = fds[m].fd /\ fds[m].fd # n
        BY <1>4, <2>3, <2>6 DEF Listed
      <4> QED
        BY <1>4, <2>5, <2>7, <3>4, <4>1 DEF Listed
    <3> QED
      BY <2>4, <3>1, <3>2, <3>3, <3>4 DEF Listed
  <2>9. to_serve' = to_serve
    <3>1. to_serve' = {k \in 1..nfds : fds'[k].revents # {}}
      BY <1>2, <1>4, <2>4 DEF to_serve
    <3>2. to_serve = {k \in 1..(nfds - 1) : fds[k].revents # {}}
      BY <1>4 DEF to_serve
    <3>3. 1..(nfds - 1) \subseteq 1..nfds
      BY <1>4
    <3> QED
      BY <2>5, <2>6, <2>7, <3>1, <3>2, <3>3
  <2>10. \A k \in to_serve : Ripe(fds[k].fd)'
    <3> SUFFICES ASSUME NEW k \in to_serve PROVE Ripe(fds[k].fd)'
      OBVIOUS
    <3>1. k \in 1..(nfds - 1) /\ k \in 0..(nfds - 1)
      BY <1>5
    <3>2. PICK f : f = fds[k].fd /\ f = fds'[k].fd
      BY <2>6, <3>1
    <3>3. Ripe(f)'
      BY <1>4, <2>3, <3>2
    <3> QED
      BY <3>2, <3>3 DEF Ripe, Has
  <2>11. PollInv'
    BY <1>2, <1>3, <1>4, <1>6, <2>4, <2>5, <2>8, <2>9, <2>10 DEF PollInv
  <2> QED
    BY <2>3, <2>11
<1>9. CASE TooManyClients
  <2>1. AcceptAs("aborted") /\ UNCHANGED <<fds, nfds>>
    BY <1>9 DEF TooManyClients
  <2>2. CoreInv' /\ Promise /\ InUse' = InUse /\ \A f : Ripe(f) => Ripe(f)'
    BY <1>3, <2>1, AcceptKeeps
  <2> QED
    BY <1>7, <2>1, <2>2
<1>10. CASE AcceptFailure
  <2>1. AcceptFails /\ UNCHANGED <<fds, nfds>>
    BY <1>10 DEF AcceptFailure
  <2>2. CoreInv' /\ Promise /\ InUse' = InUse /\ \A f : Ripe(f) => Ripe(f)'
    BY <1>3, <2>1, RestKeeps DEF AcceptFails
  <2> QED
    BY <1>7, <2>1, <2>2
<1> QED
  BY <1>8, <1>9, <1>10

LEMMA PollScans ==
  ASSUME CoreInv, PollInv, Scan
  PROVE  CoreInv' /\ PollInv' /\ Promise
<1>1. PICK m : m = Min(to_serve)
  OBVIOUS
<1>2. /\ pc = "scan" /\ nready > 0 /\ to_serve # {} /\ pc' = "read" /\ i' = m /\ curfd' = fds[m].fd
      /\ nready' = nready - 1 /\ UNCHANGED <<clientVars, socketVars, wbuf, rc, echoed, fds, nfds>>
  BY <1>1 DEF Scan
<1>3. /\ to_serve \subseteq 1..(nfds - 1) /\ Cardinality(to_serve) \in Nat
      /\ Cardinality(to_serve) <= nfds - 1 /\ (\A k \in to_serve : i <= k)
  BY ToServeIs
<1>4. /\ nready = Cardinality(to_serve) /\ nfds \in 1..(MAX_CLIENTS + 1) /\ MAX_CLIENTS \in Nat /\ Listed
      /\ \A k \in to_serve : Ripe(fds[k].fd)
  BY <1>2, PollAssumption DEF PollInv, Serving
<1>5. m \in to_serve /\ m \in 1..(nfds - 1) /\ \A k \in to_serve : m <= k
  <2>1. to_serve \subseteq Nat
    BY <1>3
  <2> QED
    BY <1>1, <1>2, <1>3, <2>1, MinIsLeast
<1>6. PICK f \in Fds : f = fds[m].fd /\ Ripe(f) /\ curfd' = f
  BY <1>2, <1>4, <1>5, EntryIs
<1>7. CoreInv' /\ Promise /\ InUse' = InUse /\ \A g : Ripe(g) => Ripe(g)'
  BY <1>2, <1>6, StartKeeps DEF Echoing
<1>8. to_serve' = to_serve
  <2>1. to_serve' = {k \in m..(nfds - 1) : fds[k].revents # {}}
    BY <1>2 DEF to_serve
  <2>2. to_serve = {k \in i..(nfds - 1) : fds[k].revents # {}} /\ i \in Nat /\ i <= m
    BY <1>3, <1>5 DEF to_serve, PollInv
  <2> QED
    BY <1>3, <1>4, <1>5, <2>1, <2>2
<1>9. nready' = Cardinality(to_serve) - 1 /\ nready' \in 0..(MAX_CLIENTS + 1) /\ i' \in 1..(MAX_CLIENTS + 1)
  BY <1>2, <1>3, <1>4, <1>5
<1>10. Listed' /\ \A k \in to_serve : Ripe(fds[k].fd)'
  <2>1. Listed'
    BY <1>2, <1>4, <1>7 DEF Listed
  <2>2. \A k \in to_serve : Ripe(fds[k].fd)'
    BY <1>2, <1>4, <1>7 DEF Ripe, Has
  <2> QED
    BY <2>1, <2>2
<1>11. PollInv'
  BY <1>2, <1>5, <1>6, <1>8, <1>9, <1>10 DEF PollInv
<1> QED
  BY <1>7, <1>11

\* The scan is over, or goes on behind an entry that is kept.
LEMMA PollGoesOn ==
  ASSUME CoreInv, PollInv, ScanOver \/ Served
  PROVE  CoreInv' /\ PollInv' /\ Promise
<1>1. /\ pc \in {"scan", "served"} /\ (pc = "served" => rc = "ok") /\ pc' \in {"wait", "scan"}
      /\ UNCHANGED <<clientVars, socketVars, curfd, wbuf, rc, echoed>>
      /\ UNCHANGED <<fds, nfds, nready>>
  BY DEF ScanOver, Served, Goto, close_it, pollVars
<1>2. CoreInv' /\ Promise /\ InUse' = InUse /\ \A f : Ripe(f) => Ripe(f)'
  BY <1>1, RestKeeps DEF Echoing
<1>3. Listed'
  BY <1>1, <1>2 DEF PollInv, Listed
<1>4. CASE ScanOver
  <2>1. i' = i /\ pc' = "wait"
    BY <1>4 DEF ScanOver, Goto, pollVars
  <2> QED
    BY <1>1, <1>2, <1>3, <2>1 DEF PollInv, Serving, Echoing
<1>5. CASE Served
  <2>1. i' = i + 1 /\ pc = "served" /\ pc' = "scan"
    BY <1>5 DEF Served, Goto
  <2>2. /\ i \in to_serve /\ nready = Cardinality(to_serve) - 1 /\ nfds \in 1..(MAX_CLIENTS + 1)
        /\ MAX_CLIENTS \in Nat /\ i \in Nat /\ \A k \in to_serve : k # i => Ripe(fds[k].fd)
    BY <2>1, PollAssumption DEF PollInv, Serving, Echoing
  <2>3. /\ IsFiniteSet(to_serve) /\ to_serve \subseteq 1..(nfds - 1)
    BY ToServeIs
  <2>4. to_serve' = to_serve \ {i}
    <3>1. to_serve' = {k \in (i + 1)..(nfds - 1) : fds[k].revents # {}}
      BY <1>1, <2>1 DEF to_serve
    <3>2. to_serve = {k \in i..(nfds - 1) : fds[k].revents # {}}
      BY DEF to_serve
    <3> QED
      BY <2>2, <3>1, <3>2
  <2>5. Cardinality(to_serve') = Cardinality(to_serve) - 1
    BY <2>2, <2>3, <2>4, FS_RemoveElement
  <2>6. i' \in 1..(MAX_CLIENTS + 1)
    BY <2>1, <2>2, <2>3
  <2>7. \A k \in to_serve \ {i} : Ripe(fds[k].fd)'
    BY <1>1, <1>2, <2>2 DEF Ripe, Has
  <2> QED
    BY <1>1, <1>2, <1>3, <2>1, <2>2, <2>4, <2>5, <2>6, <2>7 DEF PollInv, Echoing
<1> QED
  BY <1>4, <1>5

LEMMA PollEchoes ==
  ASSUME CoreInv, PollInv, Echo
  PROVE  CoreInv' /\ PollInv' /\ Promise
<1>1. EchoSteps /\ UNCHANGED <<fds, nfds, nready, i>>
  BY DEF Echo, pollVars
<1>2. /\ CoreInv' /\ Promise /\ InUse' = InUse /\ UNCHANGED <<fd, status, curfd>>
      /\ pc \in {"read", "write"} /\ pc' \in {"write", "served"}
      /\ \A f : f # curfd /\ Ripe(f) => Ripe(f)'
  BY <1>1, EchoKeeps
<1>3. /\ Listed /\ i \in to_serve /\ fds[i].fd = curfd /\ nready = Cardinality(to_serve) - 1
      /\ \A k \in to_serve : k # i => Ripe(fds[k].fd)
  BY <1>2 DEF PollInv, Serving, Echoing
<1>4. to_serve' = to_serve
  BY <1>1 DEF to_serve
<1>5. Listed'
  BY <1>1, <1>2, <1>3 DEF Listed
<1>6. \A k \in to_serve : k # i => Ripe(fds[k].fd)'
  <2> SUFFICES ASSUME NEW k \in to_serve, k # i PROVE Ripe(fds[k].fd)'
    OBVIOUS
  <2>1. k \in 1..(nfds - 1) /\ i \in 1..(nfds - 1)
    BY <1>3, ToServeIs
  <2>2. fds[k].fd # curfd
    BY <1>3, <2>1 DEF Listed
  <2>3. PICK f : f = fds[k].fd /\ f # curfd /\ Ripe(f)
    BY <1>3, <2>2
  <2>4. Ripe(f)' /\ f = fds'[k].fd
    BY <1>1, <1>2, <2>3
  <2> QED
    BY <1>1, <2>3, <2>4 DEF Ripe, Has
<1>7. PollInv'
  BY <1>1, <1>2, <1>3, <1>4, <1>5, <1>6 DEF PollInv, Echoing
<1> QED
  BY <1>2, <1>7

\* The last entry takes the place of the removed one, and the scan looks at
\* that place again: of what it had before it, only one entry is gone.
LEMMA PollCloses ==
  ASSUME CoreInv, PollInv, CloseServed
  PROVE  CoreInv' /\ PollInv' /\ Promise
<1>1. PICK o \in {"done", "aborted"} : Close(o) /\ (o = "done" => rc = "eof")
  BY DEF CloseServed
<1>2. PICK z \in Nat : z = nfds - 1 /\ nfds = z + 1 /\ z <= MAX_CLIENTS
  BY PollAssumption DEF PollInv
<1>3. /\ pc = "served" /\ pc' = "scan" /\ fds' = [fds EXCEPT ![i] = fds[z]] /\ nfds' = z
      /\ i' = i /\ nready' = nready
  BY <1>2 DEF CloseServed, remove_pollfd, index_after
<1>4. pc \in Echoing /\ pc \in Serving /\ pc' \notin Echoing
  BY <1>3 DEF Echoing, Serving
<1>5. /\ CoreInv' /\ Promise /\ InUse' = InUse \ {curfd} /\ curfd \in InUse
      /\ \A f : f # curfd /\ Ripe(f) => Ripe(f)'
  BY <1>1, <1>3, <1>4, CloseKeeps
<1>6. /\ Listed /\ i \in to_serve /\ fds[i].fd = curfd /\ nready = Cardinality(to_serve) - 1
      /\ \A k \in to_serve : k # i => Ripe(fds[k].fd)
      /\ fds \in [0..MAX_CLIENTS -> [fd : Fds \cup {0, listenfd}, revents : SUBSET Revents]]
  BY <1>3, <1>4 DEF PollInv
<1>7. /\ IsFiniteSet(to_serve) /\ to_serve \subseteq 1..z /\ (\A k \in to_serve : i <= k)
      /\ i \in 1..z /\ i \in Nat /\ MAX_CLIENTS \in Nat
  BY <1>2, <1>6, ToServeIs, PollAssumption
<1>8. \A k \in 0..z : k \in 0..MAX_CLIENTS
  BY <1>2, <1>7
<1>9. /\ fds' \in [0..MAX_CLIENTS -> [fd : Fds \cup {0, listenfd}, revents : SUBSET Revents]]
      /\ \A k \in 0..z : fds'[k] = IF k = i THEN fds[z] ELSE fds[k]
  <2>1. fds[z] \in [fd : Fds \cup {0, listenfd}, revents : SUBSET Revents]
    BY <1>2, <1>6, <1>8
  <2> QED
    BY <1>3, <1>6, <1>8, <2>1
<1>10. /\ fds[0].fd = listenfd /\ (\A k \in 1..z : fds[k].fd \in InUse)
       /\ (\A f \in InUse : \E k \in 1..z : fds[k].fd = f)
       /\ \A k, l \in 1..z : fds[k].fd = fds[l].fd => k = l
  BY <1>2, <1>6 DEF Listed
<1>11. \A k \in 1..(z - 1) : /\ k \in 1..z /\ k \in 0..z /\ k # z /\ z \in 1..z
                             /\ fds'[k] = IF k = i THEN fds[z] ELSE fds[k]
  BY <1>2, <1>9
<1>12. Listed'
  <2>1. fds'[0].fd = listenfd
    BY <1>7, <1>9, <1>10
  <2>2. ASSUME NEW k \in 1..(z - 1) PROVE fds'[k].fd \in InUse \ {curfd}
    BY <1>6, <1>7, <1>10, <1>11
  <2>3. ASSUME NEW f \in InUse \ {curfd} PROVE \E k \in 1..(z - 1) : fds'[k].fd = f
    <3>1. PICK k \in 1..z : fds[k].fd = f
      BY <1>10
    <3>2. k # i
      BY <1>6, <3>1
    <3>3. CASE k = z
      <4>1. i \in 1..(z - 1)
        BY <1>2, <1>7, <3>2, <3>3
      <4>2. fds'[i].fd = f
        BY <1>11, <3>1, <3>3, <4>1
      <4> QED
        BY <4>1, <4>2
    <3>4. CASE k # z
      <4>1. k \in 1..(z - 1)
        BY <1>2, <3>4
      <4> QED
        BY <1>11, <3>1, <3>2, <4>1
    <3> QED
      BY <3>3, <3>4
  <2>4. ASSUME NEW k \in 1..(z - 1), NEW l \in 1..(z - 1), fds'[k].fd = fds'[l].fd PROVE k = l
    BY <1>10, <1>11, <2>4
  <2> QED
    BY <1>3, <1>5, <2>1, <2>2, <2>3, <2>4 DEF Listed
<1>13. PICK x \in to_serve : to_serve' = to_serve \ {x} /\ (x = i => i = z \/ z \notin to_serve)
                             /\ (x # i => x = z)
  <2>1. to_serve' = {k \in i..(z - 1) : fds'[k].revents # {}}
    BY <1>3 DEF to_serve
  <2>2. to_serve = {k \in i..z : fds[k].revents # {}}
    BY <1>2 DEF to_serve
  <2>3. CASE i = z
    <3>1. to_serve' = {} /\ to_serve \subseteq {i}
      BY <1>2, <1>7, <2>1, <2>2, <2>3
    <3> QED
      BY <1>6, <2>3, <3>1
  <2>4. CASE i # z /\ z \in to_serve
    <3>1. to_serve' = to_serve \ {z}
      <4>1. i \in 1..(z - 1) /\ fds'[i].revents # {} /\ fds[i].revents # {}
        BY <1>2, <1>6, <1>7, <1>11, <2>2, <2>4
      <4>2. \A k \in i..(z - 1) : k \in 1..(z - 1)
        BY <1>7
      <4> QED
        BY <1>2, <1>7, <1>11, <2>1, <2>2, <4>1, <4>2
    <3> QED
      BY <2>4, <3>1
  <2>5. CASE i # z /\ z \notin to_serve
    <3>1. to_serve' = to_serve \ {i}
      <4>1. i \in 1..(z - 1) /\ fds'[i].revents = {}
        BY <1>2, <1>7, <1>11, <2>2, <2>5
      <4>2. \A k \in i..(z - 1) : k \in 1..(z - 1)
        BY <1>7
      <4>3. \A k \in i..(z - 1) : k # i => fds'[k].revents = fds[k].revents
        BY <1>11, <4>2
      <4>4. \A k : k \in i..z /\ k # z <=> k \in i..(z - 1)
        BY <1>7
      <4> QED
        BY <2>1, <2>2, <2>5, <4>1, <4>3, <4>4
    <3> QED
      BY <1>6, <2>5, <3>1
  <2> QED
    BY <2>3, <2>4, <2>5
<1>14. Cardinality(to_serve') = Cardinality(to_serve) - 1
  BY <1>7, <1>13, FS_RemoveElement
<1>15. \A k \in to_serve \ {x} : \E l \in to_serve : l # i /\ fds'[k].fd = fds[l].fd
  <2> SUFFICES ASSUME NEW k \in to_serve \ {x} PROVE \E l \in to_serve : l # i /\ fds'[k].fd = fds[l].fd
    OBVIOUS
  <2>1. k \in 1..z /\ k \in 0..z
    BY <1>7
  <2>2. CASE k = i
    <3>1. z \in to_serve /\ z # i
      BY <1>13, <2>2
    <3> QED
      BY <1>9, <2>1, <2>2, <3>1
  <2>3. CASE k # i
    BY <1>9, <2>1, <2>3
  <2> QED
    BY <2>2, <2>3
<1>16. \A k \in to_serve \ {x} : Ripe(fds[k].fd)'
  <2> SUFFICES ASSUME NEW k \in to_serve \ {x} PROVE Ripe(fds[k].fd)'
    OBVIOUS
  <2>1. PICK l \in to_serve : l # i /\ fds'[k].fd = fds[l].fd
    BY <1>15
  <2>2. fds[l].fd # curfd /\ Ripe(fds[l].fd)
    BY <1>6, <1>7, <1>10, <2>1
  <2>3. PICK f : f = fds'[k].fd /\ f # curfd /\ Ripe(f)
    BY <2>1, <2>2
  <2>4. Ripe(f)'
    BY <1>5, <2>3
  <2> QED
    BY <2>3, <2>4 DEF Ripe, Has
<1>17. PollInv'
  <2>1. nfds' \in 1..(MAX_CLIENTS + 1)
    <3>1. z \in 1..(MAX_CLIENTS + 1)
      BY <1>2, <1>7
    <3> QED
      BY <1>3, <3>1
  <2> QED
    BY <1>3, <1>4, <1>6, <1>9, <1>12, <1>13, <1>14, <1>16, <2>1 DEF PollInv
<1> QED
  BY <1>5, <1>17

\* Every step of the poll server, from a state of the invariant.
LEMMA PollStep ==
  ASSUME CoreInv, PollInv, Server
  PROVE  CoreInv' /\ PollInv' /\ Promise
<1>1. CASE poll
  BY <1>1, PollWaits
<1>2. CASE Accept \/ TooManyClients \/ AcceptFailure
  BY <1>2, PollAccepts
<1>3. CASE Scan
  BY <1>3, PollScans
<1>4. CASE ScanOver \/ Served
  BY <1>4, PollGoesOn
<1>5. CASE Echo
  BY <1>5, PollEchoes
<1>6. CASE CloseServed
  BY <1>6, PollCloses
<1>7. CASE WaitError
  <2>1. Stop /\ UNCHANGED <<fds, nfds, nready, i>>
    BY <1>7 DEF WaitError, pollVars
  <2>2. pc' = "stopped" /\ CoreInv' /\ Promise
    BY <2>1, StopKeeps DEF Stop
  <2>3. PollInv'
    BY <2>1, <2>2 DEF PollInv, Serving, Echoing
  <2> QED
    BY <2>2, <2>3
<1> QED
  BY <1>1, <1>2, <1>3, <1>4, <1>5, <1>6, <1>7 DEF Server, Work
-----------------------------------------------------------------------------
(* The epoll server. *)

LEMMA EpollShares ==
  /\ Epoll!EchoSteps = EchoSteps
  /\ \A o : Epoll!AcceptAs(o) = AcceptAs(o)
  /\ Epoll!AcceptFails = AcceptFails
  /\ \A o : Epoll!Close(o) = Close(o)
  /\ Epoll!Stop = Stop
  /\ \A l : Epoll!Goto(l) = Goto(l)
  /\ \A f : Epoll!Ready(f) = Ready(f) /\ Epoll!Owner(f) = Owner(f)
  /\ Epoll!InUse = InUse /\ Epoll!NewFd = NewFd
  /\ Epoll!EchoInit = EchoInit /\ Epoll!EchoTypeOK = EchoTypeOK
  /\ \A S : Epoll!Min(S) = Min(S)
  /\ \A s, T : Epoll!Filter(s, T) = Filter(s, T)
<1> USE DEF Epoll!clientVars, clientVars, Epoll!socketVars, socketVars, Epoll!Available, Available,
            Epoll!Cur, Cur, Epoll!Owner, Owner, Epoll!InUse, InUse, Epoll!Min, Min
<1>1. Epoll!EchoSteps = EchoSteps
  BY Zenon DEF Epoll!EchoSteps, EchoSteps, Epoll!EchoRead, EchoRead, Epoll!EchoEof, EchoEof, Epoll!EchoError, EchoError, Epoll!EchoInterrupted, EchoInterrupted, Epoll!EchoWrite, EchoWrite, Epoll!EchoWritten, EchoWritten, Epoll!EchoBroken, EchoBroken, Epoll!EchoReturns, EchoReturns, Epoll!unsent, unsent, Epoll!Chunk, Chunk
<1>2. \A o : Epoll!AcceptAs(o) = AcceptAs(o)
  BY Zenon DEF Epoll!AcceptAs, AcceptAs, Epoll!NewFd, NewFd
<1>3. Epoll!AcceptFails = AcceptFails
  BY Zenon DEF Epoll!AcceptFails, AcceptFails
<1>4. \A o : Epoll!Close(o) = Close(o)
  BY Zenon DEF Epoll!Close, Close
<1>5. Epoll!Stop = Stop
  BY Zenon DEF Epoll!Stop, Stop, Epoll!Connected, Connected, Epoll!Queued, Queued
<1>6. \A l : Epoll!Goto(l) = Goto(l)
  BY Zenon DEF Epoll!Goto, Goto
<1>7. \A f : Epoll!Ready(f) = Ready(f) /\ Epoll!Owner(f) = Owner(f)
  BY Zenon DEF Epoll!Ready, Ready, Epoll!Readable, Readable
<1>8. Epoll!InUse = InUse /\ Epoll!NewFd = NewFd
  BY Zenon DEF Epoll!NewFd, NewFd
<1>9. Epoll!EchoInit = EchoInit /\ Epoll!EchoTypeOK = EchoTypeOK
  BY Zenon DEF Epoll!EchoInit, EchoInit, Epoll!EchoTypeOK, EchoTypeOK
<1>10. \A S : Epoll!Min(S) = Min(S)
  BY Zenon
<1>11. \A s, T : Epoll!Filter(s, T) = Filter(s, T)
  BY Zenon DEF Epoll!Filter, Filter, Epoll!PushIf, PushIf
<1> QED
  BY <1>1, <1>2, <1>3, <1>4, <1>5, <1>6, <1>7, <1>8, <1>9, <1>10, <1>11, Zenon

Described == [fd : Fds \cup {listenfd}, events : SUBSET Epoll!Flags]

\* epoll watches the listening socket and each open connection once.
Watched ==
  /\ \A k \in 1..Len(interest) : interest[k] \in {listenfd} \cup InUse
  /\ \A f \in {listenfd} \cup InUse : \E k \in 1..Len(interest) : interest[k] = f
  /\ \A k, l \in 1..Len(interest) : interest[k] = interest[l] => k = l

\* The connection that raised the k-th event still has the event's descriptor.
Announced(k) ==
  IF events[k].fd = listenfd THEN raised_by[k] = {}
  ELSE \E c \in Clients : raised_by[k] = {c} /\ Has(c, events[k].fd)

\* The events that are left are about different descriptors, each open and
\* readable, but for the one echo_once is busy with.
EpollInv ==
  /\ pc \in {"wait", "event", "read", "write", "served", "stopped"}
  /\ interest \in Seq(Fds \cup {listenfd}) /\ (pc # "stopped" => Watched)
  /\ events \in Seq(Described) /\ Len(events) <= MAX_EVENTS
  /\ raised_by \in Seq(SUBSET Clients) /\ Len(raised_by) = Len(events)
  /\ pc \in {"wait", "stopped"} => events = <<>>
  /\ pc \in Echoing => events # <<>> /\ events[1].fd = curfd
  /\ \A k, l \in 1..Len(events) : events[k].fd = events[l].fd => k = l
  /\ \A k \in 1..Len(events) : Announced(k)
  /\ \A k \in 1..Len(events) :
       events[k].fd # listenfd /\ (pc \in {"write", "served"} => k # 1) => Ripe(events[k].fd)

\* Going on to the next event keeps what is true of the others.
LEMMA EpollAdvances ==
  ASSUME EpollInv, Epoll!Advance, events # <<>>, pc' = "event", interest' \in Seq(Fds \cup {listenfd}),
         Watched',
         \A c \in Clients : \A f : f # events[1].fd /\ Has(c, f) => Has(c, f)',
         \A f : f # events[1].fd /\ Ripe(f) => Ripe(f)'
  PROVE  EpollInv'
<1>1. events' = Tail(events) /\ raised_by' = Tail(raised_by)
  BY DEF Epoll!Advance
<1>2. /\ events \in Seq(Described) /\ Len(events) <= MAX_EVENTS /\ MAX_EVENTS \in Nat
      /\ raised_by \in Seq(SUBSET Clients) /\ Len(raised_by) = Len(events)
  BY LevelAssumption DEF EpollInv
<1>3. PICK n \in Nat : Len(events) = n + 1
  <2>1. PICK m \in Nat : m = Len(events) /\ m # 0
    BY <1>2, EmptySeq, LenProperties
  <2>2. m - 1 \in Nat /\ m = (m - 1) + 1
    BY <2>1
  <2> QED
    BY <2>1, <2>2
<1>4. events' \in Seq(Described) /\ Len(events') = n /\ \A k \in 1..n : events'[k] = events[k + 1]
  BY <1>1, <1>2, <1>3, HeadTailProperties
<1>5. /\ raised_by' \in Seq(SUBSET Clients) /\ Len(raised_by') = n
      /\ \A k \in 1..n : raised_by'[k] = raised_by[k + 1]
  <2>1. raised_by # <<>>
    BY <1>2, <1>3
  <2> QED
    BY <1>1, <1>2, <1>3, <2>1, HeadTailProperties
<1>6. \A k \in 1..n : k + 1 \in 1..(n + 1) /\ k + 1 # 1 /\ 1 \in 1..(n + 1)
  OBVIOUS
<1>7. \A k \in 1..n : events'[k].fd # events[1].fd
  BY <1>3, <1>4, <1>6 DEF EpollInv
<1>8. \A k, l \in 1..n : events'[k].fd = events'[l].fd => k = l
  <2> SUFFICES ASSUME NEW k \in 1..n, NEW l \in 1..n, events'[k].fd = events'[l].fd PROVE k = l
    OBVIOUS
  <2>1. k + 1 = l + 1
    BY <1>3, <1>4, <1>6 DEF EpollInv
  <2> QED
    BY <2>1
<1>9. \A k \in 1..n : Announced(k)'
  <2> SUFFICES ASSUME NEW k \in 1..n PROVE Announced(k)'
    OBVIOUS
  <2>1. Announced(k + 1) /\ events'[k] = events[k + 1] /\ raised_by'[k] = raised_by[k + 1]
    BY <1>3, <1>4, <1>5, <1>6 DEF EpollInv
  <2>2. CASE events'[k].fd = listenfd
    BY <2>1, <2>2 DEF Announced
  <2>3. CASE events'[k].fd # listenfd
    <3>1. PICK c \in Clients : raised_by'[k] = {c} /\ Has(c, events[k + 1].fd)
      BY <2>1, <2>3 DEF Announced
    <3>2. PICK f : f = events'[k].fd /\ f = events[k + 1].fd
      BY <2>1
    <3>3. Has(c, f)'
      BY <1>7, <3>1, <3>2
    <3> QED
      BY <2>3, <3>1, <3>2, <3>3 DEF Announced, Has
  <2> QED
    BY <2>2, <2>3
<1>10. \A k \in 1..n : events'[k].fd # listenfd => Ripe(events[k].fd)'
  <2> SUFFICES ASSUME NEW k \in 1..n, events'[k].fd # listenfd PROVE Ripe(events[k].fd)'
    OBVIOUS
  <2>1. PICK f : f = events'[k].fd /\ f = events[k + 1].fd
    BY <1>4
  <2>2. Ripe(events[k + 1].fd)
    BY <1>3, <1>6, <2>1 DEF EpollInv
  <2>3. Ripe(f)'
    BY <1>7, <2>1, <2>2
  <2> QED
    BY <2>1, <2>3 DEF Ripe, Has
<1>11. Len(events') <= MAX_EVENTS
  BY <1>2, <1>3, <1>4
<1> QED
  BY <1>4, <1>5, <1>8, <1>9, <1>10, <1>11 DEF EpollInv, Echoing, Described

LEMMA EpollWaits ==
  ASSUME CoreInv, EpollInv, Epoll!epoll_wait
  PROVE  CoreInv' /\ EpollInv' /\ Promise
<1> DEFINE D == Fds \cup {listenfd}
           R == {f \in Epoll!ToSet(interest) : Epoll!Poll(f) # {}}
<1>1. PICK ready, n, taken :
        /\ ready = Filter(interest, R) /\ n = Min({Len(ready), MAX_EVENTS}) /\ taken = SubSeq(ready, 1, n)
        /\ n > 0
        /\ events' = [k \in 1..n |-> [fd |-> taken[k], events |-> Epoll!Poll(taken[k])]]
        /\ raised_by' = [k \in 1..n |-> IF taken[k] = listenfd THEN {} ELSE {Owner(taken[k])}]
        /\ interest' = Filter(interest, Epoll!ToSet(interest) \ Epoll!ToSet(taken)) \o taken
  <2> DEFINE Size(r) == Epoll!Min({Len(r), MAX_EVENTS})
             First(r) == SubSeq(r, 1, Size(r))
  <2>1. PICK r :
          /\ r = Epoll!Filter(interest, R)
          /\ Size(r) > 0
          /\ events' = [k \in 1..Size(r) |-> [fd |-> First(r)[k], events |-> Epoll!Poll(First(r)[k])]]
          /\ raised_by' = [k \in 1..Size(r) |-> IF First(r)[k] = listenfd THEN {} ELSE {Epoll!Owner(First(r)[k])}]
          /\ interest' = Epoll!Filter(interest, Epoll!ToSet(interest) \ Epoll!ToSet(First(r))) \o First(r)
    BY DEF Epoll!epoll_wait
  <2> QED
    BY <2>1, EpollShares
<1>2. /\ pc = "wait" /\ pc' = "event" /\ UNCHANGED <<clientVars, socketVars, curfd, wbuf, rc, echoed>>
  BY EpollShares DEF Epoll!epoll_wait, Goto
<1>3. CoreInv' /\ Promise /\ InUse' = InUse /\ \A f : Ripe(f) => Ripe(f)'
  BY <1>2, RestKeeps DEF Echoing
<1>4. interest \in Seq(D) /\ Watched
  BY <1>2 DEF EpollInv
<1>5. PICK m \in Nat : m = Len(interest) /\ \A s : s = interest => DOMAIN s = 1..m
  BY <1>4, LenProperties
<1>6. \A f : f \in Epoll!ToSet(interest) <=> \E k \in 1..m : interest[k] = f
  BY <1>5 DEF Epoll!ToSet
<1>7. PICK q \in Nat : ready \in Seq(D) /\ q = Len(ready)
  BY <1>1, <1>4, FilterSeq, LenProperties
<1>8. \A k \in 1..q : ready[k] \in R /\ ready[k] \in D
  BY <1>1, <1>4, <1>7, FilterElements, ElementOfSeq, ZenonT(40)
<1>9. \A k, l \in 1..q : ready[k] = ready[l] => k = l
  <2>1. \A k, l \in 1..Len(interest) : interest[k] = interest[l] => k = l
    BY <1>4 DEF Watched
  <2>2. \A k, l \in 1..Len(Filter(interest, R)) : Filter(interest, R)[k] = Filter(interest, R)[l] => k = l
    <3> HIDE DEF R, D
    <3> QED
      BY <1>4, <2>1, FilterInjective
  <2> QED
    BY <1>1, <1>7, <2>2
<1>10. n \in Nat /\ 1 <= n /\ n <= q /\ n <= MAX_EVENTS /\ 0 + n = n /\ 0 + 1 = 1
  <2>1. Min({q, MAX_EVENTS}) = IF q <= MAX_EVENTS THEN q ELSE MAX_EVENTS
    BY MinOfTwo, LevelAssumption
  <2>2. n = (IF q <= MAX_EVENTS THEN q ELSE MAX_EVENTS) /\ n > 0
    BY <1>1, <1>7, <2>1
  <2> QED
    BY <2>2, LevelAssumption
<1>11. /\ taken \in Seq(D) /\ Len(taken) = n /\ \A k \in 1..n : taken[k] = ready[k] /\ k \in 1..q
  <2>1. PICK p \in Nat : p = n /\ 0 + p <= Len(ready)
    BY <1>7, <1>10
  <2>2. /\ SubSeq(ready, 0 + 1, 0 + p) \in Seq(D) /\ Len(SubSeq(ready, 0 + 1, 0 + p)) = p
        /\ \A k \in 1..p : SubSeq(ready, 0 + 1, 0 + p)[k] = ready[0 + k]
    BY <1>7, <2>1, PieceIs
  <2>3. \A k \in 1..n : 0 + k = k /\ k \in 1..q
    BY <1>10
  <2> QED
    BY <1>1, <1>10, <2>1, <2>2, <2>3
<1>12. /\ \A k \in 1..n : taken[k] \in R /\ taken[k] \in D
       /\ \A k, l \in 1..n : taken[k] = taken[l] => k = l
  BY <1>8, <1>9, <1>11
<1>13. \A k \in 1..n : taken[k] # listenfd => taken[k] \in Fds /\ Ripe(taken[k])
  <2>1. \A f : Epoll!Poll(f) # {} => Ready(f)
    BY EpollShares DEF Epoll!Poll
  <2> QED
    BY <1>12, <2>1, RipeIs
<1>14. events' \in Seq(Described) /\ Len(events') = n /\ \A k \in 1..n : events'[k].fd = taken[k]
  <2>1. \A k \in 1..n : [fd |-> taken[k], events |-> Epoll!Poll(taken[k])] \in Described
    BY <1>12 DEF Described, Epoll!Poll, Epoll!Flags
  <2>2. events' \in [1..n -> Described] /\ \A k \in 1..n : events'[k].fd = taken[k]
    BY <1>1, <2>1
  <2> QED
    BY <1>10, <2>2, LenProperties
<1>15. /\ raised_by' \in Seq(SUBSET Clients) /\ Len(raised_by') = n
       /\ \A k \in 1..n : IF taken[k] = listenfd THEN raised_by'[k] = {}
                          ELSE \E c \in Clients : raised_by'[k] = {c} /\ Has(c, taken[k])
  <2>1. \A k \in 1..n : raised_by'[k] = IF taken[k] = listenfd THEN {} ELSE {Owner(taken[k])}
    BY <1>1
  <2>2. \A k \in 1..n : taken[k] # listenfd => Owner(taken[k]) \in Clients /\ Has(Owner(taken[k]), taken[k])
    <3> SUFFICES ASSUME NEW k \in 1..n, taken[k] # listenfd
                 PROVE  Owner(taken[k]) \in Clients /\ Has(Owner(taken[k]), taken[k])
      OBVIOUS
    <3>1. PICK c \in Clients : Has(c, taken[k])
      BY <1>13 DEF Ripe
    <3>2. Owner(taken[k]) = c
      BY <3>1, OwnerIs DEF CoreInv
    <3> QED
      BY <3>1, <3>2
  <2>3. \A k \in 1..n : (IF taken[k] = listenfd THEN {} ELSE {Owner(taken[k])}) \in SUBSET Clients
    BY <2>2
  <2>4. raised_by' \in [1..n -> SUBSET Clients]
    BY <1>1, <2>3, ZenonT(40)
  <2> QED
    BY <1>10, <2>1, <2>2, <2>4, LenProperties
<1> DEFINE T == Epoll!ToSet(interest) \ Epoll!ToSet(taken)
<1>16. \A f : f \in Epoll!ToSet(taken) <=> \E k \in 1..n : taken[k] = f
  <2>1. DOMAIN taken = 1..n
    BY <1>10, <1>11, LenProperties
  <2> QED
    BY <2>1 DEF Epoll!ToSet
<1> HIDE DEF D, R, T
<1>17. PICK rest \in Seq(D), r \in Nat : rest = Filter(interest, T) /\ r = Len(rest)
  BY <1>4, FilterSeq, LenProperties
<1>18. /\ \A k \in 1..r : rest[k] \in T
       /\ \A k \in 1..m : interest[k] \in T => \E l \in 1..r : rest[l] = interest[k]
  <2>1. /\ \A k \in 1..Len(Filter(interest, T)) : Filter(interest, T)[k] \in T
        /\ \A k \in 1..Len(interest) : interest[k] \in T =>
             \E l \in 1..Len(Filter(interest, T)) : Filter(interest, T)[l] = interest[k]
    BY <1>4, FilterElements
  <2> QED
    BY <1>5, <1>17, <2>1
<1>19. \A k, l \in 1..r : rest[k] = rest[l] => k = l
  <2>1. \A k, l \in 1..Len(interest) : interest[k] = interest[l] => k = l
    BY <1>4 DEF Watched
  <2> QED
    BY <1>4, <1>17, <2>1, FilterInjective
<1>20. /\ interest' \in Seq(D) /\ Len(interest') = r + n
       /\ \A k \in 1..(r + n) : interest'[k] = IF k <= r THEN rest[k] ELSE taken[k - r]
  <2>1. interest' = rest \o taken
    BY <1>1, <1>17 DEF T
  <2>2. /\ rest \o taken \in Seq(D) /\ Len(rest \o taken) = Len(rest) + Len(taken)
        /\ \A k \in 1..(Len(rest) + Len(taken)) :
             (rest \o taken)[k] = IF k <= Len(rest) THEN rest[k] ELSE taken[k - Len(rest)]
    BY <1>11, ConcatProperties
  <2> QED
    BY <1>11, <1>17, <2>1, <2>2
<1>21. /\ \A k \in 1..r : k \in 1..(r + n) /\ interest'[k] = rest[k]
       /\ \A k \in 1..n : r + k \in 1..(r + n) /\ interest'[r + k] = taken[k]
       /\ \A k \in 1..(r + n) : k \in 1..r \/ \E l \in 1..n : k = r + l
  <2>1. \A k \in 1..r : k \in 1..(r + n) /\ k <= r
    BY <1>10
  <2>2. \A k \in 1..n : r + k \in 1..(r + n) /\ ~(r + k <= r) /\ (r + k) - r = k
    BY <1>10
  <2>3. \A k \in 1..(r + n) : k \in 1..r \/ (k - r \in 1..n /\ k = r + (k - r))
    BY <1>10
  <2> QED
    BY <1>20, <2>1, <2>2, <2>3
<1>22. Watched'
  <2>1. \A f : f \in T <=> f \in Epoll!ToSet(interest) /\ f \notin Epoll!ToSet(taken)
    BY DEF T
  <2>2. \A k \in 1..n : taken[k] \in Epoll!ToSet(interest) /\ taken[k] \in Epoll!ToSet(taken)
    BY <1>12, <1>16 DEF R
  <2>3. ASSUME NEW k \in 1..(r + n) PROVE interest'[k] \in {listenfd} \cup InUse
    <3>1. interest'[k] \in Epoll!ToSet(interest)
      BY <1>18, <1>21, <2>1, <2>2
    <3> QED
      BY <1>4, <1>5, <1>6, <3>1 DEF Watched
  <2>4. ASSUME NEW f \in {listenfd} \cup InUse PROVE \E k \in 1..(r + n) : interest'[k] = f
    <3>1. PICK k \in 1..m : interest[k] = f
      BY <1>4, <1>5 DEF Watched
    <3>2. CASE f \in Epoll!ToSet(taken)
      BY <1>16, <1>21, <3>2
    <3>3. CASE f \notin Epoll!ToSet(taken)
      <4>1. f \in T
        BY <1>6, <2>1, <3>1, <3>3
      <4>2. PICK l \in 1..r : rest[l] = f
        BY <1>18, <3>1, <4>1
      <4> QED
        BY <1>21, <4>2
    <3> QED
      BY <3>2, <3>3
  <2>5. ASSUME NEW k \in 1..(r + n), NEW l \in 1..(r + n), interest'[k] = interest'[l] PROVE k = l
    <3>1. CASE k \in 1..r /\ l \in 1..r
      BY <1>19, <1>21, <2>5, <3>1
    <3>2. CASE k \in 1..r /\ l \notin 1..r
      <4>1. PICK j \in 1..n : l = r + j
        BY <1>21, <3>2
      <4> QED
        BY <1>18, <1>21, <2>1, <2>2, <2>5, <3>2, <4>1
    <3>3. CASE k \notin 1..r /\ l \in 1..r
      <4>1. PICK j \in 1..n : k = r + j
        BY <1>21, <3>3
      <4> QED
        BY <1>18, <1>21, <2>1, <2>2, <2>5, <3>3, <4>1
    <3>4. CASE k \notin 1..r /\ l \notin 1..r
      <4>1. PICK j \in 1..n, h \in 1..n : k = r + j /\ l = r + h
        BY <1>21, <3>4
      <4> QED
        BY <1>12, <1>21, <2>5, <4>1
    <3> QED
      BY <3>1, <3>2, <3>3, <3>4
  <2> QED
    BY <1>3, <1>20, <2>3, <2>4, <2>5 DEF Watched
<1>23. \A k \in 1..n : Announced(k)'
  <2> SUFFICES ASSUME NEW k \in 1..n PROVE Announced(k)'
    OBVIOUS
  <2>1. UNCHANGED <<status, fd>>
    BY <1>2 DEF socketVars
  <2> QED
    BY <1>14, <1>15, <2>1 DEF Announced, Has
<1>24. \A k \in 1..n : events'[k].fd # listenfd => Ripe(events[k].fd)'
  <2> SUFFICES ASSUME NEW k \in 1..n, events'[k].fd # listenfd PROVE Ripe(events[k].fd)'
    OBVIOUS
  <2>1. PICK f : f = events'[k].fd /\ f = taken[k]
    BY <1>14
  <2>2. Ripe(f)'
    BY <1>3, <1>13, <2>1
  <2> QED
    BY <2>1, <2>2 DEF Ripe, Has
<1>25. EpollInv'
  <2>1. \A k, l \in 1..n : events'[k].fd = events'[l].fd => k = l
    BY <1>12, <1>14
  <2> QED
    BY <1>2, <1>10, <1>14, <1>15, <1>20, <1>22, <1>23, <1>24, <2>1 DEF EpollInv, Echoing, Described, D
<1> QED
  BY <1>3, <1>25

\* The event at hand.
LEMMA AtHand ==
  ASSUME EpollInv, events # <<>>
  PROVE  /\ Head(events) = events[1] /\ 1 \in 1..Len(events) /\ Announced(1)
         /\ events[1].fd \in Fds \cup {listenfd}
<1>1. events \in Seq(Described)
  BY DEF EpollInv
<1>2. Head(events) = events[1] /\ 1 \in 1..Len(events)
  BY <1>1, EmptySeq, HeadTailProperties, LenProperties
<1>3. events[1] \in Described
  BY <1>1, <1>2, ElementOfSeq
<1> QED
  BY <1>2, <1>3 DEF EpollInv, Described

LEMMA EpollAccepts ==
  ASSUME CoreInv, EpollInv, Epoll!Accept \/ Epoll!AddFails \/ Epoll!AcceptFailure
  PROVE  CoreInv' /\ EpollInv' /\ Promise
<1>1. /\ pc = "event" /\ pc' = "event" /\ events # <<>> /\ Head(events).fd = listenfd /\ Epoll!Advance
  BY DEF Epoll!Accept, Epoll!AddFails, Epoll!AcceptFailure, Epoll!AtListen
<1>2. /\ pc \notin Echoing /\ pc' \notin Echoing /\ Watched /\ interest \in Seq(Fds \cup {listenfd})
  BY <1>1 DEF EpollInv, Echoing
<1>3. CASE Epoll!Accept
  <2>1. PICK n : n = NewFd
    OBVIOUS
  <2>2. AcceptAs("open") /\ interest' = Append(interest, n)
    BY <1>3, <2>1, EpollShares DEF Epoll!Accept
  <2>3. /\ CoreInv' /\ Promise /\ n \in Fds /\ n \notin InUse /\ InUse' = InUse \cup {n}
        /\ (\A f : Ripe(f) => Ripe(f)') /\ \A c \in Clients : \A f : Has(c, f) => Has(c, f)'
    BY <1>2, <2>1, <2>2, AcceptKeeps
  <2>4. PICK m \in Nat : m = Len(interest)
    BY <1>2, LenProperties
  <2>5. /\ interest' \in Seq(Fds \cup {listenfd}) /\ Len(interest') = m + 1 /\ interest'[m + 1] = n
        /\ \A k \in 1..m : interest'[k] = interest[k]
    BY <1>2, <2>2, <2>3, <2>4, AppendProperties
  <2>6. /\ \A k \in 1..m : interest[k] \in {listenfd} \cup InUse /\ interest[k] # n
        /\ \A f \in {listenfd} \cup InUse : \E k \in 1..m : interest[k] = f
        /\ \A k, l \in 1..m : interest[k] = interest[l] => k = l
    BY <1>2, <2>3, <2>4, EchoAssumption DEF Watched
  <2>7. \A k \in 1..(m + 1) : k \in 1..m \/ k = m + 1
    OBVIOUS
  <2>8. 1..m \subseteq 1..(m + 1) /\ m + 1 \in 1..(m + 1)
    OBVIOUS
  <2>9. Watched'
    <3>1. \A k \in 1..(m + 1) : interest'[k] \in {listenfd} \cup InUse'
      BY <2>3, <2>5, <2>6, <2>7
    <3>2. \A f \in {listenfd} \cup InUse' : \E k \in 1..(m + 1) : interest'[k] = f
      <4>1. \A f \in {listenfd} \cup InUse' : f \in {listenfd} \cup InUse \/ f = n
        BY <2>3
      <4>2. \A f \in {listenfd} \cup InUse : \E k \in 1..(m + 1) : interest'[k] = f
        BY <2>5, <2>6, <2>8
      <4> QED
        BY <2>5, <2>8, <4>1, <4>2
    <3>3. \A k, l \in 1..(m + 1) : interest'[k] = interest'[l] => k = l
      BY <2>5, <2>6, <2>7
    <3> QED
      BY <2>5, <3>1, <3>2, <3>3 DEF Watched
  <2>10. EpollInv'
    BY <1>1, <2>3, <2>5, <2>9, EpollAdvances
  <2> QED
    BY <2>3, <2>10
<1>4. CASE Epoll!AddFails
  <2>1. AcceptAs("aborted") /\ interest' = interest
    BY <1>4, EpollShares DEF Epoll!AddFails
  <2>2. /\ CoreInv' /\ Promise /\ InUse' = InUse
        /\ (\A f : Ripe(f) => Ripe(f)') /\ \A c \in Clients : \A f : Has(c, f) => Has(c, f)'
    BY <1>2, <2>1, AcceptKeeps
  <2>3. Watched'
    BY <1>2, <2>1, <2>2 DEF Watched
  <2> QED
    BY <1>1, <1>2, <2>1, <2>2, <2>3, EpollAdvances
<1>5. CASE Epoll!AcceptFailure
  <2>1. AcceptFails /\ interest' = interest
    BY <1>5, EpollShares DEF Epoll!AcceptFailure
  <2>2. CoreInv' /\ Promise /\ InUse' = InUse /\ \A f : Ripe(f) => Ripe(f)'
    BY <1>2, <2>1, RestKeeps DEF AcceptFails
  <2>3. \A c \in Clients : \A f : Has(c, f) => Has(c, f)'
    BY <2>1 DEF AcceptFails, socketVars, Has
  <2>4. Watched'
    BY <1>2, <2>1, <2>2 DEF Watched
  <2> QED
    BY <1>1, <1>2, <2>1, <2>2, <2>3, <2>4, EpollAdvances
<1> QED
  BY <1>3, <1>4, <1>5

\* A step that leaves the interest list and the events as they are, and in
\* which at most the connection that the first event is about changes.
LEMMA EpollSame ==
  ASSUME EpollInv, pc # "stopped", UNCHANGED <<interest, events, raised_by, fd, status>>,
         pc' \in {"event", "read", "write", "served"},
         pc' \in Echoing => events # <<>> /\ events[1].fd = curfd',
         \A f : (pc' \in {"write", "served"} => f # events[1].fd) /\ Ripe(f) => Ripe(f)',
         pc \in {"write", "served"} => pc' \in {"write", "served"}
  PROVE  EpollInv'
<1>1. InUse' = InUse /\ \A c \in Clients : \A f : Has(c, f) => Has(c, f)'
  BY DEF InUse, Has
<1>2. Watched'
  BY <1>1 DEF EpollInv, Watched
<1>3. \A k \in 1..Len(events) : Announced(k)'
  BY <1>1 DEF EpollInv, Announced, Has
<1>4. ASSUME NEW k \in 1..Len(events), events[k].fd # listenfd, pc' \in {"write", "served"} => k # 1
      PROVE  Ripe(events[k].fd)'
  <2>1. PICK f : f = events[k].fd
    OBVIOUS
  <2>2. Ripe(events[k].fd)
    BY <1>4 DEF EpollInv
  <2>3. k # 1 => 1 \in 1..Len(events) /\ events[k].fd # events[1].fd
    <3>1. Len(events) \in Nat
      BY LenProperties DEF EpollInv
    <3>2. k # 1 => 1 \in 1..Len(events)
      BY <3>1
    <3> QED
      BY <3>2 DEF EpollInv
  <2>4. Ripe(f)'
    BY <1>4, <2>1, <2>2, <2>3
  <2> QED
    BY <2>1, <2>4 DEF Ripe, Has
<1> QED
  BY <1>2, <1>3, <1>4 DEF EpollInv, Described

\* The server turns to the event at hand.
LEMMA EpollDispatches ==
  ASSUME CoreInv, EpollInv, Epoll!Dispatch
  PROVE  CoreInv' /\ EpollInv' /\ Promise
<1>1. /\ pc = "event" /\ events # <<>> /\ Head(events).fd # listenfd /\ curfd' = Head(events).fd
      /\ (pc' = "read" /\ UNCHANGED rc) \/ (pc' = "served" /\ rc' = "error")
      /\ UNCHANGED <<clientVars, socketVars, wbuf, echoed, interest, events, raised_by>>
  BY DEF Epoll!Dispatch, Epoll!AtClient, Epoll!epollVars, Epoll!clientVars, Epoll!socketVars,
         clientVars, socketVars
<1>2. PICK f \in Fds : f = events[1].fd /\ curfd' = f /\ Ripe(f)
  BY <1>1, AtHand DEF EpollInv
<1>3. CoreInv' /\ Promise /\ InUse' = InUse /\ \A g : Ripe(g) => Ripe(g)'
  BY <1>1, <1>2, StartKeeps DEF Echoing
<1>4. UNCHANGED <<fd, status>> /\ pc' \in {"read", "served"}
  BY <1>1 DEF socketVars
<1>5. EpollInv'
  BY <1>1, <1>2, <1>3, <1>4, EpollSame
<1> QED
  BY <1>3, <1>5

LEMMA EpollEchoes ==
  ASSUME CoreInv, EpollInv, Epoll!Echo
  PROVE  CoreInv' /\ EpollInv' /\ Promise
<1>1. EchoSteps /\ UNCHANGED <<interest, events, raised_by>>
  BY EpollShares DEF Epoll!Echo, Epoll!epollVars
<1>2. /\ CoreInv' /\ Promise /\ InUse' = InUse /\ UNCHANGED <<fd, status, curfd>>
      /\ pc \in {"read", "write"} /\ pc' \in {"write", "served"}
      /\ \A f : f # curfd /\ Ripe(f) => Ripe(f)'
  BY <1>1, EchoKeeps
<1>3. events # <<>> /\ events[1].fd = curfd
  BY <1>2 DEF EpollInv, Echoing
<1>4. EpollInv'
  BY <1>1, <1>2, <1>3, EpollSame
<1> QED
  BY <1>2, <1>4

\* After data the descriptor is kept; the other events wait.
LEMMA EpollGoesOn ==
  ASSUME CoreInv, EpollInv, Epoll!Served \/ Epoll!EventsDone
  PROVE  CoreInv' /\ EpollInv' /\ Promise
<1>1. /\ pc \in {"event", "served"} /\ (pc = "served" => rc = "ok") /\ pc' \in {"event", "wait"}
      /\ UNCHANGED <<clientVars, socketVars, curfd, wbuf, rc, echoed, interest>>
  BY EpollShares DEF Epoll!Served, Epoll!EventsDone, Epoll!AfterData, Goto, Epoll!epollVars
<1>2. CoreInv' /\ Promise /\ InUse' = InUse /\ \A f : Ripe(f) => Ripe(f)'
  BY <1>1, RestKeeps DEF Echoing
<1>3. Watched' /\ \A c \in Clients : \A f : Has(c, f) => Has(c, f)'
  BY <1>1, <1>2 DEF EpollInv, Watched, Has, socketVars
<1>4. CASE Epoll!Served
  <2>1. pc = "served" /\ pc' = "event" /\ Epoll!Advance
    BY <1>4, EpollShares DEF Epoll!Served, Epoll!AfterData, Goto
  <2>2. events # <<>> /\ interest' \in Seq(Fds \cup {listenfd})
    BY <1>1, <2>1 DEF EpollInv, Echoing
  <2>3. EpollInv'
    BY <1>2, <1>3, <2>1, <2>2, EpollAdvances
  <2> QED
    BY <1>2, <2>3
<1>5. CASE Epoll!EventsDone
  <2>1. events = <<>> /\ UNCHANGED <<events, raised_by>> /\ pc' = "wait"
    BY <1>5, EpollShares DEF Epoll!EventsDone, Epoll!epollVars, Goto
  <2>2. 1..Len(events) = {}
    BY <2>1
  <2> QED
    BY <1>1, <1>2, <1>3, <2>1, <2>2 DEF EpollInv, Echoing, Described
<1> QED
  BY <1>4, <1>5

\* The closed descriptor leaves the interest list, and no event that is left
\* is about it.
LEMMA EpollCloses ==
  ASSUME CoreInv, EpollInv, Epoll!close_epoll_fd
  PROVE  CoreInv' /\ EpollInv' /\ Promise
<1>1. pc = "served" /\ pc' = "event" /\ rc # "ok" /\ Epoll!Advance
  BY DEF Epoll!close_epoll_fd, Epoll!kept, Epoll!AfterClose
<1>2. rc \in {"ok", "eof", "error"}
  BY DEF CoreInv, TypeInv
<1>3. PICK o \in {"done", "aborted"} : Close(o) /\ (o = "done" => rc = "eof")
  BY <1>1, <1>2, EpollShares DEF Epoll!close_epoll_fd
<1>4. /\ CoreInv' /\ Promise /\ InUse' = InUse \ {curfd} /\ curfd \in InUse
      /\ (\A f : f # curfd /\ Ripe(f) => Ripe(f)')
      /\ \A c \in Clients : \A f : f # curfd /\ Has(c, f) => Has(c, f)'
  BY <1>1, <1>3, CloseKeeps DEF Echoing
<1>5. events # <<>> /\ events[1].fd = curfd /\ Watched /\ interest \in Seq(Fds \cup {listenfd})
  BY <1>1 DEF EpollInv, Echoing
<1>6. curfd # listenfd
  BY <1>1, CurIs, EchoAssumption DEF Echoing
<1> DEFINE T == Epoll!ToSet(interest) \ {curfd}
<1>7. interest' = Filter(interest, T)
  BY EpollShares DEF Epoll!close_epoll_fd, Epoll!deregistered
<1>8. PICK m \in Nat : m = Len(interest) /\ \A f : f \in T <=> f # curfd /\ \E k \in 1..m : interest[k] = f
  BY <1>5, LenProperties DEF Epoll!ToSet
<1> HIDE DEF T
<1>9. PICK q \in Nat : interest' \in Seq(Fds \cup {listenfd}) /\ q = Len(interest')
  BY <1>5, <1>7, FilterSeq, LenProperties
<1>10. /\ \A k \in 1..q : interest'[k] \in T
       /\ \A k \in 1..m : interest[k] \in T => \E l \in 1..q : interest'[l] = interest[k]
  <2>1. /\ \A k \in 1..Len(Filter(interest, T)) : Filter(interest, T)[k] \in T
        /\ \A k \in 1..Len(interest) : interest[k] \in T =>
             \E l \in 1..Len(Filter(interest, T)) : Filter(interest, T)[l] = interest[k]
    BY <1>5, FilterElements
  <2> QED
    BY <1>7, <1>8, <1>9, <2>1
<1>11. \A k, l \in 1..q : interest'[k] = interest'[l] => k = l
  <2>1. \A k, l \in 1..Len(interest) : interest[k] = interest[l] => k = l
    BY <1>5 DEF Watched
  <2> QED
    BY <1>5, <1>7, <1>9, <2>1, FilterInjective
<1>12. Watched'
  <2>1. /\ \A k \in 1..m : interest[k] \in {listenfd} \cup InUse
        /\ \A f \in {listenfd} \cup InUse : \E k \in 1..m : interest[k] = f
    BY <1>5, <1>8 DEF Watched
  <2>2. \A k \in 1..q : interest'[k] \in {listenfd} \cup InUse'
    BY <1>4, <1>8, <1>10, <2>1
  <2>3. \A f \in {listenfd} \cup InUse' : \E k \in 1..q : interest'[k] = f
    BY <1>4, <1>6, <1>8, <1>10, <2>1, SMTT(40)
  <2> QED
    BY <1>9, <1>11, <2>2, <2>3 DEF Watched
<1>13. EpollInv'
  BY <1>1, <1>4, <1>5, <1>9, <1>12, EpollAdvances
<1> QED
  BY <1>4, <1>13

\* Every step of the epoll server, from a state of the invariant.
LEMMA EpollStep ==
  ASSUME CoreInv, EpollInv, Epoll!Server
  PROVE  CoreInv' /\ EpollInv' /\ Promise
<1>1. CASE Epoll!epoll_wait
  BY <1>1, EpollWaits
<1>2. CASE Epoll!Accept \/ Epoll!AddFails \/ Epoll!AcceptFailure
  BY <1>2, EpollAccepts
<1>3. CASE Epoll!Dispatch
  BY <1>3, EpollDispatches
<1>4. CASE Epoll!Echo
  BY <1>4, EpollEchoes
<1>5. CASE Epoll!Served \/ Epoll!EventsDone
  BY <1>5, EpollGoesOn
<1>6. CASE Epoll!close_epoll_fd
  BY <1>6, EpollCloses
<1>7. CASE Epoll!WaitError
  <2>1. Stop /\ UNCHANGED <<interest, events, raised_by>>
    BY <1>7, EpollShares DEF Epoll!WaitError, Epoll!epollVars
  <2>2. pc = "wait" /\ pc' = "stopped" /\ CoreInv' /\ Promise
    BY <2>1, StopKeeps DEF Stop
  <2>3. events = <<>> /\ 1..Len(events) = {}
    BY <2>2 DEF EpollInv
  <2>4. EpollInv'
    BY <2>1, <2>2, <2>3 DEF EpollInv, Echoing, Described
  <2> QED
    BY <2>2, <2>4
<1> QED
  BY <1>1, <1>2, <1>3, <1>4, <1>5, <1>6, <1>7 DEF Epoll!Server, Epoll!Work
-----------------------------------------------------------------------------
(* The three servers together. *)

IndInv ==
  /\ CoreInv /\ server \in {"select", "poll", "epoll"}
  /\ server = "select" => SelectInv
  /\ server = "poll" => PollInv
  /\ server = "epoll" => EpollInv

LEMMA IndInit ==
  ASSUME MCInit
  PROVE  IndInv /\ Service!EInit
<1> USE EchoAssumption
<1>1. EchoInit
  BY SelectShares, EpollShares DEF MCInit, Init, Select!Init, Epoll!Init
<1>2. CoreInv /\ Service!EInit
  BY <1>1, InitCore
<1>3. pc = "wait" /\ InUse = {}
  BY <1>1 DEF EchoInit, InUse
<1>4. CASE server = "select" /\ Select!Init
  <2>1. /\ all_reads = {listenfd} /\ ready_reads = {} /\ maxfd = listenfd /\ nready = 0 /\ i = 0
    BY <1>4 DEF Select!Init
  <2>2. listenfd \in Nat /\ listenfd < FD_SETSIZE /\ Cardinality(Fds) \in Nat
    BY LevelAssumption, FS_CardinalityType
  <2>3. SelectInv
    BY <1>3, <2>1, <2>2 DEF SelectInv, Serving, Echoing
  <2> QED
    BY <1>2, <1>4, <2>3 DEF IndInv
<1>5. CASE server = "poll" /\ Init
  <2>1. /\ fds = [k \in 0..MAX_CLIENTS |-> [fd |-> IF k = 0 THEN listenfd ELSE 0, revents |-> {}]]
        /\ nfds = 1 /\ nready = 0 /\ i = 1 /\ MAX_CLIENTS \in Nat
    BY <1>5, PollAssumption DEF Init
  <2>2. fds[0].fd = listenfd /\ 1..(nfds - 1) = {}
    BY <2>1
  <2>3. Listed
    BY <1>3, <2>2 DEF Listed
  <2>4. fds \in [0..MAX_CLIENTS -> [fd : Fds \cup {0, listenfd}, revents : SUBSET Revents]]
    BY <2>1
  <2>5. PollInv
    BY <1>3, <2>1, <2>3, <2>4 DEF PollInv, Serving, Echoing
  <2> QED
    BY <1>2, <1>5, <2>5 DEF IndInv
<1>6. CASE server = "epoll" /\ Epoll!Init
  <2>1. interest = <<listenfd>> /\ events = <<>> /\ raised_by = <<>>
    BY <1>6 DEF Epoll!Init
  <2>2. /\ interest \in Seq(Fds \cup {listenfd}) /\ Len(interest) = 1 /\ interest[1] = listenfd
        /\ \A k \in 1..1 : k = 1
    BY <2>1
  <2>3. Watched
    BY <1>3, <2>2 DEF Watched
  <2>4. /\ events \in Seq(Described) /\ raised_by \in Seq(SUBSET Clients)
        /\ Len(events) = 0 /\ Len(raised_by) = 0 /\ 1..0 = {} /\ MAX_EVENTS \in Nat
    BY <2>1, EmptySeq, LevelAssumption
  <2>5. EpollInv
    BY <1>3, <2>1, <2>2, <2>3, <2>4 DEF EpollInv, Echoing
  <2> QED
    BY <1>2, <1>6, <2>5 DEF IndInv
<1> QED
  BY <1>4, <1>5, <1>6 DEF MCInit

\* A step of the clients leaves the servers' invariants as they are.
LEMMA ClientsKeep ==
  ASSUME IndInv, ClientSteps, UNCHANGED <<server, waitVars>>
  PROVE  IndInv' /\ Promise
<1>1. /\ CoreInv' /\ Promise /\ InUse' = InUse /\ UNCHANGED <<fd, status, pc, curfd, rc>>
      /\ \A f : Ripe(f) => Ripe(f)'
  BY ClientKeeps DEF IndInv
<1>2. UNCHANGED <<server, all_reads, ready_reads, maxfd, fds, nfds, interest, events, raised_by, nready, i>>
  BY DEF waitVars, selectOnly, pollOnly, epollOnly
<1>3. SelectInv => SelectInv'
  BY <1>1, <1>2 DEF SelectInv
<1>4. PollInv => PollInv'
  <2>1. to_serve' = to_serve
    BY <1>2 DEF to_serve
  <2>2. Listed => Listed'
    BY <1>1, <1>2 DEF Listed
  <2>3. \A k : Ripe(fds[k].fd) => Ripe(fds[k].fd)'
    BY <1>1, <1>2 DEF Ripe, Has
  <2> QED
    BY <1>1, <1>2, <2>1, <2>2, <2>3 DEF PollInv
<1>5. EpollInv => EpollInv'
  <2>1. Watched => Watched'
    BY <1>1, <1>2 DEF Watched
  <2>2. \A k : Announced(k) => Announced(k)'
    BY <1>1, <1>2 DEF Announced, Has
  <2>3. \A k : Ripe(events[k].fd) => Ripe(events[k].fd)'
    BY <1>1, <1>2 DEF Ripe, Has
  <2> QED
    BY <1>1, <1>2, <2>1, <2>2, <2>3 DEF EpollInv, Described
<1> QED
  BY <1>1, <1>2, <1>3, <1>4, <1>5 DEF IndInv

\* Nothing changes, nothing is lost.
LEMMA StutterKeeps ==
  ASSUME IndInv, UNCHANGED mcVars
  PROVE  IndInv' /\ Promise
<1>1. /\ UNCHANGED <<sent, shut, rst, acceptq, rcvd, tx, fd, status, pc, curfd, wbuf, rc, echoed>>
      /\ UNCHANGED <<server, all_reads, ready_reads, maxfd, fds, nfds, interest, events, raised_by, nready, i>>
  BY DEF mcVars, echoVars, clientVars, socketVars, waitVars, selectOnly, pollOnly, epollOnly
<1>2. Promise
  BY <1>1 DEF Promise, Service!evars
<1>3. (\A c \in Clients : \A f : Has(c, f)' <=> Has(c, f)) /\ InUse' = InUse
  BY <1>1 DEF Has, InUse
<1>4. \A f : Ripe(f)' <=> Ripe(f)
  BY <1>1, <1>3 DEF Ripe, Readable, Available
<1>5. CoreInv'
  <2>1. TypeInv' /\ FdInv' /\ QueueInv'
    BY <1>1, <1>3 DEF IndInv, CoreInv, TypeInv, FdInv, QueueInv
  <2>2. CurInv'
    BY <1>1, <1>3, <1>4 DEF IndInv, CoreInv, CurInv
  <2>3. FlowInv'
    <3>1. \A c \in Clients : InHand(c)' = InHand(c)
      BY <1>1, <1>3 DEF InHand
    <3> QED
      BY <1>1, <1>3, <3>1 DEF IndInv, CoreInv, FlowInv
  <2> QED
    BY <2>1, <2>2, <2>3 DEF CoreInv
<1>6. SelectInv => SelectInv'
  BY <1>1, <1>3, <1>4 DEF SelectInv
<1>7. PollInv => PollInv'
  <2>1. to_serve' = to_serve
    BY <1>1 DEF to_serve
  <2>2. Listed => Listed'
    BY <1>1, <1>3 DEF Listed
  <2>3. \A k : Ripe(fds[k].fd) => Ripe(fds[k].fd)'
    BY <1>1, <1>4 DEF Ripe, Has
  <2> QED
    BY <1>1, <2>1, <2>2, <2>3 DEF PollInv
<1>8. EpollInv => EpollInv'
  <2>1. Watched => Watched'
    BY <1>1, <1>3 DEF Watched
  <2>2. \A k : Announced(k) => Announced(k)'
    BY <1>1 DEF Announced, Has
  <2>3. \A k : Ripe(events[k].fd) => Ripe(events[k].fd)'
    BY <1>1, <1>4 DEF Ripe, Has
  <2> QED
    BY <1>1, <2>1, <2>2, <2>3 DEF EpollInv, Described
<1> QED
  BY <1>1, <1>2, <1>5, <1>6, <1>7, <1>8 DEF IndInv

LEMMA IndStep ==
  ASSUME IndInv, [MCNext]_mcVars
  PROVE  IndInv' /\ Promise
<1>1. CASE RunSelect
  BY <1>1, SelectStep DEF RunSelect, IndInv
<1>2. CASE RunPoll
  BY <1>2, PollStep DEF RunPoll, IndInv
<1>3. CASE RunEpoll
  BY <1>3, EpollStep DEF RunEpoll, IndInv
<1>4. CASE ClientSteps /\ UNCHANGED <<server, waitVars>>
  BY <1>4, ClientsKeep
<1>5. CASE UNCHANGED mcVars
  BY <1>5, StutterKeeps
<1> QED
  BY <1>1, <1>2, <1>3, <1>4, <1>5 DEF MCNext

\* The inductive invariant holds in every reachable state.
THEOREM LevelInvariant == MCSpec => []IndInv
<1>1. MCInit => IndInv
  BY IndInit
<1>2. IndInv /\ [MCNext]_mcVars => IndInv'
  BY IndStep
<1> QED
  BY <1>1, <1>2, PTL DEF MCSpec
-----------------------------------------------------------------------------
(* What the invariant says of the properties the runs check. *)

\* Numbers in order, none above m, make a sequence over 1..m.
LEMMA BoundedSeq ==
  ASSUME NEW s \in Seq(Nat), NEW m \in Nat, \A k \in 1..Len(s) : s[k] \in 1..m
  PROVE  s \in Seq(1..m)
<1>1. PICK n \in Nat : n = Len(s) /\ s \in [1..n -> Nat]
  BY LenProperties
<1>2. s \in [1..n -> 1..m]
  BY <1>1
<1> QED
  BY <1>2

LEMMA CoreTypes ==
  ASSUME CoreInv
  PROVE  EchoTypeOK
<1>1. TypeInv /\ FlowInv
  BY DEF CoreInv
<1>2. \A c \in Clients : sent[c] \in 0..MaxSend[c] /\ rcvd[c] \in 0..sent[c]
  <2> SUFFICES ASSUME NEW c \in Clients PROVE sent[c] \in 0..MaxSend[c] /\ rcvd[c] \in 0..sent[c]
    OBVIOUS
  <2>1. /\ sent[c] \in Nat /\ rcvd[c] \in Nat /\ MaxSend[c] \in Nat
        /\ sent[c] <= MaxSend[c] /\ rcvd[c] <= sent[c]
    BY <1>1, EchoAssumption DEF TypeInv
  <2> QED
    BY <2>1
<1>3. \A c \in Clients : echoed[c] \in Seq(1..rcvd[c])
  <2> SUFFICES ASSUME NEW c \in Clients PROVE echoed[c] \in Seq(1..rcvd[c])
    OBVIOUS
  <2>1. PICK s \in Seq(Nat), m \in Nat : s = echoed[c] /\ m = rcvd[c]
    BY <1>1 DEF TypeInv
  <2>2. Len(s) <= m /\ \A k \in 1..Len(s) : s[k] = k
    BY <1>1, <2>1 DEF FlowInv
  <2>3. Len(s) \in Nat
    BY LenProperties
  <2>4. \A k \in 1..Len(s) : s[k] \in 1..m
    BY <2>2, <2>3
  <2> QED
    BY <2>1, <2>4, BoundedSeq
<1>4. wbuf # <<>> => pc = "write" /\ wbuf \in Seq(1..rcvd[Cur])
  <2> SUFFICES ASSUME wbuf # <<>> PROVE pc = "write" /\ wbuf \in Seq(1..rcvd[Cur])
    OBVIOUS
  <2>1. pc = "write"
    BY <1>1 DEF TypeInv
  <2>2. Cur \in Clients /\ Has(Cur, curfd)
    BY <2>1, CurIs DEF Echoing
  <2>3. PICK s \in Seq(Nat), m \in Nat : s = wbuf /\ m = rcvd[Cur]
    BY <1>1, <2>2 DEF TypeInv
  <2>4. PICK e \in Nat, n \in Nat : e = Len(echoed[Cur]) /\ n = Len(s)
    BY <1>1, <2>2, LenProperties DEF TypeInv
  <2>5. e + n = m /\ \A k \in 1..n : s[k] = e + k
    BY <1>1, <2>1, <2>2, <2>3, <2>4 DEF FlowInv, InHand, Has
  <2>6. \A k \in 1..Len(s) : s[k] \in 1..m
    BY <2>4, <2>5
  <2> QED
    BY <2>1, <2>3, <2>6, BoundedSeq
<1> QED
  BY <1>1, <1>2, <1>3, <1>4 DEF EchoTypeOK, TypeInv

LEMMA SelectExact ==
  ASSUME CoreInv, SelectInv
  PROVE  Select!TypeOK /\ Select!SetsExact
<1>1. Select!TypeOK
  BY CoreTypes, SelectShares DEF Select!TypeOK, SelectInv
<1>2. ASSUME pc # "stopped"
      PROVE  all_reads = {listenfd} \cup InUse /\ maxfd = Max(all_reads) /\ \A f \in all_reads : f < FD_SETSIZE
  <2>1. /\ all_reads = {listenfd} \cup InUse /\ maxfd \in all_reads
        /\ \A f \in all_reads : f <= maxfd /\ f < FD_SETSIZE
    BY <1>2 DEF SelectInv
  <2>2. all_reads \subseteq Int
    BY EchoAssumption DEF SelectInv
  <2>3. Max(all_reads) = maxfd
    BY <2>1, <2>2, MaxIs
  <2> QED
    BY <2>1, <2>3
<1> QED
  BY <1>1, <1>2, SelectShares DEF Select!SetsExact

LEMMA PollExact ==
  ASSUME CoreInv, PollInv
  PROVE  TypeOK /\ ArrayExact /\ ScanComplete
<1>1. TypeOK
  BY CoreTypes DEF TypeOK, PollInv
<1>2. ASSUME pc # "stopped"
      PROVE  /\ fds[0].fd = listenfd /\ {fds[k].fd : k \in 1..(nfds - 1)} = InUse
             /\ Cardinality(InUse) = nfds - 1
  <2>1. Listed
    BY <1>2 DEF PollInv
  <2>2. PICK n \in Nat : n = nfds - 1
    BY PollAssumption DEF PollInv
  <2> DEFINE b == [k \in 1..n |-> fds[k].fd]
  <2>3. b \in Injection(1..n, InUse)
    BY <2>1, <2>2 DEF Listed, Injection, IsInjective
  <2>4. b \in Surjection(1..n, InUse)
    <3>1. b \in [1..n -> InUse] /\ \A f \in InUse : \E k \in 1..n : b[k] = f
      BY <2>1, <2>2 DEF Listed
    <3> QED
      BY <3>1 DEF Surjection
  <2>5. ExistsBijection(1..n, InUse)
    BY <2>3, <2>4 DEF ExistsBijection, Bijection
  <2>6. Cardinality(InUse) = n
    BY <2>5, FS_CountingElements
  <2>7. {fds[k].fd : k \in 1..(nfds - 1)} = InUse
    BY <2>1 DEF Listed
  <2> QED
    BY <2>1, <2>2, <2>6, <2>7 DEF Listed
<1>3. ScanComplete
  BY DEF ScanComplete, PollInv
<1> QED
  BY <1>1, <1>2, <1>3 DEF ArrayExact

LEMMA EpollExact ==
  ASSUME CoreInv, EpollInv
  PROVE  Epoll!TypeOK /\ Epoll!InterestExact /\ Epoll!EventsNotStale
<1>1. Epoll!TypeOK
  BY CoreTypes, EpollShares DEF Epoll!TypeOK, EpollInv, Described
<1>2. ASSUME pc # "stopped"
      PROVE  Epoll!ToSet(interest) = {listenfd} \cup InUse /\ Epoll!IsInjective(interest)
  <2>1. Watched /\ DOMAIN interest = 1..Len(interest)
    BY <1>2, LenProperties DEF EpollInv
  <2> QED
    BY <2>1 DEF Watched, Epoll!ToSet, Epoll!IsInjective
<1>3. ASSUME NEW k \in DOMAIN events, NEW c \in raised_by[k]
      PROVE  status[c] = "open" /\ fd[c] = events[k].fd
  <2>1. k \in 1..Len(events)
    BY <1>3, LenProperties DEF EpollInv
  <2>2. Announced(k)
    BY <2>1 DEF EpollInv
  <2> QED
    BY <1>3, <2>2 DEF Announced, Has
<1> QED
  BY <1>1, <1>2, <1>3, EpollShares DEF Epoll!InterestExact, Epoll!EventsNotStale

\* The one thread of a level-triggered server calls read only on an open
\* descriptor with something to read: what the wait call noted is still true
\* when the loop comes to it, over every accept, close and reuse in between.
THEOREM LevelReadNeverBlocks == MCSpec => []ReadNeverBlocks
<1>1. IndInv => ReadNeverBlocks
  <2> SUFFICES ASSUME CoreInv, pc = "read" PROVE curfd \in InUse /\ Readable(Cur)
    BY DEF IndInv, ReadNeverBlocks
  <2>1. /\ Cur \in Clients /\ Has(Cur, curfd) /\ curfd \in InUse
        /\ \A d \in Clients : Has(d, curfd) => d = Cur
    BY CurIs DEF Echoing
  <2>2. Ripe(curfd)
    BY DEF CoreInv, CurInv
  <2> QED
    BY <2>1, <2>2 DEF Ripe
<1> QED
  BY <1>1, LevelInvariant, PTL

\* The sets of select, the array of poll and the interest list of epoll name
\* the open connections exactly, poll's scan skips no ready entry although
\* entries move under it, and no event that is left over is stale.
THEOREM LevelBookkeepingExact == MCSpec => []BookkeepingExact
<1>1. IndInv => BookkeepingExact
  BY SelectExact, PollExact, EpollExact DEF IndInv, BookkeepingExact
<1> QED
  BY <1>1, LevelInvariant, PTL

\* Each of the three servers implements the echo service: every step of
\* theirs is a step of EchoService or leaves what a client sees alone.
THEOREM LevelImplementsEcho == MCSpec => ImplementsEcho
<1>1. MCInit => IndInv /\ Service!EInit
  BY IndInit
<1>2. IndInv /\ [MCNext]_mcVars => IndInv' /\ [Service!ENext]_(Service!evars)
  BY IndStep DEF Promise
<1> QED
  BY <1>1, <1>2, PTL DEF MCSpec, ImplementsEcho, Service!ESpec
=============================================================================
