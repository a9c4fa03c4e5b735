---------------------------- MODULE EpollEtProofs ----------------------------
(***************************************************************************)
(* Proofs about EpollEtServer, for any set of clients, any amount of data  *)
(* and any sizes of the buffers and of the event array: no event refers to *)
(* a freed connection, the loop never sleeps on work that no edge will     *)
(* bring back, and every client gets the promise of EchoService.           *)
(***************************************************************************)
EXTENDS EpollEtServer, DataLemmas

Events == [src : Sources, events : SUBSET Flags]
Handling == {"read", "append", "flush", "finish"}

On(list, x) == \E i \in 1..Len(list) : list[i] = x
Distinct(list) == \A i, j \in 1..Len(list) : list[i] = list[j] => i = j
Srcs(b) == [i \in 1..Len(b) |-> b[i].src]
Pending(x) == On(rdlist, x) \/ On(Srcs(batch), x)

\* The position in the loop: which event is in hand.
ShapeInv ==
  /\ pc \in Handling => batch # <<>> /\ cur = Head(batch).src /\ cur \in Clients
  /\ pc = "accept" => batch # <<>> /\ Head(batch).src = Listen
  /\ pc \notin Handling => cur = NoClient
  /\ pc \in {"wait", "stopped"} => batch = <<>>

\* Both lists hold live descriptors, each once; who waits to be accepted has
\* no connection yet.
ListInv ==
  /\ Distinct(rdlist) /\ Distinct(Srcs(batch)) /\ Distinct(acceptq)
  /\ \A c \in Clients : Pending(c) => status[c] = "open"
  /\ \A c \in Clients : On(acceptq, c) => status[c] = "none"

\* Bytes read but not yet in the output buffer.
InHand(c) == IF pc = "append" /\ cur = c THEN Len(buf) ELSE 0

\* No byte is read before it is sent, and none is left unread at the end.
InputInv ==
  \A c \in Clients : rcvd[c] <= sent[c] /\ (peer_eof[c] => shut[c] /\ rcvd[c] = sent[c])

\* Where the bytes of a connection are: written back, in the output buffer,
\* or in hand.
Flow(st, received, eof, out, written, hand) ==
  /\ st = "none" => received = 0 /\ ~eof /\ out = <<>> /\ written = <<>>
  /\ st = "open" => Len(written) + Len(out) + hand = received
  /\ \A i \in 1..Len(out) : out[i] = Len(written) + i

FlowAt(c) == Flow(status[c], rcvd[c], peer_eof[c], output[c], echoed[c], InHand(c))

FlowInv ==
  /\ \A c \in Clients : FlowAt(c)
  /\ pc = "append" => \A i \in 1..Len(buf) : buf[i] = rcvd[cur] - Len(buf) + i

\* The registered events are those the state of the connection calls for.
InterestInv ==
  \A c \in Clients : status[c] = "open" /\ c # cur =>
    interest[c] = connection_events(peer_eof[c], Len(output[c]))

\* The connection has work for the server.
Needs(c) ==
  \/ Available(c) > 0 \/ (shut[c] /\ ~peer_eof[c]) \/ rst[c]
  \/ output[c] # <<>> /\ tx[c] < SockBuf

\* Work is on the ready list or in the event array.
WakeInv ==
  /\ acceptq # <<>> => Pending(Listen)
  /\ \A c \in Clients : status[c] = "open" /\ Needs(c) => Pending(c)

IndInv == TypeOK /\ ShapeInv /\ ListInv /\ InputInv /\ FlowInv /\ InterestInv /\ WakeInv
-----------------------------------------------------------------------------
(* Lists of descriptors. *)

\* Nobody is on the empty list.
LEMMA EmptyList == Distinct(<<>>) /\ (\A x : ~On(<<>>, x)) /\ Srcs(<<>>) = <<>>
  BY DEF Distinct, On, Srcs

\* Enlist adds a descriptor unless it is there.
LEMMA EnlistIs ==
  ASSUME NEW S, NEW list \in Seq(S), NEW src \in S, Distinct(list)
  PROVE  /\ Enlist(list, src) \in Seq(S) /\ Distinct(Enlist(list, src))
         /\ \A x : On(Enlist(list, src), x) <=> On(list, x) \/ x = src
         /\ ~On(list, src) => Enlist(list, src) = Append(list, src)
<1>1. Len(list) \in Nat /\ DOMAIN list = 1..Len(list)
  BY LenProperties
<1>2. Enlist(list, src) = IF On(list, src) THEN list ELSE Append(list, src)
  BY <1>1 DEF Enlist, On
<1>3. CASE On(list, src)
  BY <1>2, <1>3
<1>4. CASE ~On(list, src)
  <2> DEFINE a == Append(list, src)
             n == Len(list)
  <2>1. a \in Seq(S) /\ Len(a) = n + 1 /\ a[n + 1] = src /\ (\A k \in 1..n : a[k] = list[k]) /\ n \in Nat
    BY <1>1, AppendProperties
  <2>2. Enlist(list, src) = a
    BY <1>2, <1>4
  <2> HIDE DEF a
  <2>3. \A k \in 1..(n + 1) : k \in 1..n \/ k = n + 1
    BY <2>1
  <2>4. n + 1 \in 1..(n + 1) /\ \A k \in 1..n : k \in 1..(n + 1) /\ k # n + 1
    BY <2>1
  <2>5. Distinct(a)
    BY <1>4, <2>1, <2>3, <2>4 DEF Distinct, On
  <2>6. \A x : On(a, x) <=> On(list, x) \/ x = src
    BY <2>1, <2>3, <2>4 DEF On
  <2> QED
    BY <2>1, <2>2, <2>5, <2>6 DEF a
<1> QED
  BY <1>3, <1>4

\* Delist takes it off.
LEMMA DelistIs ==
  ASSUME NEW list \in Seq(Sources), NEW src, Distinct(list)
  PROVE  /\ Delist(list, src) \in Seq(Sources) /\ Distinct(Delist(list, src))
         /\ \A x : On(Delist(list, src), x) <=> On(list, x) /\ x # src
<1> DEFINE T == Sources \ {src}
           f == Filter(list, T)
<1> HIDE DEF T
<1>1. f \in Seq(Sources)
  BY FilterSeq
<1>2. Distinct(f)
  BY FilterInjective DEF Distinct
<1>3. /\ \A i \in 1..Len(f) : f[i] \in T /\ \E k \in 1..Len(list) : f[i] = list[k]
      /\ \A k \in 1..Len(list) : list[k] \in T => \E i \in 1..Len(f) : f[i] = list[k]
  BY FilterElements
<1>4. \A k \in 1..Len(list) : list[k] \in Sources
  BY ElementOfSeq
<1>5. \A x : On(f, x) <=> On(list, x) /\ x # src
  <2> HIDE DEF f
  <2> QED
    BY <1>3, <1>4 DEF On, T
<1> QED
  BY <1>1, <1>2, <1>5 DEF Delist, T

\* Taking the first one.
LEMMA TailIs ==
  ASSUME NEW S, NEW list \in Seq(S), list # <<>>, Distinct(list)
  PROVE  /\ Tail(list) \in Seq(S) /\ Distinct(Tail(list))
         /\ Head(list) \in S /\ On(list, Head(list))
         /\ \A x : On(Tail(list), x) <=> On(list, x) /\ x # Head(list)
<1> DEFINE t == Tail(list)
           n == Len(list)
<1>1. n \in Nat \ {0}
  BY EmptySeq, LenProperties
<1>2. Head(list) = list[1] /\ Head(list) \in S /\ t \in Seq(S) /\ Len(t) = n - 1
      /\ \A k \in 1..(n - 1) : t[k] = list[k + 1]
  BY HeadTailProperties
<1> HIDE DEF t
<1>3. \A k \in 1..(n - 1) : k + 1 \in 1..n /\ k + 1 # 1
  BY <1>1
<1>4. 1 \in 1..n /\ \A k \in 1..n : k = 1 \/ (k - 1 \in 1..(n - 1) /\ k - 1 + 1 = k)
  BY <1>1
<1>5. Distinct(t)
  <2> SUFFICES ASSUME NEW j \in 1..(n - 1), NEW k \in 1..(n - 1), t[j] = t[k] PROVE j = k
    BY <1>2 DEF Distinct
  <2>1. j + 1 = k + 1
    BY <1>2, <1>3 DEF Distinct
  <2> QED
    BY <1>1, <2>1
<1>6. ASSUME NEW x PROVE On(t, x) <=> On(list, x) /\ x # Head(list)
  <2>1. ASSUME NEW k \in 1..(n - 1), t[k] = x PROVE On(list, x) /\ x # Head(list)
    BY <1>2, <1>3, <1>4, <2>1 DEF On, Distinct
  <2>2. ASSUME NEW k \in 1..n, list[k] = x, x # Head(list) PROVE On(t, x)
    <3>1. PICK j \in 1..(n - 1) : j + 1 = k
      BY <1>2, <1>4, <2>2
    <3>2. t[j] = x
      BY <1>2, <2>2, <3>1
    <3> QED
      BY <1>2, <3>2 DEF On
  <2> QED
    BY <1>2, <2>1, <2>2 DEF On
<1>7. On(list, Head(list))
  BY <1>2, <1>4 DEF On
<1> QED
  BY <1>2, <1>5, <1>6, <1>7 DEF t

\* The descriptors of the event array, and those of the events left.
LEMMA SrcsIs ==
  ASSUME NEW b \in Seq(Events)
  PROVE  /\ Srcs(b) \in Seq(Sources) /\ Len(Srcs(b)) = Len(b)
         /\ \A i \in 1..Len(b) : Srcs(b)[i] = b[i].src /\ b[i] \in Events
         /\ b # <<>> => /\ Srcs(b) # <<>> /\ Head(Srcs(b)) = Head(b).src /\ Head(b) \in Events
                        /\ Tail(b) \in Seq(Events) /\ Srcs(Tail(b)) = Tail(Srcs(b))
<1>1. Len(b) \in Nat /\ \A i \in 1..Len(b) : b[i] \in Events
  BY LenProperties, ElementOfSeq
<1>2. \A i \in 1..Len(b) : b[i].src \in Sources
  BY <1>1 DEF Events
<1>3. Srcs(b) \in [1..Len(b) -> Sources]
  BY <1>2 DEF Srcs
<1>4. Srcs(b) \in Seq(Sources) /\ Len(Srcs(b)) = Len(b)
  <2>1. Srcs(b) \in Seq(Sources)
    BY <1>1, <1>3, SeqDef
  <2> QED
    BY <1>1, <1>3, <2>1, LenProperties
<1>5. \A i \in 1..Len(b) : Srcs(b)[i] = b[i].src
  BY DEF Srcs
<1>6. ASSUME b # <<>>
      PROVE  /\ Srcs(b) # <<>> /\ Head(Srcs(b)) = Head(b).src /\ Head(b) \in Events
             /\ Tail(b) \in Seq(Events) /\ Srcs(Tail(b)) = Tail(Srcs(b))
  <2>1. Len(b) \in Nat \ {0}
    BY <1>1, <1>6, EmptySeq
  <2>2. /\ Head(b) = b[1] /\ Head(b) \in Events /\ Tail(b) \in Seq(Events) /\ Len(Tail(b)) = Len(b) - 1
        /\ \A k \in 1..(Len(b) - 1) : Tail(b)[k] = b[k + 1]
    BY <1>6, HeadTailProperties
  <2>3. Srcs(b) # <<>>
    BY <1>4, <2>1, EmptySeq
  <2>4. /\ Head(Srcs(b)) = Srcs(b)[1] /\ Tail(Srcs(b)) \in Seq(Sources) /\ Len(Tail(Srcs(b))) = Len(b) - 1
        /\ \A k \in 1..(Len(b) - 1) : Tail(Srcs(b))[k] = Srcs(b)[k + 1]
    BY <1>4, <2>3, HeadTailProperties
  <2>5. Srcs(Tail(b)) = [k \in 1..(Len(b) - 1) |-> Tail(b)[k].src]
    BY <2>2 DEF Srcs
  <2>6. Tail(Srcs(b)) = [k \in 1..(Len(b) - 1) |-> Tail(Srcs(b))[k]]
    BY <2>1, <2>4, LenProperties
  <2>7. ASSUME NEW k \in 1..(Len(b) - 1) PROVE Tail(Srcs(b))[k] = Tail(b)[k].src
    <3>1. k + 1 \in 1..Len(b)
      BY <2>1
    <3> QED
      BY <1>5, <2>2, <2>4, <3>1
  <2>8. Srcs(Tail(b)) = Tail(Srcs(b))
    BY <2>5, <2>6, <2>7
  <2>9. Head(Srcs(b)) = Head(b).src
    BY <1>5, <2>1, <2>2, <2>4
  <2> QED
    BY <2>2, <2>3, <2>8, <2>9
<1> QED
  BY <1>1, <1>4, <1>5, <1>6

-----------------------------------------------------------------------------
(* The inductive invariant. *)

LEMMA IndInit == Init => IndInv
<1> SUFFICES ASSUME Init PROVE IndInv
  OBVIOUS
<1>1. <<>> \in Seq(Clients) /\ <<>> \in Seq(Sources) /\ <<>> \in Seq(Events) /\ <<>> \in Seq(1..MaxSend)
      /\ Len(<<>>) = 0
  BY EmptySeq
<1>2. TypeOK
  BY <1>1, EpollAssumption DEF Init, TypeOK, Events
<1>3. ShapeInv
  BY DEF Init, ShapeInv, Handling
<1>4. ListInv
  BY EmptyList DEF Init, ListInv, Pending
<1>5. InputInv /\ FlowInv
  BY <1>1 DEF Init, InputInv, FlowInv, FlowAt, Flow, InHand
<1>6. InterestInv /\ WakeInv
  BY DEF Init, InterestInv, WakeInv
<1> QED
  BY <1>2, <1>3, <1>4, <1>5, <1>6 DEF IndInv

\* What a step that moves no byte leaves as it was.
LEMMA FlowFrame ==
  ASSUME FlowInv, UNCHANGED <<rcvd, status, peer_eof, output, echoed, pc, cur, buf>>
  PROVE  FlowInv'
<1>1. \A c \in Clients : FlowAt(c)' = FlowAt(c)
  BY DEF FlowAt, InHand
<1>2. pc = "append" => \A i \in 1..Len(buf) : buf[i] = rcvd[cur] - Len(buf) + i
  BY DEF FlowInv
<1> QED
  BY <1>1, <1>2 DEF FlowInv

\* A connection that is neither listed nor in the event array is not in hand,
\* has its events registered and nothing for the server to do.
LEMMA Idle ==
  ASSUME IndInv, NEW c \in Clients, status[c] = "open", ~Pending(c)
  PROVE  c # cur /\ interest[c] = connection_events(peer_eof[c], Len(output[c])) /\ ~Needs(c)
<1>1. c # cur
  <2> SUFFICES ASSUME c = cur PROVE FALSE
    OBVIOUS
  <2>1. batch # <<>> /\ cur = Head(batch).src
    BY EpollAssumption DEF IndInv, ShapeInv
  <2>2. batch \in Seq(Events) /\ Distinct(Srcs(batch))
    BY DEF IndInv, TypeOK, ListInv, Events
  <2>3. On(Srcs(batch), Head(batch).src)
    BY <2>1, <2>2, SrcsIs, TailIs
  <2> QED
    BY <2>1, <2>3 DEF Pending
<1> QED
  BY <1>1 DEF IndInv, InterestInv, WakeInv

\* An edge adds at most the connection it happens on.
LEMMA EdgeIs ==
  ASSUME IndInv, NEW c \in Clients, NEW flags, Edge(c, flags)
  PROVE  /\ rdlist' \in Seq(Sources) /\ Distinct(rdlist')
         /\ \A x : On(rdlist', x) <=>
              \/ On(rdlist, x)
              \/ x = c /\ status[c] = "open" /\ flags \cap (interest[c] \cup {"ERR", "HUP"}) # {}
<1>1. rdlist \in Seq(Sources) /\ Distinct(rdlist) /\ c \in Sources
  BY DEF IndInv, TypeOK, ListInv, Sources
<1>2. CASE status[c] = "open" /\ flags \cap (interest[c] \cup {"ERR", "HUP"}) # {}
  <2>1. rdlist' = Enlist(rdlist, c)
    BY <1>2 DEF Edge
  <2> QED
    BY <1>1, <1>2, <2>1, EnlistIs, ZenonT(40)
<1>3. CASE ~(status[c] = "open" /\ flags \cap (interest[c] \cup {"ERR", "HUP"}) # {})
  <2>1. rdlist' = rdlist
    BY <1>3 DEF Edge
  <2> QED
    BY <1>1, <1>3, <2>1
<1> QED
  BY <1>2, <1>3

\* A client's step keeps the invariant if what it gives the server to do makes
\* an edge.
LEMMA ClientKeeps ==
  ASSUME IndInv, NEW c \in Clients, NEW flags, Edge(c, flags),
         UNCHANGED <<acceptq, rcvd, interest, connVars, loopVars>>,
         sent' \in [Clients -> 0..MaxSend], shut' \in [Clients -> BOOLEAN],
         rst' \in [Clients -> BOOLEAN], tx' \in [Clients -> 0..SockBuf],
         \A d \in Clients : d # c =>
           sent'[d] = sent[d] /\ shut'[d] = shut[d] /\ rst'[d] = rst[d] /\ tx'[d] = tx[d],
         sent'[c] >= sent[c], shut[c] => shut'[c] /\ sent'[c] = sent[c],
         status[c] = "open" /\ ~Pending(c) /\ Needs(c)' =>
           flags \cap (interest[c] \cup {"ERR", "HUP"}) # {}
  PROVE  IndInv'
<1>u. /\ UNCHANGED <<acceptq, rcvd, interest, status, output, peer_eof, echoed>>
      /\ UNCHANGED <<pc, batch, cur, ev, buf, ret>>
  BY DEF connVars, loopVars
<1>1. /\ rdlist' \in Seq(Sources) /\ Distinct(rdlist')
      /\ \A x : On(rdlist', x) <=>
           \/ On(rdlist, x)
           \/ x = c /\ status[c] = "open" /\ flags \cap (interest[c] \cup {"ERR", "HUP"}) # {}
  BY EdgeIs
<1>2. \A x : Pending(x)' <=>
        \/ Pending(x)
        \/ x = c /\ status[c] = "open" /\ flags \cap (interest[c] \cup {"ERR", "HUP"}) # {}
  BY <1>1, <1>u DEF Pending
<1>3. TypeOK'
  BY <1>1, <1>u DEF IndInv, TypeOK
<1>4. ShapeInv'
  BY <1>u DEF IndInv, ShapeInv
<1>5. ListInv'
  BY <1>1, <1>2, <1>u DEF IndInv, ListInv
<1>6. InputInv' /\ FlowInv'
  <2>1. \A d \in Clients : rcvd[d] \in Nat /\ sent[d] \in Nat /\ sent'[d] \in Nat
    BY DEF IndInv, TypeOK
  <2>2. \A d \in Clients : sent'[d] >= sent[d] /\ (shut[d] => shut'[d] /\ sent'[d] = sent[d])
    BY <2>1
  <2>3. \A d \in Clients : rcvd[d] <= sent[d] /\ (peer_eof[d] => shut[d] /\ rcvd[d] = sent[d])
    BY DEF IndInv, InputInv
  <2>4. InputInv'
    BY <1>u, <2>1, <2>2, <2>3 DEF InputInv
  <2>5. FlowInv'
    BY <1>u, FlowFrame DEF IndInv
  <2> QED
    BY <2>4, <2>5
<1>7. InterestInv'
  BY <1>u DEF IndInv, InterestInv
<1>8. WakeInv'
  <2>1. \A d \in Clients : d # c => (Needs(d)' <=> Needs(d))
    BY <1>u DEF Needs, Available
  <2> QED
    BY <1>2, <1>u, <2>1 DEF IndInv, WakeInv
<1> QED
  BY <1>3, <1>4, <1>5, <1>6, <1>7, <1>8 DEF IndInv

LEMMA SendKeeps == ASSUME IndInv, NEW c \in Clients, Send(c) PROVE IndInv'
<1>1. /\ Edge(c, {"IN"}) /\ UNCHANGED <<acceptq, rcvd, interest, connVars, loopVars>>
      /\ UNCHANGED <<shut, rst, tx>> /\ sent' = [sent EXCEPT ![c] = @ + 1]
      /\ ~shut[c] /\ ~rst[c] /\ sent[c] < MaxSend
  BY DEF Send, kernelVars
<1>2. sent \in [Clients -> 0..MaxSend] /\ MaxSend \in Nat /\ shut \in [Clients -> BOOLEAN]
      /\ rst \in [Clients -> BOOLEAN] /\ tx \in [Clients -> 0..SockBuf]
  BY EpollAssumption DEF IndInv, TypeOK
<1>3. sent' \in [Clients -> 0..MaxSend] /\ sent'[c] >= sent[c] /\ \A d \in Clients : d # c => sent'[d] = sent[d]
  BY <1>1, <1>2
<1>4. ASSUME status[c] = "open", ~Pending(c) PROVE "IN" \in interest[c]
  <2>1. interest[c] = connection_events(peer_eof[c], Len(output[c]))
    BY <1>4, Idle
  <2>2. ~peer_eof[c]
    BY <1>1 DEF IndInv, InputInv
  <2> QED
    BY <2>1, <2>2 DEF connection_events
<1> QED
  BY <1>1, <1>2, <1>3, <1>4, ClientKeeps

LEMMA ShutdownKeeps == ASSUME IndInv, NEW c \in Clients, Shutdown(c) PROVE IndInv'
<1>1. /\ Edge(c, {"IN", "RDHUP"}) /\ UNCHANGED <<acceptq, rcvd, interest, connVars, loopVars>>
      /\ UNCHANGED <<sent, rst, tx>> /\ shut' = [shut EXCEPT ![c] = TRUE] /\ ~shut[c]
  BY DEF Shutdown, kernelVars
<1>2. sent \in [Clients -> 0..MaxSend] /\ MaxSend \in Nat /\ shut \in [Clients -> BOOLEAN]
      /\ rst \in [Clients -> BOOLEAN] /\ tx \in [Clients -> 0..SockBuf]
  BY EpollAssumption DEF IndInv, TypeOK
<1>3. shut' \in [Clients -> BOOLEAN] /\ \A d \in Clients : d # c => shut'[d] = shut[d]
  BY <1>1, <1>2
<1>4. ASSUME status[c] = "open", ~Pending(c) PROVE "IN" \in interest[c]
  <2>1. interest[c] = connection_events(peer_eof[c], Len(output[c]))
    BY <1>4, Idle
  <2>2. ~peer_eof[c]
    BY <1>1 DEF IndInv, InputInv
  <2> QED
    BY <2>1, <2>2 DEF connection_events
<1>5. sent'[c] >= sent[c]
  BY <1>1, <1>2
<1> QED
  BY <1>1, <1>2, <1>3, <1>4, <1>5, ClientKeeps

LEMMA ResetKeeps == ASSUME IndInv, NEW c \in Clients, Reset(c) PROVE IndInv'
<1>1. /\ Edge(c, {"ERR", "HUP"}) /\ UNCHANGED <<acceptq, rcvd, interest, connVars, loopVars>>
      /\ UNCHANGED <<sent, shut>> /\ rst' = [rst EXCEPT ![c] = TRUE] /\ tx' = [tx EXCEPT ![c] = 0]
  BY DEF Reset
<1>2. sent \in [Clients -> 0..MaxSend] /\ MaxSend \in Nat /\ shut \in [Clients -> BOOLEAN]
      /\ rst \in [Clients -> BOOLEAN] /\ tx \in [Clients -> 0..SockBuf] /\ SockBuf \in Nat
  BY EpollAssumption DEF IndInv, TypeOK
<1>3. /\ rst' \in [Clients -> BOOLEAN] /\ tx' \in [Clients -> 0..SockBuf] /\ sent'[c] >= sent[c]
      /\ \A d \in Clients : d # c => rst'[d] = rst[d] /\ tx'[d] = tx[d]
  BY <1>1, <1>2
<1>4. {"ERR", "HUP"} \cap (interest[c] \cup {"ERR", "HUP"}) # {}
  OBVIOUS
<1> QED
  BY <1>1, <1>2, <1>3, <1>4, ClientKeeps

LEMMA ReceiveKeeps == ASSUME IndInv, NEW c \in Clients, Receive(c) PROVE IndInv'
<1> DEFINE flags == IF tx[c] = SockBuf THEN {"OUT"} ELSE {}
<1>1. /\ Edge(c, flags) /\ UNCHANGED <<acceptq, rcvd, interest, connVars, loopVars>>
      /\ UNCHANGED <<sent, shut, rst>> /\ tx[c] > 0 /\ tx' = [tx EXCEPT ![c] = @ - 1]
  BY DEF Receive, clientVars
<1>2. sent \in [Clients -> 0..MaxSend] /\ MaxSend \in Nat /\ shut \in [Clients -> BOOLEAN]
      /\ rst \in [Clients -> BOOLEAN] /\ tx \in [Clients -> 0..SockBuf] /\ SockBuf \in Nat
  BY EpollAssumption DEF IndInv, TypeOK
<1>3. /\ tx' \in [Clients -> 0..SockBuf] /\ sent'[c] >= sent[c]
      /\ \A d \in Clients : d # c => tx'[d] = tx[d]
  BY <1>1, <1>2
<1>4. ASSUME status[c] = "open", ~Pending(c), Needs(c)'
      PROVE  flags \cap (interest[c] \cup {"ERR", "HUP"}) # {}
  <2>1. interest[c] = connection_events(peer_eof[c], Len(output[c])) /\ ~Needs(c)
    BY <1>4, Idle
  <2>2. output[c] # <<>> /\ ~(tx[c] < SockBuf)
    BY <1>1, <1>4, <2>1 DEF Needs, Available, connVars
  <2>3. Len(output[c]) > 0
    <3>1. output[c] \in Seq(1..MaxSend)
      BY DEF IndInv, TypeOK
    <3> QED
      BY <2>2, <3>1, EmptySeq, LenProperties
  <2>4. tx[c] = SockBuf
    BY <1>2, <2>2
  <2> QED
    BY <2>1, <2>3, <2>4 DEF connection_events
<1> HIDE DEF flags
<1> QED
  BY <1>1, <1>2, <1>3, <1>4, ClientKeeps


LEMMA ConnectKeeps == ASSUME IndInv, NEW c \in Clients, Connect(c) PROVE IndInv'
<1>u. /\ UNCHANGED <<sent, shut, rst, rcvd, tx, interest, status, output, peer_eof, echoed>>
      /\ UNCHANGED <<pc, batch, cur, ev, buf, ret>>
  BY DEF Connect, clientVars, connVars, loopVars
<1>1. /\ acceptq \in Seq(Clients) /\ Distinct(acceptq) /\ rdlist \in Seq(Sources) /\ Distinct(rdlist)
      /\ Listen \in Sources /\ Listen \notin Clients
  BY EpollAssumption DEF IndInv, TypeOK, ListInv, Sources
<1>2. status[c] = "none" /\ ~On(acceptq, c)
  BY <1>1, LenProperties DEF Connect, Queued, On
<1>3. acceptq' = Enlist(acceptq, c) /\ rdlist' = Enlist(rdlist, Listen)
  BY <1>1, <1>2, EnlistIs DEF Connect
<1>4. /\ acceptq' \in Seq(Clients) /\ Distinct(acceptq')
      /\ \A x : On(acceptq', x) <=> On(acceptq, x) \/ x = c
  BY <1>1, <1>3, EnlistIs
<1>5. /\ rdlist' \in Seq(Sources) /\ Distinct(rdlist')
      /\ \A x : On(rdlist', x) <=> On(rdlist, x) \/ x = Listen
  BY <1>1, <1>3, EnlistIs
<1>6. \A x : Pending(x)' <=> Pending(x) \/ x = Listen
  BY <1>5, <1>u DEF Pending
<1>7. TypeOK'
  BY <1>4, <1>5, <1>u DEF IndInv, TypeOK
<1>8. ShapeInv' /\ InputInv' /\ InterestInv'
  BY <1>u DEF IndInv, ShapeInv, InputInv, InterestInv
<1>9. ListInv'
  BY <1>1, <1>2, <1>4, <1>5, <1>6, <1>u DEF IndInv, ListInv
<1>10. FlowInv'
  BY <1>u, FlowFrame DEF IndInv
<1>11. WakeInv'
  <2>1. \A d \in Clients : Needs(d)' <=> Needs(d)
    BY <1>u DEF Needs, Available
  <2> QED
    BY <1>6, <1>u, <2>1 DEF IndInv, WakeInv
<1> QED
  BY <1>7, <1>8, <1>9, <1>10, <1>11 DEF IndInv

\* The end of the process.
LEMMA StopKeeps == ASSUME IndInv, Stop PROVE IndInv'
<1>u. UNCHANGED <<sent, shut, rst, rcvd, tx, interest, output, peer_eof, echoed, buf, ret>>
  BY DEF Stop, clientVars
<1>1. /\ pc' = "stopped" /\ batch' = <<>> /\ cur' = NoClient /\ ev' = {} /\ acceptq' = <<>> /\ rdlist' = <<>>
      /\ status' = [c \in Clients |-> IF Connected(c) THEN "aborted" ELSE status[c]]
  BY DEF Stop
<1>2. <<>> \in Seq(Clients) /\ <<>> \in Seq(Sources) /\ <<>> \in Seq(Events)
  BY EmptySeq
<1>3. \A c \in Clients : status'[c] # "open" /\ (status'[c] = "none" => status[c] = "none")
  BY <1>1 DEF Connected
<1>4. TypeOK'
  <2>1. status' \in [Clients -> {"none", "open", "done", "aborted"}]
    BY <1>1 DEF IndInv, TypeOK
  <2> QED
    BY <1>1, <1>2, <1>u, <2>1 DEF IndInv, TypeOK, Events
<1>5. ShapeInv'
  BY <1>1 DEF ShapeInv, Handling
<1>6. ListInv'
  BY <1>1, EmptyList DEF ListInv, Pending
<1>7. InputInv'
  BY <1>u DEF IndInv, InputInv
<1>8. FlowInv'
  <2>1. \A c \in Clients : FlowAt(c)'
    BY <1>3, <1>u DEF IndInv, FlowInv, FlowAt, Flow
  <2> QED
    BY <1>1, <2>1 DEF FlowInv
<1>9. InterestInv' /\ WakeInv'
  BY <1>1, <1>3 DEF InterestInv, WakeInv
<1> QED
  BY <1>4, <1>5, <1>6, <1>7, <1>8, <1>9 DEF IndInv

\* Only the connection of the first event can be in hand.
LEMMA InHandIs ==
  ASSUME IndInv, batch # <<>>, NEW d \in Clients, d # Head(batch).src
  PROVE  d # cur /\ InHand(d) = 0
  BY EpollAssumption DEF IndInv, ShapeInv, InHand, Handling

\* On to the next event.
LEMMA Advance ==
  ASSUME IndInv, batch # <<>>, NextEvent
  PROVE  /\ batch' \in Seq(Events) /\ Distinct(Srcs(batch'))
         /\ \A x : On(Srcs(batch'), x) <=> On(Srcs(batch), x) /\ x # Head(batch).src
         /\ pc' = "next" /\ cur' = NoClient /\ ev' = {} /\ buf' = <<>> /\ ret' = "read"
         /\ ShapeInv' /\ \A d \in Clients : InHand(d)' = 0
<1>1. /\ pc' = "next" /\ batch' = Tail(batch)
      /\ cur' = NoClient /\ ev' = {} /\ buf' = <<>> /\ ret' = "read"
  BY DEF NextEvent
<1>2. batch \in Seq(Events) /\ Distinct(Srcs(batch))
  BY DEF IndInv, TypeOK, ListInv, Events
<1>3. /\ Srcs(batch) \in Seq(Sources) /\ Srcs(batch) # <<>> /\ Head(Srcs(batch)) = Head(batch).src
      /\ batch' \in Seq(Events) /\ Srcs(batch') = Tail(Srcs(batch))
  BY <1>1, <1>2, SrcsIs
<1>4. Distinct(Srcs(batch')) /\ \A x : On(Srcs(batch'), x) <=> On(Srcs(batch), x) /\ x # Head(batch).src
  BY <1>2, <1>3, TailIs
<1> QED
  BY <1>1, <1>3, <1>4 DEF ShapeInv, Handling, InHand

\* The connection of the first event is closed, and the loop goes on.
LEMMA CloseKeeps ==
  ASSUME IndInv, NEW c \in Clients, NEW how \in {"done", "aborted"}, batch # <<>>, c = Head(batch).src,
         close_connection(c, how), NextEvent
  PROVE  IndInv'
<1>u. UNCHANGED <<sent, shut, rst, acceptq, rcvd, tx, peer_eof, echoed>>
  BY DEF close_connection, clientVars, kernelVars
<1>1. /\ status' = [status EXCEPT ![c] = how] /\ interest' = [interest EXCEPT ![c] = {}]
      /\ output' = [output EXCEPT ![c] = <<>>] /\ rdlist' = Delist(rdlist, c)
  BY DEF close_connection
<1>2. /\ batch' \in Seq(Events) /\ Distinct(Srcs(batch'))
      /\ \A x : On(Srcs(batch'), x) <=> On(Srcs(batch), x) /\ x # c
      /\ pc' = "next" /\ cur' = NoClient /\ ev' = {} /\ buf' = <<>> /\ ret' = "read"
      /\ ShapeInv' /\ \A d \in Clients : InHand(d)' = 0
  BY Advance
<1>3. rdlist \in Seq(Sources) /\ Distinct(rdlist)
  BY DEF IndInv, TypeOK, ListInv
<1>4. rdlist' \in Seq(Sources) /\ Distinct(rdlist') /\ \A x : On(rdlist', x) <=> On(rdlist, x) /\ x # c
  BY <1>1, <1>3, DelistIs
<1>5. \A x : Pending(x)' <=> Pending(x) /\ x # c
  BY <1>2, <1>4 DEF Pending
<1>6. status[c] = "open"
  <2>1. batch \in Seq(Events) /\ Distinct(Srcs(batch))
    BY DEF IndInv, TypeOK, ListInv, Events
  <2>2. On(Srcs(batch), c)
    BY <2>1, SrcsIs, TailIs
  <2> QED
    BY <2>2 DEF IndInv, ListInv, Pending
<1>7. /\ status \in [Clients -> {"none", "open", "done", "aborted"}]
      /\ output \in [Clients -> Seq(1..MaxSend)] /\ interest \in [Clients -> SUBSET Flags]
  BY DEF IndInv, TypeOK
<1>8. \A d \in Clients : d # c => status'[d] = status[d] /\ output'[d] = output[d] /\ interest'[d] = interest[d]
  BY <1>1, <1>7
<1>9. status'[c] = how /\ output'[c] = <<>>
  BY <1>1, <1>7
<1>10. TypeOK'
  <2>1. <<>> \in Seq(1..MaxSend)
    BY EmptySeq
  <2>2. /\ status' \in [Clients -> {"none", "open", "done", "aborted"}]
        /\ output' \in [Clients -> Seq(1..MaxSend)] /\ interest' \in [Clients -> SUBSET Flags]
    BY <1>1, <1>7, <2>1
  <2> QED
    BY <1>2, <1>4, <1>u, <2>1, <2>2 DEF IndInv, TypeOK, Events
<1>11. ListInv'
  <2>1. \A d \in Clients : Pending(d)' => status'[d] = "open"
    BY <1>5, <1>8 DEF IndInv, ListInv
  <2>2. \A d \in Clients : On(acceptq', d) => status'[d] = "none"
    BY <1>6, <1>8, <1>u DEF IndInv, ListInv
  <2> QED
    BY <1>2, <1>4, <1>u, <2>1, <2>2 DEF IndInv, ListInv
<1>12. InputInv'
  BY <1>u DEF IndInv, InputInv
<1>13. FlowInv'
  <2>1. ASSUME NEW d \in Clients PROVE FlowAt(d)'
    <3>1. CASE d = c
      <4>1. status'[d] # "none" /\ status'[d] # "open" /\ output'[d] = <<>> /\ 1..Len(<<>>) = {}
        BY <1>9, <3>1
      <4> QED
        BY <4>1 DEF FlowAt, Flow
    <3>2. CASE d # c
      <4>1. InHand(d) = 0 /\ FlowAt(d)
        BY <3>2, InHandIs DEF IndInv, FlowInv
      <4> QED
        BY <1>2, <1>8, <1>u, <3>2, <4>1 DEF FlowAt
    <3> QED
      BY <3>1, <3>2
  <2> QED
    BY <1>2, <2>1 DEF FlowInv
<1>14. InterestInv'
  <2> SUFFICES ASSUME NEW d \in Clients, status'[d] = "open"
               PROVE  interest'[d] = connection_events(peer_eof'[d], Len(output'[d]))
    BY DEF InterestInv
  <2>1. d # c
    BY <1>9
  <2>2. d # cur
    BY <2>1, InHandIs
  <2> QED
    BY <1>8, <1>u, <2>1, <2>2 DEF IndInv, InterestInv
<1>15. WakeInv'
  <2>1. \A d \in Clients : d # c => (Needs(d)' <=> Needs(d))
    BY <1>8, <1>u DEF Needs, Available
  <2>2. Listen # c
    BY EpollAssumption
  <2> QED
    BY <1>5, <1>8, <1>9, <1>u, <2>1, <2>2 DEF IndInv, WakeInv
<1> QED
  BY <1>2, <1>10, <1>11, <1>12, <1>13, <1>14, <1>15 DEF IndInv


\* The positions of the loop.
Labels == {"wait", "next", "accept", "read", "append", "flush", "finish", "stopped"}

\* A step within the loop that touches no descriptor and no byte.
LEMMA MoveKeeps ==
  ASSUME IndInv, UNCHANGED <<clientVars, kernelVars, epollVars, connVars, batch, buf>>,
         pc # "append", pc' \in Labels \ {"append"}, cur' \in Clients \cup {NoClient},
         cur' = cur \/ cur = NoClient, ev' \subseteq Flags, ret' \in {"read", "finish"}, ShapeInv'
  PROVE  IndInv'
<1>u. UNCHANGED <<sent, shut, rst, acceptq, rcvd, tx, rdlist, interest, status, output, peer_eof, echoed,
                  batch, buf>>
  BY DEF clientVars, kernelVars, epollVars, connVars
<1>1. TypeOK'
  BY <1>u DEF IndInv, TypeOK, Labels
<1>2. \A x : Pending(x)' <=> Pending(x)
  BY <1>u DEF Pending
<1>3. ListInv'
  BY <1>2, <1>u DEF IndInv, ListInv
<1>4. InputInv'
  BY <1>u DEF IndInv, InputInv
<1>5. FlowInv'
  <2>1. \A c \in Clients : FlowAt(c)' <=> FlowAt(c)
    BY <1>u DEF FlowAt, InHand
  <2> QED
    BY <2>1 DEF IndInv, FlowInv
<1>6. InterestInv'
  <2>1. \A c \in Clients : c # cur' => c # cur
    BY EpollAssumption
  <2> QED
    BY <1>u, <2>1 DEF IndInv, InterestInv
<1>7. WakeInv'
  <2>1. \A d \in Clients : Needs(d)' <=> Needs(d)
    BY <1>u DEF Needs, Available
  <2> QED
    BY <1>2, <1>u, <2>1 DEF IndInv, WakeInv
<1> QED
  BY <1>1, <1>3, <1>4, <1>5, <1>6, <1>7 DEF IndInv

LEMMA BatchDoneKeeps == ASSUME IndInv, BatchDone PROVE IndInv'
<1>1. /\ pc = "next" /\ batch = <<>> /\ pc' = "wait" /\ UNCHANGED <<batch, cur, ev, buf, ret>>
      /\ UNCHANGED <<clientVars, kernelVars, epollVars, connVars, batch, buf>>
  BY DEF BatchDone, Goto
<1>2. cur = NoClient
  BY <1>1 DEF IndInv, ShapeInv, Handling
<1>3. ShapeInv'
  BY <1>1, <1>2 DEF ShapeInv, Handling
<1>4. ev \subseteq Flags /\ ret \in {"read", "finish"}
  BY DEF IndInv, TypeOK
<1> QED
  BY <1>1, <1>2, <1>3, <1>4, MoveKeeps DEF Labels

LEMMA DispatchListenKeeps == ASSUME IndInv, DispatchListen PROVE IndInv'
<1>1. /\ pc = "next" /\ batch # <<>> /\ Head(batch).src = Listen /\ pc' = "accept"
      /\ UNCHANGED <<batch, cur, ev, buf, ret>>
      /\ UNCHANGED <<clientVars, kernelVars, epollVars, connVars, batch, buf>>
  BY DEF DispatchListen, AtListen, event, Goto
<1>2. cur = NoClient
  BY <1>1 DEF IndInv, ShapeInv, Handling
<1>3. ShapeInv'
  BY <1>1, <1>2 DEF ShapeInv, Handling
<1>4. ev \subseteq Flags /\ ret \in {"read", "finish"}
  BY DEF IndInv, TypeOK
<1> QED
  BY <1>1, <1>2, <1>3, <1>4, MoveKeeps DEF Labels

LEMMA DispatchKeeps == ASSUME IndInv, Dispatch PROVE IndInv'
<1>1. /\ pc = "next" /\ batch # <<>> /\ Head(batch).src # Listen
      /\ cur' = Head(batch).src /\ ev' = Head(batch).events /\ UNCHANGED batch
      /\ pc' \in {"read", "flush"} /\ ret' \in {"read", "finish"}
      /\ UNCHANGED <<clientVars, kernelVars, epollVars, connVars, batch, buf>>
  BY DEF Dispatch, AtClient, event
<1>2. cur = NoClient
  BY <1>1 DEF IndInv, ShapeInv, Handling
<1>3. batch \in Seq(Events)
  BY DEF IndInv, TypeOK, Events
<1>4. Head(batch) \in Events
  BY <1>1, <1>3, SrcsIs
<1>5. cur' \in Clients /\ ev' \subseteq Flags
  BY <1>1, <1>4 DEF Events, Sources
<1>6. ShapeInv'
  BY <1>1, <1>5 DEF ShapeInv, Handling
<1> QED
  BY <1>1, <1>2, <1>5, <1>6, MoveKeeps DEF Labels

LEMMA FlushReturnsKeeps == ASSUME IndInv, FlushReturns PROVE IndInv'
<1>1. /\ pc = "flush" /\ pc' = ret /\ UNCHANGED <<batch, cur, ev, buf, ret>>
      /\ UNCHANGED <<clientVars, kernelVars, epollVars, connVars, batch, buf>>
  BY DEF FlushReturns, Goto
<1>2. ev \subseteq Flags /\ ret \in {"read", "finish"} /\ cur \in Clients \cup {NoClient}
  BY DEF IndInv, TypeOK
<1>3. ShapeInv'
  BY <1>1, <1>2 DEF IndInv, ShapeInv, Handling
<1> QED
  BY <1>1, <1>2, <1>3, MoveKeeps DEF Labels

\* EPOLL_CTL_ADD and _MOD add at most the connection they register.
LEMMA RegisterIs ==
  ASSUME IndInv, NEW c \in Clients, NEW events, Register(c, events)
  PROVE  /\ interest' = [interest EXCEPT ![c] = events] /\ rdlist' \in Seq(Sources) /\ Distinct(rdlist')
         /\ \A x : On(rdlist', x) <=>
              On(rdlist, x) \/ (x = c /\ Poll(c) \cap (events \cup {"ERR", "HUP"}) # {})
<1>1. rdlist \in Seq(Sources) /\ Distinct(rdlist) /\ c \in Sources
  BY DEF IndInv, TypeOK, ListInv, Sources
<1>2. interest' = [interest EXCEPT ![c] = events]
  BY DEF Register
<1>3. CASE Poll(c) \cap (events \cup {"ERR", "HUP"}) # {}
  <2>1. rdlist' = Enlist(rdlist, c)
    BY <1>3 DEF Register
  <2> QED
    BY <1>1, <1>2, <1>3, <2>1, EnlistIs
<1>4. CASE ~(Poll(c) \cap (events \cup {"ERR", "HUP"}) # {})
  <2>1. rdlist' = rdlist
    BY <1>4 DEF Register
  <2> QED
    BY <1>1, <1>2, <1>4, <2>1
<1> QED
  BY <1>3, <1>4

\* The events a connection is registered for show that it needs the server.
LEMMA PollSees ==
  ASSUME IndInv, NEW c \in Clients, Needs(c)
  PROVE  Poll(c) \cap (connection_events(peer_eof[c], Len(output[c])) \cup {"ERR", "HUP"}) # {}
<1>1. rcvd[c] \in Nat /\ sent[c] \in Nat /\ output[c] \in Seq(1..MaxSend)
  BY DEF IndInv, TypeOK
<1>2. Available(c) > 0 => ~peer_eof[c]
  BY <1>1 DEF IndInv, InputInv, Available
<1>3. CASE rst[c]
  BY <1>3 DEF Poll
<1>4. CASE Available(c) > 0 \/ (shut[c] /\ ~peer_eof[c])
  BY <1>2, <1>4 DEF Poll, connection_events
<1>5. CASE output[c] # <<>> /\ tx[c] < SockBuf
  <2>1. Len(output[c]) > 0
    BY <1>1, <1>5, EmptySeq, LenProperties
  <2> QED
    BY <1>5, <2>1 DEF Poll, connection_events
<1> QED
  BY <1>3, <1>4, <1>5 DEF Needs

\* The listening socket has been drained.
LEMMA AcceptAgainKeeps == ASSUME IndInv, AcceptAgain PROVE IndInv'
<1>u. UNCHANGED <<sent, shut, rst, acceptq, rcvd, tx, rdlist, interest, status, output, peer_eof, echoed>>
  BY DEF AcceptAgain, clientVars, kernelVars, epollVars, connVars
<1>1. pc = "accept" /\ acceptq = <<>> /\ NextEvent /\ batch # <<>> /\ Head(batch).src = Listen
  BY DEF AcceptAgain, IndInv, ShapeInv
<1>2. /\ batch' \in Seq(Events) /\ Distinct(Srcs(batch'))
      /\ \A x : On(Srcs(batch'), x) <=> On(Srcs(batch), x) /\ x # Listen
      /\ pc' = "next" /\ cur' = NoClient /\ ev' = {} /\ buf' = <<>> /\ ret' = "read"
      /\ ShapeInv' /\ \A d \in Clients : InHand(d)' = 0
  BY <1>1, Advance
<1>3. \A d \in Clients : Pending(d)' <=> Pending(d)
  BY <1>2, <1>u, EpollAssumption DEF Pending
<1>4. TypeOK'
  <2>1. <<>> \in Seq(1..MaxSend)
    BY EmptySeq
  <2> QED
    BY <1>2, <1>u, <2>1 DEF IndInv, TypeOK, Events
<1>5. ListInv'
  BY <1>2, <1>3, <1>u DEF IndInv, ListInv
<1>6. InputInv'
  BY <1>u DEF IndInv, InputInv
<1>7. FlowInv'
  <2>1. \A d \in Clients : FlowAt(d)' <=> FlowAt(d)
    <3>1. \A d \in Clients : InHand(d) = 0
      BY <1>1 DEF InHand
    <3> QED
      BY <1>2, <1>u, <3>1 DEF FlowAt
  <2> QED
    BY <1>2, <2>1 DEF IndInv, FlowInv
<1>8. InterestInv'
  <2>1. cur = NoClient
    BY <1>1 DEF IndInv, ShapeInv, Handling
  <2> QED
    BY <1>2, <1>u, <2>1 DEF IndInv, InterestInv
<1>9. WakeInv'
  <2>1. \A d \in Clients : Needs(d)' <=> Needs(d)
    BY <1>u DEF Needs, Available
  <2> QED
    BY <1>1, <1>3, <1>u, <2>1 DEF IndInv, WakeInv
<1> QED
  BY <1>2, <1>4, <1>5, <1>6, <1>7, <1>8, <1>9 DEF IndInv


\* The first connection of the accept queue.
LEMMA QueueIs ==
  ASSUME IndInv, acceptq # <<>>
  PROVE  /\ Head(acceptq) \in Clients /\ status[Head(acceptq)] = "none"
         /\ Tail(acceptq) \in Seq(Clients) /\ Distinct(Tail(acceptq))
         /\ \A x : On(Tail(acceptq), x) <=> On(acceptq, x) /\ x # Head(acceptq)
<1>1. acceptq \in Seq(Clients) /\ Distinct(acceptq)
  BY DEF IndInv, TypeOK, ListInv
<1>2. /\ Tail(acceptq) \in Seq(Clients) /\ Distinct(Tail(acceptq))
      /\ Head(acceptq) \in Clients /\ On(acceptq, Head(acceptq))
      /\ \A x : On(Tail(acceptq), x) <=> On(acceptq, x) /\ x # Head(acceptq)
  BY <1>1, TailIs
<1> QED
  BY <1>2 DEF IndInv, ListInv

\* The listening socket is in hand as long as its queue is drained.
LEMMA ListenInHand ==
  ASSUME IndInv, pc = "accept"
  PROVE  On(Srcs(batch), Listen) /\ cur = NoClient
<1>1. batch # <<>> /\ Head(batch).src = Listen /\ cur = NoClient
  BY DEF IndInv, ShapeInv, Handling
<1>2. batch \in Seq(Events) /\ Distinct(Srcs(batch))
  BY DEF IndInv, TypeOK, ListInv, Events
<1> QED
  BY <1>1, <1>2, SrcsIs, TailIs

LEMMA AcceptKeeps == ASSUME IndInv, Accept PROVE IndInv'
<1>c. PICK c : c = Head(acceptq)
  OBVIOUS
<1>u. /\ UNCHANGED <<sent, shut, rst, rcvd, tx, output, peer_eof, echoed>>
      /\ UNCHANGED <<pc, batch, cur, ev, buf, ret>>
  BY DEF Accept, AfterAccept, clientVars, loopVars
<1>1. /\ pc = "accept" /\ acceptq # <<>> /\ acceptq' = Tail(acceptq)
      /\ status' = [status EXCEPT ![c] = "open"] /\ Register(c, connection_events(FALSE, 0))
  BY <1>c DEF Accept
<1>2. /\ c \in Clients /\ status[c] = "none" /\ acceptq' \in Seq(Clients) /\ Distinct(acceptq')
      /\ \A x : On(acceptq', x) <=> On(acceptq, x) /\ x # c
  BY <1>1, <1>c, QueueIs
<1>3. On(Srcs(batch), Listen) /\ cur = NoClient
  BY <1>1, ListenInHand
<1> DEFINE events == connection_events(FALSE, 0)
<1>4. /\ interest' = [interest EXCEPT ![c] = events] /\ rdlist' \in Seq(Sources) /\ Distinct(rdlist')
      /\ \A x : On(rdlist', x) <=>
           On(rdlist, x) \/ (x = c /\ Poll(c) \cap (events \cup {"ERR", "HUP"}) # {})
  <2> HIDE DEF events
  <2> QED
    BY <1>1, <1>2, RegisterIs DEF events
<1>5. /\ status \in [Clients -> {"none", "open", "done", "aborted"}]
      /\ interest \in [Clients -> SUBSET Flags]
  BY DEF IndInv, TypeOK
<1>6. /\ \A d \in Clients : d # c => status'[d] = status[d] /\ interest'[d] = interest[d]
      /\ status'[c] = "open" /\ interest'[c] = events
  BY <1>1, <1>2, <1>4, <1>5
<1>7. rcvd[c] = 0 /\ ~peer_eof[c] /\ output[c] = <<>> /\ echoed[c] = <<>> /\ Len(<<>>) = 0
  BY <1>2 DEF IndInv, FlowInv, FlowAt, Flow
<1>8. events = connection_events(peer_eof[c], Len(output[c]))
  BY <1>7 DEF connection_events
<1>9. TypeOK'
  <2>1. events \subseteq Flags
    BY DEF connection_events, Flags
  <2>2. /\ status' \in [Clients -> {"none", "open", "done", "aborted"}]
        /\ interest' \in [Clients -> SUBSET Flags]
    BY <1>1, <1>2, <1>4, <1>5, <2>1
  <2> QED
    BY <1>2, <1>4, <1>u, <2>2 DEF IndInv, TypeOK
<1> HIDE DEF events
<1>10. ShapeInv' /\ InputInv'
  BY <1>u DEF IndInv, ShapeInv, InputInv
<1>11. \A x : Pending(x)' <=> Pending(x) \/ (x = c /\ Poll(c) \cap (events \cup {"ERR", "HUP"}) # {})
  BY <1>4, <1>u DEF Pending
<1>12. ListInv'
  <2>1. \A d \in Clients : Pending(d)' => status'[d] = "open"
    BY <1>6, <1>11 DEF IndInv, ListInv
  <2>2. \A d \in Clients : On(acceptq', d) => status'[d] = "none"
    BY <1>2, <1>6 DEF IndInv, ListInv
  <2> QED
    BY <1>2, <1>4, <1>u, <2>1, <2>2 DEF IndInv, ListInv
<1>13. FlowInv'
  <2>1. ASSUME NEW d \in Clients PROVE FlowAt(d)'
    <3>1. InHand(d)' = 0 /\ InHand(d) = 0
      BY <1>1, <1>u DEF InHand
    <3>2. CASE d = c
      <4>1. /\ status'[d] = "open" /\ rcvd'[d] = 0 /\ output'[d] = <<>> /\ echoed'[d] = <<>>
            /\ 1..Len(<<>>) = {} /\ Len(<<>>) = 0
        BY <1>6, <1>7, <1>u, <3>2
      <4> QED
        BY <3>1, <4>1 DEF FlowAt, Flow
    <3>3. CASE d # c
      <4>1. FlowAt(d)
        BY DEF IndInv, FlowInv
      <4> QED
        BY <1>6, <1>u, <3>1, <3>3, <4>1 DEF FlowAt
    <3> QED
      BY <3>2, <3>3
  <2> QED
    BY <1>1, <1>u, <2>1 DEF FlowInv
<1>14. InterestInv'
  BY <1>3, <1>6, <1>8, <1>u, EpollAssumption DEF IndInv, InterestInv
<1>15. WakeInv'
  <2>1. \A d \in Clients : Needs(d)' <=> Needs(d)
    BY <1>u DEF Needs, Available
  <2>2. Needs(c) => Poll(c) \cap (events \cup {"ERR", "HUP"}) # {}
    BY <1>2, <1>8, PollSees
  <2>3. Pending(Listen)'
    BY <1>3, <1>u DEF Pending
  <2>4. ASSUME NEW d \in Clients, status'[d] = "open", Needs(d)' PROVE Pending(d)'
    BY <1>2, <1>6, <1>11, <2>1, <2>2, <2>4 DEF IndInv, WakeInv
  <2> QED
    BY <2>3, <2>4 DEF WakeInv
<1> QED
  BY <1>9, <1>10, <1>12, <1>13, <1>14, <1>15 DEF IndInv

LEMMA AcceptDroppedKeeps == ASSUME IndInv, AcceptDropped PROVE IndInv'
<1>c. PICK c : c = Head(acceptq)
  OBVIOUS
<1>u. /\ UNCHANGED <<sent, shut, rst, rcvd, tx, rdlist, interest, output, peer_eof, echoed>>
      /\ UNCHANGED <<pc, batch, cur, ev, buf, ret>>
  BY DEF AcceptDropped, clientVars, loopVars, epollVars
<1>1. /\ pc = "accept" /\ acceptq # <<>> /\ acceptq' = Tail(acceptq)
      /\ status' = [status EXCEPT ![c] = "aborted"]
  BY <1>c DEF AcceptDropped
<1>2. /\ c \in Clients /\ status[c] = "none" /\ acceptq' \in Seq(Clients) /\ Distinct(acceptq')
      /\ \A x : On(acceptq', x) <=> On(acceptq, x) /\ x # c
  BY <1>1, <1>c, QueueIs
<1>3. On(Srcs(batch), Listen)
  BY <1>1, ListenInHand
<1>4. status \in [Clients -> {"none", "open", "done", "aborted"}]
  BY DEF IndInv, TypeOK
<1>5. (\A d \in Clients : d # c => status'[d] = status[d]) /\ status'[c] = "aborted"
  BY <1>1, <1>2, <1>4
<1>6. TypeOK'
  <2>1. status' \in [Clients -> {"none", "open", "done", "aborted"}]
    BY <1>1, <1>2, <1>4
  <2> QED
    BY <1>2, <1>u, <2>1 DEF IndInv, TypeOK
<1>7. ShapeInv' /\ InputInv'
  BY <1>u DEF IndInv, ShapeInv, InputInv
<1>8. \A x : Pending(x)' <=> Pending(x)
  BY <1>u DEF Pending
<1>9. ListInv'
  <2>1. \A d \in Clients : Pending(d)' => status'[d] = "open"
    BY <1>2, <1>5, <1>8 DEF IndInv, ListInv
  <2>2. \A d \in Clients : On(acceptq', d) => status'[d] = "none"
    BY <1>2, <1>5 DEF IndInv, ListInv
  <2> QED
    BY <1>2, <1>u, <2>1, <2>2 DEF IndInv, ListInv
<1>10. FlowInv'
  <2>1. ASSUME NEW d \in Clients PROVE FlowAt(d)'
    <3>1. InHand(d)' = InHand(d) /\ FlowAt(d)
      BY <1>u DEF InHand, IndInv, FlowInv
    <3>2. CASE d = c
      BY <1>5, <1>u, <3>1, <3>2 DEF FlowAt, Flow
    <3>3. CASE d # c
      BY <1>5, <1>u, <3>1, <3>3 DEF FlowAt
    <3> QED
      BY <3>2, <3>3
  <2> QED
    BY <1>1, <1>u, <2>1 DEF FlowInv
<1>11. InterestInv'
  BY <1>5, <1>u DEF IndInv, InterestInv
<1>12. WakeInv'
  <2>1. \A d \in Clients : Needs(d)' <=> Needs(d)
    BY <1>u DEF Needs, Available
  <2>2. Pending(Listen)'
    BY <1>3, <1>u DEF Pending
  <2> QED
    BY <1>5, <1>8, <2>1, <2>2 DEF IndInv, WakeInv
<1> QED
  BY <1>6, <1>7, <1>9, <1>10, <1>11, <1>12 DEF IndInv


\* The connection in hand is open and at the front of the event array.
LEMMA CurIs ==
  ASSUME IndInv, pc \in Handling
  PROVE  /\ cur \in Clients /\ batch # <<>> /\ cur = Head(batch).src
         /\ On(Srcs(batch), cur) /\ status[cur] = "open"
<1>1. batch # <<>> /\ cur = Head(batch).src /\ cur \in Clients
  BY DEF IndInv, ShapeInv
<1>2. batch \in Seq(Events) /\ Distinct(Srcs(batch))
  BY DEF IndInv, TypeOK, ListInv, Events
<1>3. On(Srcs(batch), cur)
  BY <1>1, <1>2, SrcsIs, TailIs
<1> QED
  BY <1>1, <1>3 DEF IndInv, ListInv, Pending

\* A step on the connection in hand disturbs no other, and needs no wakeup.
LEMMA HandKeeps ==
  ASSUME IndInv, pc \in Handling, pc' \in Handling,
         UNCHANGED <<sent, shut, rst, acceptq, rdlist, interest, status, batch, cur>>,
         \A d \in Clients : d # cur =>
           rcvd'[d] = rcvd[d] /\ output'[d] = output[d] /\ peer_eof'[d] = peer_eof[d] /\ tx'[d] = tx[d],
         TypeOK', InputInv', FlowInv'
  PROVE  IndInv'
<1>1. cur \in Clients /\ batch # <<>> /\ cur = Head(batch).src /\ On(Srcs(batch), cur)
  BY CurIs
<1>2. ShapeInv'
  BY <1>1 DEF ShapeInv, Handling
<1>3. \A x : Pending(x)' <=> Pending(x)
  BY DEF Pending
<1>4. ListInv'
  BY <1>3 DEF IndInv, ListInv
<1>5. InterestInv'
  BY DEF IndInv, InterestInv
<1>6. WakeInv'
  <2>1. \A d \in Clients : d # cur => (Needs(d)' <=> Needs(d))
    BY DEF Needs, Available
  <2>2. Pending(cur)
    BY <1>1 DEF Pending
  <2> QED
    BY <1>3, <2>1, <2>2 DEF IndInv, WakeInv
<1> QED
  BY <1>2, <1>4, <1>5, <1>6 DEF IndInv

LEMMA ReadKeeps == ASSUME IndInv, Read PROVE IndInv'
<1>u. UNCHANGED <<sent, shut, rst, acceptq, tx, rdlist, interest, status, output, peer_eof, echoed,
                  batch, cur, ev, ret>>
  BY DEF Read, clientVars, epollVars, connVars
<1>1. pc = "read" /\ pc' = "append" /\ pc \in Handling /\ pc' \in Handling
  BY DEF Read, Handling
<1>2. PICK n \in 1..Min({READ_BUFFER_SIZE, Available(cur)}) :
        buf' = Chunk(cur, n) /\ rcvd' = [rcvd EXCEPT ![cur] = @ + n]
  BY DEF Read
<1>3. cur \in Clients /\ status[cur] = "open"
  BY <1>1, CurIs
<1>4. /\ rcvd \in [Clients -> 0..MaxSend] /\ sent \in [Clients -> 0..MaxSend] /\ MaxSend \in Nat
      /\ READ_BUFFER_SIZE \in Nat
  BY EpollAssumption DEF IndInv, TypeOK
<1>5. n \in Nat /\ n >= 1 /\ n <= Available(cur)
  <2>1. Available(cur) \in Int
    BY <1>3, <1>4 DEF Available
  <2>2. Min({READ_BUFFER_SIZE, Available(cur)}) \in Int /\ Min({READ_BUFFER_SIZE, Available(cur)}) <= Available(cur)
    BY <1>4, <2>1, MinOfTwo
  <2> QED
    BY <2>1, <2>2
<1>6. rcvd[cur] \in Nat /\ sent[cur] \in Nat /\ rcvd[cur] + n <= sent[cur] /\ sent[cur] <= MaxSend
  BY <1>3, <1>4, <1>5 DEF Available
<1>7. rcvd' \in [Clients -> 0..MaxSend] /\ rcvd'[cur] = rcvd[cur] + n
      /\ \A d \in Clients : d # cur => rcvd'[d] = rcvd[d]
  BY <1>2, <1>3, <1>4, <1>5, <1>6
<1>8. buf' \in Seq(1..MaxSend) /\ Len(buf') = n /\ \A k \in 1..n : buf'[k] = rcvd[cur] + k
  <2>1. \A k \in 1..n : rcvd[cur] + k \in 1..MaxSend
    BY <1>4, <1>5, <1>6
  <2>2. buf' = [k \in 1..n |-> rcvd[cur] + k]
    BY <1>2 DEF Chunk
  <2>3. buf' \in [1..n -> 1..MaxSend]
    BY <2>1, <2>2
  <2>4. buf' \in Seq(1..MaxSend)
    BY <1>5, <2>3, SeqDef
  <2> QED
    BY <1>5, <2>2, <2>3, <2>4, LenProperties
<1>9. TypeOK'
  BY <1>1, <1>7, <1>8, <1>u DEF IndInv, TypeOK
<1>10. InputInv'
  <2>1. ~peer_eof[cur]
    BY <1>3, <1>5, <1>6 DEF IndInv, InputInv
  <2>2. \A d \in Clients : rcvd[d] <= sent[d] /\ (peer_eof[d] => shut[d] /\ rcvd[d] = sent[d])
    BY DEF IndInv, InputInv
  <2> QED
    BY <1>6, <1>7, <1>u, <2>1, <2>2 DEF InputInv
<1>11. FlowInv'
  <2>1. ASSUME NEW d \in Clients PROVE FlowAt(d)'
    <3>1. FlowAt(d) /\ InHand(d) = 0
      BY <1>1 DEF IndInv, FlowInv, InHand
    <3>2. CASE d = cur
      <4>1. InHand(cur)' = n /\ InHand(cur) = 0
        BY <1>1, <1>8, <1>u DEF InHand
      <4>2. Len(echoed[cur]) + Len(output[cur]) + 0 = rcvd[cur]
        BY <1>3, <3>1, <3>2, <4>1 DEF FlowAt, Flow
      <4>3. Len(echoed[cur]) \in Nat /\ Len(output[cur]) \in Nat
        BY <1>3, LenProperties DEF IndInv, TypeOK
      <4>4. Len(echoed[cur]) + Len(output[cur]) + n = rcvd'[cur]
        <5>1. PICK a \in Nat : a = Len(echoed[cur])
          BY <4>3
        <5>2. PICK b \in Nat : b = Len(output[cur])
          BY <4>3
        <5>3. a + b + 0 = rcvd[cur]
          BY <4>2, <5>1, <5>2, Zenon
        <5>4. a + b + n = rcvd'[cur]
          BY <1>5, <1>7, <5>3
        <5> QED
          BY <5>1, <5>2, <5>4
      <4>5. \A k \in 1..Len(output[cur]) : output[cur][k] = Len(echoed[cur]) + k
        BY <3>1, <3>2 DEF FlowAt, Flow
      <4> QED
        BY <1>3, <1>u, <3>2, <4>1, <4>4, <4>5 DEF FlowAt, Flow
    <3>3. CASE d # cur
      <4>1. InHand(d)' = 0
        BY <1>u, <3>3 DEF InHand
      <4> QED
        BY <1>7, <1>u, <3>1, <3>3, <4>1 DEF FlowAt
    <3> QED
      BY <3>2, <3>3
  <2>2. \A k \in 1..Len(buf') : buf'[k] = rcvd'[cur'] - Len(buf') + k
    BY <1>5, <1>6, <1>7, <1>8, <1>u
  <2> QED
    BY <2>1, <2>2 DEF FlowInv
<1> QED
  BY <1>1, <1>7, <1>9, <1>10, <1>11, <1>u, HandKeeps

LEMMA ReadEndsKeeps == ASSUME IndInv, ReadEnds PROVE IndInv'
<1>u. UNCHANGED <<sent, shut, rst, acceptq, rcvd, tx, rdlist, interest, status, output, echoed,
                  batch, cur, ev, buf>>
  BY DEF ReadEnds, clientVars, kernelVars, epollVars
<1>1. /\ pc = "read" /\ pc' \in {"flush", "finish"} /\ ret' = "finish" /\ Available(cur) = 0
      /\ pc \in Handling /\ pc' \in Handling
      /\ peer_eof' = [peer_eof EXCEPT ![cur] = peer_eof[cur] \/ shut[cur]]
  BY DEF ReadEnds, Handling
<1>2. cur \in Clients /\ status[cur] = "open"
  BY <1>1, CurIs
<1>3. /\ peer_eof \in [Clients -> BOOLEAN] /\ shut \in [Clients -> BOOLEAN]
      /\ rcvd[cur] \in Nat /\ sent[cur] \in Nat
  BY <1>2 DEF IndInv, TypeOK
<1>4. peer_eof' \in [Clients -> BOOLEAN]
  BY <1>1, <1>2, <1>3
<1>5. (peer_eof'[cur] <=> peer_eof[cur] \/ shut[cur]) /\ \A d \in Clients : d # cur => peer_eof'[d] = peer_eof[d]
  BY <1>1, <1>2, <1>3
<1>6. TypeOK'
  BY <1>1, <1>4, <1>u DEF IndInv, TypeOK
<1>7. InputInv'
  <2>1. rcvd[cur] = sent[cur]
    BY <1>1, <1>3 DEF Available
  <2>2. \A d \in Clients : rcvd[d] <= sent[d] /\ (peer_eof[d] => shut[d] /\ rcvd[d] = sent[d])
    BY DEF IndInv, InputInv
  <2> QED
    BY <1>5, <1>u, <2>1, <2>2 DEF InputInv
<1>8. FlowInv'
  <2>1. ASSUME NEW d \in Clients PROVE FlowAt(d)'
    <3>1. FlowAt(d) /\ InHand(d) = 0 /\ InHand(d)' = 0
      BY <1>1 DEF IndInv, FlowInv, InHand
    <3>2. CASE d = cur
      BY <1>2, <1>u, <3>1, <3>2 DEF FlowAt, Flow
    <3>3. CASE d # cur
      BY <1>5, <1>u, <3>1, <3>3 DEF FlowAt
    <3> QED
      BY <3>2, <3>3
  <2> QED
    BY <1>1, <2>1 DEF FlowInv
<1> QED
  BY <1>1, <1>5, <1>6, <1>7, <1>8, <1>u, HandKeeps


\* The lengths of the connection in hand, as numbers.
LEMMA Lengths ==
  ASSUME IndInv, pc \in Handling
  PROVE  \E a, b, h, r \in Nat :
           /\ a = Len(echoed[cur]) /\ b = Len(output[cur]) /\ h = InHand(cur) /\ r = rcvd[cur]
           /\ a + b + h = r /\ \A k \in 1..b : output[cur][k] = a + k
<1>1. cur \in Clients /\ status[cur] = "open"
  BY CurIs
<1>2. /\ rcvd[cur] \in Nat /\ echoed[cur] \in Seq(1..MaxSend) /\ output[cur] \in Seq(1..MaxSend)
      /\ buf \in Seq(1..MaxSend)
  BY <1>1 DEF IndInv, TypeOK
<1>3. PICK a \in Nat : a = Len(echoed[cur])
  BY <1>2, LenProperties
<1>4. PICK b \in Nat : b = Len(output[cur])
  BY <1>2, LenProperties
<1>5. PICK h \in Nat : h = InHand(cur)
  BY <1>2, LenProperties DEF InHand
<1>6. FlowAt(cur)
  BY <1>1 DEF IndInv, FlowInv
<1>7. Len(echoed[cur]) + Len(output[cur]) + InHand(cur) = rcvd[cur]
  BY <1>1, <1>6 DEF FlowAt, Flow
<1>8. a + b + h = rcvd[cur]
  BY <1>3, <1>4, <1>5, <1>7, Zenon
<1>9. \A k \in 1..b : output[cur][k] = a + k
  BY <1>3, <1>4, <1>6, Zenon DEF FlowAt, Flow
<1> QED
  BY <1>2, <1>3, <1>4, <1>5, <1>8, <1>9

\* What a step leaves of an open connection.
LEMMA FlowOpen ==
  ASSUME NEW c \in Clients, status'[c] = "open",
         Len(echoed'[c]) + Len(output'[c]) + InHand(c)' = rcvd'[c],
         \A k \in 1..Len(output'[c]) : output'[c][k] = Len(echoed'[c]) + k
  PROVE  FlowAt(c)'
  BY Zenon DEF FlowAt, Flow

LEMMA AppendKeeps == ASSUME IndInv, append_output PROVE IndInv'
<1>u. UNCHANGED <<sent, shut, rst, acceptq, rcvd, tx, rdlist, interest, status, peer_eof, echoed,
                  batch, cur, ev, ret>>
  BY DEF append_output, clientVars, kernelVars, epollVars
<1>1. /\ pc = "append" /\ pc' = "flush" /\ pc \in Handling /\ pc' \in Handling /\ buf' = <<>>
      /\ output' = [output EXCEPT ![cur] = output[cur] \o buf]
  BY DEF append_output, Handling
<1>2. cur \in Clients /\ status[cur] = "open"
  BY <1>1, CurIs
<1>3. output \in [Clients -> Seq(1..MaxSend)] /\ buf \in Seq(1..MaxSend) /\ <<>> \in Seq(1..MaxSend)
  BY EmptySeq DEF IndInv, TypeOK
<1>4. PICK a, b, h, r \in Nat :
        /\ a = Len(echoed[cur]) /\ b = Len(output[cur]) /\ h = InHand(cur) /\ r = rcvd[cur]
        /\ a + b + h = r /\ \A k \in 1..b : output[cur][k] = a + k
  BY <1>1, Lengths
<1>s. a + b + h = r /\ \A k \in 1..b : output[cur][k] = a + k
  BY <1>4
<1>5. h = Len(buf) /\ \A k \in 1..h : buf[k] = r - h + k
  BY <1>1, <1>4 DEF InHand, IndInv, FlowInv
<1>6. /\ output[cur] \o buf \in Seq(1..MaxSend) /\ Len(output[cur] \o buf) = b + h
      /\ \A k \in 1..(b + h) : (output[cur] \o buf)[k] = IF k <= b THEN output[cur][k] ELSE buf[k - b]
  <2>1. output[cur] \in Seq(1..MaxSend)
    BY <1>2, <1>3
  <2> QED
    BY <1>3, <1>4, <1>5, <2>1, ConcatProperties
<1>7. /\ output' \in [Clients -> Seq(1..MaxSend)] /\ output'[cur] = output[cur] \o buf
      /\ \A d \in Clients : d # cur => output'[d] = output[d]
  BY <1>1, <1>2, <1>3, <1>6
<1>8. TypeOK'
  BY <1>1, <1>3, <1>7, <1>u DEF IndInv, TypeOK
<1>9. InputInv'
  BY <1>u DEF IndInv, InputInv
<1>10. FlowInv'
  <2>1. ASSUME NEW d \in Clients PROVE FlowAt(d)'
    <3>1. FlowAt(d) /\ InHand(d)' = 0
      BY <1>1 DEF IndInv, FlowInv, InHand
    <3>2. CASE d = cur
      <4>1. ASSUME NEW k \in 1..(b + h) PROVE output'[cur][k] = a + k
        <5>1. CASE k <= b
          <6>1. k \in 1..b
            BY <5>1
          <6>2. (output[cur] \o buf)[k] = output[cur][k]
            BY <1>6, <5>1
          <6>3. output[cur][k] = a + k
            BY <1>s, <6>1
          <6> QED
            BY <1>7, <6>2, <6>3, Zenon
        <5>2. CASE ~(k <= b)
          <6>1. PICK j \in 1..h : j = k - b
            BY <5>2
          <6>2. output'[cur][k] = buf[j]
            BY <1>6, <1>7, <5>2, <6>1
          <6>3. buf[j] = r - h + j
            BY <1>5
          <6> QED
            BY <1>s, <6>1, <6>2, <6>3
        <5> QED
          BY <5>1, <5>2
      <4>2. a + (b + h) + 0 = r /\ b + h \in Nat /\ 0 \in Nat
        BY <1>s
      <4>3. PICK o \in Nat : o = b + h
        BY <4>2
      <4>4. /\ status'[cur] = "open" /\ a = Len(echoed'[cur]) /\ o = Len(output'[cur])
            /\ r = rcvd'[cur]
        BY <1>2, <1>4, <1>6, <1>7, <1>u, <3>1, <3>2, <4>3, Zenon
      <4>5. Len(echoed'[d]) + Len(output'[d]) + InHand(d)' = rcvd'[d]
        BY <3>1, <3>2, <4>2, <4>3, <4>4, Zenon
      <4>6. \A k \in 1..o : output'[cur][k] = a + k
        BY <4>1, <4>3
      <4>7. \A k \in 1..Len(output'[d]) : output'[d][k] = Len(echoed'[d]) + k
        BY <3>2, <4>4, <4>6, Zenon
      <4> QED
        BY <3>2, <4>4, <4>5, <4>7, FlowOpen
    <3>3. CASE d # cur
      <4>1. InHand(d) = 0
        BY <3>3 DEF InHand
      <4> QED
        BY <1>7, <1>u, <3>1, <3>3, <4>1 DEF FlowAt
    <3> QED
      BY <3>2, <3>3
  <2> QED
    BY <1>1, <2>1 DEF FlowInv
<1> QED
  BY <1>1, <1>7, <1>8, <1>9, <1>10, <1>u, HandKeeps

LEMMA FlushWriteKeeps == ASSUME IndInv, FlushWrite PROVE IndInv'
<1>u. UNCHANGED <<sent, shut, rst, acceptq, rcvd, rdlist, interest, status, peer_eof,
                  pc, batch, cur, ev, buf, ret>>
  BY DEF FlushWrite, clientVars, epollVars, loopVars
<1>1. pc = "flush" /\ pc \in Handling
  BY DEF FlushWrite, Handling
<1>2. PICK n \in 1..Min({Len(output[cur]), SockBuf - tx[cur]}) :
        /\ tx' = [tx EXCEPT ![cur] = @ + n]
        /\ echoed' = [echoed EXCEPT ![cur] = echoed[cur] \o SubSeq(output[cur], 1, n)]
        /\ output' = [output EXCEPT ![cur] = Unwritten(output[cur], n)]
  BY DEF FlushWrite
<1>3. cur \in Clients /\ status[cur] = "open"
  BY <1>1, CurIs
<1>4. /\ output \in [Clients -> Seq(1..MaxSend)] /\ echoed \in [Clients -> Seq(1..MaxSend)]
      /\ tx \in [Clients -> 0..SockBuf] /\ SockBuf \in Nat
  BY EpollAssumption DEF IndInv, TypeOK
<1>5. PICK a, b, h, r \in Nat :
        /\ a = Len(echoed[cur]) /\ b = Len(output[cur]) /\ h = InHand(cur) /\ r = rcvd[cur]
        /\ a + b + h = r /\ \A k \in 1..b : output[cur][k] = a + k
  BY <1>1, Lengths
<1>s. a + b + h = r /\ \A k \in 1..b : output[cur][k] = a + k
  BY <1>5
<1>6. n \in Nat /\ n >= 1 /\ n <= b /\ tx[cur] \in Nat /\ tx[cur] + n <= SockBuf
  <2>1. tx[cur] \in Nat /\ SockBuf - tx[cur] \in Int
    BY <1>3, <1>4
  <2>2. Min({b, SockBuf - tx[cur]}) = IF b <= SockBuf - tx[cur] THEN b ELSE SockBuf - tx[cur]
    BY <2>1, MinOfTwo
  <2>3. n \in 1..Min({b, SockBuf - tx[cur]})
    BY <1>2, <1>5
  <2> QED
    BY <1>4, <2>1, <2>2, <2>3
<1>7. /\ SubSeq(output[cur], 1, n) \in Seq(1..MaxSend) /\ Len(SubSeq(output[cur], 1, n)) = n
      /\ Unwritten(output[cur], n) \in Seq(1..MaxSend) /\ Len(Unwritten(output[cur], n)) = b - n
      /\ \A k \in 1..(b - n) : Unwritten(output[cur], n)[k] = output[cur][n + k]
  <2>1. output[cur] \in Seq(1..MaxSend)
    BY <1>3, <1>4
  <2>2. \A k \in 1..b : output[cur][k] \in 1..MaxSend
    <3>1. \A k \in 1..Len(output[cur]) : output[cur][k] \in 1..MaxSend
      BY <2>1, ElementOfSeq
    <3> QED
      BY <1>5, <3>1, Zenon
  <2> DEFINE w == SubSeq(output[cur], 1, n)
             v == SubSeq(output[cur], n + 1, b)
  <2>3. w \in Seq(1..MaxSend) /\ Len(w) = n
    <3>1. 1 \in Int /\ n \in Int /\ 1 <= n /\ n - 1 + 1 = n /\ \A k \in 1..n : output[cur][k] \in 1..MaxSend
      BY <1>6, <2>2
    <3>2. w \in Seq(1..MaxSend) /\ Len(w) = IF 1 <= n THEN n - 1 + 1 ELSE 0
      BY <3>1, SubSeqProperties
    <3> QED
      BY <3>1, <3>2
  <2>4. v \in Seq(1..MaxSend) /\ Len(v) = b - n /\ \A k \in 1..(b - n) : v[k] = output[cur][n + k]
    <3>1. n + 1 \in Int /\ b \in Int /\ \A k \in (n + 1)..b : output[cur][k] \in 1..MaxSend
      BY <1>6, <2>2
    <3>2. /\ v \in Seq(1..MaxSend) /\ Len(v) = IF n + 1 <= b THEN b - (n + 1) + 1 ELSE 0
          /\ \A k \in 1..(b - (n + 1) + 1) : v[k] = output[cur][n + 1 + k - 1]
      BY <3>1, SubSeqProperties
    <3> HIDE DEF v
    <3>3. b - (n + 1) + 1 = b - n /\ \A k \in 1..(b - n) : n + 1 + k - 1 = n + k
      BY <1>6
    <3>4. Len(v) = b - n
      BY <1>6, <3>2
    <3>5. \A k \in 1..(b - n) : v[k] = output[cur][n + k]
      BY <3>2, <3>3
    <3> QED
      BY <3>2, <3>4, <3>5
  <2>5. Unwritten(output[cur], n) = v
    BY <1>5 DEF Unwritten
  <2> HIDE DEF v
  <2> QED
    BY <2>3, <2>4, <2>5
<1> DEFINE out == Unwritten(output[cur], n)
           ech == echoed[cur] \o SubSeq(output[cur], 1, n)
<1>8. ech \in Seq(1..MaxSend) /\ Len(ech) = a + n
  <2>1. echoed[cur] \in Seq(1..MaxSend)
    BY <1>3, <1>4
  <2> QED
    BY <1>5, <1>7, <2>1, ConcatProperties
<1> HIDE DEF out, ech
<1>9. /\ output' \in [Clients -> Seq(1..MaxSend)] /\ output'[cur] = out
      /\ echoed' \in [Clients -> Seq(1..MaxSend)] /\ echoed'[cur] = ech
      /\ tx' \in [Clients -> 0..SockBuf]
      /\ \A d \in Clients : d # cur => output'[d] = output[d] /\ echoed'[d] = echoed[d] /\ tx'[d] = tx[d]
  <2>1. out \in Seq(1..MaxSend)
    BY <1>7 DEF out
  <2>2. output' = [output EXCEPT ![cur] = out] /\ echoed' = [echoed EXCEPT ![cur] = ech]
    BY <1>2 DEF out, ech
  <2>3. tx' \in [Clients -> 0..SockBuf] /\ \A d \in Clients : d # cur => tx'[d] = tx[d]
    BY <1>2, <1>3, <1>4, <1>6
  <2> QED
    BY <1>3, <1>4, <1>8, <2>1, <2>2, <2>3
<1>10. TypeOK'
  BY <1>9, <1>u DEF IndInv, TypeOK
<1>11. InputInv'
  BY <1>u DEF IndInv, InputInv
<1>12. FlowInv'
  <2>1. ASSUME NEW d \in Clients PROVE FlowAt(d)'
    <3>1. FlowAt(d) /\ InHand(d)' = 0 /\ InHand(d) = 0
      BY <1>1, <1>u DEF IndInv, FlowInv, InHand
    <3>2. CASE d = cur
      <4>1. ASSUME NEW k \in 1..(b - n) PROVE output'[cur][k] = (a + n) + k
        <5>1. output'[cur][k] = output[cur][n + k] /\ n + k \in 1..b
          BY <1>6, <1>7, <1>9 DEF out
        <5>2. output[cur][n + k] = a + (n + k)
          BY <1>s, <5>1
        <5> QED
          BY <1>6, <5>1, <5>2
      <4>2. a + n \in Nat /\ b - n \in Nat /\ 0 \in Nat /\ (a + n) + (b - n) + 0 = r
        <5>1. h = 0
          BY <1>5, <3>1, <3>2
        <5> QED
          BY <1>s, <1>6, <5>1
      <4>3. /\ status'[cur] = "open" /\ a + n = Len(echoed'[cur]) /\ b - n = Len(output'[cur])
            /\ r = rcvd'[cur]
        BY <1>3, <1>5, <1>7, <1>8, <1>9, <1>u, <3>1, <3>2 DEF out
      <4>4. PICK e \in Nat, o \in Nat : e = a + n /\ o = b - n
        BY <4>2
      <4>5. Len(echoed'[d]) + Len(output'[d]) + InHand(d)' = rcvd'[d]
        BY <3>1, <3>2, <4>2, <4>3, Zenon
      <4>6. \A k \in 1..o : output'[cur][k] = e + k
        BY <4>1, <4>4
      <4>7. \A k \in 1..Len(output'[d]) : output'[d][k] = Len(echoed'[d]) + k
        BY <3>2, <4>3, <4>4, <4>6, Zenon
      <4> QED
        BY <3>2, <4>3, <4>5, <4>7, FlowOpen
    <3>3. CASE d # cur
      BY <1>9, <1>u, <3>1, <3>3 DEF FlowAt
    <3> QED
      BY <3>2, <3>3
  <2> QED
    BY <1>1, <1>u, <2>1 DEF FlowInv
<1> QED
  BY <1>1, <1>9, <1>10, <1>11, <1>12, <1>u, HandKeeps


LEMMA ModifyKeeps == ASSUME IndInv, modify_connection PROVE IndInv'
<1>u. UNCHANGED <<sent, shut, rst, acceptq, rcvd, tx, status, output, peer_eof, echoed>>
  BY DEF modify_connection, clientVars, kernelVars, connVars
<1>c. PICK c : c = cur
  OBVIOUS
<1>e. PICK events : events = connection_events(peer_eof[c], Len(output[c]))
  OBVIOUS
<1>1. pc = "finish" /\ pc \in Handling /\ NextEvent /\ Register(c, events)
  BY <1>c, <1>e DEF modify_connection, Handling
<1>2. c \in Clients /\ batch # <<>> /\ c = Head(batch).src /\ status[c] = "open"
  BY <1>1, <1>c, CurIs
<1>3. /\ batch' \in Seq(Events) /\ Distinct(Srcs(batch'))
      /\ \A x : On(Srcs(batch'), x) <=> On(Srcs(batch), x) /\ x # c
      /\ pc' = "next" /\ cur' = NoClient /\ ev' = {} /\ buf' = <<>> /\ ret' = "read"
      /\ ShapeInv' /\ \A d \in Clients : InHand(d)' = 0
  BY <1>1, <1>2, Advance
<1>4. /\ interest' = [interest EXCEPT ![c] = events] /\ rdlist' \in Seq(Sources) /\ Distinct(rdlist')
      /\ \A x : On(rdlist', x) <=>
           On(rdlist, x) \/ (x = c /\ Poll(c) \cap (events \cup {"ERR", "HUP"}) # {})
  BY <1>1, <1>2, RegisterIs
<1>5. interest \in [Clients -> SUBSET Flags] /\ events \subseteq Flags
  BY <1>e DEF IndInv, TypeOK, connection_events, Flags
<1>6. (\A d \in Clients : d # c => interest'[d] = interest[d]) /\ interest'[c] = events
  BY <1>2, <1>4, <1>5
<1>7. \A x : x # c => (Pending(x)' <=> Pending(x))
  BY <1>3, <1>4 DEF Pending
<1>8. TypeOK'
  <2>1. <<>> \in Seq(1..MaxSend)
    BY EmptySeq
  <2>2. interest' \in [Clients -> SUBSET Flags]
    BY <1>4, <1>5
  <2> QED
    BY <1>3, <1>4, <1>u, <2>1, <2>2 DEF IndInv, TypeOK, Events
<1>9. ListInv'
  <2>1. \A d \in Clients : Pending(d)' => status'[d] = "open"
    BY <1>2, <1>7, <1>u DEF IndInv, ListInv
  <2> QED
    BY <1>3, <1>4, <1>u, <2>1 DEF IndInv, ListInv
<1>10. InputInv'
  BY <1>u DEF IndInv, InputInv
<1>11. FlowInv'
  <2>1. \A d \in Clients : InHand(d) = 0 /\ FlowAt(d)
    BY <1>1 DEF InHand, IndInv, FlowInv
  <2>2. \A d \in Clients : FlowAt(d)'
    BY <1>3, <1>u, <2>1 DEF FlowAt
  <2> QED
    BY <1>3, <2>2 DEF FlowInv
<1>12. InterestInv'
  BY <1>c, <1>e, <1>6, <1>u DEF IndInv, InterestInv
<1>13. WakeInv'
  <2>1. \A d \in Clients : Needs(d)' <=> Needs(d)
    BY <1>u DEF Needs, Available
  <2>2. Needs(c) => Pending(c)'
    <3>1. Needs(c) => Poll(c) \cap (events \cup {"ERR", "HUP"}) # {}
      BY <1>2, <1>e, PollSees
    <3> QED
      BY <1>4, <3>1 DEF Pending
  <2>3. c # Listen
    BY <1>2, EpollAssumption
  <2> QED
    BY <1>7, <1>u, <2>1, <2>2, <2>3 DEF IndInv, WakeInv
<1> QED
  BY <1>3, <1>8, <1>9, <1>10, <1>11, <1>12, <1>13 DEF IndInv

\* A list split at n.
Split(list, n, front, rest) ==
  /\ Distinct(list) /\ n \in 0..Len(list)
  /\ Len(front) = n /\ \A k \in 1..n : front[k] = list[k]
  /\ rest = SubSeq(list, n + 1, Len(list))

\* Its parts hold what it holds.
LEMMA SplitIs ==
  ASSUME NEW S, NEW list \in Seq(S), NEW n, NEW front, NEW rest, Split(list, n, front, rest)
  PROVE  /\ rest \in Seq(S) /\ Distinct(front) /\ Distinct(rest)
         /\ \A x : On(list, x) <=> On(front, x) \/ On(rest, x)
<1>0. /\ Distinct(list) /\ n \in 0..Len(list) /\ Len(front) = n /\ \A k \in 1..n : front[k] = list[k]
      /\ rest = SubSeq(list, n + 1, Len(list))
  BY DEF Split
<1>1. PICK m \in Nat : m = Len(list)
  BY LenProperties
<1>2. n \in Nat /\ n <= m /\ n + 1 \in Int /\ m \in Int
  <2>1. n \in 0..m
    BY <1>0, <1>1, Zenon
  <2> QED
    BY <2>1
<1>a. Len(front) = n /\ \A k \in 1..n : front[k] = list[k]
  BY <1>0
<1>3. \A k \in 1..m : list[k] \in S
  BY <1>1, ElementOfSeq
<1>4. \A j, k \in 1..m : list[j] = list[k] => j = k
  BY <1>0, <1>1, Zenon DEF Distinct
<1>5. rest = SubSeq(list, n + 1, m)
  BY <1>0, <1>1, Zenon
<1>6. \A k \in (n + 1)..m : list[k] \in S
  BY <1>2, <1>3
<1>7. /\ rest \in Seq(S) /\ Len(rest) = IF n + 1 <= m THEN m - (n + 1) + 1 ELSE 0
      /\ \A k \in 1..(m - (n + 1) + 1) : rest[k] = list[n + 1 + k - 1]
  BY <1>2, <1>5, <1>6, SubSeqProperties
<1>8. /\ Len(rest) = m - n
      /\ \A k \in 1..(m - n) : rest[k] = list[n + k]
  <2>1. m - (n + 1) + 1 = m - n /\ \A k \in 1..(m - n) : n + 1 + k - 1 = n + k
    BY <1>2
  <2>2. Len(rest) = m - n
    BY <1>2, <1>7
  <2> QED
    BY <1>7, <2>1, <2>2
<1>9. Distinct(front)
  <2>1. \A j, k \in 1..n : front[j] = front[k] => j = k
    BY <1>2, <1>4, <1>a
  <2> QED
    BY <1>a, <2>1 DEF Distinct
<1>10. Distinct(rest)
  <2>1. ASSUME NEW j \in 1..(m - n), NEW k \in 1..(m - n), rest[j] = rest[k] PROVE j = k
    <3>1. n + j \in 1..m /\ n + k \in 1..m
      BY <1>2
    <3>2. n + j = n + k
      BY <1>4, <1>8, <2>1, <3>1
    <3> QED
      BY <1>2, <3>2
  <2> QED
    BY <1>8, <2>1 DEF Distinct
<1>11. ASSUME NEW x PROVE On(list, x) <=> On(front, x) \/ On(rest, x)
  <2>1. ASSUME NEW k \in 1..m, list[k] = x PROVE On(front, x) \/ On(rest, x)
    <3>1. CASE k <= n
      BY <1>2, <1>a, <2>1, <3>1 DEF On
    <3>2. CASE ~(k <= n)
      <4>1. PICK j \in 1..(m - n) : n + j = k
        <5>1. k - n \in 1..(m - n) /\ n + (k - n) = k
          BY <1>2, <3>2
        <5> QED
          BY <5>1
      <4>2. rest[j] = x
        BY <1>8, <2>1, <4>1
      <4> QED
        BY <1>8, <4>2 DEF On
    <3> QED
      BY <3>1, <3>2
  <2>2. ASSUME NEW k \in 1..n, front[k] = x PROVE \E j \in 1..m : list[j] = x
    BY <1>2, <1>a, <2>2
  <2>3. ASSUME NEW k \in 1..(m - n), rest[k] = x PROVE \E j \in 1..m : list[j] = x
    <3>1. n + k \in 1..m
      BY <1>2
    <3> QED
      BY <1>8, <2>3, <3>1
  <2>4. On(list, x) <=> \E j \in 1..m : list[j] = x
    BY <1>1, Zenon DEF On
  <2>5. (On(front, x) <=> \E k \in 1..n : front[k] = x) /\ (On(rest, x) <=> \E k \in 1..(m - n) : rest[k] = x)
    BY <1>8, <1>a DEF On
  <2> QED
    BY <2>1, <2>2, <2>3, <2>4, <2>5
<1> QED
  BY <1>7, <1>9, <1>10, <1>11


\* What epoll_wait finds to report.
Visible == {src \in Sources : src = Listen \/ Reported(src) # {}}

LEMMA WaitKeeps == ASSUME IndInv, epoll_wait PROVE IndInv'
<1>u. /\ UNCHANGED <<sent, shut, rst, acceptq, rcvd, tx, interest, status, output, peer_eof, echoed>>
      /\ UNCHANGED <<cur, ev, buf, ret>>
  BY DEF epoll_wait, clientVars, kernelVars, connVars
<1>h. PICK h : h = Filter(rdlist, Visible)
  OBVIOUS
<1>n. PICK n : n = Min({Len(h), MAX_EVENTS})
  OBVIOUS
<1>1. /\ pc = "wait" /\ pc' = "next"
      /\ batch' = [i \in 1..n |-> [src |-> h[i], events |-> IF h[i] = Listen THEN {"IN"} ELSE Reported(h[i])]]
      /\ rdlist' = SubSeq(h, n + 1, Len(h))
  BY <1>h, <1>n DEF epoll_wait, Visible
<1>2. batch = <<>> /\ cur = NoClient
  BY <1>1 DEF IndInv, ShapeInv, Handling
<1>3. rdlist \in Seq(Sources) /\ Distinct(rdlist)
  BY DEF IndInv, TypeOK, ListInv
<1>4. h \in Seq(Sources) /\ Distinct(h) /\ \A x : On(h, x) <=> On(rdlist, x) /\ x \in Visible
  <2>1. h \in Seq(Sources)
    BY <1>3, <1>h, FilterSeq
  <2>2. Distinct(h)
    BY <1>3, <1>h, FilterInjective DEF Distinct
  <2>3. /\ \A k \in 1..Len(h) : h[k] \in Visible /\ \E j \in 1..Len(rdlist) : h[k] = rdlist[j]
        /\ \A j \in 1..Len(rdlist) : rdlist[j] \in Visible => \E k \in 1..Len(h) : h[k] = rdlist[j]
    BY <1>3, <1>h, FilterElements
  <2> QED
    BY <2>1, <2>2, <2>3 DEF On
<1>5. n \in 0..Len(h)
  <2>1. PICK m \in Nat : m = Len(h)
    BY <1>4, LenProperties
  <2>2. MAX_EVENTS \in Nat /\ n = Min({m, MAX_EVENTS})
    BY <1>n, <2>1, EpollAssumption
  <2>3. n \in 0..m
    BY <2>2, MinOfTwo
  <2> QED
    BY <2>1, <2>3
<1>6. n \in Nat /\ \A k \in 1..n : h[k] \in Sources
  <2>1. PICK m \in Nat : m = Len(h)
    BY <1>4, LenProperties
  <2>2. n \in 0..m /\ \A k \in 1..m : h[k] \in Sources
    BY <1>4, <1>5, <2>1, ElementOfSeq
  <2> QED
    BY <2>2
<1>7. batch' \in Seq(Events) /\ Srcs(batch') \in Seq(Sources) /\ Len(Srcs(batch')) = n
      /\ \A k \in 1..n : Srcs(batch')[k] = h[k]
  <2>1. \A x : Reported(x) \subseteq Flags
    BY DEF Reported, Poll, Flags
  <2>2. \A k \in 1..n : [src |-> h[k], events |-> IF h[k] = Listen THEN {"IN"} ELSE Reported(h[k])] \in Events
    BY <1>6, <2>1 DEF Events, Flags
  <2>3. batch' \in [1..n -> Events]
    BY <1>1, <2>2
  <2>4. batch' \in Seq(Events)
    BY <1>6, <2>3, SeqDef
  <2>5. Len(batch') = n
    BY <1>6, <2>3, <2>4, LenProperties
  <2>6. \A k \in 1..n : batch'[k].src = h[k]
    BY <1>1
  <2> QED
    BY <2>4, <2>5, <2>6, SrcsIs
<1>8. /\ rdlist' \in Seq(Sources) /\ Distinct(rdlist') /\ Distinct(Srcs(batch'))
      /\ \A x : On(h, x) <=> On(Srcs(batch'), x) \/ On(rdlist', x)
  <2>1. PICK f : f = Srcs(batch')
    OBVIOUS
  <2>2. PICK q : q = SubSeq(h, n + 1, Len(h))
    OBVIOUS
  <2>3. Len(f) = n /\ \A k \in 1..n : f[k] = h[k]
    BY <1>7, <2>1
  <2>4. q \in Seq(Sources) /\ Distinct(f) /\ Distinct(q) /\ \A x : On(h, x) <=> On(f, x) \/ On(q, x)
    <3>1. Split(h, n, f, q)
      BY <1>4, <1>5, <2>2, <2>3 DEF Split
    <3> QED
      BY <1>4, <3>1, SplitIs
  <2> QED
    BY <1>1, <2>1, <2>2, <2>4, Zenon
<1>9. \A x : Pending(x)' <=> On(rdlist, x) /\ x \in Visible
  BY <1>4, <1>8 DEF Pending
<1>10. \A x : Pending(x) <=> On(rdlist, x)
  BY <1>2, EmptyList DEF Pending
<1>11. TypeOK'
  BY <1>1, <1>7, <1>8, <1>u DEF IndInv, TypeOK, Events
<1>12. ShapeInv'
  BY <1>1, <1>2, <1>u DEF ShapeInv, Handling
<1>13. ListInv'
  <2>1. \A d \in Clients : Pending(d)' => status'[d] = "open"
    BY <1>9, <1>10, <1>u DEF IndInv, ListInv
  <2> QED
    BY <1>8, <1>u, <2>1 DEF IndInv, ListInv
<1>14. InputInv' /\ InterestInv'
  BY <1>u DEF IndInv, InputInv, InterestInv
<1>15. FlowInv'
  <2>1. \A d \in Clients : InHand(d) = 0 /\ FlowAt(d) /\ InHand(d)' = 0
    BY <1>1 DEF InHand, IndInv, FlowInv
  <2>2. \A d \in Clients : FlowAt(d)'
    BY <1>u, <2>1 DEF FlowAt
  <2> QED
    BY <1>1, <2>2 DEF FlowInv
<1>16. WakeInv'
  <2>1. \A d \in Clients : Needs(d)' <=> Needs(d)
    BY <1>u DEF Needs, Available
  <2>2. ASSUME NEW d \in Clients, status[d] = "open", Needs(d) PROVE Pending(d)'
    <3>1. Pending(d) /\ interest[d] = connection_events(peer_eof[d], Len(output[d]))
      BY <1>2, <2>2, EpollAssumption DEF IndInv, WakeInv, InterestInv
    <3>2. Poll(d) \cap (connection_events(peer_eof[d], Len(output[d])) \cup {"ERR", "HUP"}) # {}
      BY <2>2, PollSees
    <3>3. d \in Visible
      BY <3>1, <3>2 DEF Visible, Reported, Sources
    <3> QED
      BY <1>9, <1>10, <3>1, <3>3
  <2>3. Listen \in Visible
    BY DEF Visible, Sources
  <2> QED
    BY <1>9, <1>10, <1>u, <2>1, <2>2, <2>3 DEF IndInv, WakeInv
<1> QED
  BY <1>11, <1>12, <1>13, <1>14, <1>15, <1>16 DEF IndInv

\* A close in the middle of an event.
LEMMA CloseCurrentKeeps ==
  ASSUME IndInv, pc \in Handling, NEW how \in {"done", "aborted"}, CloseCurrent(how)
  PROVE  IndInv'
<1>1. PICK c : c = cur
  OBVIOUS
<1>2. c \in Clients /\ batch # <<>> /\ c = Head(batch).src /\ close_connection(c, how) /\ NextEvent
  BY <1>1, CurIs DEF CloseCurrent
<1> QED
  BY <1>2, CloseKeeps

LEMMA DispatchErrorKeeps == ASSUME IndInv, DispatchError PROVE IndInv'
<1>1. PICK c : c = Head(batch).src
  OBVIOUS
<1>2. batch # <<>> /\ c # Listen /\ close_connection(c, "aborted") /\ NextEvent
  BY <1>1 DEF DispatchError, AtClient, event, AfterError
<1>3. batch \in Seq(Events)
  BY DEF IndInv, TypeOK, Events
<1>4. Head(batch) \in Events
  BY <1>2, <1>3, SrcsIs
<1>5. c \in Clients
  BY <1>1, <1>2, <1>4 DEF Events, Sources
<1> QED
  BY <1>1, <1>2, <1>5, CloseKeeps

\* Every step of the clients, the kernel and the server keeps the invariant.
LEMMA IndStep == IndInv /\ [Next]_vars => IndInv'
<1> SUFFICES ASSUME IndInv, [Next]_vars PROVE IndInv'
  OBVIOUS
<1>1. CASE Work
  <2>1. CASE epoll_wait \/ BatchDone \/ DispatchListen \/ DispatchError \/ Dispatch
    BY <2>1, WaitKeeps, BatchDoneKeeps, DispatchListenKeeps, DispatchErrorKeeps, DispatchKeeps
  <2>2. CASE ListenError \/ AcceptError
    BY <2>2, StopKeeps DEF ListenError, AcceptError
  <2>3. CASE Accept \/ AcceptDropped \/ AcceptAgain
    BY <2>3, AcceptKeeps, AcceptDroppedKeeps, AcceptAgainKeeps
  <2>4. CASE Read \/ ReadEnds \/ append_output \/ FlushWrite \/ FlushReturns \/ modify_connection
    BY <2>4, ReadKeeps, ReadEndsKeeps, AppendKeeps, FlushWriteKeeps, FlushReturnsKeeps, ModifyKeeps
  <2>5. CASE ReadError \/ AppendFails \/ FlushError \/ ModifyFails
    <3>1. pc \in Handling /\ CloseCurrent("aborted")
      BY <2>5 DEF ReadError, AppendFails, FlushError, ModifyFails, Handling
    <3> QED
      BY <3>1, CloseCurrentKeeps
  <2>6. CASE CloseFinished
    <3>1. pc \in Handling /\ CloseCurrent("done")
      BY <2>6 DEF CloseFinished, Handling
    <3> QED
      BY <3>1, CloseCurrentKeeps
  <2> QED
    BY <1>1, <2>1, <2>2, <2>3, <2>4, <2>5, <2>6 DEF Work
<1>2. CASE WaitError
  BY <1>2, StopKeeps DEF WaitError
<1>3. ASSUME NEW c \in Clients, Connect(c) \/ Send(c) \/ Shutdown(c) \/ Reset(c) \/ Receive(c) PROVE IndInv'
  BY <1>3, ConnectKeeps, SendKeeps, ShutdownKeeps, ResetKeeps, ReceiveKeeps
<1>4. CASE UNCHANGED vars
  <2>1. /\ UNCHANGED <<sent, shut, rst, acceptq, rcvd, tx, rdlist, interest, status, output, peer_eof, echoed>>
        /\ UNCHANGED <<pc, batch, cur, ev, buf, ret>>
    BY <1>4 DEF vars, clientVars, kernelVars, epollVars, connVars, loopVars
  <2>2. TypeOK' /\ ShapeInv' /\ InputInv' /\ InterestInv'
    BY <2>1 DEF IndInv, TypeOK, ShapeInv, InputInv, InterestInv
  <2>3. FlowInv'
    BY <2>1, FlowFrame DEF IndInv
  <2>4. ListInv'
    BY <2>1 DEF IndInv, ListInv, Pending
  <2>5. WakeInv'
    BY <2>1 DEF IndInv, WakeInv, Pending, Needs, Available
  <2> QED
    BY <2>2, <2>3, <2>4, <2>5 DEF IndInv
<1> QED
  BY <1>1, <1>2, <1>3, <1>4 DEF Next

\* The invariant holds in every state.
LEMMA Invariant == Spec => []IndInv
  BY IndInit, IndStep, PTL DEF Spec

\* The loop never goes to sleep on work that no later edge brings back, for any
\* number of clients and any sizes of the buffers and of the event array.
THEOREM NoWakeupIsLost == Spec => []NoLostWakeup
<1>1. ASSUME IndInv PROVE NoLostWakeup
  <2> SUFFICES ASSUME pc = "wait" 
               PROVE  /\ acceptq # <<>> => Enlisted(Listen)
                      /\ \A c \in Clients : status[c] = "open" =>
                           /\ (Available(c) > 0 \/ (shut[c] /\ ~peer_eof[c]) \/ rst[c]) => Enlisted(c)
                           /\ (output[c] # <<>> /\ tx[c] < SockBuf) => Enlisted(c)
    BY DEF NoLostWakeup
  <2>1. batch = <<>> /\ rdlist \in Seq(Sources)
    BY <1>1 DEF IndInv, ShapeInv, TypeOK
  <2>2. \A x : Pending(x) => Enlisted(x)
    BY <2>1, EmptyList, LenProperties DEF Pending, Enlisted, On
  <2> QED
    BY <1>1, <2>2 DEF IndInv, WakeInv, Needs
<1> QED
  BY <1>1, Invariant, PTL

\* No event refers to a freed connection and none is reported twice, for any
\* number of clients and any sizes of the buffers and of the event array.
THEOREM NoEventIsStale == Spec => []EventsAreLive
<1>1. ASSUME IndInv PROVE EventsAreLive
  <2>1. batch \in Seq(Events) /\ TypeOK /\ Distinct(Srcs(batch))
    BY <1>1 DEF IndInv, TypeOK, ListInv, Events
  <2>2. /\ DOMAIN batch = 1..Len(batch) /\ Len(Srcs(batch)) = Len(batch)
        /\ \A i \in 1..Len(batch) : Srcs(batch)[i] = batch[i].src /\ batch[i] \in Events
    BY <2>1, LenProperties, SrcsIs
  <2>3. ASSUME NEW i \in DOMAIN batch, batch[i].src # Listen PROVE status[batch[i].src] = "open"
    <3>1. batch[i].src \in Clients
      BY <2>2, <2>3 DEF Events, Sources
    <3>2. On(Srcs(batch), batch[i].src)
      BY <2>2 DEF On
    <3> QED
      BY <1>1, <3>1, <3>2 DEF IndInv, ListInv, Pending
  <2>4. \A i, j \in DOMAIN batch : batch[i].src = batch[j].src => i = j
    BY <2>1, <2>2 DEF Distinct
  <2>5. cur # NoClient => status[cur] = "open"
    <3>1. cur # NoClient => pc \in Handling
      BY <1>1 DEF IndInv, ShapeInv
    <3> QED
      BY <1>1, <3>1, CurIs
  <2> QED
    BY <2>1, <2>3, <2>4, <2>5 DEF EventsAreLive
<1> QED
  BY <1>1, Invariant, PTL

-----------------------------------------------------------------------------
(* The refinement: every step of the server is a step of EchoService. *)

\* Some connections fail.
LEMMA AbortIs ==
  ASSUME IndInv, NEW c \in Clients, status[c] \in {"none", "open"},
         status' = [status EXCEPT ![c] = "aborted"], UNCHANGED <<sent, shut, echoed>>
  PROVE  Service!ENext
<1>1. status \in [Clients -> {"none", "open", "done", "aborted"}]
  BY DEF IndInv, TypeOK
<1>2. status' = [d \in Clients |-> IF d \in {c} THEN "aborted" ELSE status[d]]
  BY <1>1
<1>3. Service!Abort({c})
  BY <1>2 DEF Service!Abort
<1>4. {c} \in SUBSET Clients
  OBVIOUS
<1> QED
  BY <1>3, <1>4 DEF Service!ENext

\* A close after an error.
LEMMA CloseAborts ==
  ASSUME IndInv, NEW c \in Clients, status[c] = "open", close_connection(c, "aborted")
  PROVE  Service!ENext
<1>1. status' = [status EXCEPT ![c] = "aborted"] /\ UNCHANGED <<sent, shut, echoed>>
  BY DEF close_connection, clientVars
<1> QED
  BY <1>1, AbortIs

\* The end of the process.
LEMMA StopAborts == ASSUME IndInv, Stop PROVE Service!ENext
<1> DEFINE S == {c \in Clients : Connected(c)}
<1>1. /\ status' = [c \in Clients |-> IF Connected(c) THEN "aborted" ELSE status[c]]
      /\ UNCHANGED <<sent, shut, echoed>>
  BY DEF Stop, clientVars
<1>2. ASSUME NEW c \in S PROVE status[c] \in {"none", "open"}
  <2>1. CASE Queued(c)
    <3>1. acceptq \in Seq(Clients)
      BY DEF IndInv, TypeOK
    <3>2. On(acceptq, c)
      BY <2>1, <3>1, LenProperties DEF Queued, On
    <3> QED
      BY <3>2 DEF IndInv, ListInv
  <2> QED
    BY <2>1 DEF Connected
<1>3. status' = [c \in Clients |-> IF c \in S THEN "aborted" ELSE status[c]]
  BY <1>1
<1>4. S \in SUBSET Clients
  OBVIOUS
<1> HIDE DEF S
<1>5. Service!Abort(S)
  BY <1>1, <1>2, <1>3 DEF Service!Abort
<1> QED
  BY <1>4, <1>5 DEF Service!ENext

\* A write echoes the next bytes of the stream.
LEMMA WriteEchoes == ASSUME IndInv, FlushWrite PROVE Service!ENext
<1>c. PICK c : c = cur
  OBVIOUS
<1>1. pc = "flush" /\ pc \in Handling /\ UNCHANGED <<sent, shut, status>>
  BY DEF FlushWrite, Handling, clientVars
<1>2. c \in Clients /\ status[c] = "open"
  BY <1>1, <1>c, CurIs
<1>3. PICK n \in 1..Min({Len(output[c]), SockBuf - tx[c]}) :
        echoed' = [echoed EXCEPT ![c] = echoed[c] \o SubSeq(output[c], 1, n)]
  BY <1>c DEF FlushWrite
<1>4. PICK a, b, h, r \in Nat :
        /\ a = Len(echoed[cur]) /\ b = Len(output[cur]) /\ h = InHand(cur) /\ r = rcvd[cur]
        /\ a + b + h = r /\ \A k \in 1..b : output[cur][k] = a + k
  BY <1>1, Lengths
<1>5. a + b + h = r /\ \A k \in 1..b : output[c][k] = a + k
  BY <1>4, <1>c
<1>6. n \in Nat /\ n >= 1 /\ n <= b
  <2>1. tx[c] \in Nat /\ SockBuf - tx[c] \in Int
    BY <1>2, EpollAssumption, SMTT(40) DEF IndInv, TypeOK
  <2>2. Min({b, SockBuf - tx[c]}) = IF b <= SockBuf - tx[c] THEN b ELSE SockBuf - tx[c]
    BY <2>1, MinOfTwo
  <2>3. n \in 1..Min({b, SockBuf - tx[c]})
    BY <1>3, <1>4, <1>c
  <2> QED
    BY <2>1, <2>2, <2>3
<1>7. SubSeq(output[c], 1, n) = [i \in 1..n |-> a + i]
  <2> DEFINE w == SubSeq(output[c], 1, n)
  <2>1. 1 \in Int /\ n \in Int /\ n - 1 + 1 = n /\ (\A k \in 1..n : output[c][k] \in Int) /\ 1 <= n
    BY <1>5, <1>6
  <2>2. /\ w \in Seq(Int) /\ Len(w) = IF 1 <= n THEN n - 1 + 1 ELSE 0
        /\ \A k \in 1..(n - 1 + 1) : w[k] = output[c][1 + k - 1]
    BY <2>1, SubSeqProperties
  <2> HIDE DEF w
  <2>3. Len(w) = n /\ DOMAIN w = 1..n
    BY <2>1, <2>2, LenProperties
  <2>4. w = [k \in 1..n |-> w[k]]
    BY <2>2, <2>3, LenProperties
  <2>5. ASSUME NEW k \in 1..n PROVE w[k] = a + k
    <3>1. k \in 1..(n - 1 + 1) /\ 1 + k - 1 = k /\ k \in 1..b
      BY <1>6, <2>1
    <3>2. w[k] = output[c][k]
      BY <2>2, <3>1
    <3> QED
      BY <1>5, <3>1, <3>2
  <2>6. w = [i \in 1..n |-> a + i]
    BY <2>4, <2>5
  <2> QED
    BY <2>6 DEF w
<1>8. n \in 1..(sent[c] - a)
  <2>1. rcvd[c] <= sent[c] /\ sent[c] \in Nat /\ rcvd[c] = r
    BY <1>2, <1>4, <1>c DEF IndInv, InputInv, TypeOK
  <2> QED
    BY <1>5, <1>6, <2>1
<1>9. a = Len(echoed[c])
  BY <1>4, <1>c
<1>10. Service!Echo(c)
  <2>1. n \in 1..(sent[c] - Len(echoed[c]))
    BY <1>8, <1>9, Zenon
  <2>2. echoed' = [echoed EXCEPT ![c] = echoed[c] \o [i \in 1..n |-> Len(echoed[c]) + i]]
    BY <1>3, <1>7, <1>9, Zenon
  <2> QED
    BY <1>1, <1>2, <2>1, <2>2, Zenon DEF Service!Echo
<1> QED
  BY <1>2, <1>10 DEF Service!ENext

\* A conversation ends in good order when everything has been echoed.
LEMMA FinishIs == ASSUME IndInv, CloseFinished PROVE Service!ENext
<1>c. PICK c : c = cur
  OBVIOUS
<1>1. /\ pc = "finish" /\ pc \in Handling /\ peer_eof[c] /\ output[c] = <<>>
      /\ status' = [status EXCEPT ![c] = "done"] /\ UNCHANGED <<sent, shut, echoed>>
  BY <1>c DEF CloseFinished, Finished, CloseCurrent, close_connection, Handling, clientVars
<1>2. c \in Clients /\ status[c] = "open"
  BY <1>1, <1>c, CurIs
<1>3. PICK a, b, h, r \in Nat :
        /\ a = Len(echoed[cur]) /\ b = Len(output[cur]) /\ h = InHand(cur) /\ r = rcvd[cur]
        /\ a + b + h = r /\ \A k \in 1..b : output[cur][k] = a + k
  BY <1>1, Lengths
<1>4. a + b + h = r /\ b = 0 /\ h = 0
  <2>1. Len(output[cur]) = 0 /\ InHand(cur) = 0
    BY <1>1, <1>c DEF InHand
  <2> QED
    BY <1>3, <2>1, Zenon
<1>5. a = r
  BY <1>4
<1>6. shut[c] /\ rcvd[c] = sent[c]
  BY <1>1, <1>2 DEF IndInv, InputInv
<1>7. Len(echoed[c]) = sent[c]
  BY <1>3, <1>5, <1>6, <1>c, Zenon
<1>8. Service!Finish(c)
  BY <1>1, <1>2, <1>6, <1>7, Zenon DEF Service!Finish
<1> QED
  BY <1>2, <1>8 DEF Service!ENext

\* A step of the server or of a client is a step of the service or none.
LEMMA EchoStep == IndInv /\ [Next]_vars => [Service!ENext]_(Service!evars)
<1> SUFFICES ASSUME IndInv, [Next]_vars PROVE Service!ENext \/ UNCHANGED Service!evars
  OBVIOUS
<1> DEFINE Same == UNCHANGED <<sent, shut, echoed, status>>
<1>s. Same => UNCHANGED Service!evars
  BY DEF Service!evars
<1> HIDE DEF Same
<1>1. CASE Work
  <2>1. CASE epoll_wait \/ BatchDone \/ DispatchListen \/ Dispatch \/ AcceptAgain \/ modify_connection
    <3>1. Same
      BY <2>1 DEF epoll_wait, BatchDone, DispatchListen, Dispatch, AcceptAgain, modify_connection,
                  clientVars, connVars, Same
    <3> QED
      BY <1>s, <3>1
  <2>2. CASE Read \/ ReadEnds \/ append_output \/ FlushReturns
    <3>1. Same
      BY <2>2 DEF Read, ReadEnds, append_output, FlushReturns, clientVars, connVars, Same
    <3> QED
      BY <1>s, <3>1
  <2>3. CASE ListenError \/ AcceptError
    BY <2>3, StopAborts DEF ListenError, AcceptError
  <2>4. CASE Accept
    <3>1. PICK c : c = Head(acceptq)
      OBVIOUS
    <3>2. status' = [status EXCEPT ![c] = "open"] /\ UNCHANGED <<sent, shut, echoed>>
      BY <2>4, <3>1 DEF Accept, clientVars
    <3>3. c \in Clients /\ status[c] = "none"
      BY <2>4, <3>1, QueueIs DEF Accept
    <3>4. Service!Open(c)
      BY <3>2, <3>3 DEF Service!Open
    <3> QED
      BY <3>3, <3>4 DEF Service!ENext
  <2>5. CASE AcceptDropped
    <3>1. PICK c : c = Head(acceptq)
      OBVIOUS
    <3>2. status' = [status EXCEPT ![c] = "aborted"] /\ UNCHANGED <<sent, shut, echoed>>
      BY <2>5, <3>1 DEF AcceptDropped, clientVars
    <3>3. c \in Clients /\ status[c] = "none"
      BY <2>5, <3>1, QueueIs DEF AcceptDropped
    <3> QED
      BY <3>2, <3>3, AbortIs
  <2>6. CASE DispatchError
    <3>1. PICK c : c = Head(batch).src
      OBVIOUS
    <3>2. batch # <<>> /\ c # Listen /\ close_connection(c, "aborted")
      BY <2>6, <3>1 DEF DispatchError, AtClient, event
    <3>3. batch \in Seq(Events) /\ Distinct(Srcs(batch))
      BY DEF IndInv, TypeOK, ListInv, Events
    <3>4. Head(batch) \in Events /\ On(Srcs(batch), c)
      BY <3>1, <3>2, <3>3, SrcsIs, TailIs
    <3>5. c \in Clients
      BY <3>1, <3>2, <3>4 DEF Events, Sources
    <3>6. status[c] = "open"
      BY <3>4, <3>5 DEF IndInv, ListInv, Pending
    <3> QED
      BY <3>2, <3>5, <3>6, CloseAborts
  <2>7. CASE ReadError \/ AppendFails \/ FlushError \/ ModifyFails
    <3>1. PICK c : c = cur
      OBVIOUS
    <3>2. pc \in Handling /\ close_connection(c, "aborted")
      BY <2>7, <3>1 DEF ReadError, AppendFails, FlushError, ModifyFails, CloseCurrent, Handling
    <3>3. c \in Clients /\ status[c] = "open"
      BY <3>1, <3>2, CurIs
    <3> QED
      BY <3>2, <3>3, CloseAborts
  <2>8. CASE FlushWrite
    BY <2>8, WriteEchoes
  <2>9. CASE CloseFinished
    BY <2>9, FinishIs
  <2> QED
    BY <1>1, <2>1, <2>2, <2>3, <2>4, <2>5, <2>6, <2>7, <2>8, <2>9 DEF Work
<1>2. CASE WaitError
  BY <1>2, StopAborts DEF WaitError
<1>3. ASSUME NEW c \in Clients, Connect(c) \/ Reset(c) \/ Receive(c) PROVE UNCHANGED Service!evars
  <2>1. Same
    BY <1>3 DEF Connect, Reset, Receive, clientVars, connVars, Same
  <2> QED
    BY <1>s, <2>1
<1>4. ASSUME NEW c \in Clients, Send(c) PROVE Service!ENext
  <2>1. /\ ~shut[c] /\ sent' = [sent EXCEPT ![c] = @ + 1] /\ UNCHANGED <<shut, echoed, status>>
        /\ sent \in [Clients -> 0..MaxSend]
    BY <1>4 DEF Send, connVars, IndInv, TypeOK
  <2>2. sent'[c] > sent[c] /\ sent' = [sent EXCEPT ![c] = sent'[c]]
    BY <2>1, EpollAssumption
  <2>3. Service!ClientSends(c)
    BY <2>1, <2>2 DEF Service!ClientSends
  <2> QED
    BY <2>3 DEF Service!ENext
<1>5. ASSUME NEW c \in Clients, Shutdown(c) PROVE Service!ENext
  <2>1. Service!ClientEnds(c)
    BY <1>5 DEF Shutdown, connVars, Service!ClientEnds
  <2> QED
    BY <2>1 DEF Service!ENext
<1>6. CASE UNCHANGED vars
  <2>1. Same
    BY <1>6 DEF vars, clientVars, connVars, Same
  <2> QED
    BY <1>s, <2>1
<1> QED
  BY <1>1, <1>2, <1>3, <1>4, <1>5, <1>6 DEF Next

\* The server keeps the promise of EchoService to every client, for any number
\* of clients and any sizes of the buffers and of the event array.
THEOREM ServerEchoes == Spec => ImplementsEcho
<1>1. Init => Service!EInit
  BY DEF Init, Service!EInit
<1> QED
  BY <1>1, EchoStep, Invariant, PTL DEF Spec, ImplementsEcho, Service!ESpec

=============================================================================
