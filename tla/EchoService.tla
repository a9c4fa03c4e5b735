----------------------------- MODULE EchoService -----------------------------
(***************************************************************************)
(* What every echo server of the repository promises a client: the bytes   *)
(* it writes back are the bytes it was sent, in order and without gap, and *)
(* it ends a conversation in good order only when the client has finished  *)
(* sending and everything has been written back.  A conversation may also  *)
(* be aborted (errors, a reset, the server going down).                    *)
(* The k-th byte of a client's stream is the number k.                     *)
(***************************************************************************)
EXTENDS Naturals, Sequences

CONSTANT Clients

VARIABLES sent,    \* how many bytes each client has sent
          shut,    \* whether it has ended its stream
          echoed,  \* the bytes written back to it
          conn     \* "none", "open", "done" or "aborted"

evars == <<sent, shut, echoed, conn>>

EInit ==
  /\ sent = [c \in Clients |-> 0]
  /\ shut = [c \in Clients |-> FALSE]
  /\ echoed = [c \in Clients |-> <<>>]
  /\ conn = [c \in Clients |-> "none"]

\* One byte or several.
ClientSends(c) ==
  /\ ~shut[c]
  /\ sent'[c] > sent[c] /\ sent' = [sent EXCEPT ![c] = sent'[c]]
  /\ UNCHANGED <<shut, echoed, conn>>

ClientEnds(c) ==
  /\ ~shut[c]
  /\ shut' = [shut EXCEPT ![c] = TRUE]
  /\ UNCHANGED <<sent, echoed, conn>>

Open(c) ==
  /\ conn[c] = "none"
  /\ conn' = [conn EXCEPT ![c] = "open"]
  /\ UNCHANGED <<sent, shut, echoed>>

\* The next n bytes of the stream.
Echo(c) ==
  /\ conn[c] = "open"
  /\ \E n \in 1..(sent[c] - Len(echoed[c])) :
       echoed' = [echoed EXCEPT ![c] = @ \o [i \in 1..n |-> Len(echoed[c]) + i]]
  /\ UNCHANGED <<sent, shut, conn>>

Finish(c) ==
  /\ conn[c] = "open" /\ shut[c] /\ Len(echoed[c]) = sent[c]
  /\ conn' = [conn EXCEPT ![c] = "done"]
  /\ UNCHANGED <<sent, shut, echoed>>

\* Some conversations fail, all of them at once when the server goes down.
Abort(S) ==
  /\ \A c \in S : conn[c] \in {"none", "open"}
  /\ conn' = [c \in Clients |-> IF c \in S THEN "aborted" ELSE conn[c]]
  /\ UNCHANGED <<sent, shut, echoed>>

ENext ==
  \/ \E c \in Clients : ClientSends(c) \/ ClientEnds(c) \/ Open(c) \/ Echo(c) \/ Finish(c)
  \/ \E S \in SUBSET Clients : Abort(S)

ESpec == EInit /\ [][ENext]_evars
=============================================================================
