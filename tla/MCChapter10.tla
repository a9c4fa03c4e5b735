----------------------------- MODULE MCChapter10 -----------------------------
(***************************************************************************)
(* TLC instance of the programs of Chapter10: Rio, with every file up to   *)
(* MaxLen bytes, every position of the newlines and every way of cutting   *)
(* it into reads; two threads on one rio_t; the descriptor handles of      *)
(* unix_socket.hpp; the programs that pass an open file; and the           *)
(* Unix-domain echo server.  A behaviour is that of one of them, chosen at *)
(* the start; the others rest.                                             *)
(***************************************************************************)
EXTENDS Rio, FdHandle

CONSTANTS Threads, Junk, maxlen, RaceLen, RaceLines, \* RioRace
          Receivers, Child, content, FileLen,       \* FdPassing
          Clients, NoClient, MaxLines, MaxStarts    \* UdsServer

(* A byte past rio_buf is some byte; a line has room for one byte and its  *)
(* final zero; the forked child is one of the receivers.                   *)
ASSUME Chapter10Assumption ==
  /\ {RaceLen, content, FileLen, MaxLines, MaxStarts} \subseteq Nat
  /\ Junk \in Nat /\ maxlen \in Nat /\ maxlen > 1
  /\ Child \in Receivers /\ NoClient \notin Clients

VARIABLES
  program,
  th, raced,
  prog, spc, sfd, rpc, rfd, sexit, rexit, path, link, msg, offset, got,
  abstract, upc, cur, line, sockfile, starts, queue, cli, sent, part, rcvd, reply, heard

Race == INSTANCE RioRace
Pass == INSTANCE FdPassing
Uds == INSTANCE UdsServer

passVars == <<prog, spc, sfd, rpc, rfd, sexit, rexit, path, link, msg, offset, got>>
udsVars == <<abstract, upc, cur, line, sockfile, starts, queue, cli, sent, part,
             rcvd, reply, heard>>
raceOnly == <<th, raced>>
mcVars == <<program, vars, raceOnly, handleVars, passVars, udsVars>>

NoRio ==
  /\ buffered = FALSE /\ len = 0 /\ NL = {} /\ rd = 0
  /\ rio_buf = <<>> /\ rio_bufptr = 0 /\ rio_cnt = 0
  /\ op = "none" /\ size = 0 /\ usr = <<>> /\ ret = 0 /\ taken = <<>>
NoRace == th = [t \in Threads |-> Race!Registers("done")] /\ raced = FALSE
NoPass ==
  /\ prog = "none" /\ spc = "done" /\ sfd = {} /\ sexit = 0
  /\ rpc = [r \in Receivers |-> "idle"] /\ rfd = [r \in Receivers |-> {}]
  /\ rexit = [r \in Receivers |-> 0] /\ got = [r \in Receivers |-> <<>>]
  /\ link = [r \in Receivers |-> "none"] /\ msg = [r \in Receivers |-> FALSE]
  /\ path = "none" /\ offset = 0
NoUds == Uds!Init /\ ~abstract /\ sockfile = "none"

MCInit ==
  \/ program = "rio" /\ Init /\ NoRace /\ HandleInit /\ NoPass /\ NoUds
  \/ program = "race" /\ Race!RaceInit /\ HandleInit /\ NoPass /\ NoUds
  \/ program = "handle" /\ NoRio /\ NoRace /\ HandleInit /\ NoPass /\ NoUds
  \/ program = "passfd" /\ NoRio /\ NoRace /\ HandleInit /\ Pass!Init /\ NoUds
  \/ program = "uds" /\ NoRio /\ NoRace /\ HandleInit /\ NoPass /\ Uds!Init

InRio(A) == program = "rio" /\ A /\ UNCHANGED <<program, raceOnly, handleVars, passVars, udsVars>>
InRace(A) == program = "race" /\ A /\ UNCHANGED <<program, handleVars, passVars, udsVars>>
InHandle(A) == program = "handle" /\ A /\ UNCHANGED <<program, vars, raceOnly, passVars, udsVars>>
InPass(A) == program = "passfd" /\ A /\ UNCHANGED <<program, vars, raceOnly, handleVars, udsVars>>
InUds(A) == program = "uds" /\ A /\ UNCHANGED <<program, vars, raceOnly, handleVars, passVars>>

MCNext ==
  InRio(Next) \/ InRace(Race!Race) \/ InHandle(HandleNext) \/ InPass(Pass!Next) \/ InUds(Uds!Next)

MCSpec == MCInit /\ [][MCNext]_mcVars

(* read() is not interrupted or kept waiting forever in Rio; processes run *)
(* and clients get on with their input.  No call has to fail.              *)
MCFairSpec ==
  /\ MCSpec
  /\ SF_mcVars(InRio(Refill \/ ReadDirect \/ ReadEof))
  /\ WF_mcVars(InRio(Copy \/ Complete))
  /\ \A t \in Threads : WF_mcVars(InRace(Race!ThreadSteps(t)))
  /\ WF_mcVars(InPass(Pass!SenderSteps \/ Pass!SendKilled))
  /\ \A r \in Receivers : WF_mcVars(InPass(Pass!ReceiverSteps(r)))
  /\ WF_mcVars(InUds(Uds!ServerSteps))
  /\ \A c \in Clients : WF_mcVars(InUds(Uds!ClientSteps(c)))

\* No byte of a file is lost or repeated between the calls of Rio, and no
\* buffer overflows; threads that share a rio_t lose bytes only when their
\* calls of rio_read overlap, and even then keep their lines within bounds.
RioExact ==
  /\ program = "rio" => StreamPreserved /\ FitsBuffers
  /\ program = "race" => Race!ExactUnlessRaced /\ Race!LineFits

\* Open files: every descriptor behind a handle has one owner, and a file that
\* is passed on is held by the message or one receiver, which reads on
\* from its offset, with the socket's name removed in the end.
DescriptorsExact ==
  /\ HandleTypeOK /\ HandlesExact
  /\ program = "passfd" =>
       Pass!TypeOK /\ Pass!HandedOver /\ Pass!ContentExact /\ Pass!NameRemoved

\* The Unix-domain server answers exactly, and it and a client wait for each
\* other only over a line without newline.
UdsExact ==
  program = "uds" =>
    Uds!TypeOK /\ Uds!AnswersExact /\ Uds!NameExact /\ Uds!WaitOnlyUnfinished

\* Every call of Rio returns, threads that race on a rio_t end, the
\* processes that pass a file end, and the Unix-domain server comes to every
\* client.
ProgramsGoOn ==
  /\ CallsReturn
  /\ Race!ReadersEnd
  /\ Pass!PassingEnds
  /\ Uds!UdsServes
=============================================================================
