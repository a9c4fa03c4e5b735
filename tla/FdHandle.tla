------------------------------ MODULE FdHandle ------------------------------
(***************************************************************************)
(* uds::Fd (Chapter10/experiments/unix_socket.hpp), the object that owns a *)
(* file descriptor: construction, moves, release, reset and destruction,   *)
(* in any order a program can write them.  The kernel hands out a number   *)
(* again as soon as it is closed, so that a second close of one would hit  *)
(* somebody else's file.                                                   *)
(***************************************************************************)
EXTENDS Integers, FiniteSets

CONSTANTS Objects,   \* storage for Fd objects
          Numbers    \* descriptor numbers the kernel has

ASSUME NumbersAssumption == Numbers \subseteq Nat

VARIABLES
  alive,   \* objects constructed and not yet destroyed
  fd_,     \* their member
  raw,     \* descriptors the program holds as plain integers
  open     \* kernel: descriptors that are open

handleVars == <<alive, fd_, raw, open>>

HandleInit ==
  /\ alive = {} /\ fd_ = [o \in Objects |-> -1]
  /\ raw = {} /\ open = {}

\* std::exchange(o.fd_, -1): the value moves out.
cleared_not(f, o) == f             \* mutant: the source of a move keeps its value
cleared(f, o) == [f EXCEPT ![o] = -1]

closed(n) == open \ {n}   \* close(n), skipped for -1

\* open, socket or accept in the program: any number that is not open.
Open ==
  \E n \in Numbers \ open :
    /\ open' = open \cup {n} /\ raw' = raw \cup {n}
    /\ UNCHANGED <<alive, fd_>>

\* close of a plain integer by its holder.
CloseRaw ==
  \E n \in raw :
    /\ open' = closed(n) /\ raw' = raw \ {n}
    /\ UNCHANGED <<alive, fd_>>

\* Fd(fd), also with the -1 of a call that failed, and Fd().
Construct(o) ==
  /\ o \notin alive
  /\ \E n \in raw \cup {-1} :
       /\ fd_' = [fd_ EXCEPT ![o] = n]
       /\ raw' = raw \ {n}
  /\ alive' = alive \cup {o}
  /\ UNCHANGED open

MoveConstruct(o, p) ==
  /\ o \notin alive /\ p \in alive
  /\ fd_' = [cleared(fd_, p) EXCEPT ![o] = fd_[p]]
  /\ alive' = alive \cup {o}
  /\ UNCHANGED <<raw, open>>

\* operator=(Fd &&): reset, then take over; nothing for o = o.
MoveAssign(o, p) ==
  /\ o \in alive /\ p \in alive /\ o # p
  /\ open' = closed(fd_[o])
  /\ fd_' = [cleared(fd_, p) EXCEPT ![o] = fd_[p]]
  /\ UNCHANGED <<alive, raw>>

\* release(): the caller has the descriptor from now on.
Release(o) ==
  /\ o \in alive
  /\ raw' = raw \cup ({fd_[o]} \ {-1})
  /\ fd_' = cleared(fd_, o)
  /\ UNCHANGED <<alive, open>>

\* reset(fd), also with its default -1.
Reset(o) ==
  /\ o \in alive
  /\ \E n \in raw \cup {-1} :
       /\ fd_' = [fd_ EXCEPT ![o] = n]
       /\ raw' = raw \ {n}
  /\ open' = closed(fd_[o])
  /\ UNCHANGED alive

\* ~Fd(): reset.
Destroy(o) ==
  /\ o \in alive
  /\ open' = closed(fd_[o])
  /\ fd_' = [fd_ EXCEPT ![o] = -1]
  /\ alive' = alive \ {o}
  /\ UNCHANGED raw

HandleNext ==
  \/ Open \/ CloseRaw
  \/ \E o \in Objects :
       \/ Construct(o) \/ Release(o) \/ Reset(o) \/ Destroy(o)
       \/ \E p \in Objects : MoveConstruct(o, p) \/ MoveAssign(o, p)

HandleSpec == HandleInit /\ [][HandleNext]_handleVars
-----------------------------------------------------------------------------
(* Properties. *)

\* Type invariant.
HandleTypeOK ==
  /\ alive \subseteq Objects /\ fd_ \in [Objects -> Numbers \cup {-1}]
  /\ raw \subseteq Numbers /\ open \subseteq Numbers

\* The objects that own a descriptor.
Owners == {o \in Objects : fd_[o] # -1}

\* Whatever sequence of constructions, moves, releases and resets a program
\* goes through, every open descriptor is owned by exactly one object or held
\* as one plain integer: none is closed twice, none is used after its close
\* and none is forgotten while open.
HandlesExact ==
  /\ Owners \subseteq alive
  /\ \A o, p \in Owners : fd_[o] = fd_[p] => o = p
  /\ \A o \in Owners : fd_[o] \notin raw
  /\ open = raw \cup {fd_[o] : o \in Owners}
=============================================================================
