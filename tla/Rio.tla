--------------------------------- MODULE Rio ---------------------------------
(***************************************************************************)
(* The readers of the Rio package (Chapter10/rio/rio.c): the buffered      *)
(* rio_readlineb and rio_readnb on top of rio_read, whose refill meets     *)
(* short reads, EINTR, errors and end of file, and the unbuffered          *)
(* rio_readn, which meets the same.  A caller uses one kind or the other   *)
(* on a descriptor, never both.                                            *)
(* The k-th byte of the file is the number k; NL says which are newlines.  *)
(***************************************************************************)
EXTENDS Integers, Sequences, FiniteSetsExt

CONSTANTS RIO_BUFSIZE,
          Sizes,     \* sizes callers pass: n, or the maxlen of rio_readlineb
          MaxLen     \* bound: length of the file

ASSUME RioAssumption ==
  /\ RIO_BUFSIZE \in Nat \ {0} /\ MaxLen \in Nat
  /\ Sizes \subseteq Nat \ {0}

VARIABLES
  buffered,                      \* which kind of call the caller uses
  len, NL,                       \* the file: its length and its newlines
  rd,                            \* bytes read() has taken from it
  rio_buf, rio_bufptr, rio_cnt,  \* fields of rio_t; rio_buf holds the last refill
  op, size,                      \* the call under way and its size argument
  usr,                           \* bytes copied to the caller's buffer
  ret,                           \* the value the last call returned
  taken                          \* history: all bytes ever copied to callers

rio == <<rio_buf, rio_bufptr, rio_cnt>>
vars == <<buffered, len, NL, rd, rio, op, size, usr, ret, taken>>

Init ==   \* rio_initb
  /\ buffered \in BOOLEAN
  /\ len \in 0..MaxLen /\ NL \in SUBSET (1..len)
  /\ rd = 0
  /\ rio_buf = <<>> /\ rio_bufptr = 0 /\ rio_cnt = 0
  /\ op = "none" /\ size = 0 /\ usr = <<>> /\ ret = 0 /\ taken = <<>>

\* The loops of the two calls: how many bytes rio_read is asked for next, 0
\* when the loop is left.  rio_readlineb keeps room for the final '\0'.
nleft == size - Len(usr)
line_left == IF Len(usr) + 1 < size THEN 1 ELSE 0
newline_never == FALSE                               \* mutant: c == '\n' not tested
newline_seen == usr # <<>> /\ usr[Len(usr)] \in NL

wanted ==
  IF op # "readlineb" THEN nleft
  ELSE IF newline_seen THEN 0 ELSE line_left

Calls == IF buffered THEN {"readnb", "readlineb"} ELSE {"readn"}

Call(o, n) ==
  /\ op = "none"
  /\ op' = o /\ size' = n /\ usr' = <<>>
  /\ UNCHANGED <<buffered, len, NL, rd, rio, ret, taken>>

Return(r) ==
  /\ ret' = r
  /\ op' = "none"
  /\ UNCHANGED <<buffered, len, NL, size, usr, taken>>

\* Where read() is called: rio_read on an empty buffer, and rio_readn always.
MustRead == op # "none" /\ wanted > 0 /\ rio_cnt <= 0

bufsize == RIO_BUFSIZE            \* sizeof(rp->rio_buf)

\* rio_read refills its buffer; a read may be short.
Refill ==
  /\ MustRead /\ op # "readn"
  /\ \E m \in 1..Min({bufsize, len - rd}) :
       /\ rio_buf' = [i \in 1..m |-> rd + i]
       /\ rio_cnt' = m
       /\ rd' = rd + m
  /\ rio_bufptr' = 0
  /\ UNCHANGED <<buffered, len, NL, op, size, usr, ret, taken>>

\* What a failed or empty read() leaves in rio_cnt; rio_readn has a local.
read_result(n) == rio_cnt' = IF op = "readn" THEN rio_cnt ELSE n

ReadInterrupted ==   \* EINTR: the loop reads again
  /\ MustRead
  /\ read_result(-1)
  /\ UNCHANGED <<buffered, len, NL, rd, rio_buf, rio_bufptr, op, size, usr, ret, taken>>

ReadFails ==
  /\ MustRead
  /\ read_result(-1)
  /\ Return(-1)
  /\ UNCHANGED <<rd, rio_buf, rio_bufptr>>

ReadEof ==
  /\ MustRead /\ rd = len
  /\ read_result(0)
  /\ Return(Len(usr))
  /\ UNCHANGED <<rd, rio_buf, rio_bufptr>>

copied(n) == Min({n, rio_cnt})

advanced_one(n) == 1           \* mutant: the pointer moves by one
advanced(n) == n

Copy ==
  /\ op # "none" /\ wanted > 0 /\ rio_cnt > 0
  /\ LET cnt == copied(wanted)
         bytes == SubSeq(rio_buf, rio_bufptr + 1, rio_bufptr + cnt)
     IN  /\ usr' = usr \o bytes
         /\ taken' = taken \o bytes
         /\ rio_bufptr' = rio_bufptr + advanced(cnt)
         /\ rio_cnt' = rio_cnt - cnt
  /\ UNCHANGED <<buffered, len, NL, rd, rio_buf, op, size, ret>>

\* rio_readn reads straight into the caller's buffer.
ReadDirect ==
  /\ MustRead /\ op = "readn"
  /\ \E m \in 1..Min({nleft, len - rd}) :
       /\ rd' = rd + m
       /\ taken' = taken \o [i \in 1..m |-> rd + i]
       /\ usr' = usr \o [i \in 1..m |-> rd + i]
  /\ UNCHANGED <<buffered, len, NL, rio, op, size, ret>>

Complete ==
  /\ op # "none" /\ wanted <= 0
  /\ Return(Len(usr))
  /\ UNCHANGED <<rd, rio>>

Next ==
  \/ \E o \in Calls, n \in Sizes : Call(o, n)
  \/ Refill \/ ReadDirect \/ ReadInterrupted \/ ReadFails \/ ReadEof
  \/ Copy \/ Complete

Spec == Init /\ [][Next]_vars
-----------------------------------------------------------------------------
(* Properties. *)

\* Type invariant.
TypeOK ==
  /\ rd \in 0..len
  /\ rio_buf \in Seq(Nat) /\ rio_bufptr \in 0..RIO_BUFSIZE /\ rio_cnt \in -1..RIO_BUFSIZE
  /\ op \in Calls \cup {"none"} /\ size \in Nat
  /\ usr \in Seq(Nat) /\ taken \in Seq(Nat) /\ ret \in Int

\* The bytes in the internal buffer that no call has consumed.
Unread == IF rio_cnt > 0 THEN SubSeq(rio_buf, rio_bufptr + 1, rio_bufptr + rio_cnt) ELSE <<>>

\* No byte of the file is lost, repeated or reordered between calls, however
\* refills are cut short, interrupted or failed (rio.c 70-91).
StreamPreserved == taken \o Unread = [i \in 1..rd |-> i]

\* The caller's buffer holds what was copied, with room for the '\0', and the
\* internal one what read() returned.
FitsBuffers ==
  /\ TypeOK
  /\ op # "none" => Len(usr) <= IF op = "readlineb" THEN size - 1 ELSE size
  /\ Len(rio_buf) <= RIO_BUFSIZE /\ rio_bufptr + rio_cnt <= Len(rio_buf)

(* Reference results, from the file and the position the call started at. *)
Start == Len(taken) - Len(usr)
LineEnd ==
  Min({len, Start + size - 1} \cup {k \in NL : k > Start})
CountEnd == Min({len, Start + size})

\* What a successful call is about to return is the reference: rio_readn and
\* rio_readnb all the bytes asked for, fewer only at end of file, rio_readlineb the bytes up
\* to and including the next newline, cut at maxlen - 1.
ResultsExact ==
  (op # "none" /\ (wanted <= 0 \/ (rio_cnt <= 0 /\ rd = len))) =>
    usr = [i \in 1..((IF op = "readlineb" THEN LineEnd ELSE CountEnd) - Start) |-> Start + i]

\* Every call returns.
CallsReturn == op # "none" ~> op = "none"
=============================================================================
