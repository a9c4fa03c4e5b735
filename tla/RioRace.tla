------------------------------- MODULE RioRace -------------------------------
(***************************************************************************)
(* Two threads read lines through one rio_t without a lock                 *)
(* (Chapter10/experiments/tsan_race.c).  rio_read is taken apart into its  *)
(* loads and stores of rio_cnt and rio_bufptr, with the threads            *)
(* interleaved between any two of them.  The race is undefined behaviour:  *)
(* where the source names rio_cnt again after a load or a store of its     *)
(* own, the build may read memory or keep the register, and both happen    *)
(* here.  The file is a regular one, so that a read() is short only at its *)
(* end; a copy by the kernel is one step.                                  *)
(***************************************************************************)
EXTENDS Rio

CONSTANTS Threads,
          Junk,       \* a byte past rio_buf
          maxlen,     \* sizeof(line)
          RaceLen,    \* bound: length of data.txt
          RaceLines   \* bound: where its newlines may be

VARIABLES th,         \* registers of each thread inside rio_read, and its line
          raced       \* history: two threads were inside rio_read at once

raceVars == <<vars, th, raced>>
fixed == <<buffered, len, NL, op, size, usr, ret>>   \* of Rio, unused or constant

Registers(pc) == [pc |-> pc, r |-> 0, p |-> 0, k |-> 0, c |-> 0, n |-> 0]

RaceInit ==
  /\ Init /\ buffered /\ len = RaceLen /\ NL \in RaceLines
  /\ th = [t \in Threads |-> Registers("call")]
  /\ raced = FALSE

Inside(t) == th[t].pc \notin {"call", "done"}

\* rio_readlineb calls rio_read for the next byte of a line of n bytes so far;
\* while (rp->rio_cnt <= 0)
Test(t) ==
  /\ th[t].pc \in {"call", "test"}
  /\ th' = [th EXCEPT ![t].pc = IF rio_cnt <= 0 THEN "read" ELSE "size", ![t].r = rio_cnt]
  /\ raced' = (raced \/ \E o \in Threads \ {t} : Inside(o))
  /\ UNCHANGED <<fixed, rd, rio, taken>>

\* read() overwrites the front of rio_buf; its result is still in a register.
Read(t) ==
  /\ th[t].pc = "read"
  /\ LET m == Min({RIO_BUFSIZE, len - rd})
     IN  /\ rio_buf' = [i \in 1..Max({m, Len(rio_buf)}) |-> IF i <= m THEN rd + i ELSE rio_buf[i]]
         /\ rd' = rd + m
         /\ th' = [th EXCEPT ![t].pc = "store", ![t].r = m]
  /\ UNCHANGED <<fixed, rio_bufptr, rio_cnt, taken, raced>>

ReadError(t) ==
  /\ th[t].pc = "read"
  /\ th' = [th EXCEPT ![t].pc = "store", ![t].r = -1]
  /\ UNCHANGED <<fixed, rd, rio, taken, raced>>

Store(t) ==
  /\ th[t].pc = "store"
  /\ rio_cnt' = th[t].r
  /\ th' = [th EXCEPT ![t].pc = "judge"]
  /\ UNCHANGED <<fixed, rd, rio_buf, rio_bufptr, taken, raced>>

Known(t) == {th[t].r, rio_cnt}        \* the register, or memory again

\* rio_readlineb goes on after a result of rio_read: at end of file it returns
\* the bytes it has, if any, and reader calls it again.
Returns(t, rc) ==
  th' = [th EXCEPT ![t] =
           [Registers(IF rc < 0 \/ (rc = 0 /\ th[t].n = 0) THEN "done" ELSE "call")
            EXCEPT !.n = IF rc = 1 /\ th[t].c \notin NL /\ th[t].n + 2 < maxlen THEN th[t].n + 1 ELSE 0]]

Judge(t) ==
  /\ th[t].pc = "judge"
  /\ \E below \in Known(t), zero \in Known(t) :
       \/ below < 0 /\ Returns(t, -1) /\ UNCHANGED rio_bufptr
       \/ below >= 0 /\ zero = 0 /\ Returns(t, 0) /\ UNCHANGED rio_bufptr
       \/ below >= 0 /\ zero # 0 /\ th' = [th EXCEPT ![t].pc = "test"] /\ rio_bufptr' = 0
  /\ UNCHANGED <<fixed, rd, rio_buf, rio_cnt, taken, raced>>

\* if (rp->rio_cnt < n): the comparison is unsigned, so that a count another
\* thread has made negative is not below 1.
Size(t) ==
  /\ th[t].pc = "size"
  /\ \E v \in Known(t) :
       th' = [th EXCEPT ![t].pc = "copy", ![t].k = IF v = 0 THEN 0 ELSE 1, ![t].p = rio_bufptr]
  /\ UNCHANGED <<fixed, rd, rio, taken, raced>>

Byte(p) == IF p + 1 \in DOMAIN rio_buf THEN rio_buf[p + 1] ELSE Junk

MemCpy(t) ==
  /\ th[t].pc = "copy"
  /\ th' = [th EXCEPT ![t].pc = "loadptr", ![t].c = IF th[t].k = 1 THEN Byte(th[t].p) ELSE 0]
  /\ taken' = IF raced \/ th[t].k = 0 THEN taken ELSE Append(taken, Byte(th[t].p))
  /\ UNCHANGED <<fixed, rd, rio, raced>>

LoadPtr(t) ==
  /\ th[t].pc = "loadptr"
  /\ th' = [th EXCEPT ![t].pc = "storeptr", ![t].p = rio_bufptr]
  /\ UNCHANGED <<fixed, rd, rio, taken, raced>>

StorePtr(t) ==
  /\ th[t].pc = "storeptr"
  /\ rio_bufptr' = th[t].p + th[t].k
  /\ th' = [th EXCEPT ![t].pc = "loadcnt"]
  /\ UNCHANGED <<fixed, rd, rio_buf, rio_cnt, taken, raced>>

LoadCnt(t) ==
  /\ th[t].pc = "loadcnt"
  /\ th' = [th EXCEPT ![t].pc = "storecnt", ![t].r = rio_cnt]
  /\ UNCHANGED <<fixed, rd, rio, taken, raced>>

StoreCnt(t) ==
  /\ th[t].pc = "storecnt"
  /\ rio_cnt' = th[t].r - th[t].k
  /\ Returns(t, th[t].k)
  /\ UNCHANGED <<fixed, rd, rio_buf, rio_bufptr, taken, raced>>

ThreadSteps(t) ==
  \/ Test(t) \/ Read(t) \/ ReadError(t) \/ Store(t) \/ Judge(t)
  \/ Size(t) \/ MemCpy(t) \/ LoadPtr(t) \/ StorePtr(t) \/ LoadCnt(t) \/ StoreCnt(t)

Race == \E t \in Threads : ThreadSteps(t)
RaceSpec == RaceInit /\ [][Race]_raceVars
-----------------------------------------------------------------------------
(* Properties. *)

\* Whoever reads, as long as no two threads were ever inside rio_read at the
\* same time the shared rio_t hands out the file byte for byte: overlapping
\* calls are the only way to lose or repeat one.
ExactUnlessRaced ==
  ~raced /\ (\A t \in Threads : ~Inside(t)) => StreamPreserved

\* A line never outgrows its array, raced or not: that count is the thread's own.
LineFits == \A t \in Threads : th[t].n + 1 < maxlen

ReadsFail == \E t \in Threads : []<>(th[t].pc = "store" /\ th[t].r = -1)

\* Both readers come to an end although each corrupts the other's count, unless
\* read() fails again and again: then a thread may take the other's -1 for a
\* full buffer and its 0 for no error, and loop.
ReadersEnd == ReadsFail \/ <>(\A t \in Threads : th[t].pc = "done")
=============================================================================
