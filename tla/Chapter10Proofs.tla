-------------------------- MODULE Chapter10Proofs --------------------------
(***************************************************************************)
(* Proofs about the programs of Chapter10: the Rio package, the race of    *)
(* two threads on one rio_t, the descriptor owner uds::Fd, the passing of  *)
(* an open file, and the Unix-domain server with its clients.              *)
(***************************************************************************)
EXTENDS MCChapter10, DataLemmas
-----------------------------------------------------------------------------
(***************************************************************************)
(* What the readers of the Rio package promise, for every file, every      *)
(* buffer size and every size a caller passes, however read() cuts the     *)
(* file: no byte is lost or repeated between calls, no buffer overflows,   *)
(* and a call that succeeds returns what its reference definition says.    *)
(*                                                                         *)
(* Everything rests on the bytes being consecutive.  Run(s, a, n) says     *)
(* that s is the n bytes of the file after the first a; the invariant says *)
(* which run of the file the internal buffer, the caller's buffer and the  *)
(* history of what was handed out are.                                     *)
(***************************************************************************)

Run(s, a, n) == s \in Seq(Nat) /\ Len(s) = n /\ \A i \in 1..n : s[i] = a + i

\* A run is the function that counts on from a.
LEMMA RunIs ==
  ASSUME NEW s, NEW a \in Nat, NEW n \in Nat, Run(s, a, n)
  PROVE  s = [i \in 1..n |-> a + i]
  BY DEF Run

LEMMA RunOf ==
  ASSUME NEW a \in Nat, NEW n \in Nat
  PROVE  Run([i \in 1..n |-> a + i], a, n)
<1> DEFINE s == [i \in 1..n |-> a + i]
<1>1. s \in Seq(Nat)
  BY IsASeq
<1> QED
  BY <1>1 DEF Run

LEMMA RunEmpty ==
  ASSUME NEW a \in Nat
  PROVE  Run(<<>>, a, 0)
  BY EmptySeq DEF Run

\* Consecutive runs join.
LEMMA RunConcat ==
  ASSUME NEW s, NEW t, NEW a \in Nat, NEW m \in Nat, NEW n \in Nat,
         Run(s, a, m), Run(t, a + m, n)
  PROVE  Run(s \o t, a, m + n)
<1>1. s \in Seq(Nat) /\ t \in Seq(Nat) /\ Len(s) = m /\ Len(t) = n
  BY DEF Run
<1>2. s \o t \in Seq(Nat) /\ Len(s \o t) = m + n
  BY <1>1, ConcatProperties
<1>3. \A i \in 1..(m + n) : (s \o t)[i] = IF i <= m THEN s[i] ELSE t[i - m]
  BY <1>1, ConcatProperties, Zenon
<1>4. ASSUME NEW i \in 1..(m + n) PROVE (s \o t)[i] = a + i
  <2>1. CASE i <= m
    BY <1>3, <2>1 DEF Run
  <2>2. CASE ~(i <= m)
    <3>1. PICK j \in 1..n : j = i - m
      BY <2>2
    <3>2. t[j] = (a + m) + j
      BY DEF Run
    <3>3. (s \o t)[i] = t[j]
      BY <1>3, <2>2, <3>1
    <3> QED
      BY <3>1, <3>2, <3>3
  <2> QED
    BY <2>1, <2>2
<1> QED
  BY <1>2, <1>4 DEF Run

\* A piece of a run is a run.
LEMMA RunPiece ==
  ASSUME NEW s, NEW a \in Nat, NEW m \in Nat, Run(s, a, m),
         NEW k \in Nat, NEW n \in Nat, k + n <= m
  PROVE  Run(SubSeq(s, k + 1, k + n), a + k, n)
<1> DEFINE b == k + 1
           e == k + n
           r == SubSeq(s, b, e)
<1>1. s \in Seq(Nat) /\ Len(s) = m /\ b \in 1..(Len(s) + 1) /\ e \in 0..Len(s) /\ b - 1 <= e /\ e - b + 1 = n
  BY DEF Run
<1>2. Len(r) = n
  BY <1>1, SubSeqProperties
<1>3. r \in Seq(Nat)
  BY <1>1, SubSeqProperties
<1>4. \A i \in 1..n : r[i] = s[b + i - 1]
  BY <1>1, SubSeqProperties
<1>5. ASSUME NEW i \in 1..n PROVE r[i] = (a + k) + i
  <2>1. PICK j \in 1..m : j = b + i - 1
    OBVIOUS
  <2>2. s[j] = a + j
    BY DEF Run
  <2> QED
    BY <2>1, <2>2, <1>4
<1> QED
  BY <1>2, <1>3, <1>5 DEF Run
-----------------------------------------------------------------------------
(* The inductive invariant. *)

\* The bytes rio_read holds and has not handed out; a read that failed or met
\* the end leaves rio_cnt at -1 or 0.
pending == IF rio_cnt > 0 THEN rio_cnt ELSE 0

\* The file never changes, and TypeOK does not speak of it.
FileInv == /\ buffered \in BOOLEAN /\ len \in Nat /\ NL \subseteq 1..len

\* The internal buffer: the pointer and the count meet at its end, and it holds
\* the last bytes read from the file.
BufferInv ==
  /\ Len(rio_buf) <= RIO_BUFSIZE /\ rio_bufptr <= Len(rio_buf) /\ Len(rio_buf) <= rd
  /\ rio_cnt > 0 =>
       /\ rio_bufptr + rio_cnt = Len(rio_buf)
       /\ Run(rio_buf, rd - Len(rio_buf), Len(rio_buf))

\* What was handed out is the file up to where the buffer's rest begins.
StreamInv ==
  /\ Len(taken) + pending = rd
  /\ Run(taken, 0, Len(taken))

\* The call under way has copied the bytes after the position it started at,
\* no more than fit, and a line only up to its newline.
CallInv ==
  op # "none" =>
    /\ Len(usr) <= Len(taken)
    /\ Run(usr, Len(taken) - Len(usr), Len(usr))
    /\ Len(usr) <= IF op = "readlineb" THEN size - 1 ELSE size
    /\ op = "readlineb" => \A i \in 1..(Len(usr) - 1) : usr[i] \notin NL

IndInv == FileInv /\ TypeOK /\ BufferInv /\ StreamInv /\ CallInv

\* The invariant with the lengths as numbers.
LEMMA Lengths ==
  ASSUME IndInv
  PROVE  /\ Len(rio_buf) \in Nat /\ Len(taken) \in Nat /\ Len(usr) \in Nat
         /\ rd \in Nat /\ len \in Nat /\ rd <= len /\ rio_bufptr \in Nat /\ rio_cnt \in Int
         /\ pending \in Nat /\ size \in Nat /\ RIO_BUFSIZE \in Nat \ {0}
  BY RioAssumption DEF IndInv, FileInv, TypeOK, BufferInv, StreamInv, pending

\* rio_initb establishes it.
LEMMA InitIndInv ==
  ASSUME Init
  PROVE  IndInv
<1> USE RioAssumption
<1>1. len \in Nat /\ NL \subseteq 1..len /\ buffered \in BOOLEAN
  BY DEF Init
<1>2. rd \in 0..len /\ 0 \in 0..RIO_BUFSIZE /\ 0 \in -1..RIO_BUFSIZE /\ <<>> \in Seq(Nat)
  BY <1>1 DEF Init
<1>3. Run(<<>>, 0, 0) /\ Len(<<>>) = 0
  BY RunEmpty
<1>4. TypeOK
  BY <1>1, <1>2 DEF Init, TypeOK
<1>5. BufferInv /\ StreamInv /\ CallInv
  BY <1>3 DEF Init, BufferInv, StreamInv, CallInv, pending
<1> QED
  BY <1>1, <1>4, <1>5 DEF IndInv, FileInv

\* A step that changes neither the file, the buffers nor what was handed out
\* may begin a call or end one, and lower a count that is not positive.
LEMMA KeepsBuffers ==
  ASSUME IndInv,
         UNCHANGED <<buffered, len, NL, rd, rio_buf, rio_bufptr, taken>>,
         rio_cnt' = rio_cnt \/ (rio_cnt <= 0 /\ rio_cnt' \in {-1, 0})
  PROVE  FileInv' /\ BufferInv' /\ StreamInv' /\ rio_cnt' \in -1..RIO_BUFSIZE
<1> USE RioAssumption
<1>1. rio_cnt \in -1..RIO_BUFSIZE
  BY DEF IndInv, TypeOK
<1>2. pending' = pending /\ (rio_cnt' > 0 <=> rio_cnt > 0) /\ rio_cnt' \in -1..RIO_BUFSIZE
      /\ (rio_cnt' > 0 => rio_cnt' = rio_cnt)
  BY <1>1 DEF pending
<1>3. FileInv'
  BY DEF IndInv, FileInv
<1>4. BufferInv'
  BY <1>2 DEF IndInv, BufferInv
<1>5. StreamInv'
  BY <1>2 DEF IndInv, StreamInv
<1> QED
  BY <1>2, <1>3, <1>4, <1>5

LEMMA CallKeeps ==
  ASSUME IndInv, NEW o \in Calls, NEW n \in Sizes, Call(o, n)
  PROVE  IndInv'
<1> USE RioAssumption
<1>1. FileInv' /\ BufferInv' /\ StreamInv' /\ rio_cnt' \in -1..RIO_BUFSIZE
  BY KeepsBuffers DEF Call, rio
<1>2. TypeOK'
  BY DEF IndInv, TypeOK, Call, rio, Calls
<1>3. n \in Nat \ {0} /\ Len(<<>>) = 0 /\ Len(taken) \in Nat
  BY Lengths
<1>4. Run(<<>>, Len(taken) - 0, 0)
  BY <1>3, RunEmpty
<1>5. CallInv'
  BY <1>3, <1>4 DEF CallInv, Call
<1> QED
  BY <1>1, <1>2, <1>5 DEF IndInv

\* A call that returns leaves nothing to say about the caller's buffer.
LEMMA ReturnKeeps ==
  ASSUME IndInv, ReadFails \/ ReadEof \/ Complete
  PROVE  IndInv'
<1>1. /\ UNCHANGED <<buffered, len, NL, rd, rio_buf, rio_bufptr, taken, size, usr>>
      /\ op' = "none" /\ ret' \in Int
      /\ rio_cnt' = rio_cnt \/ (rio_cnt <= 0 /\ rio_cnt' \in {-1, 0})
  BY Lengths DEF ReadFails, ReadEof, Complete, Return, MustRead, read_result, rio
<1>2. FileInv' /\ BufferInv' /\ StreamInv' /\ rio_cnt' \in -1..RIO_BUFSIZE
  BY <1>1, KeepsBuffers
<1>3. TypeOK'
  BY <1>1, <1>2 DEF IndInv, TypeOK
<1>4. CallInv'
  BY <1>1 DEF CallInv
<1> QED
  BY <1>2, <1>3, <1>4 DEF IndInv

LEMMA InterruptKeeps ==
  ASSUME IndInv, ReadInterrupted
  PROVE  IndInv'
<1>1. /\ UNCHANGED <<buffered, len, NL, rd, rio_buf, rio_bufptr, taken, size, usr, op, ret>>
      /\ rio_cnt' = rio_cnt \/ (rio_cnt <= 0 /\ rio_cnt' \in {-1, 0})
  BY DEF ReadInterrupted, MustRead, read_result
<1>2. FileInv' /\ BufferInv' /\ StreamInv' /\ rio_cnt' \in -1..RIO_BUFSIZE
  BY <1>1, KeepsBuffers
<1>3. TypeOK'
  BY <1>1, <1>2 DEF IndInv, TypeOK, Calls
<1>4. CallInv'
  BY <1>1 DEF IndInv, CallInv
<1> QED
  BY <1>2, <1>3, <1>4 DEF IndInv

\* read() fills the buffer with the next bytes of the file: the old contents
\* were all handed out, so the new ones continue what callers have seen.
LEMMA RefillKeeps ==
  ASSUME IndInv, Refill
  PROVE  IndInv'
<1> USE RioAssumption
<1>1. PICK m \in 1..Min({bufsize, len - rd}) :
        rio_buf' = [i \in 1..m |-> rd + i] /\ rio_cnt' = m /\ rd' = rd + m
  BY DEF Refill
<1>2. /\ rio_cnt <= 0 /\ rio_bufptr' = 0
      /\ UNCHANGED <<buffered, len, NL, op, size, usr, ret, taken>>
  BY DEF Refill, MustRead
<1>3. m \in Nat \ {0} /\ m <= RIO_BUFSIZE /\ m <= len - rd
  BY Lengths, MinOfTwo, SMTT(40) DEF bufsize
<1>4. Run(rio_buf', rd, m)
  BY <1>1, <1>3, Lengths, RunOf
<1>5. Len(rio_buf') = m /\ rio_buf' \in Seq(Nat)
  BY <1>4 DEF Run
<1>6. FileInv'
  BY <1>2 DEF IndInv, FileInv
<1>7. TypeOK'
  <2>1. rd' \in 0..len' /\ rio_bufptr' \in 0..RIO_BUFSIZE /\ rio_cnt' \in -1..RIO_BUFSIZE
    BY <1>1, <1>2, <1>3, Lengths, SMTT(40)
  <2> QED
    BY <1>2, <1>5, <2>1 DEF IndInv, TypeOK, Calls
<1>8. BufferInv'
  <2>1. rd' - m = rd /\ 0 + m = m /\ m <= rd' /\ 0 <= m
    BY <1>1, <1>3, Lengths, SMTT(40)
  <2> QED
    BY <1>1, <1>2, <1>3, <1>4, <1>5, <2>1 DEF BufferInv
<1>9. StreamInv'
  <2>1. pending = 0 /\ pending' = m
    <3>1. m > 0 /\ rio_cnt' = m /\ ~(rio_cnt > 0)
      BY <1>1, <1>2, <1>3, Lengths
    <3> QED
      BY <3>1 DEF pending
  <2>2. Len(taken) + 0 = rd
    BY <2>1 DEF IndInv, StreamInv
  <2>3. Len(taken) + m = rd'
    BY <2>2, <1>1, <1>3, Lengths, SMTT(40)
  <2> QED
    BY <1>2, <2>1, <2>3 DEF IndInv, StreamInv
<1>10. CallInv'
  BY <1>2 DEF IndInv, CallInv
<1> QED
  BY <1>6, <1>7, <1>8, <1>9, <1>10 DEF IndInv

\* The n bytes after what was handed out so far go to the caller: the two ways
\* to copy, from the internal buffer and straight from read(), share this.
Hands(b, n) ==
  /\ op # "none" /\ n \in Nat \ {0} /\ n <= wanted /\ Run(b, Len(taken), n)
  /\ usr' = usr \o b /\ taken' = taken \o b
  /\ UNCHANGED <<buffered, len, NL, op, size, ret>>

LEMMA HandsKeeps ==
  ASSUME IndInv, NEW b, NEW n, Hands(b, n)
  PROVE  /\ CallInv' /\ Run(taken', 0, Len(taken')) /\ Len(taken') = Len(taken) + n
         /\ usr' \in Seq(Nat) /\ taken' \in Seq(Nat)
<1>1. PICK t \in Nat, u \in Nat : t = Len(taken) /\ u = Len(usr)
  BY Lengths
<1>2. op # "none" /\ n \in Nat \ {0} /\ n <= wanted /\ Run(b, t, n) /\ Run(taken, 0, t)
  BY <1>1 DEF Hands, IndInv, StreamInv
<1>3. u <= t /\ Run(usr, t - u, u) /\ u <= (IF op = "readlineb" THEN size - 1 ELSE size)
      /\ (op = "readlineb" => \A i \in 1..(u - 1) : usr[i] \notin NL)
  BY <1>1, <1>2 DEF IndInv, CallInv
<1>4. Run(taken \o b, 0, t + n)
  BY <1>2, RunConcat
<1>5. Run(usr \o b, t - u, u + n)
  <2>1. PICK a \in Nat : a = t - u /\ a + u = t
    BY <1>3
  <2>2. Run(usr, a, u) /\ Run(b, a + u, n)
    BY <1>2, <1>3, <2>1
  <2>3. Run(usr \o b, a, u + n)
    BY <1>2, <2>2, RunConcat
  <2> QED
    BY <2>1, <2>3
<1>6. /\ Len(taken') = t + n /\ Len(usr') = u + n /\ usr' \in Seq(Nat) /\ taken' \in Seq(Nat)
      /\ Run(taken', 0, t + n) /\ Run(usr', t - u, u + n)
      /\ op' = op /\ size' = size /\ NL' = NL
  BY <1>4, <1>5 DEF Hands, Run
<1>7. (t + n) - (u + n) = t - u /\ u + n <= t + n /\ (u + n) - 1 = u + (n - 1)
  BY <1>1, <1>2, <1>3
<1>8. u + n <= IF op = "readlineb" THEN size - 1 ELSE size
  <2>1. CASE op # "readlineb"
    <3>1. wanted = size - u /\ size \in Nat
      BY <1>1, <2>1, Lengths DEF wanted, nleft
    <3> QED
      BY <1>2, <2>1, <3>1
  <2>2. CASE op = "readlineb"
    <3>1. n <= (IF u + 1 < size THEN 1 ELSE 0) /\ size \in Nat
      BY <1>1, <1>2, <2>2, Lengths DEF wanted, line_left
    <3> QED
      BY <1>2, <2>2, <3>1
  <2> QED
    BY <2>1, <2>2
<1>9. ASSUME op = "readlineb", NEW i \in 1..(u + n - 1)
      PROVE  usr'[i] \notin NL
  <2>1. ~newline_seen /\ n = 1
    <3>1. wanted \in {0, 1} /\ (newline_seen => wanted = 0)
      BY <1>9 DEF wanted, line_left
    <3>2. PICK w \in {0, 1} : w = wanted
      BY <3>1
    <3>3. w = 1 /\ n = 1
      BY <1>2, <3>2
    <3> QED
      BY <3>1, <3>2, <3>3
  <2>2. i \in 1..u
    BY <2>1
  <2>3. usr'[i] = usr[i]
    <3>1. (t - u) + i = usr'[i] /\ usr[i] = (t - u) + i
      <4>1. i \in 1..(u + n)
        BY <1>2, <2>2
      <4> QED
        BY <1>3, <1>6, <2>2, <4>1 DEF Run
    <3> QED
      BY <3>1
  <2>4. usr[i] \notin NL
    <3>1. CASE i = u
      <4>1. usr # <<>>
        BY <1>1, <2>2, <3>1
      <4> QED
        BY <1>1, <2>1, <3>1, <4>1 DEF newline_seen
    <3>2. CASE i # u
      <4>1. i \in 1..(u - 1)
        BY <2>2, <3>2
      <4> QED
        BY <1>3, <1>9, <4>1
    <3> QED
      BY <3>1, <3>2
  <2> QED
    BY <2>3, <2>4
<1>10. CallInv'
  <2>1. Len(usr') <= Len(taken') /\ Len(taken') - Len(usr') = t - u
    BY <1>6, <1>7
  <2>2. Run(usr', Len(taken') - Len(usr'), Len(usr'))
    BY <1>6, <2>1
  <2>3. Len(usr') <= IF op' = "readlineb" THEN size' - 1 ELSE size'
    BY <1>6, <1>8
  <2>4. op' = "readlineb" => \A i \in 1..(Len(usr') - 1) : usr'[i] \notin NL'
    <3>1. op = "readlineb" => \A i \in 1..(u + n - 1) : usr'[i] \notin NL
      BY <1>9
    <3>2. Len(usr') - 1 = u + n - 1
      BY <1>2, <1>6
    <3>3. op' = op /\ NL' = NL
      BY <1>6
    <3> QED
      BY <3>1, <3>2, <3>3, Zenon
  <2> QED
    BY <2>1, <2>2, <2>3, <2>4 DEF CallInv
<1> QED
  BY <1>1, <1>6, <1>10

\* rio_read hands out from its buffer the bytes at the pointer.
LEMMA CopyKeeps ==
  ASSUME IndInv, Copy
  PROVE  IndInv'
<1> USE RioAssumption
<1>1. PICK n : n = copied(wanted)
  OBVIOUS
<1> DEFINE b == SubSeq(rio_buf, rio_bufptr + 1, rio_bufptr + n)
<1>2. /\ op # "none" /\ wanted > 0 /\ rio_cnt > 0
      /\ usr' = usr \o b /\ taken' = taken \o b
      /\ rio_bufptr' = rio_bufptr + n /\ rio_cnt' = rio_cnt - n
      /\ UNCHANGED <<buffered, len, NL, rd, rio_buf, op, size, ret>>
  BY <1>1, Zenon DEF Copy, advanced
<1>3. PICK t \in Nat, p \in Nat, c \in Nat, l \in Nat :
        t = Len(taken) /\ p = rio_bufptr /\ c = rio_cnt /\ l = Len(rio_buf)
  <2>1. rio_cnt \in Nat
    BY <1>2, Lengths
  <2> QED
    BY <2>1, Lengths
<1>4. c > 0 /\ p + c = l /\ t + c = rd /\ l <= rd /\ Run(rio_buf, rd - l, l) /\ l <= RIO_BUFSIZE
  <2>1. pending = c
    BY <1>2, <1>3 DEF pending
  <2> QED
    BY <1>2, <1>3, <2>1 DEF IndInv, BufferInv, StreamInv
<1>5. wanted \in Nat
  BY <1>2, Lengths DEF wanted, nleft, line_left
<1>6. n \in Nat \ {0} /\ n <= wanted /\ n <= c
  <2>1. n = IF wanted <= c THEN wanted ELSE c
    BY <1>1, <1>3, <1>5, MinOfTwo DEF copied
  <2> QED
    BY <1>2, <1>4, <1>5, <2>1
<1>7. Run(b, t, n)
  <2>1. PICK a \in Nat : a = rd - l /\ a + p = t
    BY <1>4, Lengths
  <2>2. Run(rio_buf, a, l) /\ p + n <= l
    BY <1>4, <1>6, <2>1
  <2>3. Run(SubSeq(rio_buf, p + 1, p + n), a + p, n)
    BY <1>6, <2>2, RunPiece
  <2> QED
    BY <1>3, <2>1, <2>3
<1>8. Hands(b, n)
  BY <1>2, <1>3, <1>6, <1>7 DEF Hands
<1> HIDE DEF b
<1>9. /\ CallInv' /\ Run(taken', 0, Len(taken')) /\ Len(taken') = t + n
      /\ usr' \in Seq(Nat) /\ taken' \in Seq(Nat)
  BY <1>3, <1>8, HandsKeeps
<1>10. /\ rio_bufptr' = p + n /\ rio_cnt' = c - n /\ c - n \in 0..RIO_BUFSIZE
       /\ p + n \in 0..RIO_BUFSIZE /\ p + n <= l /\ (p + n) + (c - n) = l
       /\ (t + n) + (c - n) = rd
  <2>1. PICK r \in Nat, z \in Nat : r = rd /\ t + c = r /\ z = RIO_BUFSIZE /\ l <= z
    BY <1>4, Lengths
  <2>2. /\ c - n \in 0..z /\ p + n \in 0..z /\ p + n <= l /\ (p + n) + (c - n) = l
        /\ (t + n) + (c - n) = r
    BY <1>4, <1>6, <2>1
  <2> QED
    BY <1>2, <1>3, <2>1, <2>2
<1>11. FileInv'
  BY <1>2 DEF IndInv, FileInv
<1>12. TypeOK'
  <2>1. rio_bufptr' \in 0..RIO_BUFSIZE /\ rio_cnt' \in -1..RIO_BUFSIZE
    BY <1>10
  <2> QED
    BY <1>2, <1>9, <2>1 DEF IndInv, TypeOK, Calls
<1>13. BufferInv'
  BY <1>2, <1>3, <1>4, <1>10 DEF BufferInv
<1>14. StreamInv'
  <2>1. pending' = c - n
    BY <1>10 DEF pending
  <2>2. Len(taken') + pending' = rd'
    BY <1>2, <1>9, <1>10, <2>1
  <2> QED
    BY <1>9, <2>2 DEF StreamInv
<1> QED
  BY <1>9, <1>11, <1>12, <1>13, <1>14 DEF IndInv

\* rio_readn takes from read() what follows the bytes it has already; nothing
\* waits in the internal buffer.
LEMMA ReadDirectKeeps ==
  ASSUME IndInv, ReadDirect
  PROVE  IndInv'
<1> USE RioAssumption
<1>1. PICK m \in 1..Min({nleft, len - rd}) :
        /\ rd' = rd + m
        /\ taken' = taken \o [i \in 1..m |-> rd + i]
        /\ usr' = usr \o [i \in 1..m |-> rd + i]
  BY DEF ReadDirect
<1>2. /\ op = "readn" /\ rio_cnt <= 0 /\ wanted > 0 /\ wanted = nleft
      /\ UNCHANGED <<buffered, len, NL, rio_buf, rio_bufptr, rio_cnt, op, size, ret>>
  BY DEF ReadDirect, MustRead, rio, wanted
<1>3. m \in Nat \ {0} /\ m <= wanted /\ m <= len - rd
  <2>1. nleft \in Int /\ len - rd \in Int
    BY Lengths DEF nleft
  <2> QED
    BY <1>2, <2>1, MinOfTwo
<1>4. PICK t \in Nat : t = Len(taken) /\ t = rd /\ pending = 0 /\ pending' = 0
  <2>1. pending = 0 /\ pending' = 0
    BY <1>2, Lengths DEF pending
  <2> QED
    BY <2>1, Lengths DEF IndInv, StreamInv
<1> DEFINE b == [i \in 1..m |-> rd + i]
<1>5. Run(b, t, m)
  BY <1>3, <1>4, RunOf
<1>6. Hands(b, m)
  BY <1>1, <1>2, <1>3, <1>4, <1>5 DEF Hands
<1> HIDE DEF b
<1>7. /\ CallInv' /\ Run(taken', 0, Len(taken')) /\ Len(taken') = t + m
      /\ usr' \in Seq(Nat) /\ taken' \in Seq(Nat)
  BY <1>4, <1>6, HandsKeeps
<1>8. FileInv'
  BY <1>2 DEF IndInv, FileInv
<1>9. rd' \in 0..len' /\ rd <= rd'
  BY <1>1, <1>2, <1>3, Lengths, SMTT(40)
<1>10. TypeOK'
  BY <1>2, <1>7, <1>9 DEF IndInv, TypeOK, Calls
<1>11. BufferInv'
  <2>1. Len(rio_buf) <= rd'
    BY <1>9, Lengths DEF IndInv, BufferInv
  <2> QED
    BY <1>2, <2>1, Lengths DEF IndInv, BufferInv
<1>12. StreamInv'
  BY <1>1, <1>4, <1>7, <1>3 DEF StreamInv
<1> QED
  BY <1>7, <1>8, <1>10, <1>11, <1>12 DEF IndInv

LEMMA StutterKeeps ==
  ASSUME IndInv, UNCHANGED vars
  PROVE  IndInv'
  BY DEF IndInv, FileInv, TypeOK, BufferInv, StreamInv, CallInv, pending, Calls, vars, rio

LEMMA StepKeeps == IndInv /\ [Next]_vars => IndInv'
<1> SUFFICES ASSUME IndInv, [Next]_vars PROVE IndInv'
  OBVIOUS
<1>1. CASE \E o \in Calls, n \in Sizes : Call(o, n)
  BY <1>1, CallKeeps
<1>2. CASE Refill
  BY <1>2, RefillKeeps
<1>3. CASE ReadDirect
  BY <1>3, ReadDirectKeeps
<1>4. CASE ReadInterrupted
  BY <1>4, InterruptKeeps
<1>5. CASE ReadFails \/ ReadEof \/ Complete
  BY <1>5, ReturnKeeps
<1>6. CASE Copy
  BY <1>6, CopyKeeps
<1>7. CASE UNCHANGED vars
  BY <1>7, StutterKeeps
<1> QED
  BY <1>1, <1>2, <1>3, <1>4, <1>5, <1>6, <1>7 DEF Next

LEMMA Inductive == Spec => []IndInv
<1>1. Init => IndInv
  BY InitIndInv
<1> QED
  BY <1>1, StepKeeps, PTL DEF Spec
-----------------------------------------------------------------------------
(* What the invariant says to a caller. *)

LEMMA IndInvImplies == IndInv => StreamPreserved /\ FitsBuffers
<1>1. IndInv => StreamPreserved
  <2> SUFFICES ASSUME IndInv PROVE StreamPreserved
    OBVIOUS
  <2>1. PICK t \in Nat : t = Len(taken) /\ Run(taken, 0, t) /\ t + pending = rd
    BY Lengths DEF IndInv, StreamInv
  <2>2. Run(Unread, t, pending)
    <3>1. CASE rio_cnt > 0
      <4>1. PICK a \in Nat, l \in Nat, p \in Nat, c \in Nat :
              /\ l = Len(rio_buf) /\ a = rd - l /\ p = rio_bufptr /\ c = rio_cnt
              /\ p + c = l /\ Run(rio_buf, a, l) /\ pending = c
        BY <3>1, Lengths, SMTT(40) DEF IndInv, BufferInv, pending
      <4>2. a + p = t /\ p + c <= l
        <5>1. PICK r \in Nat : r = rd /\ t + c = r /\ a = r - l
          BY <2>1, <4>1, Lengths
        <5> QED
          BY <4>1, <5>1
      <4>3. Run(SubSeq(rio_buf, p + 1, p + c), a + p, c)
        BY <4>1, <4>2, RunPiece
      <4>4. Unread = SubSeq(rio_buf, p + 1, p + c)
        BY <3>1, <4>1 DEF Unread
      <4> QED
        BY <4>1, <4>2, <4>3, <4>4
    <3>2. CASE ~(rio_cnt > 0)
      BY <3>2, <2>1, RunEmpty DEF Unread, pending
    <3> QED
      BY <3>1, <3>2
  <2>3. PICK q \in Nat : q = pending
    BY Lengths
  <2>4. Run(taken \o Unread, 0, t + q)
    <3>1. 0 + t = t
      OBVIOUS
    <3> QED
      BY <2>1, <2>2, <2>3, <3>1, RunConcat
  <2>5. taken \o Unread = [i \in 1..(t + q) |-> 0 + i]
    <3>1. PICK n \in Nat : n = t + q
      OBVIOUS
    <3> QED
      BY <2>4, <3>1, RunIs
  <2>6. [i \in 1..(t + q) |-> 0 + i] = [i \in 1..(t + q) |-> i]
    OBVIOUS
  <2> QED
    BY <2>1, <2>3, <2>5, <2>6 DEF StreamPreserved
<1>2. IndInv => FitsBuffers
  <2> SUFFICES ASSUME IndInv PROVE FitsBuffers
    OBVIOUS
  <2>1. rio_bufptr + rio_cnt <= Len(rio_buf)
    BY Lengths DEF IndInv, BufferInv
  <2> QED
    BY <2>1 DEF IndInv, BufferInv, CallInv, FitsBuffers
<1> QED
  BY <1>1, <1>2

\* No byte of the file is lost, repeated or reordered between calls, however
\* rio_read's refills are cut short, interrupted or failed.
THEOREM EveryByteOnce == Spec => []StreamPreserved
  BY Inductive, IndInvImplies, PTL

\* The caller's buffer never receives more than its size, and rio_readlineb
\* keeps the place of the final '\0'; the pointer and the count of rio_t stay
\* inside the internal buffer.
THEOREM BuffersHold == Spec => []FitsBuffers
  BY Inductive, IndInvImplies, PTL

\* A call about to succeed has copied what the reference says: rio_readn and
\* rio_readnb all the bytes asked for and fewer only at the end of the file,
\* rio_readlineb the bytes through the next newline, cut at maxlen - 1.
THEOREM CallsReturnTheReference == Spec => []ResultsExact
<1>1. IndInv => ResultsExact
  <2> SUFFICES ASSUME IndInv, op # "none", wanted <= 0 \/ (rio_cnt <= 0 /\ rd = len)
               PROVE  usr = [i \in 1..((IF op = "readlineb" THEN LineEnd ELSE CountEnd) - Start)
                               |-> Start + i]
    BY DEF ResultsExact
  <2>1. PICK t \in Nat, u \in Nat : t = Len(taken) /\ u = Len(usr)
    BY Lengths
  <2>2. u <= t /\ Run(usr, t - u, u) /\ u <= (IF op = "readlineb" THEN size - 1 ELSE size)
        /\ (op = "readlineb" => \A i \in 1..(u - 1) : usr[i] \notin NL)
    BY <2>1 DEF IndInv, CallInv
  <2>3. PICK s \in Nat : s = Start /\ s = t - u /\ s + u = t
    BY <2>1, <2>2 DEF Start
  <2>4. t <= len /\ (rio_cnt <= 0 => t = rd)
    <3>1. t + pending = rd
      BY <2>1 DEF IndInv, StreamInv
    <3> QED
      BY <3>1, Lengths DEF pending
  <2>5. size \in Nat /\ len \in Nat /\ NL \subseteq 1..len /\ rd \in Nat
    BY Lengths DEF IndInv, FileInv
  <2>6. CASE op # "readlineb"
    <3>1. wanted = size - u
      BY <2>1, <2>6 DEF wanted, nleft
    <3>2. t <= s + size /\ (t = len \/ t = s + size)
      BY <2>2, <2>3, <2>4, <2>5, <2>6, <3>1
    <3>3. CountEnd = t
      <4>1. Min({len, s + size}) = t
        BY <2>4, <2>5, <3>2, MinOfTwo
      <4> QED
        BY <4>1, <2>3 DEF CountEnd
    <3>4. CountEnd - Start = u
      BY <2>3, <3>3
    <3>5. usr = [i \in 1..u |-> s + i]
      <4>1. Run(usr, s, u)
        BY <2>2, <2>3
      <4> QED
        BY <4>1, RunIs
    <3> QED
      BY <2>3, <2>6, <3>4, <3>5
  <2>7. CASE op = "readlineb"
    <3> DEFINE E == {len, s + size - 1} \cup {k \in NL : k > s}
    <3>1. t \in E
      <4>1. CASE wanted <= 0
        <5>1. CASE newline_seen
          <6>1. u > 0 /\ usr[u] = s + u
            BY <5>1, <2>1, <2>2, <2>3, EmptySeq DEF newline_seen, Run
          <6>2. usr[u] \in NL
            BY <5>1, <2>1 DEF newline_seen
          <6> QED
            BY <6>1, <6>2, <2>3
        <5>2. CASE ~newline_seen
          <6>1. u + 1 >= size
            BY <4>1, <5>2, <2>1, <2>5, <2>7 DEF wanted, line_left
          <6> QED
            BY <6>1, <2>2, <2>3, <2>5, <2>7
        <5> QED
          BY <5>1, <5>2
      <4>2. CASE rio_cnt <= 0 /\ rd = len
        BY <4>2, <2>4
      <4> QED
        BY <4>1, <4>2
    <3>2. \A k \in E : t <= k
      <4>1. t <= s + size - 1
        BY <2>2, <2>3, <2>5, <2>7
      <4>2. ASSUME NEW k \in NL, k > s, k < t PROVE FALSE
        <5>1. PICK i \in 1..(u - 1) : i = k - s
          BY <4>2, <2>3, <2>5
        <5>2. usr[i] = s + i
          BY <5>1, <2>2, <2>3 DEF Run
        <5>3. usr[i] = k
          BY <5>1, <5>2, <2>5
        <5> QED
          BY <5>1, <5>3, <2>2, <2>7
      <4> QED
        BY <4>1, <4>2, <2>4, <2>5
    <3>3. E \subseteq Int
      <4>1. len \in Int /\ s + size - 1 \in Int /\ 1..len \subseteq Int
        BY <2>5
      <4>2. NL \subseteq Int
        BY <2>5, <4>1, Zenon
      <4> QED
        BY <4>1, <4>2
    <3>4. LineEnd = t
      <4>1. Min(E) = t
        <5> HIDE DEF E
        <5> QED
          BY <3>1, <3>2, <3>3, MinIs
      <4> QED
        BY <4>1, <2>3 DEF LineEnd
    <3>5. LineEnd - Start = u
      BY <2>3, <3>4
    <3>6. usr = [i \in 1..u |-> s + i]
      <4>1. Run(usr, s, u)
        BY <2>2, <2>3
      <4> QED
        BY <4>1, RunIs
    <3> QED
      BY <2>3, <2>7, <3>5, <3>6
  <2> QED
    BY <2>6, <2>7
<1> QED
  BY <1>1, Inductive, PTL
-----------------------------------------------------------------------------
(***************************************************************************)
(* uds::Fd owns descriptors exactly, for any number of objects and any set *)
(* of descriptor numbers.  HandleTypeOK and HandlesExact together are      *)
(* inductive.                                                              *)
(***************************************************************************)
OwnInv == HandleTypeOK /\ HandlesExact

\* The initial state: no object, nothing open.
LEMMA InitOwns == HandleInit => OwnInv
  BY NumbersAssumption DEF HandleInit, OwnInv, HandleTypeOK, HandlesExact, Owners

\* Every operation of the class, and of the program around it, keeps the
\* invariant.
LEMMA StepOwns == OwnInv /\ [HandleNext]_handleVars => OwnInv'
<1> SUFFICES ASSUME OwnInv, [HandleNext]_handleVars PROVE OwnInv'
  OBVIOUS
<1> USE NumbersAssumption DEF OwnInv, HandleTypeOK, HandlesExact, Owners
<1>1. CASE Open
  BY <1>1 DEF Open
<1>2. CASE CloseRaw
  BY <1>2 DEF CloseRaw, closed
<1>3. ASSUME NEW o \in Objects, Construct(o) PROVE OwnInv'
  BY <1>3 DEF Construct
<1>4. ASSUME NEW o \in Objects, Release(o) PROVE OwnInv'
  BY <1>4 DEF Release, cleared
<1>5. ASSUME NEW o \in Objects, Reset(o) PROVE OwnInv'
  BY <1>5 DEF Reset, closed
<1>6. ASSUME NEW o \in Objects, Destroy(o) PROVE OwnInv'
  BY <1>6 DEF Destroy, closed
<1>7. ASSUME NEW o \in Objects, NEW p \in Objects, MoveConstruct(o, p) PROVE OwnInv'
  BY <1>7 DEF MoveConstruct, cleared
<1>8. ASSUME NEW o \in Objects, NEW p \in Objects, MoveAssign(o, p) PROVE OwnInv'
  BY <1>8 DEF MoveAssign, cleared, closed
<1>9. CASE UNCHANGED handleVars
  BY <1>9 DEF handleVars
<1> QED
  BY <1>1, <1>2, <1>3, <1>4, <1>5, <1>6, <1>7, <1>8, <1>9 DEF HandleNext

\* The descriptor handles are type-correct and own descriptors exactly,
\* through every sequence of operations.
THEOREM HandlesAreExact == HandleSpec => [](HandleTypeOK /\ HandlesExact)
<1>1. HandleInit => OwnInv
  BY InitOwns
<1>2. OwnInv /\ [HandleNext]_handleVars => OwnInv'
  BY StepOwns
<1> QED
  BY <1>1, <1>2, PTL DEF HandleSpec, OwnInv
-----------------------------------------------------------------------------
(***************************************************************************)
(* The Unix-domain echo server: answers are exact, the name leads to a     *)
(* server while one is bound, and server and client wait for each other    *)
(* only over an unfinished line, for any number of clients, lines and      *)
(* restarts (Chapter10Assumption).  None of this is inductive: that an     *)
(* answer is the right one depends on the server having written all        *)
(* earlier ones when it reads, and on nothing having been read from a      *)
(* connection that still waits for accept.                                 *)
(***************************************************************************)

\* The answers in s are those to the lines after the first a.
Numbered(s, a) == \A k \in 1..Len(s) : s[k] = -(a + k)

\* A client that has not connected has no part in anything.
IdleInv ==
  \A c \in Clients : cli[c] = "idle" =>
    /\ sent[c] = 0 /\ ~part[c] /\ rcvd[c] = 0 /\ heard[c] = <<>> /\ reply[c] = <<>>
    /\ c # cur /\ \A i \in 1..Len(queue) : queue[i] # c

\* Each connection waits once, and nothing was read from it before accept.
WaitingInv ==
  /\ \A i, j \in 1..Len(queue) : queue[i] = queue[j] => i = j
  /\ \A i \in 1..Len(queue) :
       queue[i] # cur /\ rcvd[queue[i]] = 0 /\ heard[queue[i]] = <<>> /\ reply[queue[i]] = <<>>

\* The server has a connection in its loop, and there only.
ServingInv == upc \in {"read", "write"} <=> cur \in Clients

\* Answers are numbered in the order of the lines, and there are no more of
\* them than lines read, nor of these than lines sent.
AnswerInv ==
  \A c \in Clients :
    /\ Numbered(heard[c], 0) /\ Numbered(reply[c], Len(heard[c]))
    /\ Len(heard[c]) + Len(reply[c]) <= rcvd[c] /\ rcvd[c] <= sent[c]

\* Between read and write the line in hand is the one answer that is missing.
LineInv ==
  /\ upc = "read" /\ cli[cur] # "closed" => Len(heard[cur]) + Len(reply[cur]) = rcvd[cur]
  /\ IF upc = "write" THEN line = -rcvd[cur] /\ rcvd[cur] >= 1 ELSE line = 0
  /\ upc = "write" /\ cli[cur] # "closed" => Len(heard[cur]) + Len(reply[cur]) + 1 = rcvd[cur]

\* A client types when all its lines are answered, and waits for one answer.
TurnInv ==
  \A c \in Clients :
    /\ cli[c] = "type" => sent[c] = Len(heard[c])
    /\ cli[c] = "await" => sent[c] = Len(heard[c]) + 1

UdsInv ==
  /\ Uds!TypeOK /\ Uds!NameExact
  /\ IdleInv /\ WaitingInv /\ ServingInv /\ AnswerInv /\ LineInv /\ TurnInv

\* Lengths are natural numbers: what the arithmetic below rests on.
LEMMA UdsLengths ==
  ASSUME UdsInv, NEW c \in Clients
  PROVE  /\ Len(heard[c]) \in Nat /\ Len(reply[c]) \in Nat
         /\ heard[c] \in Seq(Int) /\ reply[c] \in Seq(Int)
         /\ rcvd[c] \in 0..MaxLines /\ sent[c] \in 0..MaxLines
<1>1. heard[c] \in Seq(-MaxLines..-1) /\ reply[c] \in Seq(-MaxLines..-1)
  BY DEF UdsInv, Uds!TypeOK
<1>2. -MaxLines..-1 \subseteq Int
  BY Chapter10Assumption
<1>3. heard[c] \in Seq(Int) /\ reply[c] \in Seq(Int)
  BY <1>1, <1>2, SeqMonotonic
<1> QED
  BY <1>1, <1>3, LenProperties DEF UdsInv, Uds!TypeOK

LEMMA UdsCounts ==
  ASSUME UdsInv, NEW c \in Clients
  PROVE  \E h, n, m, e \in Nat :
           /\ h = Len(heard[c]) /\ n = Len(reply[c]) /\ m = rcvd[c] /\ e = sent[c]
           /\ h + n <= m /\ m <= e /\ e <= MaxLines
<1>1. PICK h, n, m, e \in Nat : h = Len(heard[c]) /\ n = Len(reply[c]) /\ m = rcvd[c] /\ e = sent[c] /\ e <= MaxLines
  BY UdsLengths, Chapter10Assumption, SMTT(40)
<1>2. h + n <= m /\ m <= e
  BY <1>1 DEF UdsInv, AnswerInv
<1> QED
  BY <1>1, <1>2

LEMMA NumberedAppend ==
  ASSUME NEW s \in Seq(Int), NEW a \in Nat, Numbered(s, a), NEW e \in Int, e = -(a + Len(s) + 1)
  PROVE  Numbered(Append(s, e), a) /\ Len(Append(s, e)) = Len(s) + 1
  BY DEF Numbered

LEMMA NumberedTail ==
  ASSUME NEW s \in Seq(Int), NEW a \in Nat, Numbered(s, a), s # <<>>
  PROVE  Head(s) = -(a + 1) /\ Numbered(Tail(s), a + 1) /\ Len(Tail(s)) = Len(s) - 1 /\ Len(s) > 0
  BY DEF Numbered

LEMMA NumberedJoin ==
  ASSUME NEW s \in Seq(Int), NEW t \in Seq(Int), Numbered(s, 0), Numbered(t, Len(s))
  PROVE  s \o t = [i \in 1..Len(s \o t) |-> -i] /\ Len(s \o t) = Len(s) + Len(t)
<1>1. PICK h, n \in Nat : h = Len(s) /\ n = Len(t)
  BY LenProperties
<1>2. s \o t \in Seq(Int) /\ Len(s \o t) = h + n
  BY <1>1, ConcatProperties
<1>3. \A i \in 1..(h + n) : (s \o t)[i] = IF i <= h THEN s[i] ELSE t[i - h]
  BY <1>1, ConcatProperties, Zenon
<1>4. ASSUME NEW i \in 1..(h + n) PROVE (s \o t)[i] = -i
  <2>1. CASE i <= h
    BY <1>1, <1>3, <2>1 DEF Numbered
  <2>2. CASE ~(i <= h)
    <3>1. PICK j \in 1..n : j = i - h
      BY <2>2
    <3>2. t[j] = -(h + j)
      BY <1>1 DEF Numbered
    <3>3. (s \o t)[i] = t[j]
      BY <1>3, <2>2, <3>1
    <3> QED
      BY <3>1, <3>2, <3>3
  <2> QED
    BY <2>1, <2>2
<1>5. s \o t = [i \in 1..(h + n) |-> (s \o t)[i]]
  BY <1>2, LenProperties
<1> QED
  BY <1>1, <1>2, <1>4, <1>5

LEMMA UdsInitInv == Uds!Init => UdsInv
<1> SUFFICES ASSUME Uds!Init PROVE UdsInv
  OBVIOUS
<1> USE Chapter10Assumption DEF Uds!Init
<1>1. Uds!TypeOK
  BY DEF Uds!TypeOK
<1>2. Uds!NameExact
  BY DEF Uds!NameExact
<1>3. IdleInv /\ WaitingInv /\ ServingInv
  BY DEF IdleInv, WaitingInv, ServingInv
<1>4. AnswerInv /\ LineInv /\ TurnInv
  BY DEF AnswerInv, LineInv, TurnInv, Numbered
<1> QED
  BY <1>1, <1>2, <1>3, <1>4 DEF UdsInv

\* Steps of the server that read and write nothing: those of its start, and
\* the close of a connection.
LEMMA UdsQuietKeeps ==
  ASSUME UdsInv, UNCHANGED <<abstract, Uds!clients, rcvd, reply>>, starts' \in 0..MaxStarts,
         queue' \in {queue, <<>>},
         cur' = NoClient, line' = 0,
         upc' \in {"down", "bind", "register", "listen", "accept"},
         sockfile' \in {"none", "stale", "live"}, Uds!NameExact'
  PROVE  UdsInv'
<1> USE DEF UdsInv, Uds!clients
<1>1. line' \in -MaxLines..0
  BY Chapter10Assumption
<1>2. Uds!TypeOK'
  <2>1. queue' \in Seq(Clients)
    BY EmptySeq DEF Uds!TypeOK
  <2> QED
    BY <1>1, <2>1, Zenon DEF Uds!TypeOK
<1>3. IdleInv'
  <2>1. \A c : (\A i \in 1..Len(queue) : queue[i] # c) => \A i \in 1..Len(queue') : queue'[i] # c
    BY EmptySeq
  <2> QED
    BY <2>1, Chapter10Assumption, Zenon DEF IdleInv
<1>4. WaitingInv'
  <2>1. \A i \in 1..Len(queue) : queue[i] \in Clients
    BY ElementOfSeq DEF Uds!TypeOK
  <2> QED
    BY <2>1, Chapter10Assumption, SMTT(40) DEF WaitingInv
<1>5. ServingInv'
  BY Chapter10Assumption DEF ServingInv
<1>6. AnswerInv' /\ LineInv' /\ TurnInv'
  BY DEF AnswerInv, LineInv, TurnInv
<1> QED
  BY <1>2, <1>3, <1>4, <1>5, <1>6

LEMMA UdsStartKeeps ==
  ASSUME UdsInv, Uds!Start \/ Uds!Bind \/ Uds!Register \/ Uds!Listen
  PROVE  UdsInv'
<1> USE DEF Uds!Start, Uds!Bind, Uds!Register, Uds!Listen, Uds!Advance, Uds!cleanup
<1>1. cur' = NoClient /\ line' = 0
  BY DEF UdsInv, ServingInv, LineInv, Uds!TypeOK
<1>2. UNCHANGED <<abstract, Uds!clients, rcvd, reply>> /\ queue' = queue
  OBVIOUS
<1>4. starts' \in 0..MaxStarts
  BY Chapter10Assumption, SMTT(40) DEF UdsInv, Uds!TypeOK
<1>3. /\ upc' \in {"down", "bind", "register", "listen", "accept"}
      /\ sockfile' \in {"none", "stale", "live"} /\ Uds!NameExact'
  BY DEF UdsInv, Uds!NameExact, Uds!TypeOK
<1> QED
  BY <1>1, <1>2, <1>3, <1>4, UdsQuietKeeps

\* The end of a connection, and every end of the server.
LEMMA UdsEndKeeps ==
  ASSUME UdsInv, Uds!ReadEnd \/ Uds!WriteFails \/ Uds!ServerEnds
  PROVE  UdsInv'
<1> USE DEF Uds!ReadEnd, Uds!WriteFails, Uds!ServerEnds, Uds!CloseConnection, Uds!GoDown,
            Uds!BindFails, Uds!Dies, Uds!on_signal, Uds!Killed
<1>1. cur' = NoClient /\ line' = 0 /\ queue' \in {queue, <<>>} /\ upc' \in {"down", "accept"}
  OBVIOUS
<1>2. UNCHANGED <<abstract, Uds!clients, rcvd, reply>>
  OBVIOUS
<1>3. starts' \in 0..MaxStarts
  BY DEF UdsInv, Uds!TypeOK
<1>4. sockfile' \in {"none", "stale", "live"} /\ Uds!NameExact'
  BY DEF UdsInv, Uds!NameExact, Uds!TypeOK, Uds!cleanup, Uds!leftover
<1> QED
  BY <1>1, <1>2, <1>3, <1>4, UdsQuietKeeps

LEMMA UdsAcceptKeeps ==
  ASSUME UdsInv, Uds!Accept
  PROVE  UdsInv'
<1> USE DEF UdsInv, Uds!Accept, Uds!clients
<1>1. /\ Tail(queue) \in Seq(Clients) /\ Head(queue) \in Clients /\ Head(queue) = queue[1]
      /\ Len(Tail(queue)) = Len(queue) - 1 /\ Len(queue) \in Nat \ {0}
      /\ \A i \in 1..Len(Tail(queue)) : Tail(queue)[i] = queue[i + 1]
  BY DEF Uds!TypeOK
<1>2. ServingInv'
  BY <1>1 DEF ServingInv
<1>3. Uds!TypeOK'
  BY <1>1, Zenon DEF Uds!TypeOK
<1>4. Uds!NameExact'
  BY DEF Uds!NameExact
<1>5. WaitingInv'
  BY <1>1 DEF WaitingInv
<1>6. IdleInv'
  <2>1. \A c \in Clients : (\A i \in 1..Len(queue) : queue[i] # c) =>
          c # Head(queue) /\ \A i \in 1..Len(Tail(queue)) : Tail(queue)[i] # c
    BY <1>1
  <2> QED
    BY <2>1, Zenon DEF IdleInv
<1>7. AnswerInv' /\ TurnInv'
  BY DEF AnswerInv, TurnInv
<1>8. LineInv'
  <2>1. Len(heard[Head(queue)]) = 0 /\ Len(reply[Head(queue)]) = 0 /\ rcvd[Head(queue)] = 0
    BY <1>1, EmptySeq DEF WaitingInv
  <2>2. line = 0
    BY DEF LineInv
  <2> QED
    BY <1>1, <2>1, <2>2 DEF LineInv
<1> QED
  BY <1>2, <1>3, <1>4, <1>5, <1>6, <1>7, <1>8

LEMMA UdsReadLineKeeps ==
  ASSUME UdsInv, Uds!ReadLine
  PROVE  UdsInv'
<1>1. cur \in Clients
  BY DEF UdsInv, ServingInv, Uds!ReadLine
<1>2. PICK h, n, m, e \in Nat :
        /\ h = Len(heard[cur]) /\ n = Len(reply[cur]) /\ m = rcvd[cur] /\ e = sent[cur]
        /\ h + n <= m /\ m <= e /\ e <= MaxLines
  BY <1>1, UdsCounts
<1>0. h + n <= m /\ m <= e /\ e <= MaxLines
  BY <1>2, Zenon
<1>10. m < e
  BY <1>2 DEF Uds!ReadLine, Uds!LineReady
<1>11. m + 1 \in 0..MaxLines /\ -(m + 1) \in -MaxLines..0 /\ h + n <= m + 1 /\ m + 1 <= e
  BY <1>0, <1>10, Chapter10Assumption
<1> USE DEF UdsInv, Uds!ReadLine, Uds!clients, Uds!LineReady, Uds!buf_toupper
<1>3. /\ rcvd' \in [Clients -> 0..MaxLines] /\ line' \in -MaxLines..0
      /\ rcvd'[cur] = m + 1 /\ \A c \in Clients : c # cur => rcvd'[c] = rcvd[c]
      /\ line' = -(m + 1)
  <2>2. rcvd' = [rcvd EXCEPT ![cur] = m + 1] /\ line' = -(m + 1)
    BY <1>2
  <2>3. rcvd \in [Clients -> 0..MaxLines]
    BY DEF Uds!TypeOK
  <2> HIDE DEF UdsInv, Uds!ReadLine
  <2> QED
    BY <1>1, <1>11, <2>2, <2>3
<1>4. Uds!TypeOK'
  BY <1>3, Zenon DEF Uds!TypeOK
<1>5. Uds!NameExact' /\ ServingInv'
  BY <1>1 DEF Uds!NameExact, ServingInv
<1>6. WaitingInv'
  <2>1. \A i \in 1..Len(queue) : queue[i] \in Clients
    BY ElementOfSeq DEF Uds!TypeOK
  <2> QED
    BY <2>1, <1>3 DEF WaitingInv
<1>7. IdleInv'
  BY <1>3, Zenon DEF IdleInv
<1>8. AnswerInv' /\ TurnInv'
  <2>1. ASSUME NEW c \in Clients
        PROVE  Len(heard[c]) + Len(reply[c]) <= rcvd'[c] /\ rcvd'[c] <= sent[c]
    <3>1. CASE c = cur
      BY <3>1, <1>11, <1>2, <1>3
    <3>2. CASE c # cur
      BY <3>2, <1>3 DEF AnswerInv
    <3> QED
      BY <3>1, <3>2
  <2> QED
    BY <2>1 DEF AnswerInv, TurnInv
<1>9. LineInv'
  <2>1. upc = "read" /\ (cli[cur] # "closed" => h + n = m)
    BY <1>2 DEF LineInv
  <2>2. /\ upc' = "write" /\ UNCHANGED <<cur, cli, heard, reply>>
    OBVIOUS
  <2>3. line' = -(rcvd'[cur']) /\ rcvd'[cur'] >= 1
    BY <1>2, <1>3, <2>2
  <2>4. cli'[cur'] # "closed" => Len(heard'[cur']) + Len(reply'[cur']) + 1 = rcvd'[cur']
    <3>1. h + n = m => h + n + 1 = m + 1
      OBVIOUS
    <3> QED
      BY <1>2, <1>3, <2>1, <2>2, <3>1
  <2> QED
    BY <2>2, <2>3, <2>4 DEF LineInv
<1> QED
  BY <1>4, <1>5, <1>6, <1>7, <1>8, <1>9

LEMMA UdsWriteLineKeeps ==
  ASSUME UdsInv, Uds!WriteLine
  PROVE  UdsInv'
<1> USE DEF UdsInv, Uds!WriteLine, Uds!clients
<1>1. cur \in Clients
  BY DEF ServingInv
<1>2. PICK h, n, m, e \in Nat :
        /\ h = Len(heard[cur]) /\ n = Len(reply[cur]) /\ m = rcvd[cur] /\ e = sent[cur]
        /\ h + n <= m /\ m <= e /\ e <= MaxLines
  BY <1>1, UdsCounts
<1>0. h + n <= m /\ m <= e /\ e <= MaxLines
  BY <1>2, Zenon
<1>3. h + n + 1 = m /\ line = -m /\ m >= 1
  BY <1>1, <1>2 DEF LineInv
<1>4. /\ reply[cur] \in Seq(-MaxLines..-1) /\ reply[cur] \in Seq(Int)
      /\ line \in -MaxLines..-1 /\ line \in Int
  <2>1. line \in -MaxLines..-1 /\ line \in Int
    BY <1>2, <1>3, Chapter10Assumption, SMTT(40)
  <2>2. reply[cur] \in Seq(Int)
    BY <1>1, UdsLengths
  <2> QED
    BY <1>1, <2>1, <2>2 DEF Uds!TypeOK
<1>5. /\ Append(reply[cur], line) \in Seq(-MaxLines..-1)
      /\ Len(Append(reply[cur], line)) = n + 1
      /\ Numbered(Append(reply[cur], line), h)
  <2>1. Numbered(reply[cur], h)
    BY <1>1, <1>2 DEF AnswerInv
  <2>2. line = -(h + n + 1)
    BY <1>3
  <2>3. Append(reply[cur], line) \in Seq(-MaxLines..-1)
    BY <1>4
  <2> QED
    BY <1>2, <1>4, <2>1, <2>2, <2>3, NumberedAppend
<1>6. /\ reply' \in [Clients -> Seq(-MaxLines..-1)] /\ line' \in -MaxLines..0
      /\ reply'[cur] = Append(reply[cur], line)
      /\ \A c \in Clients : c # cur => reply'[c] = reply[c]
  BY <1>1, <1>5, Chapter10Assumption, SMTT(40) DEF Uds!TypeOK
<1>7. Uds!TypeOK'
  BY <1>6, Zenon DEF Uds!TypeOK
<1>8. Uds!NameExact' /\ ServingInv'
  BY <1>1 DEF Uds!NameExact, ServingInv
<1>9. WaitingInv'
  <2>1. \A i \in 1..Len(queue) : queue[i] \in Clients
    BY ElementOfSeq DEF Uds!TypeOK
  <2> QED
    BY <2>1, <1>6 DEF WaitingInv
<1>10. IdleInv'
  BY <1>6, Zenon DEF IdleInv
<1>11. AnswerInv' /\ TurnInv'
  <2>1. ASSUME NEW c \in Clients
        PROVE  Numbered(reply'[c], Len(heard[c])) /\ Len(heard[c]) + Len(reply'[c]) <= rcvd[c]
    <3>1. CASE c = cur
      <4>1. h + (n + 1) <= m
        BY <1>3
      <4> QED
        BY <3>1, <4>1, <1>2, <1>5, <1>6
    <3>2. CASE c # cur
      BY <3>2, <1>6 DEF AnswerInv
    <3> QED
      BY <3>1, <3>2
  <2> QED
    BY <2>1 DEF AnswerInv, TurnInv
<1>12. LineInv'
  <2>1. UNCHANGED <<cur, cli, heard, rcvd>> /\ upc' = "read" /\ line' = 0
    OBVIOUS
  <2>2. Len(reply'[cur]) = n + 1 /\ h + (n + 1) = m
    BY <1>3, <1>5, <1>6
  <2> QED
    BY <1>2, <2>1, <2>2 DEF LineInv
<1> QED
  BY <1>7, <1>8, <1>9, <1>10, <1>11, <1>12

\* Steps of a client other than hearing an answer change neither the server
\* nor the answers, except that an answer to a client that leaves is lost.
LEMMA UdsTypeKeeps ==
  ASSUME UdsInv, NEW c \in Clients, Uds!Type(c)
  PROVE  UdsInv'
<1> USE DEF Uds!Type, Uds!ClientTo, Uds!server
<1>1. PICK h, n, m, e \in Nat :
        /\ h = Len(heard[c]) /\ n = Len(reply[c]) /\ m = rcvd[c] /\ e = sent[c]
        /\ h + n <= m /\ m <= e /\ e <= MaxLines
  BY UdsCounts
<1>0. h + n <= m /\ m <= e /\ e <= MaxLines
  BY <1>1, Zenon
<1>2. e = h /\ e < MaxLines /\ cli[c] = "type"
  BY <1>1 DEF UdsInv, TurnInv
<1>3. /\ cli' \in [Clients -> {"idle", "type", "await", "closed"}] /\ cli'[c] = "await"
      /\ \A d \in Clients : d # c => cli'[d] = cli[d]
  BY DEF UdsInv, Uds!TypeOK
<1>4. /\ sent' \in [Clients -> 0..MaxLines] /\ sent'[c] = e + 1
      /\ \A d \in Clients : d # c => sent'[d] = sent[d]
  <2>1. e + 1 \in 0..MaxLines
    BY <1>2, Chapter10Assumption
  <2>2. sent' = [sent EXCEPT ![c] = e + 1]
    BY <1>1
  <2>3. sent \in [Clients -> 0..MaxLines]
    BY DEF UdsInv, Uds!TypeOK
  <2> QED
    BY <2>1, <2>2, <2>3
<1>5. part' \in [Clients -> BOOLEAN] /\ \A d \in Clients : d # c => part'[d] = part[d]
  <2>1. part \in [Clients -> BOOLEAN]
    BY DEF UdsInv, Uds!TypeOK
  <2> QED
    BY <2>1, Zenon
<1>6. Uds!TypeOK'
  BY <1>3, <1>4, <1>5, Zenon DEF UdsInv, Uds!TypeOK
<1>7. Uds!NameExact' /\ WaitingInv' /\ ServingInv'
  BY DEF UdsInv, Uds!NameExact, WaitingInv, ServingInv
<1>8. IdleInv'
  <2>1. \A d \in Clients : cli'[d] = "idle" => d # c
    BY <1>3
  <2>2. UNCHANGED <<rcvd, heard, reply, queue, cur>>
    OBVIOUS
  <2> HIDE DEF Uds!Type
  <2> QED
    BY <1>3, <1>4, <1>5, <2>1, <2>2, Zenon DEF UdsInv, IdleInv
<1>9. AnswerInv'
  <2>1. ASSUME NEW d \in Clients PROVE rcvd[d] <= sent'[d]
    <3>1. m <= e + 1
      BY <1>0
    <3>2. d # c => rcvd[d] <= sent[d]
      BY DEF UdsInv, AnswerInv
    <3> QED
      BY <1>1, <1>4, <3>1, <3>2
  <2> QED
    BY <2>1 DEF UdsInv, AnswerInv
<1>10. TurnInv'
  BY <1>1, <1>2, <1>3, <1>4 DEF UdsInv, TurnInv
<1>11. LineInv'
  <2>1. upc \in {"read", "write"} => cur \in Clients
    BY DEF UdsInv, ServingInv
  <2>2. cur \in Clients => (cli'[cur] = "closed" <=> cli[cur] = "closed")
    BY <1>2, <1>3
  <2>3. LineInv
    BY DEF UdsInv
  <2> QED
    BY <2>1, <2>2, <2>3 DEF LineInv
<1> QED
  BY <1>6, <1>7, <1>8, <1>9, <1>10, <1>11 DEF UdsInv

LEMMA UdsConnectKeeps ==
  ASSUME UdsInv, NEW c \in Clients, Uds!Connect(c)
  PROVE  UdsInv'
<1> USE DEF Uds!Connect, Uds!ClientTo, Uds!server
<1>1. /\ cli' \in [Clients -> {"idle", "type", "await", "closed"}] /\ cli'[c] = "type"
      /\ \A d \in Clients : d # c => cli'[d] = cli[d]
  BY DEF UdsInv, Uds!TypeOK
<1>2. /\ sent[c] = 0 /\ rcvd[c] = 0 /\ heard[c] = <<>> /\ reply[c] = <<>>
      /\ c # cur /\ \A i \in 1..Len(queue) : queue[i] # c
  BY Zenon DEF UdsInv, IdleInv
<1>3. /\ queue' \in Seq(Clients) /\ Len(queue) \in Nat /\ Len(queue') = Len(queue) + 1
      /\ queue'[Len(queue) + 1] = c /\ \A i \in 1..Len(queue) : queue'[i] = queue[i]
  BY DEF UdsInv, Uds!TypeOK
<1>4. UNCHANGED <<sent, part, heard, reply, abstract, upc, cur, line, sockfile, starts, rcvd>>
  OBVIOUS
<1>5. Uds!TypeOK'
  BY <1>1, <1>3, <1>4, Zenon DEF UdsInv, Uds!TypeOK
<1>6. Uds!NameExact' /\ ServingInv'
  BY <1>4 DEF UdsInv, Uds!NameExact, ServingInv
<1>11. AnswerInv'
  BY <1>4, Zenon DEF UdsInv, AnswerInv
<1>7. WaitingInv'
  <2>1. ASSUME NEW i \in 1..Len(queue')
        PROVE  IF i = Len(queue) + 1 THEN queue'[i] = c ELSE i \in 1..Len(queue) /\ queue'[i] = queue[i]
    BY <1>3
  <2> QED
    BY <2>1, <1>2, <1>3, <1>4 DEF UdsInv, WaitingInv
<1>8. IdleInv'
  <2>1. \A d \in Clients : cli'[d] = "idle" => d # c /\ cli[d] = "idle"
    BY <1>1
  <2>2. \A d \in Clients : d # c /\ (\A i \in 1..Len(queue) : queue[i] # d) =>
          \A i \in 1..Len(queue') : queue'[i] # d
    <3>1. \A i \in 1..Len(queue') : i = Len(queue) + 1 \/ i \in 1..Len(queue)
      BY <1>3
    <3> QED
      BY <1>3, <3>1
  <2> QED
    BY <1>4, <2>1, <2>2, Zenon DEF UdsInv, IdleInv
<1>9. TurnInv'
  <2>1. Len(heard[c]) = 0
    BY <1>2, EmptySeq
  <2> QED
    BY <1>1, <1>2, <1>4, <2>1 DEF UdsInv, TurnInv
<1>10. LineInv'
  <2>1. upc \in {"read", "write"} => cur \in Clients
    BY DEF UdsInv, ServingInv
  <2>2. cur \in Clients => cli'[cur] = cli[cur]
    BY <1>1, <1>2
  <2>3. LineInv
    BY DEF UdsInv
  <2> QED
    BY <1>4, <2>1, <2>2, <2>3 DEF LineInv
<1> QED
  BY <1>5, <1>6, <1>7, <1>8, <1>9, <1>10, <1>11 DEF UdsInv

LEMMA UdsHearKeeps ==
  ASSUME UdsInv, NEW c \in Clients, Uds!Hear(c)
  PROVE  UdsInv'
<1>1. PICK h, n, m, e \in Nat :
        /\ h = Len(heard[c]) /\ n = Len(reply[c]) /\ m = rcvd[c] /\ e = sent[c]
        /\ h + n <= m /\ m <= e /\ e <= MaxLines
  BY UdsCounts
<1>0. h + n <= m /\ m <= e /\ e <= MaxLines
  BY <1>1, Zenon
<1>2. e = h + 1 /\ cli[c] = "await" /\ reply[c] # <<>>
  BY <1>1 DEF UdsInv, TurnInv, Uds!Hear
<1>3. Numbered(heard[c], 0) /\ Numbered(reply[c], h)
  BY <1>1 DEF UdsInv, AnswerInv
<1>4. heard[c] \in Seq(Int) /\ reply[c] \in Seq(Int)
  BY UdsLengths
<1>5. /\ Head(reply[c]) = -(h + 1) /\ Numbered(Tail(reply[c]), h + 1)
      /\ Len(Tail(reply[c])) = n - 1 /\ n > 0
  BY <1>1, <1>2, <1>3, <1>4, NumberedTail
<1>6. /\ Numbered(Append(heard[c], Head(reply[c])), 0)
      /\ Len(Append(heard[c], Head(reply[c]))) = h + 1
  <2>1. -(h + 1) \in Int /\ -(h + 1) = -(0 + h + 1)
    OBVIOUS
  <2> QED
    BY <1>1, <1>3, <1>4, <1>5, <2>1, NumberedAppend
<1>7. heard[c] \in Seq(-MaxLines..-1) /\ reply[c] \in Seq(-MaxLines..-1)
  BY DEF UdsInv, Uds!TypeOK
<1>8. Append(heard[c], Head(reply[c])) \in Seq(-MaxLines..-1) /\ Tail(reply[c]) \in Seq(-MaxLines..-1)
  <2>1. Head(reply[c]) \in -MaxLines..-1
    BY <1>2, <1>7, HeadTailProperties
  <2>2. Append(heard[c], Head(reply[c])) \in Seq(-MaxLines..-1)
    BY <1>7, <2>1, AppendProperties
  <2> QED
    BY <1>2, <1>7, <2>2, HeadTailProperties
<1> USE DEF Uds!Hear, Uds!ClientTo, Uds!server
<1>9. /\ cli' \in [Clients -> {"idle", "type", "await", "closed"}] /\ cli'[c] = "type"
      /\ \A d \in Clients : d # c => cli'[d] = cli[d]
  BY DEF UdsInv, Uds!TypeOK
<1>10. /\ heard' \in [Clients -> Seq(-MaxLines..-1)] /\ heard'[c] = Append(heard[c], Head(reply[c]))
       /\ \A d \in Clients : d # c => heard'[d] = heard[d]
  BY <1>8 DEF UdsInv, Uds!TypeOK
<1>11. /\ reply' \in [Clients -> Seq(-MaxLines..-1)] /\ reply'[c] = Tail(reply[c])
       /\ \A d \in Clients : d # c => reply'[d] = reply[d]
  BY <1>8 DEF UdsInv, Uds!TypeOK
<1>12. UNCHANGED <<sent, part, queue, abstract, upc, cur, line, sockfile, starts, rcvd>>
  OBVIOUS
<1> HIDE DEF Uds!Hear
<1>13. Uds!TypeOK'
  BY <1>9, <1>10, <1>11, <1>12, Zenon DEF UdsInv, Uds!TypeOK
<1>14. Uds!NameExact' /\ ServingInv'
  BY <1>12 DEF UdsInv, Uds!NameExact, ServingInv
<1>15. WaitingInv'
  <2>1. \A i \in 1..Len(queue) : queue[i] \in Clients /\ queue[i] # c
    BY <1>2, ElementOfSeq DEF UdsInv, WaitingInv, Uds!TypeOK
  <2> QED
    BY <1>10, <1>11, <1>12, <2>1, ZenonT(40) DEF UdsInv, WaitingInv
<1>16. IdleInv'
  <2>1. \A d \in Clients : cli'[d] = "idle" => d # c
    BY <1>9
  <2> QED
    BY <1>9, <1>10, <1>11, <1>12, <2>1, Zenon DEF UdsInv, IdleInv
<1>17. AnswerInv'
  <2>1. (h + 1) + (n - 1) <= m
    BY <1>0
  <2> QED
    BY <1>1, <1>5, <1>6, <1>10, <1>11, <1>12, <2>1 DEF UdsInv, AnswerInv
<1>18. TurnInv'
  BY <1>1, <1>2, <1>6, <1>9, <1>10, <1>12 DEF UdsInv, TurnInv
<1>19. LineInv'
  <2>1. upc \in {"read", "write"} => cur \in Clients
    BY DEF UdsInv, ServingInv
  <2>2. LineInv
    BY DEF UdsInv
  <2>3. CASE cur # c
    BY <1>9, <1>10, <1>11, <1>12, <2>1, <2>2, <2>3 DEF LineInv
  <2>4. CASE cur = c
    <3>1. Len(heard'[c]) + Len(reply'[c]) = h + n
      <4>1. (h + 1) + (n - 1) = h + n
        OBVIOUS
      <4> QED
        BY <4>1, <1>5, <1>6, <1>10, <1>11
    <3>2. cli[c] # "closed"
      BY <1>2
    <3> QED
      BY <1>1, <1>12, <2>2, <2>4, <3>1, <3>2 DEF LineInv
  <2> QED
    BY <2>3, <2>4
<1> QED
  BY <1>13, <1>14, <1>15, <1>16, <1>17, <1>18, <1>19 DEF UdsInv

\* A client goes: it fails to connect, or closes, or is killed.  Answers on
\* their way to it are lost.
LEMMA UdsLeaveKeeps ==
  ASSUME UdsInv, NEW c \in Clients,
         Uds!ConnectFails(c) \/ Uds!EndOfInput(c) \/ Uds!ServerClosed(c) \/ Uds!ClientKilled(c)
  PROVE  UdsInv'
<1> USE DEF Uds!ConnectFails, Uds!EndOfInput, Uds!ServerClosed, Uds!ClientKilled, Uds!Leave,
            Uds!ClientTo, Uds!server
<1>1. /\ cli' \in [Clients -> {"idle", "type", "await", "closed"}] /\ cli'[c] = "closed"
      /\ \A d \in Clients : d # c => cli'[d] = cli[d]
  BY DEF UdsInv, Uds!TypeOK
<1>2. /\ reply' \in [Clients -> Seq(-MaxLines..-1)] /\ reply'[c] \in {reply[c], <<>>}
      /\ \A d \in Clients : d # c => reply'[d] = reply[d]
  <2>1. <<>> \in Seq(-MaxLines..-1) /\ reply \in [Clients -> Seq(-MaxLines..-1)]
    BY EmptySeq DEF UdsInv, Uds!TypeOK
  <2>2. reply' = reply \/ reply' = [reply EXCEPT ![c] = <<>>]
    OBVIOUS
  <2> HIDE DEF Uds!ConnectFails, Uds!EndOfInput, Uds!ServerClosed, Uds!ClientKilled
  <2> QED
    BY <2>1, <2>2
<1>3. UNCHANGED <<sent, part, queue, abstract, upc, cur, line, sockfile, starts, rcvd, heard>>
  OBVIOUS
<1> HIDE DEF Uds!ConnectFails, Uds!EndOfInput, Uds!ServerClosed, Uds!ClientKilled
<1>4. Uds!TypeOK'
  BY <1>1, <1>2, <1>3, Zenon DEF UdsInv, Uds!TypeOK
<1>5. Uds!NameExact' /\ ServingInv'
  BY <1>3 DEF UdsInv, Uds!NameExact, ServingInv
<1>6. WaitingInv'
  <2>1. \A i \in 1..Len(queue) : queue[i] \in Clients
    BY ElementOfSeq DEF UdsInv, Uds!TypeOK
  <2> QED
    BY <1>2, <1>3, <2>1 DEF UdsInv, WaitingInv
<1>7. IdleInv'
  <2>1. \A d \in Clients : cli'[d] = "idle" => d # c
    BY <1>1
  <2> QED
    BY <1>1, <1>2, <1>3, <2>1, Zenon DEF UdsInv, IdleInv
<1>8. AnswerInv'
  <2>1. PICK h, n, m, e \in Nat :
          /\ h = Len(heard[c]) /\ n = Len(reply[c]) /\ m = rcvd[c] /\ e = sent[c]
          /\ h + n <= m /\ m <= e /\ e <= MaxLines
    BY UdsCounts
  <2>0. h + n <= m /\ m <= e /\ e <= MaxLines
    BY <2>1, Zenon
  <2>2. h + 0 <= m
    BY <2>0
  <2>3. Numbered(<<>>, h) /\ Len(<<>>) = 0
    BY EmptySeq DEF Numbered
  <2>4. Numbered(reply'[c], h) /\ h + Len(reply'[c]) <= m
    BY <1>2, <2>1, <2>2, <2>3 DEF UdsInv, AnswerInv
  <2> QED
    BY <1>2, <1>3, <2>1, <2>4 DEF UdsInv, AnswerInv
<1>9. TurnInv'
  BY <1>1, <1>3 DEF UdsInv, TurnInv
<1>10. LineInv'
  <2>1. upc \in {"read", "write"} => cur \in Clients
    BY DEF UdsInv, ServingInv
  <2>2. LineInv
    BY DEF UdsInv
  <2> QED
    BY <1>1, <1>2, <1>3, <2>1, <2>2 DEF LineInv
<1> QED
  BY <1>4, <1>5, <1>6, <1>7, <1>8, <1>9, <1>10 DEF UdsInv

LEMMA UdsStepInv == UdsInv /\ [Uds!Next]_udsVars => UdsInv'
<1> SUFFICES ASSUME UdsInv, [Uds!Next]_udsVars PROVE UdsInv'
  OBVIOUS
<1>1. CASE Uds!Start \/ Uds!Bind \/ Uds!Register \/ Uds!Listen
  BY <1>1, UdsStartKeeps
<1>2. CASE Uds!ReadEnd \/ Uds!WriteFails \/ Uds!ServerEnds
  BY <1>2, UdsEndKeeps
<1>3. CASE Uds!Accept
  BY <1>3, UdsAcceptKeeps
<1>4. CASE Uds!ReadLine
  BY <1>4, UdsReadLineKeeps
<1>5. CASE Uds!WriteLine
  BY <1>5, UdsWriteLineKeeps
<1>6. ASSUME NEW c \in Clients,
             Uds!Connect(c) \/ Uds!ConnectFails(c) \/ Uds!ClientSteps(c) \/ Uds!ClientKilled(c)
      PROVE  UdsInv'
  BY <1>6, UdsConnectKeeps, UdsTypeKeeps, UdsHearKeeps, UdsLeaveKeeps DEF Uds!ClientSteps
<1>7. CASE UNCHANGED udsVars
  <2> USE <1>7 DEF udsVars, UdsInv
  <2>1. Uds!TypeOK'
    BY Zenon DEF Uds!TypeOK
  <2>2. Uds!NameExact' /\ ServingInv' /\ WaitingInv'
    BY DEF Uds!NameExact, ServingInv, WaitingInv
  <2>3. IdleInv'
    BY Zenon DEF IdleInv
  <2>4. AnswerInv' /\ TurnInv' /\ LineInv'
    BY DEF AnswerInv, TurnInv, LineInv
  <2> QED
    BY <2>1, <2>2, <2>3, <2>4
<1> QED
  BY <1>1, <1>2, <1>3, <1>4, <1>5, <1>6, <1>7 DEF Uds!Next, Uds!ServerSteps

\* What the invariant says to a client.
LEMMA UdsInvImplies == UdsInv => Uds!TypeOK /\ Uds!AnswersExact /\ Uds!NameExact /\ Uds!WaitOnlyUnfinished
<1> SUFFICES ASSUME UdsInv PROVE Uds!AnswersExact /\ Uds!WaitOnlyUnfinished
  BY DEF UdsInv
<1>1. ASSUME NEW c \in Clients
      PROVE  LET answers == heard[c] \o reply[c]
             IN  answers = [i \in 1..Len(answers) |-> -i] /\ Len(answers) <= sent[c]
  <2>1. PICK h, n, m, e \in Nat :
          /\ h = Len(heard[c]) /\ n = Len(reply[c]) /\ m = rcvd[c] /\ e = sent[c]
          /\ h + n <= m /\ m <= e /\ e <= MaxLines
    BY UdsCounts
  <2>0. h + n <= m /\ m <= e /\ e <= MaxLines
    BY <2>1, Zenon
  <2> DEFINE a == heard[c] \o reply[c]
  <2>2. heard[c] \in Seq(Int) /\ reply[c] \in Seq(Int)
    BY UdsLengths
  <2>3. Numbered(heard[c], 0) /\ Numbered(reply[c], Len(heard[c]))
    BY DEF UdsInv, AnswerInv
  <2>4. a = [i \in 1..Len(a) |-> -i] /\ Len(a) = h + n
    BY <2>1, <2>2, <2>3, NumberedJoin
  <2>5. h + n <= e
    BY <2>0
  <2> QED
    BY <2>1, <2>4, <2>5
<1>2. ASSUME NEW c \in Clients, Uds!EachWaits(c) PROVE part[c]
  <2>1. PICK h, n, m, e \in Nat :
          /\ h = Len(heard[c]) /\ n = Len(reply[c]) /\ m = rcvd[c] /\ e = sent[c]
          /\ h + n <= m /\ m <= e /\ e <= MaxLines
    BY UdsCounts
  <2>0. h + n <= m /\ m <= e /\ e <= MaxLines
    BY <2>1, Zenon
  <2>2. c = cur /\ upc = "read" /\ cli[c] = "await" /\ reply[c] = <<>> /\ ~Uds!LineReady(c)
    BY <1>2 DEF Uds!EachWaits
  <2>3. n = 0
    BY <2>1, <2>2, EmptySeq
  <2>4. h + n = m /\ e = h + 1
    BY <2>1, <2>2 DEF UdsInv, LineInv, TurnInv
  <2>5. rcvd[c] < sent[c]
    BY <2>1, <2>3, <2>4
  <2> QED
    BY <2>2, <2>5, Zenon DEF Uds!LineReady
<1> QED
  BY <1>1, <1>2 DEF Uds!AnswersExact, Uds!WaitOnlyUnfinished

\* The Unix-domain server of Chapter10 answers each line exactly, has its name
\* exactly while it is bound, and waits for a client that waits for it only
\* over a line without newline.
THEOREM UdsIsExact == MCSpec => []UdsExact
<1>1. MCInit => UdsInv
  BY UdsInitInv DEF MCInit, NoUds
<1>2. UdsInv /\ [MCNext]_mcVars => UdsInv'
  <2> SUFFICES ASSUME UdsInv, [MCNext]_mcVars PROVE UdsInv'
    OBVIOUS
  <2>1. Uds!Next \/ UNCHANGED udsVars
    BY DEF MCNext, InRio, InRace, InHandle, InPass, InUds, mcVars
  <2> QED
    BY <2>1, UdsStepInv
<1>3. UdsInv => UdsExact
  BY UdsInvImplies DEF UdsExact
<1> QED
  BY <1>1, <1>2, <1>3, PTL DEF MCSpec
-----------------------------------------------------------------------------
(***************************************************************************)
(* Open files.  The programs that pass one with SCM_RIGHTS hand it over    *)
(* exactly once, whichever calls fail in the two processes: for any number *)
(* of receivers, any file and any size of a read (Chapter10Assumption).    *)
(***************************************************************************)

\* How far the three programs have come: nobody but the child receives without
\* a name, and nobody before the fork; exit codes are set at the end.
StageInv ==
  /\ prog \in {"pair", "named", "raii"}
  /\ prog = "named" => spc # "fork"
  /\ prog # "named" =>
       /\ \A r \in Receivers : r # Child => rpc[r] = "idle"
       /\ spc \in {"bind", "listen", "fork"} => rpc[Child] = "idle"
  /\ spc # "done" => sexit = -1
  /\ \A r \in Receivers : rpc[r] = "done" <=> rexit[r] # -1

\* The connection: one at most is accepted, and one is before the file is opened.
LinkInv ==
  /\ \A r \in Receivers : rpc[r] \in {"idle", "connect"} => link[r] = "none"
  /\ \A r, q \in Receivers : link[r] = "up" /\ link[q] = "up" => r = q
  /\ spc \in {"bind", "listen", "fork", "accept"} => \A r \in Receivers : link[r] # "up"
  /\ spc \in {"closepeer", "open", "send"} => \E r \in Receivers : link[r] = "up"

\* The open file: only the accepted receiver comes to hold it, and the sender
\* gets past sendmsg only by handing it over.
HeldInv ==
  /\ spc \in {"bind", "listen", "fork"} => "file" \notin sfd
  /\ \A r \in Receivers :
       /\ Pass!Holds(r) => link[r] = "up"
       /\ rpc[r] \in {"idle", "connect", "closepeer", "recv"} => "file" \notin rfd[r]
       /\ rpc[r] \in {"read", "exit"} => "file" \in rfd[r]
  /\ (spc \in {"closefile", "closeconn", "closelisten", "wait", "unlink"} \/ sexit = 0) =>
       \E r \in Receivers : link[r] = "up" /\ (Pass!Holds(r) \/ rpc[r] = "done")

\* What a C program that succeeds has read.
asked == Min({content, FileLen})

\* Only the receiver that holds the file moves its offset; a C program does so
\* once, before it returns.
OffsetInv ==
  /\ (\A r \in Receivers : link[r] # "up") => offset = 0
  /\ \A r \in Receivers :
       /\ link[r] # "up" => got[r] = <<>>
       /\ link[r] = "up" => got[r] = [i \in 1..offset |-> i]
       /\ prog # "raii" /\ link[r] = "up" /\ rpc[r] \notin {"exit", "done"} => offset = 0
       /\ prog # "raii" /\ (rpc[r] = "exit" \/ rexit[r] = 0) => link[r] = "up" /\ offset = asked

\* The socket's name: a child that succeeds has got its file from a parent that
\* then has only to wait and to remove the name; one that fails removes it.
NameInv ==
  /\ sexit = 0 => path # "bound"
  /\ prog = "raii" /\ rpc[Child] = "done" /\ rexit[Child] # 0 => path = "none"
  /\ prog = "raii" /\ (msg[Child] \/ rpc[Child] \in {"read", "exit"} \/ rexit[Child] = 0) =>
       spc \in {"wait", "unlink"} \/ (spc = "done" /\ path = "none")

PassInv == Pass!TypeOK /\ StageInv /\ LinkInv /\ HeldInv /\ OffsetInv /\ NameInv

\* The values that matter for the sizes of reads.
LEMMA Asked == asked \in Nat /\ asked <= FileLen
  BY Chapter10Assumption, MinOfTwo DEF asked

LEMMA PassInitInv == Pass!Init => PassInv
<1> SUFFICES ASSUME Pass!Init PROVE PassInv
  OBVIOUS
<1> USE Chapter10Assumption DEF Pass!Init
<1>1. Pass!TypeOK
  <2>1. msg \in [Receivers -> BOOLEAN]
    BY Zenon
  <2>2. got \in [Receivers -> Seq(1..FileLen)]
    BY EmptySeq
  <2> QED
    BY <2>1, <2>2 DEF Pass!TypeOK
<1>2. StageInv /\ LinkInv
  BY DEF StageInv, LinkInv
<1>3. HeldInv /\ NameInv
  BY DEF HeldInv, NameInv, Pass!Holds
<1>4. OffsetInv
  BY DEF OffsetInv
<1> QED
  BY <1>1, <1>2, <1>3, <1>4 DEF PassInv

\* The sender goes on, and nothing changes for the receivers.
LEMMA PassAdvanceKeeps ==
  ASSUME PassInv, Pass!Bind \/ Pass!Listen \/ Pass!CloseUnused \/ Pass!OpenFile \/ Pass!CloseFile
                  \/ Pass!CloseConn \/ Pass!WaitChild
  PROVE  PassInv'
<1> USE DEF Pass!Bind, Pass!Listen, Pass!CloseUnused, Pass!OpenFile, Pass!CloseFile,
            Pass!CloseConn, Pass!WaitChild, Pass!SenderTo, Pass!kernelVars, Pass!receiverVars
<1>1. UNCHANGED <<prog, sexit, rpc, rfd, rexit, got, link, msg, offset>>
  OBVIOUS
<1>2. /\ spc' \in {"listen", "fork", "accept", "open", "send", "closeconn", "wait", "closelisten", "unlink"}
      /\ sfd' \subseteq {"listen", "conn", "peer", "file"} /\ path' \in {"none", "stale", "bound"}
  BY Zenon DEF PassInv, Pass!TypeOK
<1>3. Pass!TypeOK'
  BY <1>1, <1>2, Zenon DEF PassInv, Pass!TypeOK
<1>4. StageInv'
  BY DEF PassInv, StageInv
<1>5. LinkInv'
  BY DEF PassInv, LinkInv, StageInv
<1>6. HeldInv'
  BY DEF PassInv, HeldInv, Pass!Holds
<1>7. OffsetInv'
  BY <1>1, Zenon DEF PassInv, OffsetInv, asked
<1>8. NameInv'
  BY DEF PassInv, NameInv, StageInv
<1> QED
  BY <1>3, <1>4, <1>5, <1>6, <1>7, <1>8 DEF PassInv

\* What closing descriptors does to connections: those that wait may be reset.
Fades == /\ link' \in [Receivers -> {"none", "queued", "up", "reset"}]
         /\ \A r \in Receivers : link'[r] = link[r] \/ (link[r] = "queued" /\ link'[r] = "reset")

LEMMA AfterCloseFades == Pass!TypeOK /\ Pass!AfterClose => Fades
  BY DEF Pass!TypeOK, Pass!AfterClose, Fades

LEMMA PassCloseListenKeeps ==
  ASSUME PassInv, Pass!CloseListen
  PROVE  PassInv'
<1>0. Fades
  BY AfterCloseFades DEF PassInv, Pass!CloseListen
<1> USE DEF Pass!CloseListen, Pass!SenderTo, Pass!receiverVars
<1>1. /\ UNCHANGED <<prog, sexit, rpc, rfd, rexit, got, path, msg, offset>>
      /\ spc = "closelisten" /\ spc' = "unlink"
  OBVIOUS
<1>2. sfd' \subseteq {"listen", "conn", "peer", "file"}
  BY DEF PassInv, Pass!TypeOK
<1> HIDE DEF Pass!CloseListen
<1> USE DEF Fades
<1>3. Pass!TypeOK'
  BY <1>0, <1>1, <1>2, Zenon DEF PassInv, Pass!TypeOK
<1>4. StageInv'
  BY <1>1 DEF PassInv, StageInv
<1>5. LinkInv'
  BY <1>0, <1>1 DEF PassInv, LinkInv, StageInv
<1>6. HeldInv'
  BY <1>0, <1>1 DEF PassInv, HeldInv, Pass!Holds
<1>7. OffsetInv'
  BY <1>0, <1>1 DEF PassInv, OffsetInv, asked
<1>8. NameInv'
  BY <1>1 DEF PassInv, NameInv
<1> QED
  BY <1>3, <1>4, <1>5, <1>6, <1>7, <1>8 DEF PassInv

\* The sender ends, by success or by any failure.
LEMMA PassSenderEndKeeps ==
  ASSUME PassInv, Pass!Return \/ Pass!BindFails \/ Pass!ForkFails \/ Pass!OpenFails
                  \/ Pass!SendKilled \/ Pass!SenderFails
  PROVE  PassInv'
<1>0. Fades
  BY AfterCloseFades DEF PassInv, Pass!Return, Pass!BindFails, Pass!ForkFails, Pass!OpenFails,
     Pass!SendKilled, Pass!SenderFails, Pass!uds_die
<1> USE DEF Pass!Return, Pass!BindFails, Pass!ForkFails, Pass!OpenFails,
     Pass!SendKilled, Pass!SenderFails, Pass!uds_die, Pass!SenderExit, Pass!receiverVars
<1>1. /\ UNCHANGED <<prog, rpc, rfd, rexit, got, msg, offset>>
      /\ spc' = "done" /\ sfd' = {} /\ sexit' \in {0, 1, 141} /\ path' \in {"none", path}
  OBVIOUS
<1>2. sexit' = 0 => spc = "unlink" /\ path' = "none"
  OBVIOUS
<1>3. spc \in {"wait", "unlink", "done"} => path' = "none"
  OBVIOUS
<1> HIDE DEF Pass!Return, Pass!BindFails, Pass!ForkFails, Pass!OpenFails,
     Pass!SendKilled, Pass!SenderFails
<1> USE DEF Fades
<1>4. Pass!TypeOK'
  <2>1. path' \in {"none", "stale", "bound"} /\ sexit' \in {-1, 0, 1, 141}
    BY <1>1 DEF PassInv, Pass!TypeOK
  <2> QED
    BY <1>0, <1>1, <2>1, Zenon DEF PassInv, Pass!TypeOK
<1>5. StageInv'
  BY <1>1 DEF PassInv, StageInv
<1>6. LinkInv'
  BY <1>0, <1>1 DEF PassInv, LinkInv
<1>7. HeldInv'
  BY <1>0, <1>1, <1>2 DEF PassInv, HeldInv, Pass!Holds
<1>8. OffsetInv'
  <2>1. \A r \in Receivers : link'[r] = "up" <=> link[r] = "up"
    BY <1>0
  <2> QED
    BY <1>1, <2>1, Zenon DEF PassInv, OffsetInv, asked
<1>9. NameInv'
  BY <1>1, <1>2, <1>3 DEF PassInv, NameInv
<1> QED
  BY <1>4, <1>5, <1>6, <1>7, <1>8, <1>9 DEF PassInv

LEMMA PassForkKeeps ==
  ASSUME PassInv, Pass!Fork
  PROVE  PassInv'
<1> USE Chapter10Assumption DEF Pass!Fork
<1>1. /\ UNCHANGED <<prog, sfd, sexit, rexit, got, path, msg, offset>>
      /\ spc = "fork" /\ spc' = IF prog = "pair" THEN "closepeer" ELSE "accept"
  OBVIOUS
<1>2. /\ rpc' \in [Receivers -> {"idle", "connect", "closepeer", "recv", "read", "exit", "done"}]
      /\ rpc'[Child] = IF prog = "pair" THEN "closepeer" ELSE "connect"
      /\ \A r \in Receivers : r # Child => rpc'[r] = rpc[r]
  BY DEF PassInv, Pass!TypeOK
<1>3. /\ rfd' \in [Receivers -> SUBSET {"listen", "conn", "peer", "file"}]
      /\ rfd'[Child] = sfd /\ \A r \in Receivers : r # Child => rfd'[r] = rfd[r]
  BY DEF PassInv, Pass!TypeOK
<1>4. /\ link' \in [Receivers -> {"none", "queued", "up", "reset"}]
      /\ link'[Child] = IF prog = "pair" THEN "up" ELSE "none"
      /\ \A r \in Receivers : r # Child => link'[r] = link[r]
  BY DEF PassInv, Pass!TypeOK
<1>5. rpc[Child] = "idle" /\ "file" \notin sfd
  BY <1>1 DEF PassInv, StageInv, HeldInv
<1> HIDE DEF Pass!Fork
<1>6. Pass!TypeOK'
  <2>1. spc' \in {"closepeer", "accept"}
    BY <1>1
  <2> QED
    BY <1>1, <1>2, <1>3, <1>4, <2>1, Zenon DEF PassInv, Pass!TypeOK
<1>7. StageInv'
  BY <1>1, <1>2, <1>5 DEF PassInv, StageInv
<1>8. LinkInv'
  BY <1>1, <1>2, <1>4, <1>5 DEF PassInv, LinkInv, StageInv
<1>9. HeldInv'
  BY <1>1, <1>2, <1>3, <1>4, <1>5 DEF PassInv, HeldInv, LinkInv, StageInv, Pass!Holds
<1>10. OffsetInv'
  BY <1>1, <1>2, <1>4, <1>5 DEF PassInv, OffsetInv, LinkInv, StageInv, asked
<1>11. NameInv'
  BY <1>1, <1>2, <1>5 DEF PassInv, NameInv, StageInv
<1> QED
  BY <1>6, <1>7, <1>8, <1>9, <1>10, <1>11 DEF PassInv

LEMMA PassAcceptKeeps ==
  ASSUME PassInv, Pass!Accept
  PROVE  PassInv'
<1> USE DEF Pass!Accept, Pass!SenderTo, Pass!receiverVars
<1>1. /\ UNCHANGED <<prog, sexit, rpc, rfd, rexit, got, path, msg, offset>>
      /\ spc = "accept" /\ spc' = "open" /\ sfd' = sfd \cup {"conn"}
  OBVIOUS
<1>2. PICK q \in Receivers :
        /\ link[q] = "queued" /\ link'[q] = "up"
        /\ link' \in [Receivers -> {"none", "queued", "up", "reset"}]
        /\ \A r \in Receivers : r # q => link'[r] = link[r]
  BY DEF PassInv, Pass!TypeOK
<1> HIDE DEF Pass!Accept
<1>3. Pass!TypeOK'
  <2>1. sfd' \subseteq {"listen", "conn", "peer", "file"}
    BY <1>1 DEF PassInv, Pass!TypeOK
  <2> QED
    BY <1>1, <1>2, <2>1, Zenon DEF PassInv, Pass!TypeOK
<1>4. StageInv'
  BY <1>1 DEF PassInv, StageInv
<1>5. LinkInv'
  BY <1>1, <1>2 DEF PassInv, LinkInv
<1>6. HeldInv'
  BY <1>1, <1>2 DEF PassInv, HeldInv, LinkInv, StageInv, Pass!Holds
<1>7. OffsetInv'
  BY <1>1, <1>2 DEF PassInv, OffsetInv, LinkInv, StageInv, asked
<1>8. NameInv'
  BY <1>1 DEF PassInv, NameInv
<1> QED
  BY <1>3, <1>4, <1>5, <1>6, <1>7, <1>8 DEF PassInv

LEMMA PassSendKeeps ==
  ASSUME PassInv, Pass!send_fd
  PROVE  PassInv'
<1> USE DEF Pass!send_fd, Pass!SenderTo, Pass!receiverVars, Pass!AfterSend
<1>1. /\ UNCHANGED <<prog, sfd, sexit, rpc, rfd, rexit, got, path, link, offset>>
      /\ spc = "send" /\ spc' = IF prog = "raii" THEN "wait" ELSE "closefile"
  OBVIOUS
<1>2. PICK q \in Receivers : q = Pass!Linked /\ link[q] = "up"
  BY <1>1 DEF PassInv, LinkInv, Pass!Linked
<1>3. /\ msg' \in [Receivers -> BOOLEAN] /\ msg'[q] = TRUE
      /\ \A r \in Receivers : r # q => msg'[r] = msg[r]
  <2>1. msg \in [Receivers -> BOOLEAN] /\ msg' = [msg EXCEPT ![q] = TRUE]
    BY <1>2 DEF PassInv, Pass!TypeOK
  <2> QED
    BY <2>1, Zenon
<1> HIDE DEF Pass!send_fd
<1>4. Pass!TypeOK'
  <2>1. spc' \in {"wait", "closefile"}
    BY <1>1
  <2> QED
    BY <1>1, <1>3, <2>1, Zenon DEF PassInv, Pass!TypeOK
<1>5. StageInv'
  BY <1>1 DEF PassInv, StageInv
<1>6. LinkInv'
  BY <1>1 DEF PassInv, LinkInv
<1>7. HeldInv'
  <2>1. Pass!Holds(q)' /\ link'[q] = "up"
    BY <1>1, <1>2, <1>3, Zenon DEF Pass!Holds
  <2>2. ASSUME NEW r \in Receivers PROVE Pass!Holds(r)' => link'[r] = "up"
    BY <1>1, <1>2, <1>3, Zenon DEF PassInv, HeldInv, Pass!Holds
  <2> QED
    BY <1>1, <2>1, <2>2 DEF PassInv, HeldInv
<1>8. OffsetInv'
  BY <1>1, Zenon DEF PassInv, OffsetInv, asked
<1>9. NameInv'
  BY <1>1 DEF PassInv, NameInv, StageInv
<1> QED
  BY <1>4, <1>5, <1>6, <1>7, <1>8, <1>9 DEF PassInv

\* A receiver ends: what it held is closed, and a message for it is gone.
LEMMA PassReceiverEndKeeps ==
  ASSUME PassInv, NEW q \in Receivers, NEW code \in {0, 1}, rpc[q] \notin {"idle", "done"},
         code = 0 => rpc[q] = "exit", Pass!ReceiverExit(q, code)
  PROVE  PassInv'
<1>0. Fades
  BY AfterCloseFades DEF PassInv, Pass!ReceiverExit
<1> USE Chapter10Assumption DEF Pass!ReceiverExit, Pass!ReceiverTo, Pass!frame, Pass!senderVars
<1>1. /\ UNCHANGED <<prog, spc, sfd, sexit, offset, got>>
      /\ path' = IF code # 0 /\ prog = "raii" THEN "none" ELSE path
  OBVIOUS
<1>2. /\ rpc' \in [Receivers -> {"idle", "connect", "closepeer", "recv", "read", "exit", "done"}]
      /\ rpc'[q] = "done" /\ \A r \in Receivers : r # q => rpc'[r] = rpc[r]
  BY DEF PassInv, Pass!TypeOK
<1>3. /\ rfd' \in [Receivers -> SUBSET {"listen", "conn", "peer", "file"}]
      /\ rfd'[q] = {} /\ \A r \in Receivers : r # q => rfd'[r] = rfd[r]
  BY DEF PassInv, Pass!TypeOK
<1>4. /\ rexit' \in [Receivers -> {-1, 0, 1}]
      /\ rexit'[q] = code /\ \A r \in Receivers : r # q => rexit'[r] = rexit[r]
  BY DEF PassInv, Pass!TypeOK
<1>5. /\ msg' \in [Receivers -> BOOLEAN] /\ ~msg'[q]
      /\ \A r \in Receivers : r # q => msg'[r] = msg[r]
  <2>1. msg \in [Receivers -> BOOLEAN]
    BY DEF PassInv, Pass!TypeOK
  <2> QED
    BY <2>1, Zenon
<1>6. rexit[q] = -1
  BY DEF PassInv, StageInv
<1> HIDE DEF Pass!ReceiverExit
<1>7. \A r \in Receivers : link'[r] = "up" <=> link[r] = "up"
  BY <1>0 DEF Fades
<1>8. Pass!TypeOK'
  <2>1. path' \in {"none", "stale", "bound"}
    BY <1>1 DEF PassInv, Pass!TypeOK
  <2> QED
    BY <1>0, <1>1, <1>2, <1>3, <1>4, <1>5, <2>1, Zenon DEF PassInv, Pass!TypeOK, Fades
<1>9. StageInv'
  BY <1>1, <1>2, <1>4 DEF PassInv, StageInv
<1>10. LinkInv'
  BY <1>0, <1>1, <1>2, <1>7 DEF PassInv, LinkInv, Fades
<1>11. HeldInv'
  <2>1. ASSUME NEW r \in Receivers
        PROVE  /\ Pass!Holds(r)' => link'[r] = "up"
               /\ Pass!Holds(r) \/ rpc[r] = "done" => Pass!Holds(r)' \/ rpc'[r] = "done"
    BY <1>2, <1>3, <1>5, <1>7, Zenon DEF PassInv, HeldInv, Pass!Holds
  <2>2. ASSUME NEW r \in Receivers
        PROVE  /\ rpc'[r] \in {"idle", "connect", "closepeer", "recv"} => "file" \notin rfd'[r]
               /\ rpc'[r] \in {"read", "exit"} => "file" \in rfd'[r]
    BY <1>2, <1>3 DEF PassInv, HeldInv
  <2> QED
    BY <1>1, <1>7, <2>1, <2>2, Zenon DEF PassInv, HeldInv
<1>12. OffsetInv'
  <2>1. ASSUME NEW r \in Receivers, prog # "raii", rpc'[r] = "exit" \/ rexit'[r] = 0
        PROVE  link[r] = "up" /\ offset = asked
    BY <1>2, <1>4, <2>1 DEF PassInv, OffsetInv
  <2>2. ASSUME NEW r \in Receivers, rpc'[r] \notin {"exit", "done"}
        PROVE  rpc[r] \notin {"exit", "done"}
    BY <1>2, <2>2
  <2> QED
    BY <1>1, <1>7, <2>1, <2>2, Zenon DEF PassInv, OffsetInv, asked
<1>13. NameInv'
  <2>1. sexit' = 0 => path' # "bound"
    BY <1>1 DEF PassInv, NameInv
  <2>2. prog' = "raii" /\ rpc'[Child] = "done" /\ rexit'[Child] # 0 => path' = "none"
    BY <1>1, <1>2, <1>4 DEF PassInv, NameInv, StageInv
  <2>3. prog' = "raii" /\ (msg'[Child] \/ rpc'[Child] \in {"read", "exit"} \/ rexit'[Child] = 0) =>
          msg[Child] \/ rpc[Child] \in {"read", "exit"} \/ rexit[Child] = 0
    <3>1. CASE q = Child
      BY <3>1, <1>2, <1>4, <1>5
    <3>2. CASE q # Child
      BY <3>2, <1>2, <1>4, <1>5
    <3> QED
      BY <3>1, <3>2
  <2>4. spc' = spc /\ (path = "none" => path' = "none")
    BY <1>1
  <2>5. prog = "raii" /\ (msg[Child] \/ rpc[Child] \in {"read", "exit"} \/ rexit[Child] = 0) =>
          spc \in {"wait", "unlink"} \/ (spc = "done" /\ path = "none")
    BY DEF PassInv, NameInv
  <2> QED
    BY <1>1, <2>1, <2>2, <2>3, <2>4, <2>5, Zenon DEF NameInv
<1> QED
  BY <1>8, <1>9, <1>10, <1>11, <1>12, <1>13 DEF PassInv

\* A receiver goes on towards the message: start, fork's other side, connect.
LEMMA PassTowardsKeeps ==
  ASSUME PassInv, NEW q \in Receivers, Pass!Start(q) \/ Pass!ChildCloses(q) \/ Pass!Connect(q)
  PROVE  PassInv'
<1> USE Chapter10Assumption DEF Pass!ReceiverTo, Pass!frame, Pass!senderVars, Pass!kernelVars,
        Pass!without_peer
<1>1. UNCHANGED <<prog, spc, sfd, sexit, rexit, got, path, msg, offset>>
  BY DEF Pass!Start, Pass!ChildCloses, Pass!Connect
<1>2. /\ rpc' \in [Receivers -> {"idle", "connect", "closepeer", "recv", "read", "exit", "done"}]
      /\ rpc[q] \in {"idle", "connect", "closepeer"} /\ rpc'[q] \in {"connect", "recv"}
      /\ \A r \in Receivers : r # q => rpc'[r] = rpc[r]
      /\ rpc[q] = "idle" => prog = "named"
  <2>1. CASE Pass!Start(q)
    BY <2>1 DEF PassInv, Pass!TypeOK, Pass!Start
  <2>2. CASE Pass!ChildCloses(q)
    BY <2>2 DEF PassInv, Pass!TypeOK, Pass!ChildCloses
  <2>3. CASE Pass!Connect(q)
    BY <2>3 DEF PassInv, Pass!TypeOK, Pass!Connect
  <2> QED
    BY <2>1, <2>2, <2>3
<1>3. /\ rfd' \in [Receivers -> SUBSET {"listen", "conn", "peer", "file"}]
      /\ "file" \in rfd'[q] <=> "file" \in rfd[q]
      /\ \A r \in Receivers : r # q => rfd'[r] = rfd[r]
  <2>1. CASE Pass!Start(q)
    BY <2>1 DEF PassInv, Pass!TypeOK, Pass!Start
  <2>2. CASE Pass!ChildCloses(q)
    BY <2>2 DEF PassInv, Pass!TypeOK, Pass!ChildCloses
  <2>3. CASE Pass!Connect(q)
    BY <2>3 DEF PassInv, Pass!TypeOK, Pass!Connect
  <2> QED
    BY <2>1, <2>2, <2>3
<1>4. /\ link' \in [Receivers -> {"none", "queued", "up", "reset"}]
      /\ \A r \in Receivers : r # q => link'[r] = link[r]
      /\ link'[q] = "up" <=> link[q] = "up"
      /\ rpc'[q] = "connect" => link'[q] = link[q] /\ rpc[q] = "idle"
  <2>1. CASE Pass!Start(q)
    BY <2>1 DEF PassInv, Pass!TypeOK, LinkInv, Pass!Start
  <2>2. CASE Pass!ChildCloses(q)
    BY <2>2 DEF PassInv, Pass!TypeOK, LinkInv, Pass!ChildCloses
  <2>3. CASE Pass!Connect(q)
    BY <2>3 DEF PassInv, Pass!TypeOK, LinkInv, Pass!Connect
  <2> QED
    BY <2>1, <2>2, <2>3
<1>5. Pass!TypeOK'
  BY <1>1, <1>2, <1>3, <1>4, Zenon DEF PassInv, Pass!TypeOK
<1>6. StageInv'
  BY <1>1, <1>2 DEF PassInv, StageInv
<1>7. LinkInv'
  BY <1>1, <1>2, <1>4 DEF PassInv, LinkInv
<1>8. HeldInv'
  <2>1. ASSUME NEW r \in Receivers
        PROVE  /\ Pass!Holds(r)' <=> Pass!Holds(r)
               /\ link'[r] = "up" <=> link[r] = "up"
               /\ "file" \in rfd'[r] <=> "file" \in rfd[r]
    BY <1>1, <1>3, <1>4, Zenon DEF Pass!Holds
  <2>2. ASSUME NEW r \in Receivers
        PROVE  /\ rpc'[r] \in {"idle", "connect", "closepeer", "recv"} => rpc[r] \in {"idle", "connect", "closepeer", "recv"}
               /\ rpc'[r] \in {"read", "exit"} => rpc[r] \in {"read", "exit"}
               /\ rpc[r] = "done" => rpc'[r] = "done"
    BY <1>2
  <2> QED
    BY <1>1, <2>1, <2>2, Zenon DEF PassInv, HeldInv
<1>9. OffsetInv'
  <2>1. ASSUME NEW r \in Receivers
        PROVE  /\ link'[r] = "up" <=> link[r] = "up"
               /\ rpc'[r] \notin {"exit", "done"} => rpc[r] \notin {"exit", "done"}
               /\ rpc'[r] = "exit" => rpc[r] = "exit"
    BY <1>2, <1>4
  <2> QED
    BY <1>1, <2>1, Zenon DEF PassInv, OffsetInv, asked
<1>10. NameInv'
  BY <1>1, <1>2 DEF PassInv, NameInv, StageInv
<1> QED
  BY <1>5, <1>6, <1>7, <1>8, <1>9, <1>10 DEF PassInv

LEMMA PassRecvKeeps ==
  ASSUME PassInv, NEW q \in Receivers, Pass!recv_fd(q)
  PROVE  PassInv'
<1> USE Chapter10Assumption DEF Pass!recv_fd, Pass!ReceiverTo, Pass!frame, Pass!senderVars
<1>1. UNCHANGED <<prog, spc, sfd, sexit, rexit, got, path, link, offset>> /\ rpc[q] = "recv"
  OBVIOUS
<1>2. /\ rpc' \in [Receivers -> {"idle", "connect", "closepeer", "recv", "read", "exit", "done"}]
      /\ rpc'[q] = "read" /\ \A r \in Receivers : r # q => rpc'[r] = rpc[r]
  BY DEF PassInv, Pass!TypeOK
<1>3. /\ rfd' \in [Receivers -> SUBSET {"listen", "conn", "peer", "file"}]
      /\ "file" \in rfd'[q] /\ \A r \in Receivers : r # q => rfd'[r] = rfd[r]
  BY DEF PassInv, Pass!TypeOK
<1>4. /\ msg' \in [Receivers -> BOOLEAN] /\ ~msg'[q] /\ msg[q]
      /\ \A r \in Receivers : r # q => msg'[r] = msg[r]
  <2>1. msg \in [Receivers -> BOOLEAN]
    BY DEF PassInv, Pass!TypeOK
  <2> QED
    BY <2>1, Zenon
<1> HIDE DEF Pass!recv_fd
<1>5. Pass!TypeOK'
  BY <1>1, <1>2, <1>3, <1>4, Zenon DEF PassInv, Pass!TypeOK
<1>6. StageInv'
  BY <1>1, <1>2 DEF PassInv, StageInv
<1>7. LinkInv'
  BY <1>1, <1>2 DEF PassInv, LinkInv
<1>8. HeldInv'
  <2>1. ASSUME NEW r \in Receivers PROVE Pass!Holds(r)' <=> Pass!Holds(r)
    BY <1>3, <1>4, Zenon DEF Pass!Holds
  <2>2. ASSUME NEW r \in Receivers
        PROVE  /\ rpc'[r] \in {"idle", "connect", "closepeer", "recv"} => "file" \notin rfd'[r]
               /\ rpc'[r] \in {"read", "exit"} => "file" \in rfd'[r]
               /\ rpc[r] = "done" => rpc'[r] = "done"
    BY <1>1, <1>2, <1>3 DEF PassInv, HeldInv
  <2> QED
    BY <1>1, <2>1, <2>2, Zenon DEF PassInv, HeldInv
<1>9. OffsetInv'
  <2>1. ASSUME NEW r \in Receivers
        PROVE  /\ rpc'[r] \notin {"exit", "done"} => rpc[r] \notin {"exit", "done"}
               /\ rpc'[r] = "exit" => rpc[r] = "exit"
    BY <1>1, <1>2
  <2> QED
    BY <1>1, <2>1, Zenon DEF PassInv, OffsetInv, asked
<1>10. NameInv'
  <2>1. prog' = "raii" /\ (msg'[Child] \/ rpc'[Child] \in {"read", "exit"} \/ rexit'[Child] = 0) =>
          prog = "raii" /\ (msg[Child] \/ rpc[Child] \in {"read", "exit"} \/ rexit[Child] = 0)
    <3>1. CASE q = Child
      BY <3>1, <1>1, <1>4
    <3>2. CASE q # Child
      BY <3>2, <1>1, <1>2, <1>4
    <3> QED
      BY <3>1, <3>2
  <2>2. rpc'[Child] = "done" => rpc[Child] = "done"
    BY <1>1, <1>2
  <2> QED
    BY <1>1, <2>1, <2>2, Zenon DEF PassInv, NameInv
<1> QED
  BY <1>5, <1>6, <1>7, <1>8, <1>9, <1>10 DEF PassInv

\* The bytes of a read follow those read before.
LEMMA PassChunk ==
  ASSUME NEW o \in Nat, NEW k \in Nat
  PROVE  [i \in 1..o |-> i] \o [i \in 1..k |-> o + i] = [i \in 1..(o + k) |-> i]
<1>1. PICK z \in Nat : z = 0
  OBVIOUS
<1>2. Run([i \in 1..o |-> z + i], z, o) /\ Run([i \in 1..k |-> o + i], o, k)
  BY RunOf
<1>3. [i \in 1..o |-> z + i] = [i \in 1..o |-> i]
  BY <1>1
<1>4. z + o = o
  BY <1>1
<1>5. Run([i \in 1..o |-> i] \o [i \in 1..k |-> o + i], z, o + k)
  BY <1>2, <1>3, <1>4, RunConcat, ZenonT(40)
<1>6. PICK l \in Nat : l = o + k
  OBVIOUS
<1>7. [i \in 1..o |-> i] \o [i \in 1..k |-> o + i] = [i \in 1..l |-> z + i]
  BY <1>5, <1>6, RunIs
<1> QED
  BY <1>1, <1>6, <1>7

\* A receiver reads, or, in passfd_cpp.cpp, gives up reading.
LEMMA PassReadKeeps ==
  ASSUME PassInv, NEW q \in Receivers,
         Pass!Read(q) \/ (prog = "raii" /\ Pass!ReadFails(q))
  PROVE  PassInv'
<1> USE Chapter10Assumption DEF Pass!ReceiverTo, Pass!frame, Pass!senderVars, Pass!kernelVars
<1>1. UNCHANGED <<prog, spc, sfd, sexit, rfd, rexit, path, link, msg>> /\ rpc[q] = "read"
  BY DEF Pass!Read, Pass!ReadFails
<1>2. PICK o \in Nat : o = offset /\ o <= FileLen
  BY DEF PassInv, Pass!TypeOK
<1>3. link[q] = "up" /\ got[q] = [i \in 1..o |-> i] /\ (prog # "raii" => o = 0)
  <2>1. link[q] = "up"
    BY <1>1 DEF PassInv, HeldInv, Pass!Holds
  <2> QED
    BY <1>1, <1>2, <2>1 DEF PassInv, OffsetInv
<1>4. PICK k \in Nat :
        /\ o + k <= FileLen /\ offset' = o + k
        /\ got'[q] = [i \in 1..o |-> i] \o [i \in 1..k |-> o + i]
        /\ \A r \in Receivers : r # q => got'[r] = got[r]
        /\ prog # "raii" => k = asked
        /\ DOMAIN got' = Receivers /\ got' = [r \in Receivers |-> got'[r]]
  <2>1. got \in [Receivers -> Seq(1..FileLen)]
    BY DEF PassInv, Pass!TypeOK
  <2>2. CASE Pass!Read(q)
    <3>1. PICK k \in Nat : k = Pass!chunk /\ o + k <= FileLen /\ (o = 0 => k = asked)
      <4>1. \A S : Pass!Min(S) = Min(S)
        BY Zenon DEF Pass!Min, Min
      <4>2. Pass!chunk = Min({content, FileLen - o})
        BY <1>2, <4>1 DEF Pass!chunk
      <4>3. Min({content, FileLen - o}) = IF content <= FileLen - o THEN content ELSE FileLen - o
        BY <1>2, MinOfTwo
      <4>4. asked = IF content <= FileLen THEN content ELSE FileLen
        BY MinOfTwo DEF asked
      <4> QED
        BY <1>2, <4>2, <4>3, <4>4
    <3>2. /\ got' = [got EXCEPT ![q] = @ \o [i \in 1..k |-> o + i]]
          /\ offset' = o + k
      BY <1>2, <2>2, <3>1 DEF Pass!Read
    <3> QED
      BY <1>3, <2>1, <3>1, <3>2
  <2>3. CASE prog = "raii" /\ Pass!ReadFails(q)
    <3>1. got' = got /\ offset' = o
      BY <1>2, <2>3 DEF Pass!ReadFails
    <3>2. [i \in 1..o |-> i] \o [i \in 1..0 |-> o + i] = [i \in 1..(o + 0) |-> i]
      BY PassChunk
    <3>3. PICK k \in Nat : k = 0 /\ o + k = o
      OBVIOUS
    <3>4. got[q] = [i \in 1..o |-> i] \o [i \in 1..k |-> o + i]
      BY <1>3, <3>2, <3>3
    <3>5. o + k <= FileLen
      BY <1>2, <3>3
    <3> WITNESS k \in Nat
    <3> QED
      BY <2>1, <2>3, <3>1, <3>3, <3>4, <3>5
  <2> QED
    BY <2>2, <2>3
<1>5. /\ rpc' \in [Receivers -> {"idle", "connect", "closepeer", "recv", "read", "exit", "done"}]
      /\ rpc'[q] \in {"read", "exit"} /\ (prog # "raii" => rpc'[q] = "exit")
      /\ \A r \in Receivers : r # q => rpc'[r] = rpc[r]
  <2>1. rpc \in [Receivers -> {"idle", "connect", "closepeer", "recv", "read", "exit", "done"}]
    BY DEF PassInv, Pass!TypeOK
  <2>2. PICK l \in {"read", "exit"} : rpc' = [rpc EXCEPT ![q] = l] /\ (prog # "raii" => l = "exit")
    <3>1. CASE Pass!Read(q)
      BY <3>1 DEF Pass!Read
    <3>2. CASE prog = "raii" /\ Pass!ReadFails(q)
      BY <3>2 DEF Pass!ReadFails
    <3> QED
      BY <3>1, <3>2
  <2> QED
    BY <2>1, <2>2
<1>6. got'[q] = [i \in 1..(o + k) |-> i]
  BY <1>4, PassChunk
<1>7. Pass!TypeOK'
  <2>1. got' \in [Receivers -> Seq(1..FileLen)]
    <3>1. PICK l \in Nat : l = o + k
      OBVIOUS
    <3>2. got'[q] = [i \in 1..l |-> i]
      BY <1>6, <3>1
    <3>3. \A i \in 1..l : i \in 1..FileLen
      BY <1>4, <3>1
    <3>4. got'[q] \in Seq(1..FileLen)
      BY <3>2, <3>3, IsASeq
    <3>5. \A r \in Receivers : r # q => got'[r] \in Seq(1..FileLen)
      BY <1>4 DEF PassInv, Pass!TypeOK
    <3> QED
      BY <1>4, <3>4, <3>5
  <2>2. offset' \in 0..FileLen
    BY <1>4
  <2> QED
    BY <1>1, <1>5, <2>1, <2>2, Zenon DEF PassInv, Pass!TypeOK
<1>8. StageInv'
  BY <1>1, <1>5 DEF PassInv, StageInv
<1>9. LinkInv'
  BY <1>1, <1>5 DEF PassInv, LinkInv
<1>10. HeldInv'
  <2>1. ASSUME NEW r \in Receivers PROVE Pass!Holds(r)' <=> Pass!Holds(r)
    BY <1>1, Zenon DEF Pass!Holds
  <2>2. ASSUME NEW r \in Receivers
        PROVE  /\ rpc'[r] \in {"idle", "connect", "closepeer", "recv"} => rpc[r] \in {"idle", "connect", "closepeer", "recv"}
               /\ rpc'[r] \in {"read", "exit"} => rpc[r] \in {"read", "exit"}
               /\ rpc[r] = "done" => rpc'[r] = "done"
    BY <1>1, <1>5
  <2> QED
    BY <1>1, <2>1, <2>2, Zenon DEF PassInv, HeldInv
<1>11. OffsetInv'
  <2>1. \A r \in Receivers : r # q => link[r] # "up"
    BY <1>3 DEF PassInv, LinkInv
  <2>2. \A r \in Receivers : r # q => got'[r] = <<>>
    BY <1>4, <2>1 DEF PassInv, OffsetInv
  <2>3. prog # "raii" => o + k = asked /\ rpc'[q] = "exit"
    <3>1. ASSUME prog # "raii" PROVE o = 0 /\ k = asked
      BY <3>1, <1>3, <1>4
    <3> QED
      BY <3>1, <1>5
  <2>4. \A r \in Receivers : prog # "raii" /\ (rpc'[r] = "exit" \/ rexit[r] = 0) => r = q
    <3>1. ASSUME NEW r \in Receivers, prog # "raii", rpc'[r] = "exit" \/ rexit[r] = 0, r # q PROVE FALSE
      BY <3>1, <1>5, <2>1 DEF PassInv, OffsetInv
    <3> QED
      BY <3>1
  <2>5. offset' = o + k /\ link' = link /\ link[q] = "up" /\ prog' = prog /\ rexit' = rexit
    BY <1>1, <1>3, <1>4
  <2>6. asked' = asked
    BY DEF asked
  <2> QED
    BY <1>6, <2>1, <2>2, <2>3, <2>4, <2>5, <2>6 DEF OffsetInv
<1>12. NameInv'
  <2>1. rpc'[Child] \in {"read", "exit"} => rpc[Child] \in {"read", "exit"}
    BY <1>1, <1>5
  <2>2. rpc'[Child] = "done" => rpc[Child] = "done"
    BY <1>1, <1>5
  <2> QED
    BY <1>1, <2>1, <2>2, Zenon DEF PassInv, NameInv
<1> QED
  BY <1>7, <1>8, <1>9, <1>10, <1>11, <1>12 DEF PassInv

LEMMA PassStepInv == PassInv /\ [Pass!Next]_passVars => PassInv'
<1> SUFFICES ASSUME PassInv, [Pass!Next]_passVars PROVE PassInv'
  OBVIOUS
<1>1. CASE Pass!SenderSteps
  BY <1>1, PassAdvanceKeeps, PassCloseListenKeeps, PassSenderEndKeeps, PassForkKeeps,
     PassAcceptKeeps, PassSendKeeps DEF Pass!SenderSteps
<1>2. CASE Pass!SenderFailures
  BY <1>2, PassSenderEndKeeps DEF Pass!SenderFailures
<1>3. ASSUME NEW r \in Receivers, Pass!Start(r) \/ Pass!ReceiverSteps(r) \/ Pass!ReceiverFailures(r)
      PROVE  PassInv'
  <2>1. CASE Pass!Start(r) \/ Pass!ChildCloses(r) \/ Pass!Connect(r)
    BY <2>1, PassTowardsKeeps
  <2>2. CASE Pass!recv_fd(r)
    BY <2>2, PassRecvKeeps
  <2>3. CASE Pass!Read(r) \/ (prog = "raii" /\ Pass!ReadFails(r))
    BY <2>3, PassReadKeeps
  <2>4. CASE \/ Pass!ConnectRefused(r) \/ Pass!ConnectFails(r) \/ Pass!NoDescriptor(r)
             \/ Pass!RecvFails(r) \/ Pass!ReceiverReturns(r)
             \/ (prog # "raii" /\ Pass!ReadFails(r))
    <3>1. PICK code \in {0, 1} :
            rpc[r] \notin {"idle", "done"} /\ (code = 0 => rpc[r] = "exit") /\ Pass!ReceiverExit(r, code)
      BY <2>4 DEF Pass!ConnectRefused, Pass!ConnectFails, Pass!NoDescriptor, Pass!RecvFails,
         Pass!ReceiverReturns, Pass!ReadFails
    <3> QED
      BY <3>1, PassReceiverEndKeeps
  <2> QED
    BY <1>3, <2>1, <2>2, <2>3, <2>4 DEF Pass!ReceiverSteps, Pass!ReceiverFailures
<1>4. CASE UNCHANGED passVars
  <2> USE <1>4 DEF passVars, PassInv
  <2>1. Pass!TypeOK'
    BY Zenon DEF Pass!TypeOK
  <2>2. StageInv' /\ LinkInv'
    BY DEF StageInv, LinkInv
  <2>3. HeldInv'
    BY Zenon DEF HeldInv, Pass!Holds
  <2>4. OffsetInv'
    BY Zenon DEF OffsetInv, asked
  <2>5. NameInv'
    BY Zenon DEF NameInv
  <2> QED
    BY <2>1, <2>2, <2>3, <2>4, <2>5
<1> QED
  BY <1>1, <1>2, <1>3, <1>4 DEF Pass!Next

\* What the invariant says of the file and of the name.
LEMMA PassInvImplies ==
  PassInv => Pass!TypeOK /\ Pass!HandedOver /\ Pass!ContentExact /\ Pass!NameRemoved
<1> SUFFICES ASSUME PassInv PROVE Pass!HandedOver /\ Pass!ContentExact /\ Pass!NameRemoved
  BY DEF PassInv
<1>1. Pass!HandedOver
  BY Zenon DEF PassInv, LinkInv, HeldInv, Pass!HandedOver
<1>2. Pass!ContentExact
  <2>1. \A S : Pass!Min(S) = Min(S)
    BY Zenon DEF Pass!Min, Min
  <2>2. Pass!Min({content, FileLen}) = asked
    BY <2>1 DEF asked
  <2>3. offset \in Nat /\ FileLen \in Nat
    BY Chapter10Assumption DEF PassInv, Pass!TypeOK
  <2> SUFFICES ASSUME NEW r \in Receivers
        PROVE  /\ got[r] = [i \in 1..Len(got[r]) |-> Pass!From(r) + i]
               /\ got[r] # <<>> /\ prog # "named" => Pass!From(r) = 0
               /\ rexit[r] = 0 /\ prog # "raii" =>
                    Len(got[r]) = Pass!Min({content, FileLen - Pass!From(r)})
    BY DEF Pass!ContentExact
  <2>4. CASE link[r] = "up"
    <3>1. got[r] = [i \in 1..offset |-> i]
      BY <2>4 DEF PassInv, OffsetInv
    <3>2. Len(got[r]) = offset
      BY <2>3, <3>1
    <3>3. Pass!From(r) = 0
      BY <2>3, <3>2 DEF Pass!From
    <3>4. got[r] = [i \in 1..Len(got[r]) |-> Pass!From(r) + i]
      BY <2>3, <3>1, <3>2, <3>3
    <3>5. rexit[r] = 0 /\ prog # "raii" => offset = asked
      BY DEF PassInv, OffsetInv
    <3>6. FileLen - Pass!From(r) = FileLen
      BY <2>3, <3>3
    <3> QED
      BY <2>2, <3>2, <3>3, <3>4, <3>5, <3>6
  <2>5. CASE link[r] # "up"
    <3>1. got[r] = <<>> /\ (prog # "raii" => rexit[r] # 0)
      BY <2>5 DEF PassInv, OffsetInv
    <3>2. Len(got[r]) = 0 /\ got[r] = [i \in 1..0 |-> Pass!From(r) + i]
      BY <3>1
    <3> QED
      BY <3>1, <3>2
  <2> QED
    BY <2>4, <2>5
<1>3. Pass!NameRemoved
  BY Chapter10Assumption DEF PassInv, NameInv, StageInv, Pass!NameRemoved, Pass!AllOver
<1> QED
  BY <1>1, <1>2, <1>3

\* Descriptors are owned exactly in Chapter10: behind uds::Fd each has one
\* owner, and a file that is passed on is held by the message or by one
\* receiver, which reads one piece of it that ends at its offset, and leaves no
\* name of the socket behind.
THEOREM DescriptorsAreExact == MCSpec => []DescriptorsExact
<1> DEFINE Inv == OwnInv /\ (program = "passfd" => PassInv)
<1>1. MCInit => Inv
  BY InitOwns, PassInitInv DEF MCInit
<1>2. Inv /\ [MCNext]_mcVars => Inv'
  <2> SUFFICES ASSUME Inv, [MCNext]_mcVars PROVE Inv'
    OBVIOUS
  <2>1. HandleNext \/ UNCHANGED handleVars
    BY DEF MCNext, InRio, InRace, InHandle, InPass, InUds, mcVars
  <2>2. OwnInv'
    BY <2>1, StepOwns
  <2>3. program' = program /\ (program = "passfd" => Pass!Next \/ UNCHANGED passVars)
    BY DEF MCNext, InRio, InRace, InHandle, InPass, InUds, mcVars
  <2>4. program' = "passfd" => PassInv'
    BY <2>3, PassStepInv
  <2> QED
    BY <2>2, <2>4
<1>3. Inv => DescriptorsExact
  BY PassInvImplies DEF OwnInv, DescriptorsExact
<1> QED
  BY <1>1, <1>2, <1>3, PTL DEF MCSpec
-----------------------------------------------------------------------------
(***************************************************************************)
(* Two threads on one rio_t.  As long as no two calls of rio_read have     *)
(* overlapped, the shared buffer hands out the file byte for byte, for any *)
(* number of threads, any file and any buffer; and a line stays within its *)
(* array even when they have.  Between two stores of rio_read the fields   *)
(* disagree, so the invariant says at each position of the one thread      *)
(* that is inside what the buffer, the pointer, the count and the thread's *)
(* registers amount to together.                                           *)
(***************************************************************************)

ThreadType ==
  [pc : {"call", "test", "read", "store", "judge", "size", "copy", "loadptr",
         "storeptr", "loadcnt", "storecnt", "done"},
   r : Int, p : Int, k : {0, 1}, c : Nat, n : Nat]

\* What holds however the threads race.
RacyInv ==
  /\ len \in Nat /\ rd \in 0..len /\ raced \in BOOLEAN
  /\ rio_buf \in Seq(Nat) /\ rio_bufptr \in Int /\ rio_cnt \in Int
  /\ taken \in Seq(Nat)
  /\ th \in [Threads -> ThreadType]
  /\ \A t \in Threads : th[t].n + 1 < maxlen

\* The buffer from p on holds the next cnt bytes of the file after the first
\* a, the last ones read() has delivered.
Stocked(p, cnt, a) ==
  /\ a + (IF cnt > 0 THEN cnt ELSE 0) = rd
  /\ cnt > 0 => p + cnt <= Len(rio_buf) /\ \A j \in 1..cnt : rio_buf[p + j] = a + j

\* What is stocked at each position of the one thread that is inside rio_read.
InsideInv(t) ==
  /\ th[t].pc \in {"test", "read", "size", "copy"} => Stocked(rio_bufptr, rio_cnt, Len(taken))
  /\ th[t].pc = "read" => rio_cnt <= 0
  /\ th[t].pc = "size" => rio_cnt > 0 /\ th[t].r = rio_cnt
  /\ th[t].pc = "copy" => rio_cnt > 0 /\ th[t].k = 1 /\ th[t].p = rio_bufptr
  /\ th[t].pc \in {"store", "judge"} => Stocked(0, th[t].r, Len(taken))
  /\ th[t].pc = "judge" => th[t].r = rio_cnt
  /\ th[t].pc \in {"loadptr", "storeptr"} => Stocked(rio_bufptr, rio_cnt, Len(taken) - 1)
  /\ th[t].pc \in {"loadcnt", "storecnt"} => Stocked(rio_bufptr - 1, rio_cnt, Len(taken) - 1)
  /\ th[t].pc \in {"loadptr", "storeptr", "loadcnt", "storecnt"} => rio_cnt > 0 /\ th[t].k = 1
  /\ th[t].pc = "storeptr" => th[t].p = rio_bufptr
  /\ th[t].pc = "storecnt" => th[t].r = rio_cnt

\* As long as calls of rio_read have not overlapped.
AloneInv ==
  ~raced =>
    /\ rio_bufptr >= 0 /\ Run(taken, 0, Len(taken))
    /\ \A t, o \in Threads : Race!Inside(t) /\ Race!Inside(o) => t = o
    /\ \A t \in Threads : Race!Inside(t) => InsideInv(t)
    /\ (\A t \in Threads : ~Race!Inside(t)) => Stocked(rio_bufptr, rio_cnt, Len(taken))

RaceInv == RacyInv /\ AloneInv

LEMMA RaceInitInv == Race!RaceInit => RaceInv
<1> SUFFICES ASSUME Race!RaceInit PROVE RaceInv
  OBVIOUS
<1> USE Chapter10Assumption, RioAssumption DEF Race!RaceInit, Race!Init
<1>1. /\ th = [t \in Threads |-> [pc |-> "call", r |-> 0, p |-> 0, k |-> 0, c |-> 0, n |-> 0]]
      /\ len \in Nat /\ rd = 0 /\ raced = FALSE /\ rio_buf = <<>> /\ rio_bufptr = 0 /\ rio_cnt = 0
      /\ taken = <<>>
  BY DEF Race!Registers
<1>2. RacyInv
  <2>1. rio_buf \in Seq(Nat) /\ taken \in Seq(Nat)
    BY <1>1, EmptySeq
  <2>2. [pc |-> "call", r |-> 0, p |-> 0, k |-> 0, c |-> 0, n |-> 0] \in ThreadType
    BY DEF ThreadType
  <2>3. th \in [Threads -> ThreadType] /\ \A t \in Threads : th[t].n = 0
    BY <1>1, <2>2
  <2>4. 0 + 1 < maxlen
    OBVIOUS
  <2>5. rd \in 0..len
    BY <1>1
  <2>7. raced \in BOOLEAN
    BY <1>1, Zenon
  <2>6. \A t \in Threads : th[t].n + 1 < maxlen
    BY <2>3, <2>4
  <2> HIDE DEF Race!RaceInit
  <2> QED
    BY <1>1, <2>1, <2>3, <2>5, <2>6, <2>7 DEF RacyInv
<1>3. AloneInv
  <2>1. Len(taken) = 0 /\ Run(taken, 0, 0)
    BY <1>1, RunEmpty, EmptySeq
  <2>2. Stocked(rio_bufptr, rio_cnt, Len(taken))
    BY <1>1, <2>1 DEF Stocked
  <2>3. \A t \in Threads : ~Race!Inside(t)
    BY <1>1 DEF Race!Inside
  <2> QED
    BY <1>1, <2>1, <2>2, <2>3 DEF AloneInv
<1> QED
  BY <1>2, <1>3 DEF RaceInv

\* A thread alone inside rio_read.
LEMMA AloneInside ==
  ASSUME RaceInv, ~raced, NEW t \in Threads, Race!Inside(t)
  PROVE  InsideInv(t) /\ \A o \in Threads : o # t => ~Race!Inside(o)
  BY DEF RaceInv, AloneInv

\* What has to be shown of a step of thread t while calls do not overlap.
LEMMA AloneKeeps ==
  ASSUME NEW t \in Threads,
         \A o \in Threads : o # t => ~Race!Inside(o) /\ th'[o] = th[o],
         rio_bufptr' >= 0, Run(taken, 0, Len(taken))',
         Race!Inside(t)' => InsideInv(t)',
         ~Race!Inside(t)' => Stocked(rio_bufptr, rio_cnt, Len(taken))'
  PROVE  AloneInv'
<1>1. \A o \in Threads : o # t => ~Race!Inside(o)'
  BY DEF Race!Inside
<1> QED
  BY <1>1, Zenon DEF AloneInv

\* The numbers of a state, and the lengths.
LEMMA RaceNumbers ==
  ASSUME RacyInv
  PROVE  Len(taken) \in Nat /\ Len(rio_buf) \in Nat /\ rd \in Nat /\ rio_cnt \in Int /\ rio_bufptr \in Int
  BY LenProperties DEF RacyInv

\* The types, when a thread's registers change.
LEMMA RacyKeeps ==
  ASSUME RacyInv, NEW t \in Threads, UNCHANGED len, rd' \in 0..len, raced' \in BOOLEAN,
         rio_buf' \in Seq(Nat), rio_bufptr' \in Int, rio_cnt' \in Int, taken' \in Seq(Nat),
         th' \in [Threads -> ThreadType], th'[t].n + 1 < maxlen,
         \A o \in Threads : o # t => th'[o] = th[o]
  PROVE  RacyInv'
<1>1. \A o \in Threads : th'[o].n + 1 < maxlen
  BY DEF RacyInv
<1> QED
  BY <1>1, Zenon DEF RacyInv

\* rio_read returns: the thread is outside again, and its line still fits.
LEMMA ReturnsKeeps ==
  ASSUME RacyInv, NEW t \in Threads, NEW rc \in Int, Race!Returns(t, rc)
  PROVE  /\ th' \in [Threads -> ThreadType] /\ \A o \in Threads : o # t => th'[o] = th[o]
         /\ th'[t].n + 1 < maxlen /\ th'[t].pc \in {"call", "done"}
<1>1. th[t] \in ThreadType /\ th \in [Threads -> ThreadType] /\ th[t].n + 1 < maxlen
  BY DEF RacyInv
<1> DEFINE l == IF rc < 0 \/ (rc = 0 /\ th[t].n = 0) THEN "done" ELSE "call"
           m == IF rc = 1 /\ th[t].c \notin NL /\ th[t].n + 2 < maxlen THEN th[t].n + 1 ELSE 0
<1>2. PICK n \in Nat : n = m /\ n + 1 < maxlen
  BY <1>1, Chapter10Assumption DEF ThreadType
<1>3. PICK v : v = [pc |-> l, r |-> 0, p |-> 0, k |-> 0, c |-> 0, n |-> n]
  OBVIOUS
<1>4. v \in ThreadType /\ v.n = n /\ v.pc \in {"call", "done"}
  BY <1>3 DEF ThreadType
<1>5. th' = [th EXCEPT ![t] = v]
  <2>1. th' = [th EXCEPT ![t] = [Race!Registers(l) EXCEPT !.n = m]]
    BY DEF Race!Returns
  <2>2. [Race!Registers(l) EXCEPT !.n = m] = v
    BY <1>2, <1>3 DEF Race!Registers
  <2> QED
    BY <2>1, <2>2
<1> QED
  BY <1>1, <1>2, <1>4, <1>5

LEMMA RaceTestKeeps ==
  ASSUME RaceInv, NEW t \in Threads, Race!Test(t)
  PROVE  RaceInv'
<1> USE DEF Race!Test, Race!fixed, Race!rio
<1>1. UNCHANGED <<len, rd, rio_buf, rio_bufptr, rio_cnt, taken>> /\ raced' = (raced \/ \E o \in Threads \ {t} : Race!Inside(o)) /\ th[t].pc \in {"call", "test"}
  OBVIOUS
<1>0. RacyInv /\ th[t] \in ThreadType /\ th \in [Threads -> ThreadType]
  BY DEF RaceInv, RacyInv
<1>2. /\ th' \in [Threads -> ThreadType] /\ \A o \in Threads : o # t => th'[o] = th[o]
      /\ th'[t].pc = (IF rio_cnt <= 0 THEN "read" ELSE "size") /\ th'[t].r = rio_cnt
      /\ th'[t].p = th[t].p /\ th'[t].k = th[t].k /\ th'[t].c = th[t].c /\ th'[t].n = th[t].n
  <2>u. PICK u \in ThreadType : u = th[t]
    BY <1>0
  <2>1. PICK v : u = th[t] /\ v = [u EXCEPT !.pc = (IF rio_cnt <= 0 THEN "read" ELSE "size"), !.r = rio_cnt]
    BY <2>u
  <2>2. th' = [th EXCEPT ![t] = v]
    BY <2>1, <1>0
  <2>3. v \in ThreadType /\ v.pc = (IF rio_cnt <= 0 THEN "read" ELSE "size") /\ v.r = rio_cnt /\ v.p = u.p /\ v.k = u.k /\ v.c = u.c /\ v.n = u.n
    BY <2>1, <1>0 DEF ThreadType, RacyInv
  <2> HIDE DEF Race!Test
  <2> QED
    BY <1>0, <2>1, <2>2, <2>3
<1> HIDE DEF Race!Test
<1>3. RacyInv'
  <2>1. raced' \in BOOLEAN
    BY <1>1, Zenon
  <2> QED
    BY <1>0, <1>1, <1>2, <2>1, RacyKeeps DEF RacyInv
<1>4. ASSUME ~raced' PROVE AloneInv'
  <2>1. ~raced /\ \A o \in Threads : o # t => ~Race!Inside(o)
    BY <1>1, <1>4, Zenon
  <2>2. Stocked(rio_bufptr, rio_cnt, Len(taken)) /\ rio_bufptr >= 0 /\ Run(taken, 0, Len(taken))
    <3>1. CASE th[t].pc = "test"
      BY <2>1, <3>1, AloneInside DEF Race!Inside, InsideInv, RaceInv, AloneInv
    <3>2. CASE th[t].pc = "call"
      BY <2>1, <3>2 DEF Race!Inside, RaceInv, AloneInv
    <3> QED
      BY <1>1, <3>1, <3>2
  <2>3. Stocked(rio_bufptr, rio_cnt, Len(taken))' /\ rio_bufptr' >= 0 /\ Run(taken, 0, Len(taken))'
    BY <1>1, <2>2 DEF Stocked, Run
  <2>4. InsideInv(t)' /\ Race!Inside(t)'
    <3>1. rio_cnt' = rio_cnt /\ rio_cnt \in Int
      BY <1>1 DEF RaceInv, RacyInv
    <3> QED
      BY <1>2, <2>3, <3>1 DEF InsideInv, Race!Inside
  <2> QED
    BY <1>2, <2>1, <2>3, <2>4, AloneKeeps
<1> QED
  BY <1>3, <1>4 DEF RaceInv, AloneInv

LEMMA RaceReadErrorKeeps ==
  ASSUME RaceInv, NEW t \in Threads, Race!ReadError(t)
  PROVE  RaceInv'
<1> USE DEF Race!ReadError, Race!fixed, Race!rio
<1>1. UNCHANGED <<len, rd, rio_buf, rio_bufptr, rio_cnt, taken, raced>> /\ th[t].pc = "read"
  OBVIOUS
<1>0. RacyInv /\ th[t] \in ThreadType /\ th \in [Threads -> ThreadType]
  BY DEF RaceInv, RacyInv
<1>2. /\ th' \in [Threads -> ThreadType] /\ \A o \in Threads : o # t => th'[o] = th[o]
      /\ th'[t].pc = "store" /\ th'[t].r = -1
      /\ th'[t].p = th[t].p /\ th'[t].k = th[t].k /\ th'[t].c = th[t].c /\ th'[t].n = th[t].n
  <2>0. PICK e \in Int : e = -1
    OBVIOUS
  <2>u. PICK u \in ThreadType : u = th[t]
    BY <1>0
  <2>1. PICK v : u = th[t] /\ v = [u EXCEPT !.pc = "store", !.r = e]
    BY <2>u
  <2>2. th' = [th EXCEPT ![t] = v]
    BY <2>0, <2>1, <1>0
  <2>3. v \in ThreadType /\ v.pc = "store" /\ v.r = e /\ v.p = u.p /\ v.k = u.k /\ v.c = u.c /\ v.n = u.n
    BY <2>1, <1>0 DEF ThreadType, RacyInv
  <2> HIDE DEF Race!ReadError
  <2> QED
    BY <1>0, <2>0, <2>1, <2>2, <2>3
<1> HIDE DEF Race!ReadError
<1>3. RacyInv'
  BY <1>0, <1>1, <1>2, RacyKeeps DEF RacyInv
<1>4. ASSUME ~raced' PROVE AloneInv'
  <2>1. InsideInv(t) /\ ~raced /\ \A o \in Threads : o # t => ~Race!Inside(o)
    BY <1>1, <1>4, AloneInside DEF Race!Inside
  <2>2. rio_bufptr' >= 0 /\ Run(taken, 0, Len(taken))'
    BY <1>1, <2>1 DEF RaceInv, AloneInv, Run
  <2>3. InsideInv(t)' /\ Race!Inside(t)'
    <3>1. Stocked(rio_bufptr, rio_cnt, Len(taken)) /\ rio_cnt <= 0
      BY <1>1, <2>1 DEF InsideInv
    <3>2. Stocked(0, -1, Len(taken))'
      BY <1>0, <1>1, <3>1, RaceNumbers DEF Stocked
    <3> QED
      BY <1>2, <3>2 DEF InsideInv, Race!Inside
  <2> QED
    BY <1>2, <2>1, <2>2, <2>3, AloneKeeps
<1> QED
  BY <1>3, <1>4 DEF RaceInv, AloneInv

LEMMA RaceStoreKeeps ==
  ASSUME RaceInv, NEW t \in Threads, Race!Store(t)
  PROVE  RaceInv'
<1> USE DEF Race!Store, Race!fixed, Race!rio
<1>1. UNCHANGED <<len, rd, rio_buf, rio_bufptr, taken, raced>> /\ rio_cnt' = th[t].r /\ th[t].pc = "store"
  OBVIOUS
<1>0. RacyInv /\ th[t] \in ThreadType /\ th \in [Threads -> ThreadType]
  BY DEF RaceInv, RacyInv
<1>2. /\ th' \in [Threads -> ThreadType] /\ \A o \in Threads : o # t => th'[o] = th[o]
      /\ th'[t].pc = "judge"
      /\ th'[t].r = th[t].r /\ th'[t].p = th[t].p /\ th'[t].k = th[t].k /\ th'[t].c = th[t].c /\ th'[t].n = th[t].n
  <2>u. PICK u \in ThreadType : u = th[t]
    BY <1>0
  <2>1. PICK v : u = th[t] /\ v = [u EXCEPT !.pc = "judge"]
    BY <2>u
  <2>2. th' = [th EXCEPT ![t] = v]
    BY <2>1, <1>0
  <2>3. v \in ThreadType /\ v.pc = "judge" /\ v.r = u.r /\ v.p = u.p /\ v.k = u.k /\ v.c = u.c /\ v.n = u.n
    BY <2>1, <1>0 DEF ThreadType, RacyInv
  <2> HIDE DEF Race!Store
  <2> QED
    BY <1>0, <2>1, <2>2, <2>3
<1> HIDE DEF Race!Store
<1>3. RacyInv'
  <2>1. rio_cnt' \in Int
    BY <1>0, <1>1 DEF ThreadType
  <2> QED
    BY <1>0, <1>1, <1>2, <2>1, RacyKeeps DEF RacyInv
<1>4. ASSUME ~raced' PROVE AloneInv'
  <2>1. InsideInv(t) /\ ~raced /\ \A o \in Threads : o # t => ~Race!Inside(o)
    BY <1>1, <1>4, AloneInside DEF Race!Inside
  <2>2. rio_bufptr' >= 0 /\ Run(taken, 0, Len(taken))'
    BY <1>1, <2>1 DEF RaceInv, AloneInv, Run
  <2>3. InsideInv(t)' /\ Race!Inside(t)'
    BY <1>1, <1>2, <2>1 DEF InsideInv, Stocked, Race!Inside
  <2> QED
    BY <1>2, <2>1, <2>2, <2>3, AloneKeeps
<1> QED
  BY <1>3, <1>4 DEF RaceInv, AloneInv

LEMMA RaceSizeKeeps ==
  ASSUME RaceInv, NEW t \in Threads, Race!Size(t)
  PROVE  RaceInv'
<1> USE DEF Race!Size, Race!fixed, Race!rio
<1>1. UNCHANGED <<len, rd, rio_buf, rio_bufptr, rio_cnt, taken, raced>> /\ th[t].pc = "size"
  OBVIOUS
<1>0. RacyInv /\ th[t] \in ThreadType /\ th \in [Threads -> ThreadType]
  BY DEF RaceInv, RacyInv
<1>2. /\ th' \in [Threads -> ThreadType] /\ \A o \in Threads : o # t => th'[o] = th[o]
      /\ th'[t].pc = "copy" /\ th'[t].p = rio_bufptr /\ th'[t].n = th[t].n
      /\ th[t].r = rio_cnt /\ rio_cnt > 0 => th'[t].k = 1
  <2>1. PICK w \in {th[t].r, rio_cnt} :
          th' = [th EXCEPT ![t].pc = "copy", ![t].k = IF w = 0 THEN 0 ELSE 1, ![t].p = rio_bufptr]
    BY DEF Race!Known
  <2>6. PICK k \in {0, 1} : k = IF w = 0 THEN 0 ELSE 1
    OBVIOUS
  <2>u. PICK u \in ThreadType : u = th[t]
    BY <1>0
  <2>2. PICK v : u = th[t] /\ v = [u EXCEPT !.pc = "copy", !.k = k, !.p = rio_bufptr]
    BY <2>u
  <2>3. th' = [th EXCEPT ![t] = v]
    BY <2>1, <2>2, <2>6, <1>0
  <2>4. v \in ThreadType /\ v.pc = "copy" /\ v.p = rio_bufptr /\ v.k = k /\ v.n = u.n
    BY <2>2, <1>0 DEF ThreadType, RacyInv
  <2>5. th[t].r = rio_cnt /\ rio_cnt > 0 => k = 1
    BY <2>1, <2>6, <1>0 DEF RacyInv
  <2> HIDE DEF Race!Size
  <2> QED
    BY <1>0, <2>2, <2>3, <2>4, <2>5
<1> HIDE DEF Race!Size
<1>3. RacyInv'
  BY <1>0, <1>1, <1>2, RacyKeeps DEF RacyInv
<1>4. ASSUME ~raced' PROVE AloneInv'
  <2>1. InsideInv(t) /\ ~raced /\ \A o \in Threads : o # t => ~Race!Inside(o)
    BY <1>1, <1>4, AloneInside DEF Race!Inside
  <2>2. rio_bufptr' >= 0 /\ Run(taken, 0, Len(taken))'
    BY <1>1, <2>1 DEF RaceInv, AloneInv, Run
  <2>3. InsideInv(t)' /\ Race!Inside(t)'
    BY <1>1, <1>2, <2>1 DEF InsideInv, Stocked, Race!Inside
  <2> QED
    BY <1>2, <2>1, <2>2, <2>3, AloneKeeps
<1> QED
  BY <1>3, <1>4 DEF RaceInv, AloneInv

LEMMA RaceLoadPtrKeeps ==
  ASSUME RaceInv, NEW t \in Threads, Race!LoadPtr(t)
  PROVE  RaceInv'
<1> USE DEF Race!LoadPtr, Race!fixed, Race!rio
<1>1. UNCHANGED <<len, rd, rio_buf, rio_bufptr, rio_cnt, taken, raced>> /\ th[t].pc = "loadptr"
  OBVIOUS
<1>0. RacyInv /\ th[t] \in ThreadType /\ th \in [Threads -> ThreadType]
  BY DEF RaceInv, RacyInv
<1>2. /\ th' \in [Threads -> ThreadType] /\ \A o \in Threads : o # t => th'[o] = th[o]
      /\ th'[t].pc = "storeptr" /\ th'[t].p = rio_bufptr
      /\ th'[t].r = th[t].r /\ th'[t].k = th[t].k /\ th'[t].c = th[t].c /\ th'[t].n = th[t].n
  <2>u. PICK u \in ThreadType : u = th[t]
    BY <1>0
  <2>1. PICK v : u = th[t] /\ v = [u EXCEPT !.pc = "storeptr", !.p = rio_bufptr]
    BY <2>u
  <2>2. th' = [th EXCEPT ![t] = v]
    BY <2>1, <1>0
  <2>3. v \in ThreadType /\ v.pc = "storeptr" /\ v.p = rio_bufptr /\ v.r = u.r /\ v.k = u.k /\ v.c = u.c /\ v.n = u.n
    BY <2>1, <1>0 DEF ThreadType, RacyInv
  <2> HIDE DEF Race!LoadPtr
  <2> QED
    BY <1>0, <2>1, <2>2, <2>3
<1> HIDE DEF Race!LoadPtr
<1>3. RacyInv'
  BY <1>0, <1>1, <1>2, RacyKeeps DEF RacyInv
<1>4. ASSUME ~raced' PROVE AloneInv'
  <2>1. InsideInv(t) /\ ~raced /\ \A o \in Threads : o # t => ~Race!Inside(o)
    BY <1>1, <1>4, AloneInside DEF Race!Inside
  <2>2. rio_bufptr' >= 0 /\ Run(taken, 0, Len(taken))'
    BY <1>1, <2>1 DEF RaceInv, AloneInv, Run
  <2>3. InsideInv(t)' /\ Race!Inside(t)'
    BY <1>1, <1>2, <2>1 DEF InsideInv, Stocked, Race!Inside
  <2> QED
    BY <1>2, <2>1, <2>2, <2>3, AloneKeeps
<1> QED
  BY <1>3, <1>4 DEF RaceInv, AloneInv

LEMMA RaceStorePtrKeeps ==
  ASSUME RaceInv, NEW t \in Threads, Race!StorePtr(t)
  PROVE  RaceInv'
<1> USE DEF Race!StorePtr, Race!fixed, Race!rio
<1>1. UNCHANGED <<len, rd, rio_buf, rio_cnt, taken, raced>> /\ rio_bufptr' = th[t].p + th[t].k /\ th[t].pc = "storeptr"
  OBVIOUS
<1>0. RacyInv /\ th[t] \in ThreadType /\ th \in [Threads -> ThreadType]
  BY DEF RaceInv, RacyInv
<1>2. /\ th' \in [Threads -> ThreadType] /\ \A o \in Threads : o # t => th'[o] = th[o]
      /\ th'[t].pc = "loadcnt"
      /\ th'[t].r = th[t].r /\ th'[t].p = th[t].p /\ th'[t].k = th[t].k /\ th'[t].c = th[t].c /\ th'[t].n = th[t].n
  <2>u. PICK u \in ThreadType : u = th[t]
    BY <1>0
  <2>1. PICK v : u = th[t] /\ v = [u EXCEPT !.pc = "loadcnt"]
    BY <2>u
  <2>2. th' = [th EXCEPT ![t] = v]
    BY <2>1, <1>0
  <2>3. v \in ThreadType /\ v.pc = "loadcnt" /\ v.r = u.r /\ v.p = u.p /\ v.k = u.k /\ v.c = u.c /\ v.n = u.n
    BY <2>1, <1>0 DEF ThreadType, RacyInv
  <2> HIDE DEF Race!StorePtr
  <2> QED
    BY <1>0, <2>1, <2>2, <2>3
<1> HIDE DEF Race!StorePtr
<1>3. RacyInv'
  <2>1. rio_bufptr' \in Int
    BY <1>0, <1>1 DEF ThreadType
  <2> QED
    BY <1>0, <1>1, <1>2, <2>1, RacyKeeps DEF RacyInv
<1>4. ASSUME ~raced' PROVE AloneInv'
  <2>1. InsideInv(t) /\ ~raced /\ \A o \in Threads : o # t => ~Race!Inside(o)
    BY <1>1, <1>4, AloneInside DEF Race!Inside
  <2>4. PICK b \in Int : b = rio_bufptr /\ rio_bufptr' = b + 1 /\ b >= 0 /\ (b + 1) - 1 = b
    BY <1>0, <1>1, <2>1, RaceNumbers DEF InsideInv, RaceInv, AloneInv
  <2>2. rio_bufptr' >= 0 /\ Run(taken, 0, Len(taken))'
    BY <1>1, <2>1, <2>4 DEF RaceInv, AloneInv, Run
  <2>3. InsideInv(t)' /\ Race!Inside(t)'
    <3>1. Stocked(b, rio_cnt, Len(taken) - 1) /\ rio_cnt > 0 /\ th[t].k = 1
      BY <1>1, <2>1, <2>4 DEF InsideInv
    <3>2. Stocked(rio_bufptr - 1, rio_cnt, Len(taken) - 1)'
      BY <1>1, <2>4, <3>1 DEF Stocked
    <3> QED
      BY <1>1, <1>2, <3>1, <3>2 DEF InsideInv, Race!Inside
  <2> QED
    BY <1>2, <2>1, <2>2, <2>3, AloneKeeps
<1> QED
  BY <1>3, <1>4 DEF RaceInv, AloneInv

LEMMA RaceLoadCntKeeps ==
  ASSUME RaceInv, NEW t \in Threads, Race!LoadCnt(t)
  PROVE  RaceInv'
<1> USE DEF Race!LoadCnt, Race!fixed, Race!rio
<1>1. UNCHANGED <<len, rd, rio_buf, rio_bufptr, rio_cnt, taken, raced>> /\ th[t].pc = "loadcnt"
  OBVIOUS
<1>0. RacyInv /\ th[t] \in ThreadType /\ th \in [Threads -> ThreadType]
  BY DEF RaceInv, RacyInv
<1>2. /\ th' \in [Threads -> ThreadType] /\ \A o \in Threads : o # t => th'[o] = th[o]
      /\ th'[t].pc = "storecnt" /\ th'[t].r = rio_cnt
      /\ th'[t].p = th[t].p /\ th'[t].k = th[t].k /\ th'[t].c = th[t].c /\ th'[t].n = th[t].n
  <2>u. PICK u \in ThreadType : u = th[t]
    BY <1>0
  <2>1. PICK v : u = th[t] /\ v = [u EXCEPT !.pc = "storecnt", !.r = rio_cnt]
    BY <2>u
  <2>2. th' = [th EXCEPT ![t] = v]
    BY <2>1, <1>0
  <2>3. v \in ThreadType /\ v.pc = "storecnt" /\ v.r = rio_cnt /\ v.p = u.p /\ v.k = u.k /\ v.c = u.c /\ v.n = u.n
    BY <2>1, <1>0 DEF ThreadType, RacyInv
  <2> HIDE DEF Race!LoadCnt
  <2> QED
    BY <1>0, <2>1, <2>2, <2>3
<1> HIDE DEF Race!LoadCnt
<1>3. RacyInv'
  BY <1>0, <1>1, <1>2, RacyKeeps DEF RacyInv
<1>4. ASSUME ~raced' PROVE AloneInv'
  <2>1. InsideInv(t) /\ ~raced /\ \A o \in Threads : o # t => ~Race!Inside(o)
    BY <1>1, <1>4, AloneInside DEF Race!Inside
  <2>2. rio_bufptr' >= 0 /\ Run(taken, 0, Len(taken))'
    BY <1>1, <2>1 DEF RaceInv, AloneInv, Run
  <2>3. InsideInv(t)' /\ Race!Inside(t)'
    BY <1>1, <1>2, <2>1 DEF InsideInv, Stocked, Race!Inside
  <2> QED
    BY <1>2, <2>1, <2>2, <2>3, AloneKeeps
<1> QED
  BY <1>3, <1>4 DEF RaceInv, AloneInv

LEMMA RaceReadKeeps ==
  ASSUME RaceInv, NEW t \in Threads, Race!Read(t)
  PROVE  RaceInv'
<1>0. RacyInv /\ th[t] \in ThreadType /\ th \in [Threads -> ThreadType]
  BY DEF RaceInv, RacyInv
<1>5. PICK d, b \in Nat : d = rd /\ b = Len(rio_buf) /\ d <= len /\ len \in Nat
  <2>1. rd \in 0..len /\ len \in Nat
    BY <1>0 DEF RacyInv
  <2>2. Len(rio_buf) \in Nat
    BY <1>0, RaceNumbers
  <2>3. rd \in Nat /\ rd <= len
    BY <2>1
  <2> QED
    BY <2>1, <2>2, <2>3
<1>6. PICK m \in Nat : m = Race!Min({RIO_BUFSIZE, len - rd}) /\ d + m <= len
  <2>1. \A S : Race!Min(S) = Min(S)
    BY Zenon DEF Race!Min, Min
  <2>2. Min({RIO_BUFSIZE, len - d}) = IF RIO_BUFSIZE <= len - d THEN RIO_BUFSIZE ELSE len - d
    BY <1>5, RioAssumption, MinOfTwo
  <2> QED
    BY <1>5, <2>1, <2>2, RioAssumption
<1>7. PICK x \in Nat : x = Race!Max({m, Len(rio_buf)}) /\ m <= x /\ b <= x /\ x \in {m, b}
  <2>1. \A S : Race!Max(S) = Max(S)
    BY Zenon DEF Race!Max, Max
  <2>2. CASE m <= b
    <3>1. Max({m, b}) = b
      BY <2>2, MaxIs
    <3> QED
      BY <1>5, <2>1, <2>2, <3>1
  <2>3. CASE ~(m <= b)
    <3>1. Max({m, b}) = m
      BY <2>3, MaxIs
    <3> QED
      BY <1>5, <2>1, <2>3, <3>1
  <2> QED
    BY <2>2, <2>3
<1>1. /\ UNCHANGED <<len, rio_bufptr, rio_cnt, taken, raced>> /\ th[t].pc = "read"
      /\ rd' = d + m /\ rio_buf' = [i \in 1..x |-> IF i <= m THEN d + i ELSE rio_buf[i]]
      /\ th' = [th EXCEPT ![t].pc = "store", ![t].r = m]
  BY <1>5, <1>6, <1>7 DEF Race!Read, Race!fixed
<1>2. /\ th' \in [Threads -> ThreadType] /\ \A o \in Threads : o # t => th'[o] = th[o]
      /\ th'[t].pc = "store" /\ th'[t].r = m /\ th'[t].n = th[t].n
  <2>0. PICK e \in Int : e = m
    OBVIOUS
  <2>u. PICK u \in ThreadType : u = th[t]
    BY <1>0
  <2>1. PICK v : u = th[t] /\ v = [u EXCEPT !.pc = "store", !.r = e]
    BY <2>u
  <2>2. th' = [th EXCEPT ![t] = v]
    BY <1>1, <2>0, <2>1, <1>0
  <2>3. v \in ThreadType /\ v.pc = "store" /\ v.r = e /\ v.n = u.n
    BY <2>1 DEF ThreadType
  <2> QED
    BY <1>0, <2>0, <2>1, <2>2, <2>3
<1>8. /\ rio_buf' \in Seq(Nat) /\ Len(rio_buf') = x
      /\ \A i \in 1..x : rio_buf'[i] = IF i <= m THEN d + i ELSE rio_buf[i]
  <2> DEFINE e(i) == IF i <= m THEN d + i ELSE rio_buf[i]
  <2>1. \A i \in 1..x : e(i) \in Nat
    <3>1. ASSUME NEW i \in 1..x PROVE e(i) \in Nat
      <4>1. CASE i <= m
        BY <4>1
      <4>2. CASE ~(i <= m)
        <5>1. i \in 1..b
          BY <1>7, <4>2
        <5>2. rio_buf[i] \in Nat
          BY <1>0, <1>5, <5>1, ElementOfSeq DEF RacyInv
        <5> QED
          BY <4>2, <5>2
      <4> QED
        BY <4>1, <4>2
    <3> QED
      BY <3>1
  <2>2. rio_buf' = [i \in 1..x |-> e(i)]
    BY <1>1
  <2>3. [i \in 1..x |-> e(i)] \in Seq(Nat)
    <3> HIDE DEF e
    <3> QED
      BY <2>1, IsASeq
  <2> HIDE DEF e
  <2>4. rio_buf' \in Seq(Nat) /\ Len(rio_buf') = x /\ \A i \in 1..x : rio_buf'[i] = e(i)
    BY <2>2, <2>3
  <2> QED
    BY <2>4 DEF e
<1>3. RacyInv'
  <2>1. rd' \in 0..len
    BY <1>1, <1>5, <1>6
  <2> QED
    BY <1>0, <1>1, <1>2, <1>8, <2>1, RacyKeeps DEF RacyInv
<1>4. ASSUME ~raced' PROVE AloneInv'
  <2>1. InsideInv(t) /\ ~raced /\ \A o \in Threads : o # t => ~Race!Inside(o)
    BY <1>1, <1>4, AloneInside DEF Race!Inside
  <2>2. rio_bufptr' >= 0 /\ Run(taken, 0, Len(taken))'
    BY <1>1, <2>1 DEF RaceInv, AloneInv, Run
  <2>3. InsideInv(t)' /\ Race!Inside(t)'
    <3>1. PICK n \in Nat : n = Len(taken)
      BY <1>0, RaceNumbers
    <3>2. n = d
      <4>1. Stocked(rio_bufptr, rio_cnt, n) /\ rio_cnt <= 0 /\ rio_cnt \in Int
        BY <1>0, <1>1, <2>1, <3>1 DEF InsideInv, RacyInv
      <4> QED
        BY <1>5, <4>1 DEF Stocked
    <3>3. Stocked(0, m, n)'
      <4>1. n + (IF m > 0 THEN m ELSE 0) = d + m
        BY <3>2
      <4>2. \A j \in 1..m : rio_buf'[0 + j] = n + j
        <5>1. ASSUME NEW j \in 1..m PROVE rio_buf'[0 + j] = n + j
          <6>1. j \in 1..x /\ 0 + j = j /\ j <= m
            BY <1>7
          <6>2. rio_buf'[j] = d + j
            BY <1>8, <6>1
          <6> QED
            BY <3>2, <6>1, <6>2
        <5> QED
          BY <5>1
      <4>3. 0 + m <= Len(rio_buf')
        BY <1>7, <1>8
      <4> QED
        BY <1>1, <4>1, <4>2, <4>3 DEF Stocked
    <3>4. Len(taken)' = n /\ th'[t].r = m
      BY <1>1, <1>2, <3>1
    <3>5. Stocked(0, th[t].r, Len(taken))'
      BY <3>3, <3>4 DEF Stocked
    <3> QED
      BY <1>2, <3>5 DEF InsideInv, Race!Inside
  <2> QED
    BY <1>2, <2>1, <2>2, <2>3, AloneKeeps
<1> QED
  BY <1>3, <1>4 DEF RaceInv, AloneInv

LEMMA RaceJudgeKeeps ==
  ASSUME RaceInv, NEW t \in Threads, Race!Judge(t)
  PROVE  RaceInv'
<1>0. RacyInv /\ th[t] \in ThreadType /\ th \in [Threads -> ThreadType]
  BY DEF RaceInv, RacyInv
<1>1. UNCHANGED <<len, rd, rio_buf, rio_cnt, taken, raced>> /\ th[t].pc = "judge"
  BY DEF Race!Judge, Race!fixed
<1>5. PICK below \in Race!Known(t), zero \in Race!Known(t) :
        \/ below < 0 /\ Race!Returns(t, -1) /\ UNCHANGED rio_bufptr
        \/ below >= 0 /\ zero = 0 /\ Race!Returns(t, 0) /\ UNCHANGED rio_bufptr
        \/ below >= 0 /\ zero # 0 /\ th' = [th EXCEPT ![t].pc = "test"] /\ rio_bufptr' = 0
  BY DEF Race!Judge
<1>6. CASE \/ below < 0 /\ Race!Returns(t, -1) /\ UNCHANGED rio_bufptr
           \/ below >= 0 /\ zero = 0 /\ Race!Returns(t, 0) /\ UNCHANGED rio_bufptr
  <2>1. PICK rc \in Int : Race!Returns(t, rc)
    BY <1>6
  <2>2. /\ th' \in [Threads -> ThreadType] /\ \A o \in Threads : o # t => th'[o] = th[o]
        /\ th'[t].n + 1 < maxlen /\ th'[t].pc \in {"call", "done"}
    BY <1>0, <2>1, ReturnsKeeps
  <2>3. rio_bufptr' = rio_bufptr
    BY <1>6
  <2>4. RacyInv'
    BY <1>0, <1>1, <2>2, <2>3, RacyKeeps DEF RacyInv
  <2>5. ASSUME ~raced' PROVE AloneInv'
    <3>1. InsideInv(t) /\ ~raced /\ \A o \in Threads : o # t => ~Race!Inside(o)
      BY <1>1, <2>5, AloneInside DEF Race!Inside
    <3>2. rio_bufptr' >= 0 /\ Run(taken, 0, Len(taken))'
      BY <1>1, <2>3, <3>1 DEF RaceInv, AloneInv, Run
    <3>3. th[t].r = rio_cnt /\ Stocked(0, rio_cnt, Len(taken))
      BY <1>1, <3>1 DEF InsideInv
    <3>4. rio_cnt <= 0 /\ rio_cnt \in Int
      BY <1>0, <1>6, <3>3 DEF Race!Known, RacyInv
    <3>5. Stocked(rio_bufptr, rio_cnt, Len(taken))'
      BY <1>1, <3>3, <3>4 DEF Stocked
    <3>6. ~Race!Inside(t)'
      BY <2>2 DEF Race!Inside
    <3> QED
      BY <2>2, <3>1, <3>2, <3>5, <3>6, AloneKeeps
  <2> QED
    BY <2>4, <2>5 DEF RaceInv, AloneInv
<1>7. CASE below >= 0 /\ zero # 0 /\ th' = [th EXCEPT ![t].pc = "test"] /\ rio_bufptr' = 0
  <2>u. PICK u \in ThreadType : u = th[t]
    BY <1>0
  <2>1. PICK v : u = th[t] /\ v = [u EXCEPT !.pc = "test"]
    BY <2>u
  <2>2. th' = [th EXCEPT ![t] = v]
    BY <1>7, <2>1, <1>0
  <2>3. v \in ThreadType /\ v.pc = "test" /\ v.n = u.n
    BY <2>1, <1>0 DEF ThreadType
  <2>4. /\ th' \in [Threads -> ThreadType] /\ \A o \in Threads : o # t => th'[o] = th[o]
        /\ th'[t].n = th[t].n /\ th'[t].pc = "test"
    BY <1>0, <2>1, <2>2, <2>3
  <2>5. RacyInv'
    BY <1>0, <1>1, <1>7, <2>4, RacyKeeps DEF RacyInv
  <2>6. ASSUME ~raced' PROVE AloneInv'
    <3>1. InsideInv(t) /\ ~raced /\ \A o \in Threads : o # t => ~Race!Inside(o)
      BY <1>1, <2>6, AloneInside DEF Race!Inside
    <3>2. rio_bufptr' >= 0 /\ Run(taken, 0, Len(taken))'
      BY <1>1, <1>7, <3>1 DEF RaceInv, AloneInv, Run
    <3>3. Stocked(0, rio_cnt, Len(taken))
      BY <1>1, <3>1 DEF InsideInv
    <3>4. Stocked(rio_bufptr, rio_cnt, Len(taken))'
      BY <1>1, <1>7, <3>3 DEF Stocked
    <3>5. InsideInv(t)' /\ Race!Inside(t)'
      BY <2>4, <3>4 DEF InsideInv, Race!Inside
    <3> QED
      BY <2>4, <3>1, <3>2, <3>5, AloneKeeps
  <2> QED
    BY <2>5, <2>6 DEF RaceInv, AloneInv
<1> QED
  BY <1>5, <1>6, <1>7

LEMMA RunAppend ==
  ASSUME NEW s, NEW a \in Nat, NEW n \in Nat, Run(s, a, n)
  PROVE  Run(Append(s, a + n + 1), a, n + 1)
  BY DEF Run

LEMMA RaceMemCpyKeeps ==
  ASSUME RaceInv, NEW t \in Threads, Race!MemCpy(t)
  PROVE  RaceInv'
<1>0. RacyInv /\ th[t] \in ThreadType /\ th \in [Threads -> ThreadType]
  BY DEF RaceInv, RacyInv
<1>1. /\ UNCHANGED <<len, rd, rio_buf, rio_bufptr, rio_cnt, raced>> /\ th[t].pc = "copy"
      /\ taken' = IF raced \/ th[t].k = 0 THEN taken ELSE Append(taken, Race!Byte(th[t].p))
  BY DEF Race!MemCpy, Race!fixed, Race!rio
<1>5. Race!Byte(th[t].p) \in Nat
  <2>1. CASE th[t].p + 1 \in DOMAIN rio_buf
    <3>1. rio_buf[th[t].p + 1] \in Nat
      BY <1>0, <2>1, ElementOfSeq, LenProperties DEF RacyInv
    <3> QED
      BY <2>1, <3>1 DEF Race!Byte
  <2>2. CASE th[t].p + 1 \notin DOMAIN rio_buf
    BY <2>2, Chapter10Assumption DEF Race!Byte
  <2> QED
    BY <2>1, <2>2
<1>2. /\ th' \in [Threads -> ThreadType] /\ \A o \in Threads : o # t => th'[o] = th[o]
      /\ th'[t].pc = "loadptr" /\ th'[t].k = th[t].k /\ th'[t].n = th[t].n
  <2>1. PICK c \in Nat : c = IF th[t].k = 1 THEN Race!Byte(th[t].p) ELSE 0
    BY <1>5
  <2>u. PICK u \in ThreadType : u = th[t]
    BY <1>0
  <2>2. PICK v : u = th[t] /\ v = [u EXCEPT !.pc = "loadptr", !.c = c]
    BY <2>u
  <2>3. th' = [th EXCEPT ![t].pc = "loadptr", ![t].c = c]
    BY <2>1 DEF Race!MemCpy
  <2>4. th' = [th EXCEPT ![t] = v]
    BY <1>0, <2>2, <2>3
  <2>5. v \in ThreadType /\ v.pc = "loadptr" /\ v.k = u.k /\ v.n = u.n
    BY <2>2 DEF ThreadType
  <2> QED
    BY <1>0, <2>2, <2>4, <2>5
<1>3. RacyInv'
  <2>1. taken' \in Seq(Nat)
    <3>1. taken \in Seq(Nat) /\ Append(taken, Race!Byte(th[t].p)) \in Seq(Nat)
      BY <1>0, <1>5, AppendProperties DEF RacyInv
    <3> QED
      BY <1>1, <3>1
  <2> QED
    BY <1>0, <1>1, <1>2, <2>1, RacyKeeps DEF RacyInv
<1>4. ASSUME ~raced' PROVE AloneInv'
  <2>1. InsideInv(t) /\ ~raced /\ \A o \in Threads : o # t => ~Race!Inside(o)
    BY <1>1, <1>4, AloneInside DEF Race!Inside
  <2>4. PICK n, b, l \in Nat, p, c \in Int :
          n = Len(taken) /\ b = rio_bufptr /\ l = Len(rio_buf) /\ c = rio_cnt /\ p = th[t].p
    BY <1>0, <2>1, RaceNumbers, SMTT(40) DEF RaceInv, AloneInv, ThreadType
  <2>5. c > 0 /\ th[t].k = 1 /\ p = b /\ Stocked(b, c, n)
    BY <1>1, <2>1, <2>4 DEF InsideInv
  <2>6. b + 1 \in 1..l /\ rio_buf[b + 1] = n + 1
    <3>1. b + c <= l /\ \A j \in 1..c : rio_buf[b + j] = n + j
      BY <2>4, <2>5 DEF Stocked
    <3>2. 1 \in 1..c
      BY <2>5
    <3> QED
      BY <2>5, <3>1, <3>2
  <2>7. Race!Byte(th[t].p) = n + 1
    <3>1. DOMAIN rio_buf = 1..l
      BY <1>0, <2>4, LenProperties DEF RacyInv
    <3> QED
      BY <2>4, <2>5, <2>6, <3>1 DEF Race!Byte
  <2>8. taken' = Append(taken, n + 1)
    BY <1>1, <2>1, <2>5, <2>7
  <2>9. Run(taken, 0, n) /\ taken \in Seq(Nat)
    BY <1>0, <2>1, <2>4 DEF RaceInv, AloneInv, RacyInv
  <2>10. Run(taken', 0, n + 1)
    <3>1. 0 + n + 1 = n + 1
      OBVIOUS
    <3> QED
      BY <2>8, <2>9, <3>1, RunAppend
  <2>11. Len(taken') = n + 1
    BY <2>10 DEF Run
  <2>2. rio_bufptr' >= 0 /\ Run(taken, 0, Len(taken))'
    BY <1>1, <2>4, <2>10, <2>11 DEF Run
  <2>3. InsideInv(t)' /\ Race!Inside(t)'
    <3>1. Len(taken') - 1 = n
      BY <2>11
    <3>2. Stocked(rio_bufptr, rio_cnt, Len(taken) - 1)'
      BY <1>1, <2>4, <2>5, <3>1 DEF Stocked
    <3>3. rio_cnt' > 0 /\ th'[t].k = 1
      BY <1>1, <1>2, <2>4, <2>5
    <3> QED
      BY <1>2, <3>2, <3>3 DEF InsideInv, Race!Inside
  <2> QED
    BY <1>2, <2>1, <2>2, <2>3, AloneKeeps
<1> QED
  BY <1>3, <1>4 DEF RaceInv, AloneInv

LEMMA RaceStoreCntKeeps ==
  ASSUME RaceInv, NEW t \in Threads, Race!StoreCnt(t)
  PROVE  RaceInv'
<1>0. RacyInv /\ th[t] \in ThreadType /\ th \in [Threads -> ThreadType]
  BY DEF RaceInv, RacyInv
<1>1. /\ UNCHANGED <<len, rd, rio_buf, rio_bufptr, taken, raced>> /\ th[t].pc = "storecnt"
      /\ rio_cnt' = th[t].r - th[t].k /\ Race!Returns(t, th[t].k)
  BY DEF Race!StoreCnt, Race!fixed
<1>2. /\ th' \in [Threads -> ThreadType] /\ \A o \in Threads : o # t => th'[o] = th[o]
      /\ th'[t].n + 1 < maxlen /\ th'[t].pc \in {"call", "done"}
  <2>1. th[t].k \in Int
    BY <1>0 DEF ThreadType
  <2> QED
    BY <1>0, <1>1, <2>1, ReturnsKeeps
<1>3. RacyInv'
  <2>1. rio_cnt' \in Int
    BY <1>0, <1>1 DEF ThreadType
  <2> QED
    BY <1>0, <1>1, <1>2, <2>1, RacyKeeps DEF RacyInv
<1>4. ASSUME ~raced' PROVE AloneInv'
  <2>1. InsideInv(t) /\ ~raced /\ \A o \in Threads : o # t => ~Race!Inside(o)
    BY <1>1, <1>4, AloneInside DEF Race!Inside
  <2>2. rio_bufptr' >= 0 /\ Run(taken, 0, Len(taken))'
    BY <1>1, <2>1 DEF RaceInv, AloneInv, Run
  <2>4. PICK n, b, l, d \in Nat, c \in Int :
          n = Len(taken) /\ b = rio_bufptr /\ l = Len(rio_buf) /\ c = rio_cnt /\ d = rd
    BY <1>0, <2>1, RaceNumbers DEF RaceInv, AloneInv
  <2>5. c > 0 /\ rio_cnt' = c - 1 /\ Stocked(b - 1, c, n - 1)
    BY <1>1, <2>1, <2>4 DEF InsideInv
  <2>6. /\ (n - 1) + c = d /\ (b - 1) + c <= l
        /\ \A j \in 1..c : rio_buf[(b - 1) + j] = (n - 1) + j
    BY <2>4, <2>5 DEF Stocked
  <2>7. ASSUME NEW j \in 1..(c - 1) PROVE rio_buf[b + j] = n + j
    <3>1. j + 1 \in 1..c /\ (b - 1) + (j + 1) = b + j /\ (n - 1) + (j + 1) = n + j
      BY <2>5
    <3> QED
      BY <2>6, <3>1
  <2>8. n + (IF c - 1 > 0 THEN c - 1 ELSE 0) = d /\ b + (c - 1) <= l
    BY <2>5, <2>6
  <2>3. Stocked(rio_bufptr, rio_cnt, Len(taken))' /\ ~Race!Inside(t)'
    <3>1. Stocked(rio_bufptr, rio_cnt, Len(taken))'
      BY <1>1, <2>4, <2>5, <2>7, <2>8 DEF Stocked
    <3>2. ~Race!Inside(t)'
      BY <1>2 DEF Race!Inside
    <3> QED
      BY <3>1, <3>2
  <2> QED
    BY <1>2, <2>1, <2>2, <2>3, AloneKeeps
<1> QED
  BY <1>3, <1>4 DEF RaceInv, AloneInv

LEMMA RaceStepInv == RaceInv /\ [Race!Race]_<<vars, raceOnly>> => RaceInv'
<1> SUFFICES ASSUME RaceInv, [Race!Race]_<<vars, raceOnly>> PROVE RaceInv'
  OBVIOUS
<1>1. ASSUME NEW t \in Threads, Race!ThreadSteps(t) PROVE RaceInv'
  BY <1>1, RaceTestKeeps, RaceReadKeeps, RaceReadErrorKeeps, RaceStoreKeeps, RaceJudgeKeeps,
     RaceSizeKeeps, RaceMemCpyKeeps, RaceLoadPtrKeeps, RaceStorePtrKeeps, RaceLoadCntKeeps,
     RaceStoreCntKeeps, Zenon DEF Race!ThreadSteps
<1>2. CASE UNCHANGED <<vars, raceOnly>>
  <2> USE <1>2 DEF vars, rio, raceOnly
  <2>1. RacyInv'
    BY Zenon DEF RaceInv, RacyInv
  <2>2. AloneInv'
    BY Zenon DEF RaceInv, AloneInv, Run, Race!Inside, InsideInv, Stocked
  <2> QED
    BY <2>1, <2>2 DEF RaceInv
<1> QED
  BY <1>1, <1>2 DEF Race!Race

\* Outside rio_read, what is stocked is the rest of the stream.
LEMMA RaceInvImplies == RaceInv => Race!ExactUnlessRaced /\ Race!LineFits
<1> SUFFICES ASSUME RaceInv PROVE Race!ExactUnlessRaced /\ Race!LineFits
  OBVIOUS
<1>1. Race!LineFits
  BY DEF RaceInv, RacyInv, Race!LineFits
<1>2. ASSUME ~raced, \A t \in Threads : ~Race!Inside(t) PROVE Race!StreamPreserved
  <2>1. Stocked(rio_bufptr, rio_cnt, Len(taken)) /\ rio_bufptr >= 0 /\ Run(taken, 0, Len(taken))
    BY <1>2 DEF RaceInv, AloneInv
  <2>2. PICK n, b, l, d \in Nat, c \in Int :
          n = Len(taken) /\ b = rio_bufptr /\ l = Len(rio_buf) /\ c = rio_cnt /\ d = rd
    BY <2>1, RaceNumbers DEF RaceInv
  <2>3. PICK q \in Nat : q = (IF c > 0 THEN c ELSE 0) /\ n + q = d
    BY <2>1, <2>2 DEF Stocked
  <2>4. Run(Race!Unread, n, q)
    <3>1. CASE c > 0
      <4>1. q = c /\ b + q <= l /\ \A j \in 1..q : rio_buf[b + j] = n + j
        BY <2>1, <2>2, <2>3, <3>1 DEF Stocked
      <4> DEFINE s == SubSeq(rio_buf, b + 1, b + q)
      <4>2. s \in Seq(Nat) /\ Len(s) = q /\ \A i \in 1..q : s[i] = rio_buf[b + i]
        BY <2>2, <4>1, PieceIs DEF RaceInv, RacyInv
      <4>3. Race!Unread = s
        BY <2>2, <3>1, <4>1 DEF Race!Unread
      <4> HIDE DEF s
      <4> QED
        BY <4>1, <4>2, <4>3 DEF Run
    <3>2. CASE ~(c > 0)
      BY <2>2, <2>3, <3>2, RunEmpty DEF Race!Unread
    <3> QED
      BY <3>1, <3>2
  <2>5. Run(taken \o Race!Unread, 0, n + q)
    <3>1. 0 + n = n
      OBVIOUS
    <3> QED
      BY <2>1, <2>2, <2>4, <3>1, RunConcat
  <2>6. taken \o Race!Unread = [i \in 1..d |-> 0 + i]
    BY <2>3, <2>5, RunIs
  <2>7. [i \in 1..d |-> 0 + i] = [i \in 1..d |-> i]
    OBVIOUS
  <2> QED
    BY <2>2, <2>6, <2>7 DEF Race!StreamPreserved
<1> QED
  BY <1>1, <1>2 DEF Race!ExactUnlessRaced

\* Rio keeps the stream and its buffers exact, and a rio_t that several threads
\* share does so as long as their calls of rio_read do not overlap.
THEOREM RioIsExact == MCSpec => []RioExact
<1> DEFINE Inv == (program = "rio" => IndInv) /\ (program = "race" => RaceInv)
<1>1. MCInit => Inv
  BY InitIndInv, RaceInitInv DEF MCInit
<1>2. Inv /\ [MCNext]_mcVars => Inv'
  <2> SUFFICES ASSUME Inv, [MCNext]_mcVars PROVE Inv'
    OBVIOUS
  <2>1. /\ program' = program
        /\ program = "rio" => Next \/ UNCHANGED vars
        /\ program = "race" => Race!Race \/ UNCHANGED <<vars, raceOnly>>
    BY DEF MCNext, InRio, InRace, InHandle, InPass, InUds, mcVars
  <2>2. program' = "rio" => IndInv'
    BY <2>1, StepKeeps
  <2>3. program' = "race" => RaceInv'
    BY <2>1, RaceStepInv
  <2> QED
    BY <2>2, <2>3
<1>3. Inv => RioExact
  BY IndInvImplies, RaceInvImplies DEF RioExact
<1> QED
  BY <1>1, <1>2, <1>3, PTL DEF MCSpec
=============================================================================
