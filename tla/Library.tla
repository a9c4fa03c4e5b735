------------------------------ MODULE Library ------------------------------
(***************************************************************************)
(* Two functions that stand alone: the duplicate finder and the conversion *)
(* of numbers to text.                                                     *)
(***************************************************************************)
EXTENDS Integers, Sequences, SequencesExt, FiniteSetsExt
-----------------------------------------------------------------------------
(***************************************************************************)
(* The duplicate finder (Chapter5/5.12-5.14/expirements/dedup.c): one      *)
(* round of dedup_quadratic or of dedup_hash, whose set of the words seen  *)
(* is a table with linear probing.  A word is a member of a small set and  *)
(* djb2 any function of it, so every pattern of collisions is met.         *)
(***************************************************************************)
CONSTANTS Dict,      \* distinct words of the input
          MaxCount,  \* bound on g_n
          Hashes     \* values of the hash

VARIABLES use_hash, g_words, hash,   \* the mode, the input and djb2
          cap, tab, uniq,            \* u is Len(uniq)
          i, k,                      \* words done; probed slot, -1 between words
          dedup_at                   \* size, run, done

dedupVars == <<use_hash, g_words, hash, cap, tab, uniq, i, k, dedup_at>>

DedupInit ==
  /\ use_hash \in BOOLEAN
  /\ g_words \in UNION {[1..n -> Dict] : n \in 0..MaxCount}
  /\ hash \in [Dict -> Hashes]
  /\ cap = 1 /\ tab = <<>> /\ uniq = <<>> /\ i = 0 /\ k = -1
  /\ dedup_at = IF use_hash THEN "size" ELSE "run"

\* The least power of two with room for twice the input.
small == cap < 2 * Len(g_words)

Double ==
  /\ dedup_at = "size" /\ small
  /\ cap' = 2 * cap
  /\ UNCHANGED <<use_hash, g_words, hash, tab, uniq, i, k, dedup_at>>

MakeTable ==
  /\ dedup_at = "size" /\ ~small
  /\ tab' = [slot \in 0..(cap - 1) |-> -1]
  /\ dedup_at' = "run"
  /\ UNCHANGED <<use_hash, g_words, hash, cap, uniq, i, k>>

\* The scan of uniq by dedup_quadratic.
Scan ==
  /\ dedup_at = "run" /\ ~use_hash /\ i < Len(g_words)
  /\ uniq' = IF Contains(uniq, g_words[i + 1]) THEN uniq ELSE Append(uniq, g_words[i + 1])
  /\ i' = i + 1
  /\ UNCHANGED <<use_hash, g_words, hash, cap, tab, k, dedup_at>>

\* The hash of the next word, masked to a slot.
Hash ==
  /\ dedup_at = "run" /\ use_hash /\ i < Len(g_words) /\ k = -1
  /\ k' = hash[g_words[i + 1]] % cap
  /\ UNCHANGED <<use_hash, g_words, hash, cap, tab, uniq, i, dedup_at>>

next_slot(slot) == (slot + 1) % cap

\* An occupied slot: a duplicate, or the next slot.
Probe ==
  /\ dedup_at = "run" /\ k # -1 /\ tab[k] # -1
  /\ IF uniq[tab[k] + 1] = g_words[i + 1]
     THEN i' = i + 1 /\ k' = -1
     ELSE k' = next_slot(k) /\ UNCHANGED i
  /\ UNCHANGED <<use_hash, g_words, hash, cap, tab, uniq, dedup_at>>

\* A free slot: the word is new.
Insert ==
  /\ dedup_at = "run" /\ k # -1 /\ tab[k] = -1
  /\ tab' = [tab EXCEPT ![k] = Len(uniq)]
  /\ uniq' = Append(uniq, g_words[i + 1])
  /\ i' = i + 1 /\ k' = -1
  /\ UNCHANGED <<use_hash, g_words, hash, cap, dedup_at>>

DedupReturns ==
  /\ dedup_at = "run" /\ i = Len(g_words)
  /\ dedup_at' = "done"
  /\ UNCHANGED <<use_hash, g_words, hash, cap, tab, uniq, i, k>>

DedupSteps == Double \/ MakeTable \/ Scan \/ Hash \/ Probe \/ Insert \/ DedupReturns
-----------------------------------------------------------------------------
(***************************************************************************)
(* sio_ltoa of Chapter8/8.5-8.6/shell/csapp.c, the conversion the signal   *)
(* handlers print numbers with: a long to decimal characters.              *)
(* -v wraps, as the build computes it, for the one value without negation. *)
(* A character is its code.                                                *)
(***************************************************************************)
CONSTANT LONG_MAX    \* of limits.h, one less than a power of two

LONG_MIN == -LONG_MAX - 1
Longs == LONG_MIN..LONG_MAX

VARIABLES number,    \* the argument
          v, s,      \* the parameter as the code changes it, and the buffer
          neg, lat

ltoaVars == <<number, v, s, neg, lat>>

negated(n) == IF n = LONG_MIN THEN n ELSE -n
\* C's quotient and remainder, which round towards zero.
quotient(n) == IF n < 0 THEN -((-n) \div 10) ELSE n \div 10
remainder(n) == n - 10 * quotient(n)

LtoaInit == number \in Longs /\ v = number /\ s = <<>> /\ neg = FALSE /\ lat = "call"

LtoaCall ==
  /\ lat = "call"
  /\ neg' = (v < 0) /\ v' = IF v < 0 THEN negated(v) ELSE v
  /\ lat' = "digits"
  /\ UNCHANGED <<number, s>>

zero == 48                           \* '0'
minus == 45                          \* '-'

\* do ... while: a digit also for zero.
more(n) == n > 0

Digit ==
  /\ lat = "digits"
  /\ s' = Append(s, zero + remainder(v)) /\ v' = quotient(v)
  /\ lat' = IF more(quotient(v)) THEN "digits" ELSE "sign"
  /\ UNCHANGED <<number, neg>>

sio_reverse(text) == Reverse(text)

\* The sign goes last and becomes the first character.
Sign ==
  /\ lat = "sign"
  /\ s' = sio_reverse(IF neg THEN Append(s, minus) ELSE s)
  /\ lat' = "done"
  /\ UNCHANGED <<number, v, neg>>

LtoaSteps == LtoaCall \/ Digit \/ Sign
-----------------------------------------------------------------------------
(* Properties. *)

\* One word is met before another.
Before(w, x) ==
  \E j \in 1..i : g_words[j] = w /\ \A h \in 1..j : g_words[h] # x

\* Whatever collides, both versions collect every word read so far once, in the
\* order of the first occurrences, and the probe stays inside a table that
\* holds each collected word in one slot.
DedupExact ==
  /\ ToSet(uniq) = {g_words[j] : j \in 1..i}
  /\ \A a, b \in 1..Len(uniq) : a < b => Before(uniq[a], uniq[b])
  /\ k \in {-1} \cup DOMAIN tab
  /\ use_hash => \A j \in 1..Len(uniq) :
                    \E slot \in DOMAIN tab : \A other \in DOMAIN tab : tab[other] = j - 1 <=> other = slot

\* Probing ends, and the round with it: the table never fills.
DedupEnds == <>(dedup_at = "done")

\* The number that the characters of digits stand for.
Value(digits) ==
  LET val[n \in 0..Len(digits)] == IF n = 0 THEN 0 ELSE 10 * val[n - 1] + (digits[n] - zero)
  IN  val[Len(digits)]

\* The text is the number's decimal form without leading zeroes, for every
\* number but LONG_MIN, whose text is a sign and a character that is no digit.
LtoaExact ==
  lat = "done" =>
    LET digits == IF neg THEN Tail(s) ELSE s
    IN  /\ neg = (number < 0) /\ (neg => s[1] = minus)
        /\ IF number = LONG_MIN
           THEN Len(digits) = 1 /\ digits[1] < zero
           ELSE /\ digits \in Seq(zero..(zero + 9))
                /\ Value(digits) = (IF neg THEN -number ELSE number)
                /\ (digits[1] = zero => number = 0)

LtoaEnds == <>(lat = "done")
=============================================================================
