--------------------------- MODULE MCCoScheduler ---------------------------
(***************************************************************************)
(* TLC instance of CoScheduler, with every assignment of delays to the     *)
(* awaits, and of the small programs and library functions that stand      *)
(* alone: the two of Library, Interpose and HttpClient.  A behaviour is    *)
(* that of one of them, chosen at the start; the others rest.              *)
(***************************************************************************)
EXTENDS CoScheduler

CONSTANTS Dict, MaxCount, Hashes,     \* of the duplicate finder
          LONG_MAX,                   \* of sio_ltoa
          Callers, MaxOuter,          \* of the interposed allocator
          MaxRequests, MaxPieces      \* of the HTTP client

\* A hash is unsigned; LONG_MAX is one less than a power of two.
ASSUME AloneAssumption ==
  /\ MaxCount \in Nat /\ Hashes \subseteq Nat
  /\ LONG_MAX \in Nat /\ (LONG_MAX + 1) % 10 # 0

VARIABLES chosen,                     \* which program runs
          use_hash, g_words, hash, cap, tab, uniq, dedup_i, dedup_k, dedup_at,
          number, ltoa_v, ltoa_s, neg, lat,
          in_hook, frames, nested, calls, log, exited,
          request, asked, handle_, errbuf_, body_, lists, came, answer, cat

Lib == INSTANCE Library WITH i <- dedup_i, k <- dedup_k, v <- ltoa_v, s <- ltoa_s
Hook == INSTANCE Interpose
Http == INSTANCE HttpClient

dedupVars == <<use_hash, g_words, hash, cap, tab, uniq, dedup_i, dedup_k, dedup_at>>
ltoaVars == <<number, ltoa_v, ltoa_s, neg, lat>>
interposeVars == <<in_hook, frames, nested, calls, log, exited>>
httpVars == <<request, asked, handle_, errbuf_, body_, lists, came, answer, cat>>
aloneVars == <<chosen, schedulerVars, dedupVars, ltoaVars, interposeVars, httpVars>>

MCDelays == -1..3
SomeWords == {"a", "b", "c"}
\* Slots in the middle and at the end of a table of 8.
SomeHashes == {0, 6, 7}

Programs == {"scheduler", "dedup", "sio_ltoa", "mymalloc", "http_client"}

\* What a program that rests is given for input.
Unless(which, Input) == IF chosen = which THEN TRUE ELSE Input

AloneInit ==
  /\ chosen \in Programs
  /\ Unless("scheduler", delay = [t \in Tasks |-> <<0, 0>>])
  /\ Unless("dedup", use_hash = TRUE /\ g_words = <<>> /\ hash = [w \in SomeWords |-> 0])
  /\ Unless("sio_ltoa", number = 0)
  /\ SchedulerInit /\ Lib!DedupInit /\ Lib!LtoaInit /\ Hook!InterposeInit /\ Http!HttpInit

InScheduler(A) ==
  /\ chosen = "scheduler" /\ A
  /\ UNCHANGED <<chosen, dedupVars, ltoaVars, interposeVars, httpVars>>
InDedup(A) ==
  /\ chosen = "dedup" /\ A
  /\ UNCHANGED <<chosen, schedulerVars, ltoaVars, interposeVars, httpVars>>
InLtoa(A) ==
  /\ chosen = "sio_ltoa" /\ A
  /\ UNCHANGED <<chosen, schedulerVars, dedupVars, interposeVars, httpVars>>
InHook(A) ==
  /\ chosen = "mymalloc" /\ A
  /\ UNCHANGED <<chosen, schedulerVars, dedupVars, ltoaVars, httpVars>>
InHttp(A) ==
  /\ chosen = "http_client" /\ A
  /\ UNCHANGED <<chosen, schedulerVars, dedupVars, ltoaVars, interposeVars>>

AloneNext ==
  \/ InScheduler(SchedulerNext) \/ InDedup(Lib!DedupSteps) \/ InLtoa(Lib!LtoaSteps)
  \/ InHook(\E t \in Callers : Hook!Calls(t) \/ Hook!HookSteps(t))
  \/ InHttp(Http!Requests \/ Http!HttpSteps)

AloneSpec == AloneInit /\ [][AloneNext]_aloneVars

(* The code runs: run() and the functions are loops of one thread, a call  *)
(* of the allocator goes on in its own thread, and curl_easy_perform ends  *)
(* by CURLOPT_TIMEOUT at the latest.  Calls need not be made.              *)
AloneFairSpec ==
  /\ AloneSpec
  /\ WF_aloneVars(InScheduler(Run)) /\ WF_aloneVars(InDedup(Lib!DedupSteps))
  /\ WF_aloneVars(InLtoa(Lib!LtoaSteps)) /\ WF_aloneVars(InHttp(Http!HttpSteps))
  /\ \A t \in Callers : WF_aloneVars(InHook(Hook!HookSteps(t)))

\* The functions give what they promise, and the state they keep from call to
\* call never shows: dedup_hash the first occurrence of every word whatever
\* collides, sio_ltoa the decimal text of every long but LONG_MIN, the
\* interposed allocator one line for each call of each thread, the HTTP client
\* the request asked for and its own answer, though its handle is reused.
LibraryExact ==
  /\ chosen = "dedup" => Lib!DedupExact
  /\ chosen = "sio_ltoa" => Lib!LtoaExact
  /\ chosen = "mymalloc" => Hook!LogExact
  /\ chosen = "http_client" => Http!HttpExact

\* run() returns with every coroutine completed; a probe of the table, the
\* conversion, every call of the allocator and every request come to an end.
ProgramsReturn ==
  /\ chosen = "scheduler" => RunReturns
  /\ chosen = "dedup" => Lib!DedupEnds
  /\ chosen = "sio_ltoa" => Lib!LtoaEnds
  /\ Hook!CallsReturn
  /\ Http!CallsEnd
=============================================================================
