----------------------------- MODULE HttpClient -----------------------------
(***************************************************************************)
(* The HTTP client (Chapter11/experiments/http_client.cpp): one curl easy  *)
(* handle reused by every request, which keeps the options of the last.    *)
(* A request is known by its number; its URL, its JSON, its header list,   *)
(* its pieces of body and its error text all carry that number.  The       *)
(* caller makes requests in any order and goes on after an exception.      *)
(***************************************************************************)
EXTENDS Integers, Sequences

CONSTANTS MaxRequests, MaxPieces

VARIABLES request, asked,    \* number and kind of the last call
          handle_,           \* options of the easy handle that change
          errbuf_, body_,    \* members; 0 is the empty text
          lists,             \* header lists that are allocated
          came,              \* history: pieces the server sent for the request
          answer,            \* body returned, or what the exception is about
          cat

httpVars == <<request, asked, handle_, errbuf_, body_, lists, came, answer, cat>>

HttpInit ==
  /\ request = 0 /\ asked = "none"
  /\ handle_ = [url |-> 0, method |-> "GET", fields |-> 0, header |-> 0]
  /\ errbuf_ = 0 /\ body_ = <<>> /\ lists = {} /\ came = 0 /\ answer = <<>>
  /\ cat = "start"

\* CurlGlobal; an exception here leaves main.
GlobalInit ==
  /\ cat = "start" /\ cat' \in {"global", "terminated"}
  /\ UNCHANGED <<request, asked, handle_, errbuf_, body_, lists, came, answer>>

\* curl_easy_init and the defaults; an exception here is caught, and main returns.
EasyInit ==
  /\ cat = "global" /\ cat' \in {"idle", "over"}
  /\ UNCHANGED <<request, asked, handle_, errbuf_, body_, lists, came, answer>>

header_kept(h) == h                     \* mutant: the old list stays set
header_cleared(h) == 0

\* reset_per_request: body_, errbuf_ and the header of the request before.
reset_per_request ==
  /\ cat = "idle" /\ request < MaxRequests
  /\ request' = request + 1
  /\ body_' = <<>> /\ errbuf_' = 0
  /\ came' = 0 /\ cat' = "perform"

get ==
  /\ reset_per_request
  /\ handle_' = [handle_ EXCEPT !.url = request', !.method = "GET", !.header = header_cleared(@)]
  /\ asked' = "GET"
  /\ UNCHANGED <<lists, answer>>

\* The header list is the call's own; curl_slist_append may find no memory,
\* and the request then goes without it.
post_json ==
  /\ reset_per_request
  /\ \E headers \in {0, request'} :
       /\ handle_' = [url |-> request', method |-> "POST", fields |-> request', header |-> headers]
       /\ lists' = {headers} \ {0}
  /\ asked' = "POST"
  /\ UNCHANGED answer

\* write_to_string: a piece of body arrives and is appended.
write_to_string ==
  /\ cat = "perform" /\ came < MaxPieces
  /\ came' = came + 1
  /\ body_' = Append(body_, request)
  /\ UNCHANGED <<request, asked, handle_, errbuf_, lists, answer, cat>>

\* curl_easy_perform fails, also because write_to_string returned 0; it may
\* have left a text in errbuf_.  The guard frees the list as the exception
\* passes.
perform_throws ==
  /\ cat = "perform"
  /\ errbuf_' \in {errbuf_, request}
  /\ answer' = <<"error", IF errbuf_' # 0 THEN errbuf_' ELSE request>>
  /\ lists' = {} /\ cat' = "idle"
  /\ UNCHANGED <<request, asked, handle_, body_, came>>

\* Any status is a response.
perform_returns ==
  /\ cat = "perform"
  /\ answer' = <<"body", body_>>
  /\ lists' = {} /\ cat' = "idle"
  /\ UNCHANGED <<request, asked, handle_, errbuf_, body_, came>>

\* The destructors: the handle before the library.
Destroy ==
  /\ cat = "idle"
  /\ cat' = "over"
  /\ UNCHANGED <<request, asked, handle_, errbuf_, body_, lists, came, answer>>

Requests == get \/ post_json \/ Destroy
HttpSteps == GlobalInit \/ EasyInit \/ write_to_string \/ perform_throws \/ perform_returns
-----------------------------------------------------------------------------
(* Properties. *)

\* While curl works it reads no header list that is freed, and sends the URL,
\* method, header and JSON of this call, whatever was called before.
RequestAsAsked ==
  cat = "perform" =>
    /\ handle_.header \in lists \cup {0}
    /\ handle_.url = request /\ handle_.method = asked
    /\ asked = "POST" => handle_.fields = request /\ handle_.header \in {0, request}
    /\ asked = "GET" => handle_.header = 0

\* What the caller gets is of this call: every piece of its body and none left
\* by a failed one, or the text of its own error; no list is leaked.
AnswerExact ==
  cat = "idle" /\ request > 0 =>
    /\ answer \in {<<"error", request>>, <<"body", [p \in 1..came |-> request]>>}
    /\ lists = {}

HttpExact == RequestAsAsked /\ AnswerExact

\* Every call comes back: curl gives up after its time limit.
CallsEnd == cat = "perform" ~> cat # "perform"
=============================================================================
