------------------------------ MODULE TinyProofs ------------------------------
(***************************************************************************)
(* What Tiny promises its clients, for any number of them, any requests,   *)
(* any files and any buffer size: one response per transaction, nothing    *)
(* left open or allocated between two transactions, and uploads stored as  *)
(* they were sent, whenever clients stop, end their stream or reset.       *)
(***************************************************************************)
EXTENDS Tiny, DataLemmas

(* The inductive invariant. *)

\* The places in main, doit and the functions it calls, those before the
\* response is sent, and among these the ones past read_requesthdrs.
Parsed == {"put", "post", "get", "other", "putloop", "postloop", "store"}
Early == {"request", "headers"} \cup Parsed
Late == {"fork", "wait", "close"}
PCs == {"accept"} \cup Early \cup Late

BaseInv ==
  /\ TransactionTypes /\ pc \in PCs
  /\ \A c \in Clients : req[c] \in Requests[c]
  /\ \A c \in Clients : sent[c] <= Header + Len(req[c].body)
  /\ replies = [c \in Clients |-> replies[c]]

\* Who waits in the queue waits once, and has not been served.
QueueInv ==
  /\ \A k \in DOMAIN acceptq : status[acceptq[k]] = "none"
  /\ \A j, k \in DOMAIN acceptq : acceptq[j] = acceptq[k] => j = k

\* The connections that are open: the one being served and the ones a process
\* left behind holds.
OpenInv == \A c \in Clients : status[c] = "open" <=> c \in held \/ c = cur

\* Each resource belongs to a part of one transaction.
ResourceInv ==
  /\ outfd # <<>> => pc = "putloop"
  /\ allocated => pc \in {"postloop", "store"}
  /\ cgi # "none" <=> pc = "wait"

\* A client has no response before the place where one is sent, and has one
\* after it if it completed its header lines.
ReplyInv ==
  \A c \in Clients :
    /\ replies[c] = <<>> \/ \E x : replies[c] = <<x>>
    /\ status[c] = "none" \/ (c = cur /\ pc = "request") => rcvd[c] = 0
    /\ status[c] = "none" \/ (c = cur /\ pc \in Early) => replies[c] = <<>>
    /\ status[c] = "closed" \/ (c = cur /\ pc \in Late) =>
         (rcvd[c] >= Header /\ ~rst[c] => replies[c] # <<>>)

\* How far read_requesthdrs has come, by the line in its buffer.  Once the
\* stream has ended the buffer stays as it is.
HeaderInv ==
  pc = "headers" =>
    \/ line = "stale" /\ (rcvd[cur] = 1 \/ Ended(cur))
    \/ line = "fields" /\ rcvd[cur] = 2
    \/ line = "blank" /\ (rcvd[cur] = 3 \/ Ended(cur))
    \/ line = "other" /\ Ended(cur)

Announced == content_length = req[cur].length /\ content_type = req[cur].type

\* What doit knows is the current client's request: the request line unless
\* the client reset, and the fields whenever there is a length.
RequestInv ==
  /\ pc \in {"headers"} \cup Parsed =>
       (~rst[cur] => parsed.method = req[cur].method /\ parsed.uri = req[cur].uri)
  /\ pc = "headers" /\ line = "stale" => content_length = -1
  /\ (pc = "headers" /\ line = "blank") \/ pc \in {"put", "post"} =>
       (content_length >= 0 => rcvd[cur] = Header /\ Announced)
  /\ pc \in {"putloop", "postloop", "store"} => content_length >= 0 /\ Announced
  /\ pc \in {"post", "postloop", "store"} => parsed.method = "POST"
  /\ pc = "get" => parsed.method = "GET"

\* The client has sent the announced body, or will send nothing more.
Final(c) == shut[c] \/ rst[c] \/ sent[c] - Header >= req[c].length

\* serve_put has written the bytes it has read, and what is announced and not
\* yet read remains.
PutInv ==
  pc = "putloop" =>
    /\ remaining \in 0..content_length
    /\ rcvd[cur] - Header = content_length - remaining
    /\ outfd = upload_path(parsed.uri) /\ outfd \in DOMAIN disk
    /\ ~short => disk[outfd].content = SubSeq(req[cur].body, 1, rcvd[cur] - Header)

PostInv ==
  /\ pc = "postloop" => rcvd[cur] = Header
  /\ pc = "store" /\ ~rst[cur] => body = Uploaded(cur) /\ Final(cur)

\* A successful upload was answered with the size of what will ever be sent.
Stored(c, x) ==
  PlainUpload(c) /\ x.code \in {"200", "201"} =>
    /\ x.n = Len(Uploaded(c)) /\ Final(c)
    /\ cur = c /\ ~short => disk[upload_path(parsed.uri)].content = Uploaded(c)
StoredInv == \A c \in Clients : \A x : replies[c] = <<x>> => Stored(c, x)

IndInv ==
  /\ BaseInv /\ QueueInv /\ OpenInv /\ ResourceInv /\ ReplyInv
  /\ HeaderInv /\ RequestInv /\ PutInv /\ PostInv /\ StoredInv
-----------------------------------------------------------------------------
LEMMA HeaderIs == Header = 3
  BY DEF Header, HeaderItems

\* The numbers of a client's stream.
LEMMA Streams ==
  ASSUME IndInv, NEW c \in Clients
  PROVE  /\ sent[c] \in Nat /\ rcvd[c] \in Nat /\ rcvd[c] <= sent[c]
         /\ req[c].body \in Seq(ToSet(req[c].body)) /\ Len(req[c].body) \in Nat
         /\ sent[c] <= 3 + Len(req[c].body)
         /\ req[c].length \in Int /\ shut[c] \in BOOLEAN /\ rst[c] \in BOOLEAN
<1>1. req[c] \in Requests[c]
  BY DEF IndInv, BaseInv
<1>2. req[c].body \in Seq(ToSet(req[c].body)) /\ req[c].length \in Int
  BY <1>1, TinyAssumption
<1>3. Len(req[c].body) \in Nat
  BY <1>2, LenProperties
<1> QED
  BY <1>2, <1>3, HeaderIs DEF IndInv, BaseInv, TransactionTypes

\* While a transaction is under way there is a current client.
LEMMA Current ==
  ASSUME IndInv, pc # "accept"
  PROVE  cur \in Clients /\ status[cur] = "open"
<1>1. cur \in Clients
  BY DEF IndInv, BaseInv, TransactionTypes
<1> QED
  BY <1>1 DEF IndInv, OpenInv

LEMMA InitIndInv == ASSUME Init PROVE IndInv
<1> USE TinyAssumption
<1>1. BaseInv
  <2>1. TransactionTypes
    <3>1. sent \in [Clients -> Nat] /\ rcvd \in [Clients -> Nat] /\ \A c \in Clients : rcvd[c] <= sent[c]
      BY DEF Init
    <3>2. /\ shut \in [Clients -> BOOLEAN] /\ rst \in [Clients -> BOOLEAN]
          /\ status \in [Clients -> {"none", "open", "closed"}] /\ acceptq \in Seq(Clients)
      BY EmptySeq DEF Init
    <3>3. /\ line \in {"stale", "other", "request", "fields", "blank"} /\ content_length \in Int
          /\ remaining \in Int /\ cgi \in {"none", "forked", "running", "zombie"} /\ held \subseteq Clients
      BY DEF Init
    <3>4. /\ cur \in Clients \cup {NoClient} /\ (cur = NoClient <=> pc = "accept")
          /\ allocated \in BOOLEAN /\ short \in BOOLEAN
      BY Zenon DEF Init
    <3> QED
      BY <3>1, <3>2, <3>3, <3>4 DEF TransactionTypes
  <2>2. ASSUME NEW c \in Clients
        PROVE  req[c] \in Requests[c] /\ sent[c] <= Header + Len(req[c].body)
    <3>1. req[c] \in Requests[c] /\ sent[c] = 0
      BY DEF Init
    <3>2. Len(req[c].body) \in Nat
      BY <3>1, LenProperties
    <3> QED
      BY <3>1, <3>2, HeaderIs
  <2>3. replies = [c \in Clients |-> replies[c]] /\ pc \in PCs
    BY DEF Init, PCs
  <2> QED
    BY <2>1, <2>2, <2>3 DEF BaseInv
<1>2. DOMAIN acceptq = {}
  BY EmptySeq DEF Init
<1>3. QueueInv
  BY <1>2 DEF QueueInv
<1>4. OpenInv
  BY DEF Init, OpenInv
<1>5. ResourceInv /\ HeaderInv /\ RequestInv /\ PutInv /\ PostInv
  BY DEF Init, ResourceInv, HeaderInv, RequestInv, PutInv, PostInv, Parsed
<1>6. ReplyInv
  BY DEF Init, ReplyInv, Early, Late
<1>7. StoredInv
  <2> SUFFICES ASSUME NEW c \in Clients, NEW x, replies[c] = <<x>> PROVE FALSE
    BY DEF StoredInv
  <2>1. replies[c] = <<>>
    BY DEF Init
  <2>2. Len(<<>>) = 0 /\ Len(<<x>>) = 1
    OBVIOUS
  <2> QED
    BY <2>1, <2>2, SMTT(40)
<1> QED
  BY <1>1, <1>3, <1>4, <1>5, <1>6, <1>7 DEF IndInv
-----------------------------------------------------------------------------
(* Steps of the clients: streams grow until they end, and what has ended      *)
(* stays as it is.                                                            *)

Grows ==
  /\ sent' \in [Clients -> Nat] /\ shut' \in [Clients -> BOOLEAN] /\ rst' \in [Clients -> BOOLEAN]
  /\ \A c \in Clients :
       /\ sent[c] <= sent'[c] /\ sent'[c] <= Header + Len(req[c].body)
       /\ (shut[c] => shut'[c]) /\ (rst[c] => rst'[c])
       /\ shut[c] \/ rst[c] => sent'[c] = sent[c]

LEMMA EndedStays ==
  ASSUME IndInv, Grows, UNCHANGED rcvd, NEW c \in Clients, Ended(c)
  PROVE  Ended(c)'
  BY DEF Grows, Ended, Available

\* Bytes sent later do not change what was uploaded.
LEMMA FinalStays ==
  ASSUME IndInv, Grows, UNCHANGED req, NEW c \in Clients, Final(c)
  PROVE  Final(c)' /\ Uploaded(c)' = Uploaded(c)
<1>1. sent[c] \in Nat /\ sent'[c] \in Nat /\ sent[c] <= sent'[c] /\ req[c].length \in Int
  BY Streams DEF Grows
<1>2. Final(c)'
  BY <1>1, HeaderIs DEF Grows, Final
<1>3. CASE sent'[c] = sent[c]
  BY <1>2, <1>3 DEF Uploaded
<1>4. CASE sent[c] - Header >= req[c].length
  <2>1. PICK a \in Int, b \in Int, l \in Int :
          a = sent[c] - Header /\ b = sent'[c] - Header /\ l = req[c].length /\ l <= a /\ l <= b
    BY <1>1, <1>4, HeaderIs
  <2>2. Min({l, a}) = l /\ Min({l, b}) = l
    BY <2>1, MinOfTwo
  <2> QED
    BY <1>2, <2>1, <2>2 DEF Uploaded
<1> QED
  BY <1>3, <1>4 DEF Final, Grows

LEMMA GrowsKeeps ==
  ASSUME IndInv, Grows, UNCHANGED <<req, serverVars>>,
         acceptq' \in Seq(Clients), QueueInv'
  PROVE  IndInv'
<1>1. UNCHANGED <<req, rcvd, status, replies, parsed, line, content_length, content_type,
                  disk, remaining, outfd, body, allocated, short, pc, cur, cgi, held>>
  BY DEF serverVars, hdrVars, fileVars, heldVars
<1>2. BaseInv'
  <2>1. TransactionTypes'
    <3>1. \A c \in Clients : rcvd'[c] <= sent'[c]
      <4> SUFFICES ASSUME NEW c \in Clients PROVE rcvd'[c] <= sent'[c]
        OBVIOUS
      <4>1. sent[c] \in Nat /\ rcvd[c] \in Nat /\ rcvd[c] <= sent[c]
        BY Streams
      <4>2. sent'[c] \in Nat /\ sent[c] <= sent'[c]
        BY DEF Grows
      <4> QED
        BY <1>1, <4>1, <4>2
    <3> QED
      BY <1>1, <3>1 DEF IndInv, BaseInv, TransactionTypes, Grows
  <2> QED
    BY <1>1, <2>1 DEF IndInv, BaseInv, Grows
<1>3. OpenInv' /\ ResourceInv'
  BY <1>1 DEF IndInv, OpenInv, ResourceInv
<1>4. ReplyInv'
  <2> SUFFICES ASSUME NEW c \in Clients
               PROVE  /\ replies[c] = <<>> \/ \E x : replies[c] = <<x>>
                      /\ status[c] = "none" \/ (c = cur /\ pc = "request") => rcvd[c] = 0
                      /\ status[c] = "none" \/ (c = cur /\ pc \in Early) => replies[c] = <<>>
                      /\ status[c] = "closed" \/ (c = cur /\ pc \in Late) =>
                           (rcvd[c] >= Header /\ ~rst'[c] => replies[c] # <<>>)
    BY <1>1 DEF ReplyInv
  <2>1. rst[c] => rst'[c]
    BY DEF Grows
  <2> QED
    BY <2>1 DEF IndInv, ReplyInv
<1>5. PICK u : u = cur
  OBVIOUS
<1>6. pc # "accept" => u \in Clients
  BY <1>5, Current
<1>7. HeaderInv'
  <2> SUFFICES ASSUME pc = "headers" PROVE HeaderInv'
    BY <1>1 DEF HeaderInv
  <2>1. Ended(u) => Ended(u)'
    BY <1>1, <1>6, EndedStays
  <2>2. \/ line = "stale" /\ (rcvd[u] = 1 \/ Ended(u))
        \/ line = "fields" /\ rcvd[u] = 2
        \/ line = "blank" /\ (rcvd[u] = 3 \/ Ended(u))
        \/ line = "other" /\ Ended(u)
    BY <1>5 DEF IndInv, HeaderInv
  <2>3. cur' = u /\ rcvd' = rcvd /\ line' = line
    BY <1>1, <1>5
  <2>4. Ended(u)' = Ended(cur)'
    BY <2>3 DEF Ended, Available
  <2> QED
    BY <2>1, <2>2, <2>3, <2>4 DEF HeaderInv
<1>8. RequestInv'
  <2>1. pc # "accept" => (rst[cur] => rst'[cur])
    BY Current DEF Grows
  <2> QED
    BY <1>1, <2>1 DEF IndInv, RequestInv, Announced, Parsed
<1>9. PutInv'
  BY <1>1 DEF IndInv, PutInv, upload_path
<1>10. PostInv'
  <2>1. pc = "postloop" => rcvd[cur] = Header
    BY DEF IndInv, PostInv
  <2>2. ASSUME pc = "store", ~rst'[u] PROVE body = Uploaded(u)' /\ Final(u)'
    <3>1. ~rst[u] /\ u \in Clients
      BY <1>6, <2>2 DEF Grows
    <3>2. body = Uploaded(u) /\ Final(u)
      BY <1>5, <2>2, <3>1 DEF IndInv, PostInv, Uploaded, Final
    <3> QED
      BY <1>1, <3>1, <3>2, FinalStays
  <2>3. cur' = u /\ Uploaded(u)' = Uploaded(cur)' /\ Final(u)' = Final(cur)'
    BY <1>1, <1>5 DEF Uploaded, Final
  <2> QED
    BY <1>1, <2>1, <2>2, <2>3 DEF PostInv
<1>11. StoredInv'
  <2> SUFFICES ASSUME NEW c \in Clients, NEW x, replies'[c] = <<x>> PROVE Stored(c, x)'
    BY DEF StoredInv
  <2>1. Stored(c, x)
    BY <1>1 DEF IndInv, StoredInv
  <2>2. PlainUpload(c)' = PlainUpload(c)
    BY <1>1 DEF PlainUpload
  <2>3. ASSUME PlainUpload(c), x.code \in {"200", "201"}
        PROVE  /\ x.n = Len(Uploaded(c))' /\ Final(c)'
               /\ (cur = c /\ ~short => disk[upload_path(parsed.uri)].content = Uploaded(c))'
    <3>1. /\ x.n = Len(Uploaded(c)) /\ Final(c)
          /\ cur = c /\ ~short => disk[upload_path(parsed.uri)].content = Uploaded(c)
      BY <2>1, <2>3 DEF Stored
    <3>2. Final(c)' /\ Uploaded(c)' = Uploaded(c)
      BY <1>1, <3>1, FinalStays
    <3> QED
      BY <1>1, <3>1, <3>2 DEF upload_path
  <2> QED
    BY <2>2, <2>3 DEF Stored
<1> QED
  BY <1>2, <1>3, <1>4, <1>7, <1>8, <1>9, <1>10, <1>11 DEF IndInv

LEMMA ClientKeeps ==
  ASSUME IndInv, NEW c \in Clients, Connect(c) \/ Send(c) \/ Shutdown(c) \/ Reset(c)
  PROVE  IndInv'
<1>1. acceptq \in Seq(Clients) /\ QueueInv
  BY DEF IndInv, BaseInv, TransactionTypes
<1>2. \A d \in Clients : sent[d] \in Nat /\ sent[d] <= Header + Len(req[d].body) /\ Len(req[d].body) \in Nat
  BY Streams, HeaderIs
<1>3. sent \in [Clients -> Nat] /\ shut \in [Clients -> BOOLEAN] /\ rst \in [Clients -> BOOLEAN]
  BY DEF IndInv, BaseInv, TransactionTypes
<1>4. CASE Connect(c)
  <2>1. /\ UNCHANGED <<req, sent, shut, rst, serverVars>>
        /\ acceptq' = Append(acceptq, c) /\ status[c] = "none" /\ ~Queued(c)
    BY <1>4 DEF Connect, clientVars
  <2>2. Grows
    BY <1>2, <1>3, <2>1 DEF Grows
  <2>3. PICK n \in Nat : n = Len(acceptq)
    BY <1>1, LenProperties
  <2>4. /\ acceptq' \in Seq(Clients) /\ DOMAIN acceptq = 1..n /\ DOMAIN acceptq' = 1..(n + 1)
        /\ acceptq'[n + 1] = c /\ \A k \in 1..n : acceptq'[k] = acceptq[k]
    <3>1. /\ acceptq' \in Seq(Clients) /\ Len(acceptq') = n + 1
          /\ acceptq'[n + 1] = c /\ \A k \in 1..n : acceptq'[k] = acceptq[k]
      BY <1>1, <2>1, <2>3, AppendProperties
    <3> QED
      BY <1>1, <2>3, <3>1, LenProperties
  <2>5. \A k \in 1..n : status[acceptq[k]] = "none" /\ acceptq[k] # c
    BY <1>1, <2>1, <2>4 DEF QueueInv, Queued
  <2>6. \A k \in 1..(n + 1) : k \in 1..n \/ k = n + 1
    BY <2>3
  <2>7. \A k \in 1..(n + 1) : status[acceptq'[k]] = "none"
    BY <2>1, <2>4, <2>5, <2>6
  <2>8. \A j, k \in 1..(n + 1) : acceptq'[j] = acceptq'[k] => j = k
    <3>1. \A j, k \in 1..n : acceptq[j] = acceptq[k] => j = k
      BY <1>1, <2>4 DEF QueueInv
    <3> QED
      BY <2>4, <2>5, <2>6, <3>1
  <2>9. status' = status
    BY <2>1 DEF serverVars
  <2>10. QueueInv'
    BY <2>4, <2>7, <2>8, <2>9 DEF QueueInv
  <2> QED
    BY <2>1, <2>2, <2>4, <2>10, GrowsKeeps
<1>5. CASE ~Connect(c)
  <2>1. UNCHANGED <<req, acceptq, serverVars>>
    BY <1>5 DEF Send, Shutdown, Reset
  <2>2. QueueInv' /\ acceptq' \in Seq(Clients)
    BY <1>1, <2>1 DEF QueueInv, serverVars
  <2>3. Grows
    <3>1. CASE Send(c)
      <4>1. /\ sent' = [sent EXCEPT ![c] = @ + 1] /\ UNCHANGED <<shut, rst>>
            /\ ~shut[c] /\ ~rst[c] /\ sent[c] < Header + Len(req[c].body)
        BY <3>1 DEF Send
      <4>2. sent[c] + 1 \in Nat /\ sent[c] <= sent[c] + 1 /\ sent[c] + 1 <= Header + Len(req[c].body)
        BY <1>2, <4>1, HeaderIs
      <4> QED
        BY <1>2, <1>3, <4>1, <4>2 DEF Grows
    <3>2. CASE Shutdown(c)
      BY <1>2, <1>3, <3>2 DEF Grows, Shutdown
    <3>3. CASE Reset(c)
      BY <1>2, <1>3, <3>3 DEF Grows, Reset
    <3> QED
      BY <1>5, <3>1, <3>2, <3>3
  <2> QED
    BY <2>1, <2>2, <2>3, GrowsKeeps
<1> QED
  BY <1>4, <1>5
-----------------------------------------------------------------------------
(* Steps of the server: frames. *)

\* The answers given so far stay true while the clients' streams do, if the
\* client now served has none, or neither its file nor its name changes.
LEMMA StoredFrame ==
  ASSUME IndInv, UNCHANGED <<clientVars, replies>>,
         \A c \in Clients : cur' = c =>
           replies[c] = <<>> \/ (cur = c /\ UNCHANGED <<short, disk, parsed>>)
  PROVE  StoredInv'
<1> SUFFICES ASSUME NEW c \in Clients, NEW x, replies'[c] = <<x>> PROVE Stored(c, x)'
  BY DEF StoredInv
<1>1. UNCHANGED <<req, sent, shut, rst, replies>>
  BY DEF clientVars
<1>2. Stored(c, x)
  BY <1>1 DEF IndInv, StoredInv
<1>3. PlainUpload(c)' = PlainUpload(c) /\ Uploaded(c)' = Uploaded(c) /\ Final(c)' = Final(c)
  BY <1>1 DEF PlainUpload, Uploaded, Final
<1>4. replies[c] # <<>>
  <2>1. Len(<<>>) = 0 /\ Len(<<x>>) = 1
    OBVIOUS
  <2> QED
    BY <1>1, <2>1
<1>5. cur' = c => cur = c /\ UNCHANGED <<short, disk, parsed>>
  BY <1>4
<1> QED
  BY <1>2, <1>3, <1>5 DEF Stored, upload_path

\* What rcvd may become in a step of the current transaction.
Receives ==
  /\ rcvd' \in [Clients -> Nat]
  /\ \A c \in Clients : rcvd'[c] <= sent[c] /\ (c # cur => rcvd'[c] = rcvd[c])

LEMMA ReceivesNothing == IndInv /\ UNCHANGED rcvd => Receives
  BY DEF IndInv, BaseInv, TransactionTypes, Receives

\* The types of what stays, and of what a step may set.
LEMMA BaseFrame ==
  ASSUME IndInv, Receives, UNCHANGED <<clientVars, acceptq, cur>>,
         pc' \in PCs, pc \in PCs \ {"accept"}, pc' # "accept",
         status' = status, replies' = [c \in Clients |-> replies'[c]],
         line' \in {"stale", "other", "request", "fields", "blank"}, content_length' \in Int,
         remaining' \in Int, allocated' \in BOOLEAN, short' \in BOOLEAN,
         cgi' \in {"none", "forked", "running", "zombie"}, held' \subseteq Clients
  PROVE  BaseInv' /\ QueueInv'
<1>1. UNCHANGED <<req, sent, shut, rst, acceptq, cur>>
  BY DEF clientVars
<1>2. TransactionTypes'
  BY <1>1 DEF IndInv, BaseInv, TransactionTypes, Receives
<1>3. BaseInv'
  BY <1>1, <1>2 DEF IndInv, BaseInv
<1>4. QueueInv'
  BY <1>1 DEF IndInv, QueueInv
<1> QED
  BY <1>3, <1>4

\* A step before the response.
LEMMA EarlyStep ==
  ASSUME IndInv, Receives, pc \in Early, pc' \in Early \ {"request"},
         UNCHANGED <<clientVars, status, replies, cur, held>>
  PROVE  OpenInv' /\ ReplyInv' /\ StoredInv'
<1>1. UNCHANGED <<req, sent, shut, rst, status, replies, cur, held>>
  BY DEF clientVars
<1>2. OpenInv'
  BY <1>1 DEF IndInv, OpenInv
<1>3. pc # "accept"
  BY DEF Early, Parsed
<1>4. cur \in Clients /\ status[cur] = "open"
  BY <1>3, Current
<1>5. \A c \in Clients : c = cur => replies[c] = <<>>
  BY DEF IndInv, ReplyInv
<1>6. ReplyInv'
  <2> SUFFICES ASSUME NEW c \in Clients
               PROVE  /\ replies[c] = <<>> \/ \E x : replies[c] = <<x>>
                      /\ status[c] = "none" \/ (c = cur /\ pc' = "request") => rcvd'[c] = 0
                      /\ status[c] = "none" \/ (c = cur /\ pc' \in Early) => replies[c] = <<>>
                      /\ status[c] = "closed" \/ (c = cur /\ pc' \in Late) =>
                           (rcvd'[c] >= Header /\ ~rst[c] => replies[c] # <<>>)
    BY <1>1 DEF ReplyInv
  <2>1. pc' # "request" /\ pc' \notin Late
    BY DEF Early, Parsed, Late
  <2>2. status[c] # "open" => rcvd'[c] = rcvd[c] /\ c # cur
    BY <1>4 DEF Receives
  <2> QED
    BY <1>5, <2>1, <2>2 DEF IndInv, ReplyInv
<1>7. StoredInv'
  BY <1>1, <1>5, StoredFrame
<1> QED
  BY <1>2, <1>6, <1>7

\* A step after the response: the child that runs the CGI program, and wait.
LEMMA LateStep ==
  ASSUME IndInv, pc \in Late, pc' \in Late, UNCHANGED dynFrame,
         held' = held \/ held' = held \cup {cur},
         cgi' \in {"none", "forked", "running", "zombie"}, cgi' # "none" <=> pc' = "wait"
  PROVE  IndInv'
<1>1. UNCHANGED <<req, sent, shut, rst, acceptq, rcvd, status, replies, parsed, line,
                  content_length, content_type, disk, remaining, outfd, body, allocated, short, cur>>
  BY DEF dynFrame, clientVars, connVars, hdrVars, fileVars
<1>2. pc # "accept" /\ pc' # "accept" /\ pc \in PCs /\ pc' \in PCs
  BY DEF Late, PCs
<1>3. cur \in Clients /\ status[cur] = "open"
  BY <1>2, Current
<1>4. /\ line' \in {"stale", "other", "request", "fields", "blank"} /\ content_length' \in Int
      /\ remaining' \in Int /\ allocated' \in BOOLEAN /\ short' \in BOOLEAN /\ held' \subseteq Clients
      /\ replies' = [c \in Clients |-> replies'[c]]
  BY <1>1, <1>3 DEF IndInv, BaseInv, TransactionTypes
<1>5. BaseInv' /\ QueueInv'
  BY <1>1, <1>2, <1>4, ReceivesNothing, BaseFrame DEF clientVars
<1>6. OpenInv'
  BY <1>1, <1>3 DEF IndInv, OpenInv
<1>7. /\ pc \notin Early /\ pc' \notin Early
      /\ pc' \notin {"putloop", "postloop", "store", "headers", "put", "post", "get"} \cup Parsed
      /\ pc \notin {"putloop", "postloop", "store", "request"} /\ pc' # "request"
  BY DEF Late, Early, Parsed
<1>8. ResourceInv'
  BY <1>1, <1>7 DEF IndInv, ResourceInv
<1>9. ReplyInv'
  BY <1>1, <1>7 DEF IndInv, ReplyInv
<1>10. HeaderInv' /\ RequestInv' /\ PutInv' /\ PostInv'
  BY <1>7 DEF HeaderInv, RequestInv, PutInv, PostInv
<1>11. StoredInv'
  BY <1>1, StoredFrame DEF clientVars
<1> QED
  BY <1>5, <1>6, <1>8, <1>9, <1>10, <1>11 DEF IndInv

LEMMA ChildKeeps ==
  ASSUME IndInv, Fork \/ Wait \/ Child
  PROVE  IndInv'
<1> USE DEF Late
<1>1. cgi # "none" <=> pc = "wait"
  BY DEF IndInv, ResourceInv
<1>2. CASE Fork
  BY <1>1, <1>2, LateStep DEF Fork, heldVars
<1>3. CASE Wait
  BY <1>1, <1>3, LateStep DEF Wait, heldVars
<1>4. CASE Execve
  BY <1>1, <1>4, LateStep DEF Execve, heldVars
<1>5. CASE ExecveFails
  BY <1>1, <1>5, LateStep DEF ExecveFails
<1>6. CASE CgiExits
  BY <1>1, <1>6, LateStep DEF CgiExits, heldVars
<1> QED
  BY <1>2, <1>3, <1>4, <1>5, <1>6 DEF Child

\* The response: the one place where replies changes, for the current client.
Responds(code, n) ==
  /\ pc \in Parsed /\ pc' \in {"close", "fork"} /\ Reply(code, n) /\ Receives
  /\ UNCHANGED <<clientVars, acceptq, status, hdrVars, remaining, cur, cgi, held>>
  /\ outfd' = <<>> /\ allocated' = FALSE /\ short' \in BOOLEAN
  /\ PlainUpload(cur) /\ code \in {"200", "201"} /\ ~rst[cur] =>
       /\ n = Len(Uploaded(cur)) /\ Final(cur)
       /\ ~short' => disk'[upload_path(parsed.uri)].content = Uploaded(cur)

LEMMA RespondsKeeps ==
  ASSUME IndInv, NEW code, NEW n, Responds(code, n)
  PROVE  IndInv'
<1>1. PICK u : u = cur
  OBVIOUS
<1>2. /\ UNCHANGED <<req, sent, shut, rst, acceptq, status, parsed, line, content_length,
                     content_type, remaining, cur, cgi, held>>
      /\ outfd' = <<>> /\ allocated' = FALSE /\ short' \in BOOLEAN /\ Receives
      /\ pc \in Parsed /\ pc' \in {"close", "fork"}
  BY DEF Responds, clientVars, hdrVars
<1>3. /\ pc # "accept" /\ pc' # "accept" /\ pc \in PCs /\ pc' \in PCs /\ pc \in Early
      /\ pc # "wait" /\ pc' # "wait" /\ pc' \in Late /\ pc' \notin Early /\ pc' # "request"
      /\ pc' \notin {"putloop", "postloop", "store", "headers", "put", "post", "get"} \cup Parsed
  BY <1>2 DEF Parsed, Early, Late, PCs
<1>4. u \in Clients /\ status[u] = "open" /\ replies[u] = <<>>
  BY <1>1, <1>3, Current DEF IndInv, ReplyInv
<1> DEFINE r == [code |-> code, n |-> n]
<1>5. replies = [c \in Clients |-> replies[c]]
  BY DEF IndInv, BaseInv
<1>6. /\ replies' = [c \in Clients |-> replies'[c]]
      /\ \A c \in Clients : c # u => replies'[c] = replies[c]
      /\ rst[u] => replies'[u] = <<>>
      /\ ~rst[u] => replies'[u] = <<r>>
  <2>1. CASE rst[u]
    BY <2>1, <1>1, <1>4, <1>5, Zenon DEF Responds, Reply
  <2>2. CASE ~rst[u]
    <3>1. replies' = [replies EXCEPT ![u] = Append(@, r)]
      BY <2>2, <1>1, Zenon DEF Responds, Reply
    <3> HIDE DEF r
    <3>2. Append(replies[u], r) = <<r>>
      BY <1>4
    <3>3. replies' = [c \in Clients |-> IF c = u THEN Append(replies[u], r) ELSE replies[c]]
      BY <3>1, <1>5, <1>4, Zenon
    <3> QED
      BY <2>2, <3>2, <3>3, <1>4, Zenon
  <2> QED
    BY <2>1, <2>2
<1>7. /\ line' \in {"stale", "other", "request", "fields", "blank"} /\ content_length' \in Int
      /\ remaining' \in Int /\ cgi' \in {"none", "forked", "running", "zombie"} /\ held' \subseteq Clients
  BY <1>2 DEF IndInv, BaseInv, TransactionTypes
<1>8. BaseInv' /\ QueueInv'
  BY <1>2, <1>3, <1>6, <1>7, BaseFrame DEF clientVars
<1>9. OpenInv'
  BY <1>2 DEF IndInv, OpenInv
<1>10. ResourceInv'
  BY <1>2, <1>3 DEF IndInv, ResourceInv
<1>11. Len(<<>>) = 0 /\ \A x : Len(<<x>>) = 1
  OBVIOUS
<1>12. ReplyInv'
  <2> HIDE DEF r
  <2> SUFFICES ASSUME NEW c \in Clients
               PROVE  /\ replies'[c] = <<>> \/ \E x : replies'[c] = <<x>>
                      /\ status[c] = "none" => rcvd'[c] = 0 /\ replies'[c] = <<>>
                      /\ status[c] = "closed" \/ c = u =>
                           (rcvd'[c] >= Header /\ ~rst[c] => replies'[c] # <<>>)
    BY <1>1, <1>2, <1>3 DEF ReplyInv
  <2>1. CASE c = u
    <3>1. <<r>> # <<>> /\ status[c] = "open"
      BY <2>1, <1>4, <1>11
    <3> QED
      BY <2>1, <3>1, <1>6, Zenon
  <2>2. CASE c # u
    <3>1. rcvd'[c] = rcvd[c] /\ replies'[c] = replies[c]
      BY <2>2, <1>1, <1>2, <1>6 DEF Receives
    <3> QED
      BY <2>2, <3>1 DEF IndInv, ReplyInv
  <2> QED
    BY <2>1, <2>2
<1>13. HeaderInv' /\ RequestInv' /\ PutInv' /\ PostInv'
  BY <1>3 DEF HeaderInv, RequestInv, PutInv, PostInv
<1>14. StoredInv'
  <2> SUFFICES ASSUME NEW c \in Clients, NEW x, replies'[c] = <<x>> PROVE Stored(c, x)'
    BY DEF StoredInv
  <2>1. PlainUpload(c)' = PlainUpload(c) /\ Uploaded(c)' = Uploaded(c) /\ Final(c)' = Final(c)
    BY <1>2 DEF PlainUpload, Uploaded, Final
  <2>2. CASE c # u
    <3>1. Stored(c, x)
      BY <2>2, <1>6 DEF IndInv, StoredInv
    <3>2. cur' # c
      BY <2>2, <1>1, <1>2
    <3> QED
      BY <2>1, <3>1, <3>2 DEF Stored
  <2>3. CASE c = u
    <3>1. ~rst[u] /\ <<x>> = <<r>>
      <4> HIDE DEF r
      <4> QED
        BY <2>3, <1>6, <1>11
    <3>2. x.code = code /\ x.n = n
      BY <3>1
    <3>3. PlainUpload(u) /\ code \in {"200", "201"} =>
            /\ n = Len(Uploaded(u)) /\ Final(u)
            /\ ~short' => disk'[upload_path(parsed.uri)].content = Uploaded(u)
      BY <3>1, <1>1 DEF Responds, PlainUpload, Uploaded, Final
    <3>4. upload_path(parsed.uri)' = upload_path(parsed.uri)
      BY <1>2 DEF upload_path
    <3> QED
      BY <2>1, <2>3, <3>2, <3>3, <3>4 DEF Stored
  <2> QED
    BY <2>2, <2>3
<1> QED
  BY <1>8, <1>9, <1>10, <1>12, <1>13, <1>14 DEF IndInv
-----------------------------------------------------------------------------
(* main, doit and read_requesthdrs. *)

LEMMA AcceptKeeps ==
  ASSUME IndInv, Accept
  PROVE  IndInv'
<1> USE TinyAssumption
<1>1. PICK u : u = Head(acceptq)
  OBVIOUS
<1>2. /\ pc = "accept" /\ acceptq # <<>> /\ pc' = "request"
      /\ cur' = u /\ acceptq' = Tail(acceptq) /\ status' = [status EXCEPT ![u] = "open"]
      /\ UNCHANGED <<req, sent, shut, rst, rcvd, replies, parsed, line, content_length, content_type,
                     disk, remaining, outfd, body, allocated, short, cgi, held>>
  BY <1>1 DEF Accept, clientVars, hdrVars, fileVars
<1>3. acceptq \in Seq(Clients) /\ cur = NoClient
  BY <1>2 DEF IndInv, BaseInv, TransactionTypes
<1>4. PICK m \in Nat : Len(acceptq) = m + 1 /\ DOMAIN acceptq = 1..(m + 1)
  <2>1. Len(acceptq) \in Nat \ {0} /\ DOMAIN acceptq = 1..Len(acceptq)
    BY <1>2, <1>3, EmptySeq, LenProperties, SMTT(40)
  <2>2. PICK l \in Nat \ {0} : l = Len(acceptq)
    BY <2>1
  <2>3. PICK n \in Nat : l = n + 1
    <3>1. l - 1 \in Nat /\ l = (l - 1) + 1
      OBVIOUS
    <3> QED
      BY <3>1
  <2> QED
    BY <2>1, <2>2, <2>3
<1>5. /\ acceptq' \in Seq(Clients) /\ DOMAIN acceptq' = 1..m
      /\ \A k \in 1..m : acceptq'[k] = acceptq[k + 1]
  <2>1. /\ acceptq' \in Seq(Clients) /\ Len(acceptq') = m
        /\ \A k \in 1..m : acceptq'[k] = acceptq[k + 1]
    BY <1>2, <1>3, <1>4, HeadTailProperties
  <2> QED
    BY <2>1, LenProperties
<1>6. u = acceptq[1] /\ 1 \in 1..(m + 1)
  BY <1>1, <1>2, <1>3, <1>4
<1>7. u \in Clients /\ status[u] = "none"
  BY <1>3, <1>4, <1>6, ElementOfSeq DEF IndInv, QueueInv
<1>8. status \in [Clients -> {"none", "open", "closed"}]
  BY DEF IndInv, BaseInv, TransactionTypes
<1>9. status' \in [Clients -> {"none", "open", "closed"}] /\ status'[u] = "open"
      /\ \A c \in Clients : c # u => status'[c] = status[c]
  BY <1>2, <1>7, <1>8
<1>10. BaseInv'
  <2>1. TransactionTypes'
    BY <1>2, <1>5, <1>7, <1>9 DEF IndInv, BaseInv, TransactionTypes
  <2> QED
    BY <1>2, <2>1 DEF IndInv, BaseInv, PCs, Early
<1>11. QueueInv'
  <2>1. ASSUME NEW k \in 1..m
        PROVE  acceptq'[k] \in Clients /\ acceptq'[k] # u /\ status[acceptq'[k]] = "none"
    <3>1. PICK j \in 1..(m + 1) : j = k + 1 /\ j # 1
      OBVIOUS
    <3>2. acceptq[j] # u /\ status[acceptq[j]] = "none"
      BY <1>4, <1>6, <3>1 DEF IndInv, QueueInv
    <3>3. acceptq[j] \in Clients
      BY <1>3, <1>4, ElementOfSeq
    <3> QED
      BY <1>5, <3>1, <3>2, <3>3
  <2>2. ASSUME NEW i \in 1..m, NEW k \in 1..m, acceptq'[i] = acceptq'[k]
        PROVE  i = k
    <3>1. PICK a \in 1..(m + 1), b \in 1..(m + 1) : a = i + 1 /\ b = k + 1
      OBVIOUS
    <3>2. acceptq[a] = acceptq[b]
      BY <1>5, <2>2, <3>1
    <3>3. a = b
      BY <1>4, <3>2 DEF IndInv, QueueInv
    <3> QED
      BY <3>1, <3>3
  <2> QED
    BY <1>5, <1>9, <2>1, <2>2 DEF QueueInv
<1>12. OpenInv'
  BY <1>2, <1>3, <1>7, <1>9 DEF IndInv, OpenInv
<1>13. ResourceInv'
  BY <1>2 DEF IndInv, ResourceInv
<1>14. replies[u] = <<>> /\ rcvd[u] = 0
  BY <1>7 DEF IndInv, ReplyInv
<1>15. ReplyInv'
  <2> SUFFICES ASSUME NEW c \in Clients
               PROVE  /\ replies[c] = <<>> \/ \E x : replies[c] = <<x>>
                      /\ status'[c] = "none" \/ c = u => rcvd[c] = 0
                      /\ status'[c] = "none" \/ c = u => replies[c] = <<>>
                      /\ status'[c] = "closed" =>
                           (rcvd[c] >= Header /\ ~rst[c] => replies[c] # <<>>)
    BY <1>2 DEF ReplyInv, Late, Early
  <2> QED
    BY <1>9, <1>14 DEF IndInv, ReplyInv
<1>16. HeaderInv' /\ RequestInv' /\ PutInv' /\ PostInv'
  BY <1>2 DEF HeaderInv, RequestInv, PutInv, PostInv, Parsed
<1>17. StoredInv'
  BY <1>2, <1>14, StoredFrame DEF clientVars
<1> QED
  BY <1>10, <1>11, <1>12, <1>13, <1>15, <1>16, <1>17 DEF IndInv

LEMMA CloseKeeps ==
  ASSUME IndInv, Close
  PROVE  IndInv'
<1> USE TinyAssumption
<1>1. PICK u : u = cur
  OBVIOUS
<1>2. /\ pc = "close" /\ pc' = "accept" /\ cur' = NoClient
      /\ status' = [status EXCEPT ![u] = IF u \in held THEN @ ELSE "closed"]
      /\ UNCHANGED <<req, sent, shut, rst, acceptq, rcvd, replies, parsed, line, content_length,
                     content_type, disk, remaining, outfd, body, allocated, short, cgi, held>>
  BY <1>1 DEF Close, clientVars, hdrVars, fileVars, heldVars
<1>3. u \in Clients /\ status[u] = "open"
  BY <1>1, <1>2, Current
<1>4. status \in [Clients -> {"none", "open", "closed"}]
  BY DEF IndInv, BaseInv, TransactionTypes
<1>5. /\ status' \in [Clients -> {"none", "open", "closed"}]
      /\ status'[u] = IF u \in held THEN "open" ELSE "closed"
      /\ \A c \in Clients : c # u => status'[c] = status[c]
  BY <1>2, <1>3, <1>4
<1>6. BaseInv'
  <2>1. TransactionTypes'
    BY <1>2, <1>5 DEF IndInv, BaseInv, TransactionTypes
  <2> QED
    BY <1>2, <2>1 DEF IndInv, BaseInv, PCs
<1>7. QueueInv'
  <2>1. \A k \in DOMAIN acceptq : acceptq[k] \in Clients /\ status[acceptq[k]] = "none"
    BY ElementOfSeq, LenProperties DEF IndInv, BaseInv, TransactionTypes, QueueInv
  <2> QED
    BY <1>2, <1>3, <1>5, <2>1 DEF IndInv, QueueInv
<1>8. OpenInv'
  BY <1>1, <1>2, <1>3, <1>5 DEF IndInv, OpenInv
<1>9. ResourceInv'
  BY <1>2 DEF IndInv, ResourceInv
<1>10. ReplyInv'
  <2> SUFFICES ASSUME NEW c \in Clients
               PROVE  /\ replies[c] = <<>> \/ \E x : replies[c] = <<x>>
                      /\ status'[c] = "none" => rcvd[c] = 0 /\ replies[c] = <<>>
                      /\ status'[c] = "closed" =>
                           (rcvd[c] >= Header /\ ~rst[c] => replies[c] # <<>>)
    BY <1>2 DEF ReplyInv
  <2>1. status'[c] = "none" => status[c] = "none"
    BY <1>5
  <2>2. status'[c] = "closed" => status[c] = "closed" \/ (c = cur /\ pc \in Late)
    BY <1>1, <1>2, <1>5 DEF Late
  <2> QED
    BY <2>1, <2>2 DEF IndInv, ReplyInv
<1>11. HeaderInv' /\ RequestInv' /\ PutInv' /\ PostInv'
  BY <1>2 DEF HeaderInv, RequestInv, PutInv, PostInv, Parsed
<1>12. StoredInv'
  BY <1>2, StoredFrame DEF clientVars
<1> QED
  BY <1>6, <1>7, <1>8, <1>9, <1>10, <1>11, <1>12 DEF IndInv

\* One item more of the current client's stream.
LEMMA ReceivesOne ==
  ASSUME IndInv, NEW u \in Clients, u = cur, Available(u) > 0, rcvd' = [rcvd EXCEPT ![u] = @ + 1]
  PROVE  Receives /\ rcvd'[u] = rcvd[u] + 1
<1>1. rcvd \in [Clients -> Nat]
  BY DEF IndInv, BaseInv, TransactionTypes
<1>2. rcvd[u] \in Nat /\ rcvd[u] + 1 <= sent[u]
  BY Streams DEF Available
<1>3. \A c \in Clients : rcvd[c] <= sent[c]
  BY Streams
<1> QED
  BY <1>1, <1>2, <1>3 DEF Receives

LEMMA RequestLineKeeps ==
  ASSUME IndInv, RequestLine
  PROVE  IndInv'
<1>1. PICK u : u = cur
  OBVIOUS
<1>2. /\ pc = "request" /\ line' = "stale" /\ content_length' = -1
      /\ UNCHANGED <<clientVars, acceptq, status, replies, disk, remaining, outfd, body,
                     allocated, short, cur, cgi, held>>
  BY DEF RequestLine, fileVars
<1>3. /\ u \in Clients /\ status[u] = "open"
      /\ rcvd[u] = 0 /\ replies[u] = <<>>
  <2>1. u \in Clients /\ status[u] = "open"
    BY <1>1, <1>2, Current
  <2> QED
    BY <1>1, <1>2, <2>1 DEF IndInv, ReplyInv, Early
<1>4. UNCHANGED <<req, sent, shut, rst>>
  BY <1>2 DEF clientVars
<1>5. /\ remaining' \in Int /\ allocated' \in BOOLEAN /\ short' \in BOOLEAN
      /\ cgi' \in {"none", "forked", "running", "zombie"} /\ held' \subseteq Clients
      /\ replies' = [c \in Clients |-> replies'[c]]
      /\ line' \in {"stale", "other", "request", "fields", "blank"} /\ content_length' \in Int
  BY <1>2 DEF IndInv, BaseInv, TransactionTypes
<1>6. pc \in PCs /\ pc \in Early
  BY <1>2 DEF PCs, Early
<1>7. CASE pc' = "headers"
  <2>1. /\ (Receives /\ rcvd'[u] = 1) \/ (UNCHANGED rcvd /\ Ended(u))
        /\ ~rst[u] => parsed'.method = req[u].method /\ parsed'.uri = req[u].uri
    <3>1. CASE Available(u) > 0 /\ rcvd' = [rcvd EXCEPT ![u] = @ + 1]
               /\ parsed' = [method |-> req[u].method, uri |-> req[u].uri]
      <4>1. Receives /\ rcvd'[u] = rcvd[u] + 1
        BY <3>1, <1>1, <1>3, ReceivesOne
      <4>2. rcvd'[u] = 1
        BY <4>1, <1>3
      <4>3. parsed'.method = req[u].method /\ parsed'.uri = req[u].uri
        BY <3>1
      <4> QED
        BY <4>1, <4>2, <4>3
    <3>2. CASE Ended(u) /\ rst[u] /\ UNCHANGED rcvd
      BY <3>2
    <3>3. \/ Available(u) > 0 /\ rcvd' = [rcvd EXCEPT ![u] = @ + 1]
             /\ parsed' = [method |-> req[u].method, uri |-> req[u].uri]
          \/ pc' = "close"
          \/ Ended(u) /\ rst[u] /\ UNCHANGED rcvd
      BY <1>1, Zenon DEF RequestLine
    <3> QED
      BY <1>7, <3>1, <3>2, <3>3
  <2>2. Receives
    BY <2>1, ReceivesNothing
  <2>3. pc' \in PCs /\ pc' \in Early \ {"request"} /\ pc' # "accept" /\ pc # "accept"
        /\ pc' \notin Parsed \cup {"wait", "putloop", "postloop", "store", "put", "post", "get"}
    BY <1>2, <1>7 DEF PCs, Early, Parsed
  <2>4. BaseInv' /\ QueueInv'
    BY <1>2, <1>5, <1>6, <2>2, <2>3, BaseFrame
  <2>5. OpenInv' /\ ReplyInv' /\ StoredInv'
    BY <1>2, <1>6, <2>2, <2>3, EarlyStep
  <2>6. ResourceInv'
    BY <1>2, <2>3 DEF IndInv, ResourceInv
  <2>7. cur' = u /\ Ended(u)' = Ended(cur)'
    BY <1>1, <1>2 DEF Ended, Available
  <2>8. UNCHANGED rcvd /\ Ended(u) => Ended(u)'
    BY <1>4 DEF Ended, Available
  <2>9. HeaderInv'
    BY <1>2, <2>1, <2>7, <2>8 DEF HeaderInv
  <2>10. RequestInv'
    BY <1>2, <1>4, <1>7, <2>1, <2>3, <2>7 DEF RequestInv
  <2>11. PutInv' /\ PostInv'
    BY <2>3 DEF PutInv, PostInv
  <2> QED
    BY <2>4, <2>5, <2>6, <2>9, <2>10, <2>11 DEF IndInv
<1>8. CASE pc' = "close"
  <2>1. UNCHANGED <<rcvd, parsed>>
    BY <1>8 DEF RequestLine
  <2>2. pc' \in PCs /\ pc' # "accept" /\ pc # "accept" /\ pc' # "request" /\ pc' \notin Early
        /\ pc' \notin Parsed \cup {"wait", "headers", "putloop", "postloop", "store", "put", "post", "get"}
    BY <1>2, <1>8 DEF PCs, Late, Early, Parsed
  <2>3. BaseInv' /\ QueueInv'
    BY <1>2, <1>5, <1>6, <2>1, <2>2, ReceivesNothing, BaseFrame
  <2>4. OpenInv' /\ ResourceInv'
    BY <1>2, <2>2 DEF IndInv, OpenInv, ResourceInv
  <2>5. ReplyInv'
    <3> SUFFICES ASSUME NEW c \in Clients
                 PROVE  /\ replies[c] = <<>> \/ \E x : replies[c] = <<x>>
                        /\ status[c] = "none" => rcvd[c] = 0 /\ replies[c] = <<>>
                        /\ status[c] = "closed" \/ c = u =>
                             (rcvd[c] >= Header /\ ~rst[c] => replies[c] # <<>>)
      BY <1>1, <1>2, <1>4, <2>1, <2>2 DEF ReplyInv
    <3> QED
      BY <1>3, HeaderIs DEF IndInv, ReplyInv
  <2>6. HeaderInv' /\ RequestInv' /\ PutInv' /\ PostInv'
    BY <2>2 DEF HeaderInv, RequestInv, PutInv, PostInv
  <2>7. StoredInv'
    BY <1>2, <1>3, <1>1, StoredFrame
  <2> QED
    BY <2>3, <2>4, <2>5, <2>6, <2>7 DEF IndInv
<1> QED
  BY <1>7, <1>8 DEF RequestLine

LEMMA HeaderLineKeeps ==
  ASSUME IndInv, HeaderLine
  PROVE  IndInv'
<1>1. PICK u : u = cur
  OBVIOUS
<1>2. /\ pc = "headers" /\ line # "blank"
      /\ content_length' = IF line = "fields" THEN req[u].length ELSE content_length
      /\ content_type' = IF line = "fields" THEN req[u].type ELSE content_type
      /\ UNCHANGED <<clientVars, acceptq, status, replies, parsed, disk, remaining, outfd, body,
                     allocated, short, pc, cur, cgi, held>>
  BY <1>1 DEF HeaderLine, fileVars
<1>3. u \in Clients
  BY <1>1, <1>2, Current
<1>4. UNCHANGED <<req, sent, shut, rst>>
  BY <1>2 DEF clientVars
<1>5. \/ line = "stale" /\ (rcvd[u] = 1 \/ Ended(u))
      \/ line = "fields" /\ rcvd[u] = 2
      \/ line = "other" /\ Ended(u)
  BY <1>1, <1>2 DEF IndInv, HeaderInv
<1>6. /\ Receives
      /\ \/ line = "stale" /\ line' = "fields" /\ rcvd'[u] = 2
         \/ line = "fields" /\ line' = "blank" /\ rcvd'[u] = 3
         \/ line = "stale" /\ line' \in {"blank", "other"} /\ Ended(u)'
         \/ line = "other" /\ line' = "other" /\ Ended(u)'
         \/ line = "fields" /\ line' = "fields" /\ rcvd'[u] = 2
  <2>1. CASE Available(u) > 0 /\ rcvd' = [rcvd EXCEPT ![u] = @ + 1] /\ line' = HeaderItems[rcvd[u] + 1]
    <3>1. Receives /\ rcvd'[u] = rcvd[u] + 1
      BY <2>1, <1>1, <1>3, ReceivesOne
    <3>2. ~Ended(u)
      BY <2>1, <1>3, Streams DEF Ended, Available
    <3>3. HeaderItems[2] = "fields" /\ HeaderItems[3] = "blank"
      BY DEF HeaderItems
    <3>4. CASE line = "stale"
      <4>1. rcvd[u] = 1
        BY <1>5, <3>2, <3>4
      <4> QED
        BY <2>1, <3>1, <3>3, <3>4, <4>1
    <3>5. CASE line = "fields"
      <4>1. rcvd[u] = 2
        BY <1>5, <3>5
      <4> QED
        BY <2>1, <3>1, <3>3, <3>5, <4>1
    <3> QED
      BY <1>5, <3>2, <3>4, <3>5
  <2>2. CASE Ended(u) /\ UNCHANGED rcvd /\ line' \in IF line = "stale" THEN {"blank", "other"} ELSE {line}
    <3>1. Ended(u)' /\ Receives
      BY <2>2, <1>4, ReceivesNothing DEF Ended, Available
    <3> QED
      BY <2>2, <1>5, <3>1
  <2> QED
    BY <1>1, <2>1, <2>2 DEF HeaderLine
<1>7. /\ remaining' \in Int /\ allocated' \in BOOLEAN /\ short' \in BOOLEAN
      /\ cgi' \in {"none", "forked", "running", "zombie"} /\ held' \subseteq Clients
      /\ replies' = [c \in Clients |-> replies'[c]]
  BY <1>2 DEF IndInv, BaseInv, TransactionTypes
<1>8. line' \in {"stale", "other", "request", "fields", "blank"}
  BY <1>6
<1>9. content_length' \in Int
  BY <1>2, <1>3, Streams DEF IndInv, BaseInv, TransactionTypes
<1>10. pc \in PCs \ {"accept"} /\ pc \in Early \ {"request"} /\ pc' = pc
  BY <1>2 DEF PCs, Early
<1>11. BaseInv' /\ QueueInv'
  BY <1>2, <1>6, <1>7, <1>8, <1>9, <1>10, BaseFrame
<1>12. OpenInv' /\ ReplyInv' /\ StoredInv'
  BY <1>2, <1>6, <1>10, EarlyStep
<1>13. ResourceInv'
  BY <1>2 DEF IndInv, ResourceInv
<1>14. cur' = u /\ Ended(u)' = Ended(cur)'
  BY <1>1, <1>2 DEF Ended, Available
<1>15. HeaderInv'
  BY <1>6, <1>14 DEF HeaderInv
<1>16. RequestInv'
  <2>1. ~rst[u] => parsed.method = req[u].method /\ parsed.uri = req[u].uri
    BY <1>1, <1>2 DEF IndInv, RequestInv
  <2>2. line' # "stale"
    BY <1>6
  <2>3. ASSUME line' = "blank", content_length' >= 0
        PROVE  rcvd'[u] = Header /\ content_length' = req[u].length /\ content_type' = req[u].type
    <3>1. CASE line = "fields"
      BY <1>2, <1>6, <2>3, <3>1, HeaderIs
    <3>2. CASE line = "stale"
      BY <1>2, <2>3, <3>2 DEF IndInv, RequestInv
    <3> QED
      BY <1>5, <1>6, <2>3, <3>1, <3>2
  <2>4. pc' = "headers" /\ pc' \notin {"put", "post", "putloop", "postloop", "store", "get"}
        /\ parsed' = parsed
    BY <1>2
  <2> QED
    BY <1>4, <1>14, <2>1, <2>2, <2>3, <2>4 DEF RequestInv, Announced
<1>17. PutInv' /\ PostInv'
  BY <1>2 DEF PutInv, PostInv
<1> QED
  BY <1>11, <1>12, <1>13, <1>15, <1>16, <1>17 DEF IndInv

\* After the blank line doit chooses by the method.
LEMMA HeadersDoneKeeps ==
  ASSUME IndInv, HeadersDone
  PROVE  IndInv'
<1>1. /\ pc = "headers" /\ line = "blank" /\ pc' \in {"put", "post", "get", "other"}
      /\ pc' = "post" => parsed.method = "POST"
      /\ pc' = "get" => parsed.method = "GET"
      /\ UNCHANGED <<clientVars, connVars, hdrVars, fileVars, cur, cgi, held>>
  BY DEF HeadersDone, heldVars
<1>2. UNCHANGED <<req, sent, shut, rst, acceptq, rcvd, status, replies, parsed, line, content_length,
                  content_type, disk, remaining, outfd, body, allocated, short, cur, cgi, held>>
  BY <1>1 DEF clientVars, connVars, hdrVars, fileVars
<1>3. pc \in PCs \ {"accept"} /\ pc \in Early /\ pc' \in Early \ {"request"} /\ pc' \in Parsed
      /\ pc' \in PCs /\ pc' # "accept" /\ pc' \notin {"wait", "headers", "putloop", "postloop", "store"}
  BY <1>1 DEF PCs, Early, Parsed
<1>4. /\ remaining' \in Int /\ allocated' \in BOOLEAN /\ short' \in BOOLEAN
      /\ cgi' \in {"none", "forked", "running", "zombie"} /\ held' \subseteq Clients
      /\ replies' = [c \in Clients |-> replies'[c]]
      /\ line' \in {"stale", "other", "request", "fields", "blank"} /\ content_length' \in Int
  BY <1>2 DEF IndInv, BaseInv, TransactionTypes
<1>5. Receives
  BY <1>2, ReceivesNothing
<1>6. BaseInv' /\ QueueInv'
  BY <1>1, <1>2, <1>3, <1>4, <1>5, BaseFrame
<1>7. OpenInv' /\ ReplyInv' /\ StoredInv'
  BY <1>1, <1>2, <1>3, <1>5, EarlyStep
<1>8. ResourceInv'
  BY <1>1, <1>2, <1>3 DEF IndInv, ResourceInv
<1>9. HeaderInv' /\ PutInv' /\ PostInv'
  BY <1>3 DEF HeaderInv, PutInv, PostInv
<1>10. RequestInv'
  BY <1>1, <1>2, <1>3 DEF IndInv, RequestInv, Announced
<1> QED
  BY <1>6, <1>7, <1>8, <1>9, <1>10 DEF IndInv

\* The responses that touch no file: errors, and everything GET sends.
LEMMA PlainResponse ==
  ASSUME IndInv, NEW code, NEW n, Reply(code, n),
         pc \in {"other", "get", "put", "post"}, pc' \in {"close", "fork"},
         code \notin {"200", "201"} \/ pc = "get",
         UNCHANGED <<clientVars, acceptq, rcvd, status, hdrVars, fileVars, cur, cgi, held>>
  PROVE  IndInv'
<1>1. UNCHANGED <<disk, remaining, outfd, body, allocated, short, rcvd>>
  BY DEF fileVars
<1>2. pc \in Parsed /\ Receives
  BY <1>1, ReceivesNothing DEF Parsed
<1>3. outfd = <<>> /\ allocated = FALSE /\ short \in BOOLEAN
  BY Zenon DEF IndInv, ResourceInv, BaseInv, TransactionTypes
<1>4. ~(PlainUpload(cur) /\ code \in {"200", "201"} /\ ~rst[cur])
  <2>1. pc = "get" /\ ~rst[cur] => req[cur].method = "GET"
    BY DEF IndInv, RequestInv, Parsed
  <2> QED
    BY <2>1 DEF PlainUpload
<1>5. Responds(code, n)
  BY <1>1, <1>2, <1>3, <1>4 DEF Responds
<1> QED
  BY <1>5, RespondsKeeps

LEMMA RefusalKeeps ==
  ASSUME IndInv,
         \/ NotImplemented \/ GetRefused \/ serve_static \/ serve_dynamic
         \/ PutRefused \/ PutOpenFails \/ PostRefused
  PROVE  IndInv'
<1>1. CASE NotImplemented
  BY <1>1, PlainResponse DEF NotImplemented, Answer, heldVars
<1>2. CASE GetRefused
  BY <1>2, PlainResponse DEF GetRefused, Answer, heldVars
<1>3. CASE serve_static
  BY <1>3, PlainResponse DEF serve_static, Answer, heldVars
<1>4. CASE serve_dynamic
  BY <1>4, PlainResponse DEF serve_dynamic, heldVars
<1>5. CASE PutRefused
  BY <1>5, PlainResponse DEF PutRefused, after_put, heldVars
<1>6. CASE PutOpenFails
  BY <1>6, PlainResponse DEF PutOpenFails, after_put, heldVars
<1>7. CASE PostRefused
  BY <1>7, PlainResponse DEF PostRefused, Answer, heldVars
<1> QED
  BY <1>1, <1>2, <1>3, <1>4, <1>5, <1>6, <1>7
-----------------------------------------------------------------------------
(* Uploads. *)

\* rio_readnb asked for w bytes of the body at hand: it takes m of them, and
\* returns these m unless an error made it drop them.
LEMMA ReadNb ==
  ASSUME IndInv, NEW u \in Clients, u = cur, rcvd[u] >= Header, NEW w \in Nat
  PROVE  \E m \in Nat, k \in Nat :
           /\ k = rcvd[u] - Header /\ m <= w /\ m <= Available(u) /\ k + m <= Len(req[u].body)
           /\ m = w \/ m = Available(u)
           /\ m = Min({w, Available(u)})
           /\ ~(Available(u) < w /\ rst[u]) => readnb(w) = SubSeq(req[u].body, k + 1, k + m) /\ Len(readnb(w)) = m
           /\ (Available(u) < w /\ rst[u]) => readnb(w) = <<>>
           /\ Consume(w) => Receives /\ rcvd'[u] = rcvd[u] + m
<1>1. PICK a \in Nat, r \in Nat, s \in Nat, l \in Nat, k \in Nat :
        /\ a = Available(u) /\ r = rcvd[u] /\ s = sent[u] /\ l = Len(req[u].body) /\ a = s - r
        /\ k = r - 3 /\ r >= 3 /\ s <= 3 + l /\ k = rcvd[u] - Header
  <2>1. rcvd[u] \in Nat /\ sent[u] \in Nat /\ rcvd[u] <= sent[u] /\ Len(req[u].body) \in Nat
        /\ sent[u] <= 3 + Len(req[u].body) /\ rcvd[u] >= 3
    BY Streams, HeaderIs
  <2>2. Available(u) \in Nat /\ Available(u) = sent[u] - rcvd[u] /\ rcvd[u] - 3 \in Nat
    BY <2>1 DEF Available
  <2> QED
    BY <2>1, <2>2, HeaderIs
<1>2. PICK m \in Nat : m = Min({w, a}) /\ m <= w /\ m <= a /\ (m = w \/ m = a)
  BY MinOfTwo
<1>3. k + m <= l
  <2>1. a = s - r /\ k = r - 3 /\ s <= 3 + l /\ m <= a
    BY <1>1, <1>2, Zenon
  <2> QED
    BY <2>1
<1>4. ~(a < w /\ rst[u]) => readnb(w) = SubSeq(req[u].body, k + 1, k + m)
  BY <1>1, <1>2 DEF readnb
<1>5. Len(SubSeq(req[u].body, k + 1, k + m)) = m
  <2>1. req[u].body \in Seq(ToSet(req[u].body))
    BY Streams
  <2>2. k + m <= Len(req[u].body)
    BY <1>1, <1>3, Zenon
  <2> QED
    BY <2>1, <2>2, PieceIs
<1>6. a < w /\ rst[u] => readnb(w) = <<>>
  BY <1>1 DEF readnb
<1>7. Consume(w) => Receives /\ rcvd'[u] = rcvd[u] + m
  <2> SUFFICES ASSUME Consume(w) PROVE Receives /\ rcvd'[u] = rcvd[u] + m
    OBVIOUS
  <2>1. rcvd' = [rcvd EXCEPT ![u] = rcvd[u] + m]
    BY <1>1, <1>2, Zenon DEF Consume
  <2>2. rcvd \in [Clients -> Nat] /\ \A c \in Clients : rcvd[c] <= sent[c]
    BY DEF IndInv, BaseInv, TransactionTypes
  <2>3. rcvd[u] + m \in Nat /\ rcvd[u] + m <= sent[u]
    BY <1>1, <1>2
  <2> QED
    BY <2>1, <2>2, <2>3 DEF Receives
<1> QED
  BY <1>1, <1>2, <1>3, <1>4, <1>5, <1>6, <1>7

LEMMA WrittenIs ==
  ASSUME NEW path, NEW bytes, disk' = Written(path, bytes)
  PROVE  path \in DOMAIN disk' /\ disk'[path].content = bytes
  BY DEF Written

\* serve_put creates the file: nothing read, nothing written.
LEMMA PutOpenKeeps ==
  ASSUME IndInv, PutOpen
  PROVE  IndInv'
<1>1. PICK u, path : u = cur /\ path = upload_path(parsed.uri)
  OBVIOUS
<1>2. /\ pc = "put" /\ pc' = "putloop" /\ content_length >= 0
      /\ outfd' = path /\ disk' = Written(path, <<>>) /\ remaining' = content_length /\ short' = FALSE
      /\ UNCHANGED <<clientVars, acceptq, rcvd, status, replies, parsed, line, content_length,
                     content_type, body, allocated, cur, cgi, held>>
  BY <1>1 DEF PutOpen, connVars, hdrVars, heldVars
<1>3. u \in Clients
  BY <1>1, <1>2, Current
<1>4. UNCHANGED <<req, sent, shut, rst>>
  BY <1>2 DEF clientVars
<1>5. content_length \in Nat /\ rcvd[u] = Header /\ Announced
  BY <1>1, <1>2 DEF IndInv, BaseInv, TransactionTypes, RequestInv
<1>6. /\ allocated' \in BOOLEAN /\ cgi' \in {"none", "forked", "running", "zombie"} /\ held' \subseteq Clients
      /\ replies' = [c \in Clients |-> replies'[c]]
      /\ line' \in {"stale", "other", "request", "fields", "blank"} /\ content_length' \in Int
      /\ remaining' \in Int /\ short' \in BOOLEAN
  BY <1>2, <1>5 DEF IndInv, BaseInv, TransactionTypes
<1>7. pc \in PCs \ {"accept"} /\ pc \in Early /\ pc' \in Early \ {"request"}
      /\ pc' \in PCs /\ pc' # "accept"
  BY <1>2 DEF PCs, Early, Parsed
<1>8. Receives
  BY <1>2, ReceivesNothing
<1>9. BaseInv' /\ QueueInv'
  BY <1>2, <1>6, <1>7, <1>8, BaseFrame
<1>10. OpenInv' /\ ReplyInv' /\ StoredInv'
  BY <1>2, <1>7, <1>8, EarlyStep
<1>11. ResourceInv'
  BY <1>2 DEF IndInv, ResourceInv
<1>12. HeaderInv' /\ PostInv'
  BY <1>2 DEF HeaderInv, PostInv
<1>13. RequestInv'
  <2>1. ~rst[cur] => parsed.method = req[cur].method /\ parsed.uri = req[cur].uri
    BY <1>2 DEF IndInv, RequestInv, Parsed
  <2> QED
    BY <1>2, <1>4, <1>5, <2>1 DEF RequestInv, Announced
<1>14. PutInv'
  <2>1. path \in DOMAIN disk' /\ disk'[path].content = <<>>
    BY <1>2, WrittenIs
  <2>2. rcvd'[u] - Header = 0 /\ content_length' - remaining' = 0 /\ remaining' \in 0..content_length'
    BY <1>2, <1>5, HeaderIs
  <2>3. SubSeq(req[u].body, 1, 0) = <<>>
    BY SubSeqEmpty
  <2>4. upload_path(parsed.uri)' = path /\ cur' = u
    BY <1>1, <1>2 DEF upload_path
  <2> QED
    BY <1>2, <1>4, <2>1, <2>2, <2>3, <2>4 DEF PutInv
<1> QED
  BY <1>9, <1>10, <1>11, <1>12, <1>13, <1>14 DEF IndInv

LEMMA WantIs == IndInv /\ remaining > 0 => want \in Nat \ {0} /\ want <= remaining
<1> SUFFICES ASSUME IndInv, remaining > 0 PROVE want \in Nat \ {0} /\ want <= remaining
  OBVIOUS
<1>1. remaining \in Int
  BY DEF IndInv, BaseInv, TransactionTypes
<1> QED
  BY <1>1, TinyAssumption, MinOfTwo DEF want

\* A turn of serve_put's loop: the bytes read continue the file.
LEMMA PutChunkKeeps ==
  ASSUME IndInv, PutChunk
  PROVE  IndInv'
<1>1. PICK u, path : u = cur /\ path = outfd
  OBVIOUS
<1>2. /\ pc = "putloop" /\ remaining > 0 /\ readnb(want) # <<>> /\ Consume(want)
      /\ remaining' = remaining - Len(readnb(want))
      /\ UNCHANGED <<clientVars, acceptq, status, replies, parsed, line, content_length, content_type,
                     outfd, body, allocated, pc, cur, cgi, held>>
  BY DEF PutChunk, hdrVars, heldVars
<1>3. PICK n \in 0..Len(readnb(want)) :
        /\ disk' = Written(path, disk[path].content \o SubSeq(readnb(want), 1, n))
        /\ short' = (short \/ n < Len(readnb(want)))
  BY <1>1 DEF PutChunk
<1>4. u \in Clients
  BY <1>1, <1>2, Current
<1>5. UNCHANGED <<req, sent, shut, rst>>
  BY <1>2 DEF clientVars
<1>6. /\ remaining \in 0..content_length /\ content_length \in Int
      /\ rcvd[u] - Header = content_length - remaining
      /\ path = upload_path(parsed.uri)
      /\ ~short => disk[path].content = SubSeq(req[u].body, 1, rcvd[u] - Header)
  BY <1>1, <1>2 DEF IndInv, PutInv, BaseInv, TransactionTypes
<1>7. rcvd[u] \in Nat /\ rcvd[u] >= Header
  BY <1>4, <1>6, Streams, HeaderIs
<1>8. want \in Nat \ {0} /\ want <= remaining
  BY <1>2, WantIs
<1>9. PICK m \in Nat, k \in Nat :
        /\ k = rcvd[u] - Header /\ m <= want /\ k + m <= Len(req[u].body)
        /\ readnb(want) = SubSeq(req[u].body, k + 1, k + m) /\ Len(readnb(want)) = m
        /\ Receives /\ rcvd'[u] = rcvd[u] + m
  BY <1>1, <1>2, <1>4, <1>7, <1>8, ReadNb
<1>10. /\ remaining' = remaining - m /\ remaining - m \in 0..content_length
       /\ rcvd'[u] - Header = k + m /\ k + m = content_length - (remaining - m)
  <2>1. PICK a \in Int, c \in Int, r \in Nat, v \in Nat :
          a = remaining /\ c = content_length /\ r = rcvd[u] /\ v = want
    BY <1>6, <1>7, <1>8
  <2>2. a \in 0..c /\ r - 3 = c - a /\ k = r - 3 /\ v <= a /\ m <= v
    BY <1>6, <1>8, <1>9, <2>1, HeaderIs, Zenon
  <2>3. a - m \in 0..c /\ (r + m) - 3 = k + m /\ k + m = c - (a - m)
    BY <2>2
  <2>4. remaining' = a - m /\ rcvd'[u] = r + m
    BY <1>2, <1>9, <2>1, Zenon
  <2> QED
    BY <2>1, <2>3, <2>4, HeaderIs, Zenon
<1>11. short' \in BOOLEAN /\ (~short' => ~short /\ ~(n < m))
  BY <1>3, <1>9, Zenon
<1>12. ~short' => disk'[path].content = SubSeq(req[u].body, 1, k + m)
  <2> SUFFICES ASSUME ~short' PROVE disk'[path].content = SubSeq(req[u].body, 1, k + m)
    OBVIOUS
  <2> DEFINE b == readnb(want)
  <2>1. n = m /\ n = Len(b)
    <3>1. n \in 0..m /\ ~(n < m) /\ m = Len(b)
      BY <1>3, <1>9, <1>11, Zenon
    <3> QED
      BY <3>1
  <2>2. req[u].body \in Seq(ToSet(req[u].body))
    BY <1>4, Streams
  <2>3. b \in Seq(ToSet(req[u].body))
    BY <1>9, <2>2, PieceIs, ZenonT(40)
  <2> HIDE DEF b
  <2>4. SubSeq(b, 1, n) = b
    BY <2>1, <2>3, PieceAll
  <2>5. disk[path].content = SubSeq(req[u].body, 1, k)
    BY <1>6, <1>9, <1>11
  <2>6. disk'[path].content = disk[path].content \o SubSeq(b, 1, n)
    BY <1>3, WrittenIs DEF b
  <2>7. b = SubSeq(req[u].body, k + 1, k + m)
    BY <1>9 DEF b
  <2>8. SubSeq(req[u].body, 1, k) \o SubSeq(req[u].body, k + 1, k + m) = SubSeq(req[u].body, 1, k + m)
    BY <1>9, <2>2, PieceJoin
  <2> QED
    BY <2>4, <2>5, <2>6, <2>7, <2>8, Zenon
<1>13. /\ allocated' \in BOOLEAN /\ cgi' \in {"none", "forked", "running", "zombie"} /\ held' \subseteq Clients
       /\ replies' = [c \in Clients |-> replies'[c]]
       /\ line' \in {"stale", "other", "request", "fields", "blank"} /\ content_length' \in Int
  BY <1>2 DEF IndInv, BaseInv, TransactionTypes
<1>14. remaining' \in Int
  BY <1>6, <1>10
<1>15. pc \in PCs \ {"accept"} /\ pc \in Early \ {"request"} /\ pc' = pc
  BY <1>2 DEF PCs, Early, Parsed
<1>16. BaseInv' /\ QueueInv'
  BY <1>2, <1>9, <1>11, <1>13, <1>14, <1>15, BaseFrame
<1>17. OpenInv' /\ ReplyInv' /\ StoredInv'
  BY <1>2, <1>9, <1>15, EarlyStep
<1>18. ResourceInv'
  BY <1>2 DEF IndInv, ResourceInv
<1>19. HeaderInv' /\ PostInv'
  BY <1>2 DEF HeaderInv, PostInv
<1>20. RequestInv'
  BY <1>2, <1>5 DEF IndInv, RequestInv, Announced, Parsed
<1>21. PutInv'
  <2>1. path \in DOMAIN disk'
    BY <1>3, WrittenIs
  <2>2. outfd' = path /\ upload_path(parsed.uri)' = path /\ cur' = u /\ content_length' = content_length
    BY <1>1, <1>2, <1>6 DEF upload_path
  <2>3. rcvd'[u] - Header = content_length - remaining' /\ remaining' \in 0..content_length
    BY <1>10, Zenon
  <2>4. ~short' => disk'[path].content = SubSeq(req[u].body, 1, rcvd'[u] - Header)
    BY <1>10, <1>12, Zenon
  <2> QED
    BY <1>5, <2>1, <2>2, <2>3, <2>4 DEF PutInv
<1> QED
  BY <1>16, <1>17, <1>18, <1>19, <1>20, <1>21 DEF IndInv

\* What serve_put reports: it stops when everything announced is there, or
\* when a client that did not reset has ended its stream.
LEMMA PutDoneKeeps ==
  ASSUME IndInv, PutDone
  PROVE  IndInv'
<1>1. PICK u : u = cur
  OBVIOUS
<1>2. /\ pc = "putloop" /\ pc' = "close" /\ outfd' = <<>>
      /\ Reply("201", content_length - remaining)
      /\ UNCHANGED <<clientVars, acceptq, status, hdrVars, disk, remaining, body, allocated, short, cur, cgi, held>>
  BY DEF PutDone, after_put
<1>3. u \in Clients
  BY <1>1, <1>2, Current
<1>4. /\ remaining \in 0..content_length /\ content_length \in Int /\ content_length >= 0
      /\ content_length = req[u].length
      /\ rcvd[u] - Header = content_length - remaining
      /\ outfd = upload_path(parsed.uri)
      /\ ~short => disk[outfd].content = SubSeq(req[u].body, 1, rcvd[u] - Header)
  BY <1>1, <1>2 DEF IndInv, PutInv, RequestInv, Announced, BaseInv, TransactionTypes
<1>5. PICK c \in Nat, a \in Nat, r \in Nat, s \in Nat, l \in Nat :
        /\ c = content_length /\ a = remaining /\ r = rcvd[u] /\ s = sent[u] /\ l = Len(req[u].body)
        /\ r <= s /\ s <= 3 + l
  <2>1. content_length \in Nat /\ remaining \in Nat
    BY <1>4
  <2>2. /\ sent[u] \in Nat /\ rcvd[u] \in Nat /\ rcvd[u] <= sent[u]
        /\ Len(req[u].body) \in Nat /\ sent[u] <= 3 + Len(req[u].body)
    BY <1>3, Streams
  <2> QED
    BY <2>1, <2>2, Zenon
<1>6. r - 3 = c - a /\ a <= c /\ r >= 3
  <2>1. a \in 0..c /\ r - 3 = c - a
    BY <1>4, <1>5, HeaderIs, Zenon
  <2> QED
    BY <2>1
<1>7. rcvd[u] >= Header
  BY <1>5, <1>6, HeaderIs
<1>8. Receives /\ (rst[u] \/ a = 0 \/ (shut[u] /\ s = r))
  <2>1. CASE remaining <= 0 /\ UNCHANGED rcvd
    <3>1. a = 0
      BY <1>5, <2>1
    <3> QED
      BY <2>1, <3>1, ReceivesNothing
  <2>2. CASE remaining > 0 /\ readnb_done(want) /\ broken_off /\ Consume(want)
    <3>1. want \in Nat \ {0}
      BY <2>2, WantIs
    <3>2. PICK m \in Nat :
            /\ m = want \/ m = Available(u)
            /\ ~(Available(u) < want /\ rst[u]) => Len(readnb(want)) = m
            /\ Receives
      BY <1>1, <1>3, <1>7, <2>2, <3>1, ReadNb
    <3>3. Len(readnb(want)) = 0
      BY <2>2 DEF broken_off
    <3>4. ~rst[u] => m = 0
      BY <3>2, <3>3
    <3>5. ~rst[u] => Available(u) = 0
      BY <3>1, <3>2, <3>4
    <3>6. ~rst[u] => shut[u]
      BY <1>1, <2>2, <3>1, <3>5 DEF readnb_done
    <3>7. Available(u) = 0 => s = r
      BY <1>5 DEF Available
    <3> QED
      BY <3>2, <3>5, <3>6, <3>7
  <2> QED
    BY <2>1, <2>2 DEF PutDone
<1>9. ASSUME ~rst[u]
      PROVE  /\ c - a = Len(Uploaded(u)) /\ Final(u)
             /\ ~short' => disk'[upload_path(parsed.uri)].content = Uploaded(u)
  <2>1. Min({c, s - 3}) = c - a
    <3>1. s - 3 \in Int /\ (a = 0 \/ s = r)
      BY <1>8, <1>9
    <3>2. (IF c <= s - 3 THEN c ELSE s - 3) = c - a
      BY <1>5, <1>6, <3>1
    <3> QED
      BY <3>1, <3>2, MinOfTwo
  <2>2. Uploaded(u) = SubSeq(req[u].body, 1, c - a)
    BY <1>4, <1>5, <2>1, HeaderIs, Zenon DEF Uploaded
  <2>3. PICK k \in Nat : k = c - a /\ k <= l /\ k = r - 3
    BY <1>5, <1>6
  <2>4. Len(Uploaded(u)) = c - a
    <3>1. req[u].body \in Seq(ToSet(req[u].body))
      BY <1>3, Streams
    <3>2. 0 + k <= Len(req[u].body) /\ 0 + 1 = 1 /\ 0 + k = k
      BY <1>5, <2>3
    <3>3. Len(SubSeq(req[u].body, 0 + 1, 0 + k)) = k
      BY <3>1, <3>2, PieceIs
    <3> QED
      BY <2>2, <2>3, <3>2, <3>3
  <2>5. Final(u)
    <3>1. CASE a = 0
      <4>1. s - 3 >= c
        BY <1>5, <1>6, <3>1
      <4> QED
        BY <1>4, <1>5, <4>1, HeaderIs DEF Final
    <3>2. CASE shut[u]
      BY <3>2 DEF Final
    <3> QED
      BY <1>8, <1>9, <3>1, <3>2
  <2>6. ~short => disk[upload_path(parsed.uri)].content = Uploaded(u)
    <3>1. rcvd[u] - Header = c - a
      BY <1>4, <1>5
    <3> QED
      BY <1>4, <2>2, <3>1
  <2> QED
    BY <1>2, <2>4, <2>5, <2>6
<1>10. allocated = FALSE /\ short \in BOOLEAN
  BY <1>2, Zenon DEF IndInv, ResourceInv, BaseInv, TransactionTypes
<1>11. Responds("201", content_length - remaining)
  <2>1. content_length - remaining = c - a
    BY <1>5
  <2>2. pc \in Parsed
    BY <1>2 DEF Parsed
  <2>3. ~rst[cur] =>
          /\ content_length - remaining = Len(Uploaded(cur)) /\ Final(cur)
          /\ ~short' => disk'[upload_path(parsed.uri)].content = Uploaded(cur)
    BY <1>1, <1>9, <2>1, Zenon
  <2> QED
    BY <1>2, <1>8, <1>10, <2>2, <2>3 DEF Responds
<1> QED
  BY <1>11, RespondsKeeps

\* serve_post allocates its buffer, or fails to.
LEMMA PostMallocKeeps ==
  ASSUME IndInv, PostMalloc
  PROVE  IndInv'
<1>1. CASE Answer("500", 0) /\ UNCHANGED allocated
  BY <1>1, PlainResponse DEF PostMalloc, Answer, fileVars, heldVars
<1>2. CASE allocated' = TRUE /\ pc' = "postloop" /\ UNCHANGED replies
  <2>1. /\ pc = "post" /\ content_length >= 0
        /\ UNCHANGED <<clientVars, acceptq, rcvd, status, replies, parsed, line, content_length,
                       content_type, disk, remaining, outfd, body, short, cur, cgi, held>>
    BY <1>2, TinyAssumption DEF PostMalloc, hdrVars, heldVars
  <2>2. UNCHANGED <<req, sent, shut, rst>>
    BY <2>1 DEF clientVars
  <2>3. /\ allocated' \in BOOLEAN /\ cgi' \in {"none", "forked", "running", "zombie"} /\ held' \subseteq Clients
        /\ replies' = [c \in Clients |-> replies'[c]]
        /\ line' \in {"stale", "other", "request", "fields", "blank"} /\ content_length' \in Int
        /\ remaining' \in Int /\ short' \in BOOLEAN
    BY <1>2, <2>1 DEF IndInv, BaseInv, TransactionTypes
  <2>4. pc \in PCs \ {"accept"} /\ pc \in Early /\ pc' \in Early \ {"request"}
        /\ pc' \in PCs /\ pc' # "accept"
    BY <1>2, <2>1 DEF PCs, Early, Parsed
  <2>5. Receives
    BY <2>1, ReceivesNothing
  <2>6. BaseInv' /\ QueueInv'
    BY <2>1, <2>3, <2>4, <2>5, BaseFrame
  <2>7. OpenInv' /\ ReplyInv' /\ StoredInv'
    BY <2>1, <2>4, <2>5, EarlyStep
  <2>8. ResourceInv'
    BY <1>2, <2>1 DEF IndInv, ResourceInv
  <2>9. rcvd[cur] = Header /\ Announced
    BY <2>1 DEF IndInv, RequestInv
  <2>10. HeaderInv' /\ PutInv' /\ PostInv'
    BY <1>2, <2>1, <2>9 DEF HeaderInv, PutInv, PostInv
  <2>11. RequestInv'
    BY <1>2, <2>1, <2>2, <2>9 DEF IndInv, RequestInv, Announced, Parsed
  <2> QED
    BY <2>6, <2>7, <2>8, <2>10, <2>11 DEF IndInv
<1> QED
  BY <1>1, <1>2 DEF PostMalloc

\* serve_post has in its buffer what it announced, or what there was.
LEMMA PostReadKeeps ==
  ASSUME IndInv, PostRead
  PROVE  IndInv'
<1>1. PICK u, w : u = cur /\ w = content_length
  OBVIOUS
<1>2. /\ pc = "postloop" /\ pc' = "store" /\ readnb_done(w) /\ body' = readnb(w) /\ Consume(w)
      /\ UNCHANGED <<clientVars, acceptq, status, replies, parsed, line, content_length, content_type,
                     disk, remaining, outfd, allocated, short, cur, cgi, held>>
  BY <1>1 DEF PostRead, hdrVars, heldVars
<1>3. u \in Clients
  BY <1>1, <1>2, Current
<1>4. UNCHANGED <<req, sent, shut, rst>>
  BY <1>2 DEF clientVars
<1>5. /\ w \in Nat /\ w = req[u].length /\ rcvd[u] = Header /\ Announced
  BY <1>1, <1>2 DEF IndInv, BaseInv, TransactionTypes, RequestInv, PostInv, Announced
<1>6. rcvd[u] >= Header /\ rcvd[u] - Header = 0
  BY <1>5, HeaderIs
<1>7. PICK m \in Nat :
        /\ m = Min({w, Available(u)})
        /\ ~(Available(u) < w /\ rst[u]) => readnb(w) = SubSeq(req[u].body, 0 + 1, 0 + m)
        /\ Receives
  <2>1. PICK m \in Nat, k \in Nat :
          /\ k = rcvd[u] - Header /\ m = Min({w, Available(u)})
          /\ ~(Available(u) < w /\ rst[u]) => readnb(w) = SubSeq(req[u].body, k + 1, k + m)
          /\ Receives
    BY <1>1, <1>2, <1>3, <1>5, <1>6, ReadNb, ZenonT(40)
  <2>2. k = 0
    BY <1>6, <2>1
  <2> QED
    BY <2>1, <2>2, Zenon
<1>8. ASSUME ~rst[u] PROVE body' = Uploaded(u) /\ Final(u)
  <2>1. Available(u) = sent[u] - Header
    BY <1>5 DEF Available
  <2>2. 0 + 1 = 1 /\ 0 + m = m
    OBVIOUS
  <2>3. body' = SubSeq(req[u].body, 1, m)
    BY <1>2, <1>7, <1>8, <2>2
  <2>4. Uploaded(u) = SubSeq(req[u].body, 1, m)
    BY <1>5, <1>7, <2>1, Zenon DEF Uploaded
  <2>5. Final(u)
    BY <1>1, <1>2, <1>5, <1>8, <2>1 DEF readnb_done, Final
  <2> QED
    BY <2>3, <2>4, <2>5
<1>9. /\ allocated' \in BOOLEAN /\ cgi' \in {"none", "forked", "running", "zombie"} /\ held' \subseteq Clients
      /\ replies' = [c \in Clients |-> replies'[c]]
      /\ line' \in {"stale", "other", "request", "fields", "blank"} /\ content_length' \in Int
      /\ remaining' \in Int /\ short' \in BOOLEAN
  BY <1>2 DEF IndInv, BaseInv, TransactionTypes
<1>10. pc \in PCs \ {"accept"} /\ pc \in Early /\ pc' \in Early \ {"request"}
       /\ pc' \in PCs /\ pc' # "accept"
  BY <1>2 DEF PCs, Early, Parsed
<1>11. BaseInv' /\ QueueInv'
  BY <1>2, <1>7, <1>9, <1>10, BaseFrame
<1>12. OpenInv' /\ ReplyInv' /\ StoredInv'
  BY <1>2, <1>7, <1>10, EarlyStep
<1>13. ResourceInv'
  BY <1>2 DEF IndInv, ResourceInv
<1>14. HeaderInv' /\ PutInv'
  BY <1>2 DEF HeaderInv, PutInv
<1>15. RequestInv'
  BY <1>2, <1>4, <1>5 DEF IndInv, RequestInv, Announced, Parsed
<1>16. PostInv'
  <2>1. Uploaded(u)' = Uploaded(u) /\ Final(u)' = Final(u) /\ rst'[u] = rst[u] /\ cur' = u
    BY <1>1, <1>2, <1>4 DEF Uploaded, Final
  <2>2. Uploaded(cur)' = Uploaded(u)' /\ Final(cur)' = Final(u)'
    BY <2>1 DEF Uploaded, Final
  <2> QED
    BY <1>2, <1>8, <2>1, <2>2 DEF PostInv
<1> QED
  BY <1>11, <1>12, <1>13, <1>14, <1>15, <1>16 DEF IndInv

\* serve_post stores the body, or cannot open the file; either way it frees
\* its buffer.
LEMMA PostStoreKeeps ==
  ASSUME IndInv, PostStore
  PROVE  IndInv'
<1>1. PICK u : u = cur
  OBVIOUS
<1>2. /\ pc = "store" /\ pc' = "close" /\ allocated' = FALSE /\ Reply("200", Len(content))
      /\ UNCHANGED <<clientVars, acceptq, rcvd, status, hdrVars, remaining, outfd, cur, cgi, held>>
  BY DEF PostStore, Answer
<1>3. PICK k \in 0..Len(content) :
        /\ disk' = Written(upload_path(filename), SubSeq(content, 1, k))
        /\ short' = (k < Len(content))
  BY DEF PostStore
<1>4. u \in Clients
  BY <1>1, <1>2, Current, SMTT(40)
<1>5. ASSUME ~rst[u], PlainUpload(u)
      PROVE  /\ Len(content) = Len(Uploaded(u)) /\ Final(u)
             /\ ~short' => disk'[upload_path(parsed.uri)].content = Uploaded(u)
  <2>1. body = Uploaded(u) /\ Final(u)
    BY <1>1, <1>2, <1>5 DEF IndInv, PostInv, Uploaded, Final
  <2>2. content_type = "plain"
    BY <1>1, <1>2, <1>5 DEF IndInv, RequestInv, Announced, PlainUpload, Parsed
  <2>3. content = body /\ filename = parsed.uri
    BY <2>2 DEF content, filename
  <2>4. body \in Seq(ToSet(req[u].body)) /\ Len(body) \in Nat
    <3> DEFINE j == Min({req[u].length, sent[u] - Header})
    <3>1. /\ req[u].length \in Int /\ sent[u] \in Nat /\ sent[u] - Header <= Len(req[u].body)
          /\ req[u].body \in Seq(ToSet(req[u].body)) /\ Len(req[u].body) \in Nat
      BY <1>4, Streams, HeaderIs
    <3>2. j \in Int /\ j <= Len(req[u].body)
      BY <3>1, MinOfTwo, HeaderIs, SMTT(40)
    <3> HIDE DEF j
    <3>3. \A i \in 1..j : req[u].body[i] \in ToSet(req[u].body)
      BY <3>1, <3>2, ElementOfSeq
    <3>4. SubSeq(req[u].body, 1, j) \in Seq(ToSet(req[u].body))
      BY <3>2, <3>3, SubSeqProperties
    <3>5. body = SubSeq(req[u].body, 1, j)
      BY <2>1 DEF Uploaded, j
    <3> QED
      BY <3>4, <3>5, LenProperties
  <2>5. SubSeq(body, 1, Len(body)) = body
    BY <2>4, PieceAll
  <2>6. ~short' => k = Len(body)
    <3>1. PICK n \in Nat : n = Len(body)
      BY <2>4
    <3>2. k \in 0..n /\ short' = (k < n)
      BY <1>3, <2>3, <3>1, Zenon
    <3>3. ~(k < n) => k = n
      BY <3>2
    <3> QED
      BY <3>1, <3>2, <3>3
  <2>7. disk'[upload_path(filename)].content = SubSeq(content, 1, k)
    BY <1>3, WrittenIs
  <2> QED
    BY <2>1, <2>3, <2>5, <2>6, <2>7, Zenon
<1>6. short' \in BOOLEAN
  BY <1>3
<1>7. outfd = <<>>
  BY <1>2 DEF IndInv, ResourceInv
<1>8. Receives
  BY <1>2, ReceivesNothing
<1>9. Responds("200", Len(content))
  <2>1. pc \in Parsed
    BY <1>2 DEF Parsed
  <2>2. PlainUpload(cur) /\ ~rst[cur] =>
          /\ Len(content) = Len(Uploaded(cur)) /\ Final(cur)
          /\ ~short' => disk'[upload_path(parsed.uri)].content = Uploaded(cur)
    BY <1>1, <1>5, Zenon
  <2> QED
    BY <1>2, <1>6, <1>7, <1>8, <2>1, <2>2 DEF Responds
<1> QED
  BY <1>9, RespondsKeeps

LEMMA PostOpenFailsKeeps ==
  ASSUME IndInv, PostOpenFails
  PROVE  IndInv'
<1>1. /\ pc = "store" /\ pc' = "close" /\ allocated' = FALSE /\ Reply("500", 0)
      /\ UNCHANGED <<clientVars, acceptq, rcvd, status, hdrVars, disk, remaining, outfd, short, cur, cgi, held>>
  BY DEF PostOpenFails, Answer, freed, heldVars
<1>2. outfd = <<>> /\ short \in BOOLEAN /\ pc \in Parsed /\ Receives
  BY <1>1, ReceivesNothing DEF IndInv, ResourceInv, BaseInv, TransactionTypes, Parsed
<1>3. Responds("500", 0)
  BY <1>1, <1>2 DEF Responds
<1> QED
  BY <1>3, RespondsKeeps
-----------------------------------------------------------------------------
LEMMA StutterKeeps ==
  ASSUME IndInv, UNCHANGED vars
  PROVE  IndInv'
<1>1. UNCHANGED <<req, sent, shut, rst, acceptq, rcvd, status, replies, parsed, line, content_length,
                  content_type, disk, remaining, outfd, body, allocated, short, pc, cur, cgi, held, stdout, logged>>
  BY DEF vars, clientVars, connVars, hdrVars, fileVars, heldVars
<1>2. acceptq' \in Seq(Clients) /\ QueueInv' /\ UNCHANGED <<req, serverVars>>
  BY <1>1 DEF IndInv, BaseInv, TransactionTypes, QueueInv, serverVars, hdrVars, fileVars, heldVars
<1>3. Grows
  BY <1>1, Streams DEF IndInv, BaseInv, TransactionTypes, Grows
<1> QED
  BY <1>2, <1>3, GrowsKeeps

LEMMA StepKeeps == IndInv /\ [Next]_vars => IndInv'
<1> SUFFICES ASSUME IndInv, [Next]_vars PROVE IndInv'
  OBVIOUS
<1>1. CASE \E c \in Clients : Connect(c) \/ Send(c) \/ Shutdown(c) \/ Reset(c)
  BY <1>1, ClientKeeps
<1>2. CASE Child \/ Fork \/ Wait
  BY <1>2, ChildKeeps
<1>3. CASE Accept
  BY <1>3, AcceptKeeps
<1>4. CASE Close
  BY <1>4, CloseKeeps
<1>5. CASE RequestLine
  BY <1>5, RequestLineKeeps
<1>6. CASE HeaderLine
  BY <1>6, HeaderLineKeeps
<1>7. CASE HeadersDone
  BY <1>7, HeadersDoneKeeps
<1>8. CASE \/ NotImplemented \/ GetRefused \/ serve_static \/ serve_dynamic
           \/ PutRefused \/ PutOpenFails \/ PostRefused
  BY <1>8, RefusalKeeps
<1>9. CASE PutOpen
  BY <1>9, PutOpenKeeps
<1>10. CASE PutChunk
  BY <1>10, PutChunkKeeps
<1>11. CASE PutDone
  BY <1>11, PutDoneKeeps
<1>12. CASE PostMalloc
  BY <1>12, PostMallocKeeps
<1>13. CASE PostRead
  BY <1>13, PostReadKeeps
<1>14. CASE PostStore
  BY <1>14, PostStoreKeeps
<1>15. CASE PostOpenFails
  BY <1>15, PostOpenFailsKeeps
<1>16. CASE UNCHANGED vars
  BY <1>16, StutterKeeps
<1> QED
  BY <1>1, <1>2, <1>3, <1>4, <1>5, <1>6, <1>7, <1>8, <1>9, <1>10, <1>11, <1>12, <1>13, <1>14,
     <1>15, <1>16 DEF Next, Server

LEMMA Inductive == Spec => []IndInv
<1>1. Init => IndInv
  BY InitIndInv
<1> QED
  BY <1>1, StepKeeps, PTL DEF Spec
-----------------------------------------------------------------------------
(* The server's log. *)

\* What the serving process prints goes to the terminal, or to a client whose
\* connection a process that waits for ever holds.
LogInv ==
  /\ stdout = NoClient \/ stdout \in held
  /\ logged \in [Clients -> SUBSET {"line", "status line"}]
  /\ \A c \in Clients : logged[c] # {} => c \in held

\* Printing, in a process that hands nothing over.
LEMMA LogKeeps ==
  ASSUME IndInv, LogInv, UNCHANGED <<held, stdout>>,
         NEW what \in {"line", "status line"}, Log(what)
  PROVE  LogInv'
<1>1. CASE stdout = NoClient \/ rst[stdout]
  BY <1>1 DEF LogInv, Log
<1>2. CASE ~(stdout = NoClient \/ rst[stdout])
  <2>1. stdout \in held /\ held \subseteq Clients
    BY <1>2 DEF LogInv, IndInv, BaseInv, TransactionTypes
  <2>2. logged' = [logged EXCEPT ![stdout] = @ \cup {what}]
    BY <1>2 DEF Log
  <2>3. logged \in [Clients -> SUBSET {"line", "status line"}]
    BY DEF LogInv
  <2>4. logged[stdout] \cup {what} \in SUBSET {"line", "status line"}
    BY <2>1, <2>3
  <2>5. logged' \in [Clients -> SUBSET {"line", "status line"}]
    BY <2>2, <2>3, <2>4
  <2>6. \A c \in Clients : c # stdout => logged'[c] = logged[c]
    BY <2>2, <2>3
  <2> QED
    BY <2>1, <2>5, <2>6 DEF LogInv
<1> QED
  BY <1>1, <1>2

LEMMA LogStep == IndInv /\ LogInv /\ [Next]_vars => LogInv'
<1> SUFFICES ASSUME IndInv, LogInv, [Next]_vars PROVE LogInv'
  OBVIOUS
<1>1. ASSUME UNCHANGED heldVars PROVE LogInv'
  BY <1>1 DEF heldVars, LogInv
<1>2. CASE ExecveFails
  <2>1. held' = held \cup {cur} /\ stdout' = cur /\ logged' = logged
    BY <1>2 DEF ExecveFails
  <2> QED
    BY <2>1 DEF LogInv
<1>3. CASE Accept
  BY <1>3, LogKeeps DEF Accept
<1>4. CASE RequestLine
  <2>1. UNCHANGED <<held, stdout>> /\ (Log("line") \/ UNCHANGED logged)
    BY <1>4 DEF RequestLine
  <2>2. CASE UNCHANGED logged
    BY <1>1, <2>1, <2>2 DEF heldVars
  <2> QED
    BY <2>1, <2>2, LogKeeps
<1>5. CASE HeaderLine
  BY <1>5, LogKeeps DEF HeaderLine
<1>6. CASE serve_static
  BY <1>6, LogKeeps DEF serve_static
<1>7. CASE PutDone
  BY <1>7, LogKeeps DEF PutDone
<1>8. CASE PostStore
  BY <1>8, LogKeeps DEF PostStore
<1>9. CASE UNCHANGED vars
  BY <1>1, <1>9 DEF vars
<1>10. CASE \E c \in Clients : Connect(c) \/ Send(c) \/ Shutdown(c) \/ Reset(c)
  BY <1>1, <1>10 DEF Connect, Send, Shutdown, Reset, serverVars
<1>11. CASE Fork \/ Wait \/ Execve \/ CgiExits
  BY <1>1, <1>11 DEF Fork, Wait, Execve, CgiExits
<1>12. CASE \/ Close \/ HeadersDone \/ NotImplemented \/ GetRefused \/ serve_dynamic
            \/ PutRefused \/ PutOpenFails \/ PutOpen \/ PutChunk
            \/ PostRefused \/ PostMalloc \/ PostRead \/ PostOpenFails
  <2>1. UNCHANGED heldVars
    BY <1>12 DEF Close, HeadersDone, NotImplemented, GetRefused, serve_dynamic, PutRefused,
       PutOpenFails, PutOpen, PutChunk, PostRefused, PostMalloc, PostRead, PostOpenFails
  <2> QED
    BY <1>1, <2>1
<1> QED
  BY <1>2, <1>3, <1>4, <1>5, <1>6, <1>7, <1>8, <1>9, <1>10, <1>11, <1>12 DEF Next, Server, Child

LEMMA LogInductive == Spec => []LogInv
<1>1. Init => LogInv
  BY DEF Init, LogInv
<1> QED
  BY <1>1, LogStep, Inductive, PTL DEF Spec
-----------------------------------------------------------------------------
(* What the invariants say to a client. *)

\* One transaction, one response (doit and the functions it calls): a
\* transaction sends at most one status line, exactly one if the client
\* completed its header lines and did not reset; and only a client whose CGI
\* program could not be executed gets anything else, the log of the child that
\* serves on with that client's socket as its stdout (tiny.c 251).
THEOREM EveryTransactionHasOneResponse == Spec => []OneResponse
<1>1. IndInv /\ LogInv => OneResponse
  <2> SUFFICES ASSUME IndInv, LogInv PROVE OneResponse
    OBVIOUS
  <2>1. TypeOK
    BY DEF IndInv, BaseInv, TransactionTypes, LogInv, TypeOK
  <2>2. ASSUME NEW c \in Clients
        PROVE  /\ Len(replies[c]) <= 1
               /\ status[c] = "closed" /\ rcvd[c] >= Header /\ ~rst[c] => Len(replies[c]) = 1
    <3>1. replies[c] = <<>> \/ \E x : replies[c] = <<x>>
      BY DEF IndInv, ReplyInv
    <3>2. status[c] = "closed" /\ rcvd[c] >= Header /\ ~rst[c] => replies[c] # <<>>
      BY DEF IndInv, ReplyInv
    <3>3. Len(<<>>) = 0 /\ \A x : Len(<<x>>) = 1
      OBVIOUS
    <3>4. Len(replies[c]) \in {0, 1} /\ (replies[c] # <<>> => Len(replies[c]) = 1)
      BY <3>1, <3>3
    <3> QED
      <4>1. PICK n \in {0, 1} : n = Len(replies[c]) /\ n <= 1
        BY <3>4
      <4> QED
        BY <3>2, <3>4, <4>1
  <2> QED
    BY <2>1, <2>2 DEF OneResponse, LogInv
<1> QED
  BY <1>1, Inductive, LogInductive, PTL

\* Between two transactions of main's loop no file, buffer, child or connection
\* of the last one is left, but for the connections of failed CGI programs.
THEOREM NothingIsLeft == Spec => []NothingLeft
<1>1. IndInv => NothingLeft
  <2> SUFFICES ASSUME IndInv, pc = "accept"
               PROVE  /\ outfd = <<>> /\ ~allocated /\ cgi = "none"
                      /\ {c \in Clients : status[c] = "open"} = held
    BY DEF NothingLeft
  <2>1. outfd = <<>> /\ ~allocated /\ cgi = "none"
    BY DEF IndInv, ResourceInv
  <2>2. cur \notin Clients /\ held \subseteq Clients
    BY TinyAssumption DEF IndInv, BaseInv, TransactionTypes
  <2> QED
    BY <2>1, <2>2 DEF IndInv, OpenInv
<1> QED
  BY <1>1, Inductive, PTL

\* A file is stored as it was sent: the response of serve_put, and of
\* serve_post to a plain body, counts exactly the bytes announced and sent, and
\* the file holds them unless the disk took less.
THEOREM UploadsAreExact == Spec => []UploadExact
<1>1. IndInv => UploadExact
  <2> SUFFICES ASSUME IndInv, NEW c \in Clients, NEW k \in DOMAIN replies[c],
                      PlainUpload(c), replies[c][k].code \in {"200", "201"}
               PROVE  /\ replies[c][k].n = Len(Uploaded(c))
                      /\ cur = c /\ ~short => disk[upload_path(parsed.uri)].content = Uploaded(c)
    BY DEF UploadExact
  <2>1. PICK x : replies[c] = <<x>>
    BY DEF IndInv, ReplyInv
  <2>2. replies[c][k] = x
    BY <2>1
  <2>3. Stored(c, x)
    BY <2>1 DEF IndInv, StoredInv
  <2> QED
    BY <2>2, <2>3 DEF Stored
<1> QED
  BY <1>1, Inductive, PTL
=============================================================================
