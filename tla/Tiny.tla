-------------------------------- MODULE Tiny --------------------------------
(***************************************************************************)
(* The Tiny web server (Chapter11/tiny_web/tiny.c): one transaction after  *)
(* the other.  A request is a stream of items: the request line, the       *)
(* header lines (one item), the empty line, and the bytes of the body.  A  *)
(* client may stop, end its stream or reset the connection between any two *)
(* of them.  A read that has nothing to return is a step that is not       *)
(* enabled.  URIs and file names are sequences of path segments.           *)
(***************************************************************************)
EXTENDS Integers, Sequences, FiniteSets, FiniteSetsExt, SequencesExt

CONSTANTS Clients, NoClient,
          Requests,       \* the requests each client may make: records of
                          \* method, uri, length (Content-Length, -1: none),
                          \* type (plain or multipart) and body
          Files,          \* [paths -> [mode, content]]: the disk at the start
          FormName,       \* the filename="..." of a form's file part
          MAXBUF, MAX_UPLOAD

Uploads == "uploads"       \* UPLOAD_DIR

ASSUME TinyAssumption ==
  /\ NoClient \notin Clients
  /\ \A c \in Clients : \A r \in Requests[c] :
       r.length \in Int /\ Len(r.uri) > 0 /\ r.body \in Seq(ToSet(r.body))
  /\ MAXBUF \in Nat \ {0} /\ MAX_UPLOAD \in Nat

VARIABLES
  req, sent, shut, rst,   \* clients: request, items sent, stream ended, reset
  acceptq, rcvd, status,  \* connections: waiting, items read, none/open/closed
  replies,                \* status lines of the responses sent to each client
  disk,                   \* the files that exist
  pc, cur,                \* main and doit
  parsed, line, content_length, content_type,   \* doit's and read_requesthdrs' buffers
  remaining, outfd,       \* serve_put; outfd is the path, <<>> when none is open
  body, allocated,        \* serve_post: what body holds, and whether it is allocated
  cgi,                    \* the forked child: none, forked, running, zombie
  held,                   \* connections a process that waits for ever keeps open
  stdout,                 \* where the serving process prints: a client, or NoClient (the terminal)
  logged,                 \* what stdout has carried to each client: lines, status lines
  short                   \* history: a write to outfd was cut short

clientVars == <<req, sent, shut, rst>>
connVars == <<acceptq, rcvd, status, replies>>
hdrVars == <<parsed, line, content_length, content_type>>
fileVars == <<disk, remaining, outfd, body, allocated, short>>
heldVars == <<held, stdout, logged>>
vars == <<clientVars, connVars, hdrVars, fileVars, pc, cur, cgi, heldVars>>

Queued(c) == \E k \in DOMAIN acceptq : acceptq[k] = c
Connected(c) == status[c] = "open" \/ Queued(c)
Available(c) == sent[c] - rcvd[c]
Ended(c) == Available(c) = 0 /\ (shut[c] \/ rst[c])
HeaderItems == <<"request", "fields", "blank">>
Header == Len(HeaderItems)

Garbage == [method |-> "garbage", uri |-> <<"garbage">>]

Init ==
  /\ req \in [Clients -> UNION {Requests[c] : c \in Clients}]
  /\ \A c \in Clients : req[c] \in Requests[c]
  /\ sent = [c \in Clients |-> 0] /\ rcvd = [c \in Clients |-> 0]
  /\ shut = [c \in Clients |-> FALSE] /\ rst = [c \in Clients |-> FALSE]
  /\ acceptq = <<>> /\ status = [c \in Clients |-> "none"]
  /\ replies = [c \in Clients |-> <<>>]
  /\ disk = Files
  /\ pc = "accept" /\ cur = NoClient
  /\ parsed = Garbage /\ line = "stale" /\ content_length = -1 /\ content_type = "plain"
  /\ remaining = 0 /\ outfd = <<>> /\ short = FALSE
  /\ body = <<>> /\ allocated = FALSE
  /\ cgi = "none" /\ held = {} /\ stdout = NoClient /\ logged = [c \in Clients |-> {}]
-----------------------------------------------------------------------------
(* Clients. *)

serverVars == <<rcvd, status, replies, hdrVars, fileVars, pc, cur, cgi, heldVars>>

Connect(c) ==
  /\ status[c] = "none" /\ ~Queued(c)
  /\ acceptq' = Append(acceptq, c)
  /\ UNCHANGED <<clientVars, serverVars>>

Send(c) ==
  /\ Connected(c) /\ ~shut[c] /\ ~rst[c] /\ sent[c] < Header + Len(req[c].body)
  /\ sent' = [sent EXCEPT ![c] = @ + 1]
  /\ UNCHANGED <<req, shut, rst, acceptq, serverVars>>

Shutdown(c) ==
  /\ Connected(c) /\ ~shut[c] /\ ~rst[c]
  /\ shut' = [shut EXCEPT ![c] = TRUE]
  /\ UNCHANGED <<req, sent, rst, acceptq, serverVars>>

Reset(c) ==
  /\ Connected(c) /\ ~rst[c]
  /\ rst' = [rst EXCEPT ![c] = TRUE]
  /\ UNCHANGED <<req, sent, shut, acceptq, serverVars>>
-----------------------------------------------------------------------------
(* main and doit. *)

\* Writing to a client that has reset the connection fails; Tiny goes on.
Reply(code, n) ==
  replies' = IF rst[cur] THEN replies
             ELSE [replies EXCEPT ![cur] = Append(@, [code |-> code, n |-> n])]

\* fprintf(stdout, ...), which a terminal and a socket get line by line.
Log(what) ==
  logged' = IF stdout = NoClient \/ rst[stdout] THEN logged
            ELSE [logged EXCEPT ![stdout] = @ \cup {what}]

\* clienterror and the other responses, after which doit returns.
Answer(code, n) == Reply(code, n) /\ pc' = "close"

Accept ==
  /\ pc = "accept" /\ acceptq # <<>>
  /\ cur' = Head(acceptq) /\ acceptq' = Tail(acceptq)
  /\ status' = [status EXCEPT ![Head(acceptq)] = "open"]
  /\ pc' = "request"
  /\ Log("line")
  /\ UNCHANGED <<clientVars, rcvd, replies, hdrVars, fileVars, cgi, held, stdout>>

Close ==
  /\ pc = "close"
  /\ status' = [status EXCEPT ![cur] = IF cur \in held THEN @ ELSE "closed"]
  /\ pc' = "accept" /\ cur' = NoClient
  /\ UNCHANGED <<clientVars, acceptq, rcvd, replies, hdrVars, fileVars, cgi, heldVars>>

\* The request line: 0 at end of file returns; -1 is not 0, so after an error
\* the line is what the array held, possibly an earlier request.
RequestLine ==
  /\ pc = "request"
  /\ \/ /\ Available(cur) > 0
        /\ rcvd' = [rcvd EXCEPT ![cur] = @ + 1]
        /\ parsed' = [method |-> req[cur].method, uri |-> req[cur].uri]
        /\ pc' = "headers" /\ Log("line")
     \/ /\ Ended(cur) /\ ~rst[cur]
        /\ pc' = "close" /\ UNCHANGED <<rcvd, parsed, logged>>
     \/ /\ Ended(cur) /\ rst[cur]
        /\ parsed' \in {parsed, Garbage}
        /\ pc' = "headers" /\ Log("line") /\ UNCHANGED rcvd
  /\ line' = "stale" /\ content_length' = -1 /\ content_type' = "plain"
  /\ UNCHANGED <<clientVars, acceptq, status, replies, fileVars, cur, cgi, held, stdout>>

\* read_requesthdrs: a turn of the loop evaluates the line at hand and reads
\* the next one.  At end of file and after an error rio_readlineb leaves the
\* array alone; before the first line it holds anything.
HeaderLine ==
  /\ pc = "headers" /\ line # "blank"
  /\ Log("line")
  /\ content_length' = IF line = "fields" THEN req[cur].length ELSE content_length
  /\ content_type' = IF line = "fields" THEN req[cur].type ELSE content_type
  /\ \/ /\ Available(cur) > 0
        /\ rcvd' = [rcvd EXCEPT ![cur] = @ + 1]
        /\ line' = HeaderItems[rcvd[cur] + 1]
     \/ /\ Ended(cur) /\ UNCHANGED rcvd
        /\ line' \in IF line = "stale" THEN {"blank", "other"} ELSE {line}
  /\ UNCHANGED <<clientVars, acceptq, status, replies, parsed, fileVars, pc, cur, cgi, held, stdout>>

after_put_falls == "other"      \* mutant: no return after serve_put
after_put == "close"

HeadersDone ==
  /\ pc = "headers" /\ line = "blank"
  /\ pc' = CASE parsed.method = "PUT" -> "put" [] parsed.method = "POST" -> "post"
             [] parsed.method = "GET" -> "get" [] OTHER -> "other"
  /\ UNCHANGED <<clientVars, connVars, hdrVars, fileVars, cur, cgi, heldVars>>

NotImplemented ==
  /\ pc = "other"
  /\ Answer("501", 0)
  /\ UNCHANGED <<clientVars, acceptq, rcvd, status, hdrVars, fileVars, cur, cgi, heldVars>>
-----------------------------------------------------------------------------
(* GET. *)

is_static == \A k \in DOMAIN parsed.uri : parsed.uri[k] # "cgi-bin"

\* A URI that ends in '/' has an empty last segment.
parse_uri ==
  IF is_static /\ Last(parsed.uri) = "" THEN Front(parsed.uri) \o <<"home.html">> ELSE parsed.uri

GetRefused ==
  /\ pc = "get"
  /\ LET need == {"REG", IF is_static THEN "RUSR" ELSE "XUSR"} IN
       \/ parse_uri \notin DOMAIN disk /\ Answer("404", 0)
       \/ /\ parse_uri \in DOMAIN disk /\ ~(need \subseteq disk[parse_uri].mode)
          /\ Answer("403", 0)
  /\ UNCHANGED <<clientVars, acceptq, rcvd, status, hdrVars, fileVars, cur, cgi, heldVars>>

\* The response line carries the size of the file; whether open and mmap then
\* succeed does not change what happens next.
serve_static ==
  /\ pc = "get" /\ is_static
  /\ parse_uri \in DOMAIN disk /\ {"REG", "RUSR"} \subseteq disk[parse_uri].mode
  /\ Answer("200", Len(disk[parse_uri].content))
  /\ Log("status line")
  /\ UNCHANGED <<clientVars, acceptq, rcvd, status, hdrVars, fileVars, cur, cgi, held, stdout>>

serve_dynamic ==
  /\ pc = "get" /\ ~is_static
  /\ parse_uri \in DOMAIN disk /\ {"REG", "XUSR"} \subseteq disk[parse_uri].mode
  /\ Reply("200", 0)
  /\ pc' = "fork"
  /\ UNCHANGED <<clientVars, acceptq, rcvd, status, hdrVars, fileVars, cur, cgi, heldVars>>

dynFrame == <<clientVars, connVars, hdrVars, fileVars, cur>>

\* fork fails: wait(NULL) finds no child and returns.
Fork ==
  /\ pc = "fork"
  /\ \/ cgi' = "forked" /\ pc' = "wait"
     \/ cgi' = cgi /\ pc' = "close"
  /\ UNCHANGED <<dynFrame, heldVars>>

Execve == cgi = "forked" /\ cgi' = "running" /\ UNCHANGED <<dynFrame, pc, heldVars>>

\* execve fails: the child finds no child of its own to wait for, returns from
\* doit and goes on as the server, while its parent waits for it with the
\* connection open.  From here on pc is the child's, and the child prints to
\* the client: dup2 came before execve.
ExecveFails ==
  /\ cgi = "forked"
  /\ cgi' = "none" /\ pc' = "close" /\ held' = held \cup {cur} /\ stdout' = cur
  /\ UNCHANGED <<dynFrame, logged>>

CgiExits == cgi = "running" /\ cgi' = "zombie" /\ UNCHANGED <<dynFrame, pc, heldVars>>

Wait ==
  /\ pc = "wait" /\ cgi = "zombie"
  /\ cgi' = "none"
  /\ pc' = "close"
  /\ UNCHANGED <<dynFrame, heldVars>>
-----------------------------------------------------------------------------
(* PUT and POST. *)

\* The last segment, in UPLOAD_DIR.
upload_path(name) ==
  <<Uploads, IF Last(name) \in {"", ".", ".."} THEN "upload.bin" ELSE Last(name)>>

\* open with O_CREAT | O_TRUNC and mode 0644, then a write of bytes.
Written(path, bytes) ==
  [p \in DOMAIN disk \cup {path} |->
     IF p = path THEN [mode |-> {"REG", "RUSR"}, content |-> bytes] ELSE disk[p]]

\* What rio_readnb(want) returns: the bytes, fewer at end of file, none after
\* an error (and those read before it are lost).  It waits for the rest.
readnb_done(want) == Available(cur) >= want \/ shut[cur] \/ rst[cur]
readnb(want) ==
  IF Available(cur) < want /\ rst[cur] THEN <<>>
  ELSE LET from == rcvd[cur] - Header
       IN  SubSeq(req[cur].body, from + 1, from + Min({want, Available(cur)}))
Consume(want) == rcvd' = [rcvd EXCEPT ![cur] = @ + Min({want, Available(cur)})]

PutRefused ==
  /\ pc = "put" /\ content_length < 0
  /\ Reply("411", 0) /\ pc' = after_put
  /\ UNCHANGED <<clientVars, acceptq, rcvd, status, hdrVars, fileVars, cur, cgi, heldVars>>

\* open of the file to be written fails: 500.
PutOpenFails ==
  /\ pc = "put" /\ content_length >= 0
  /\ Reply("500", 0) /\ pc' = after_put
  /\ UNCHANGED <<clientVars, acceptq, rcvd, status, hdrVars, fileVars, cur, cgi, heldVars>>

PutOpen ==
  /\ pc = "put" /\ content_length >= 0
  /\ outfd' = upload_path(parsed.uri)
  /\ disk' = Written(upload_path(parsed.uri), <<>>)
  /\ remaining' = content_length /\ short' = FALSE
  /\ pc' = "putloop"
  /\ UNCHANGED <<clientVars, connVars, hdrVars, body, allocated, cur, cgi, heldVars>>

want_full == MAXBUF             \* mutant: sizeof(buf) whatever remains
want == Min({remaining, MAXBUF})

\* The result of rio_writen is not looked at: a full disk takes a part.
PutChunk ==
  /\ pc = "putloop" /\ remaining > 0
  /\ readnb_done(want) /\ readnb(want) # <<>>
  /\ Consume(want)
  /\ remaining' = remaining - Len(readnb(want))
  /\ \E k \in 0..Len(readnb(want)) :
       /\ disk' = Written(outfd, disk[outfd].content \o SubSeq(readnb(want), 1, k))
       /\ short' = (short \/ k < Len(readnb(want)))
  /\ UNCHANGED <<clientVars, acceptq, status, replies, hdrVars, outfd, body, allocated, pc, cur, cgi, heldVars>>

\* `n <= 0'.
broken_off_error == readnb(want) = <<>> /\ rst[cur]    \* mutant: `n < 0'
broken_off == readnb(want) = <<>>

PutDone ==
  /\ pc = "putloop"
  /\ \/ remaining <= 0 /\ UNCHANGED rcvd
     \/ remaining > 0 /\ readnb_done(want) /\ broken_off /\ Consume(want)
  /\ outfd' = <<>>
  /\ Reply("201", content_length - remaining) /\ pc' = after_put
  /\ Log("line")
  /\ UNCHANGED <<clientVars, acceptq, status, hdrVars, disk, remaining, body, allocated, short, cur, cgi, held, stdout>>

PostRefused ==
  /\ pc = "post" /\ (content_length < 0 \/ content_length > MAX_UPLOAD)
  /\ Answer(IF content_length < 0 THEN "411" ELSE "413", 0)
  /\ UNCHANGED <<clientVars, acceptq, rcvd, status, hdrVars, fileVars, cur, cgi, heldVars>>

PostMalloc ==
  /\ pc = "post" /\ content_length \in 0..MAX_UPLOAD
  /\ \/ allocated' = TRUE /\ pc' = "postloop" /\ UNCHANGED replies
     \/ Answer("500", 0) /\ UNCHANGED allocated
  /\ UNCHANGED <<clientVars, acceptq, rcvd, status, hdrVars, disk, remaining, outfd, body, short, cur, cgi, heldVars>>

\* The loop that fills the body, up to content_length or until n <= 0.
PostRead ==
  /\ pc = "postloop"
  /\ readnb_done(content_length)
  /\ body' = readnb(content_length) /\ Consume(content_length)
  /\ pc' = "store"
  /\ UNCHANGED <<clientVars, acceptq, status, replies, hdrVars, disk, remaining, outfd, allocated, short, cur, cgi, heldVars>>

\* Positions of a multipart body after position k that hold one of these.
After(b, k, marks) == {j \in DOMAIN b : j > k /\ b[j] \in marks}

\* The first part: where its header is, where its content ends; 0: not found.
First(positions) == IF positions = {} THEN 0 ELSE Min(positions)
part_header(b) ==
  LET p == First(After(b, 0, {"sep"})) IN IF p = 0 THEN 0 ELSE First(After(b, p, {"field", "file"}))
part_end(b) == First(After(b, part_header(b), {"sep"}))

\* What is stored, and under which name.
content ==
  IF content_type = "multipart" /\ part_header(body) # 0 /\ part_end(body) # 0
  THEN SubSeq(body, part_header(body) + 1, part_end(body) - 1) ELSE body
filename ==
  IF content_type = "multipart" /\ part_header(body) # 0 /\ body[part_header(body)] = "file"
  THEN FormName ELSE parsed.uri

PostStore ==
  /\ pc = "store"
  /\ \E k \in 0..Len(content) :
       /\ disk' = Written(upload_path(filename), SubSeq(content, 1, k))
       /\ short' = (k < Len(content))
  /\ body' = <<>> /\ allocated' = FALSE
  /\ Answer("200", Len(content))
  /\ Log("line")
  /\ UNCHANGED <<clientVars, acceptq, rcvd, status, hdrVars, remaining, outfd, cur, cgi, held, stdout>>

freed_not == TRUE               \* mutant: free(body) forgotten on this path
freed == FALSE

PostOpenFails ==
  /\ pc = "store"
  /\ body' = <<>> /\ allocated' = freed
  /\ Answer("500", 0)
  /\ UNCHANGED <<clientVars, acceptq, rcvd, status, hdrVars, disk, remaining, outfd, short, cur, cgi, heldVars>>

Server ==
  \/ Accept \/ Close \/ RequestLine \/ HeaderLine \/ HeadersDone \/ NotImplemented
  \/ GetRefused \/ serve_static \/ serve_dynamic \/ Fork \/ Wait
  \/ PutRefused \/ PutOpenFails \/ PutOpen \/ PutChunk \/ PutDone
  \/ PostRefused \/ PostMalloc \/ PostRead \/ PostStore \/ PostOpenFails
Child == Execve \/ ExecveFails \/ CgiExits

Next ==
  \/ Server \/ Child
  \/ \E c \in Clients : Connect(c) \/ Send(c) \/ Shutdown(c) \/ Reset(c)

Spec == Init /\ [][Next]_vars

\* The server and the CGI programs run; clients need not do anything.
FairSpec == Spec /\ WF_vars(Server) /\ WF_vars(Child)
-----------------------------------------------------------------------------
(* Properties. *)

TransactionTypes ==
  /\ sent \in [Clients -> Nat] /\ rcvd \in [Clients -> Nat]
  /\ \A c \in Clients : rcvd[c] <= sent[c]
  /\ shut \in [Clients -> BOOLEAN] /\ rst \in [Clients -> BOOLEAN]
  /\ acceptq \in Seq(Clients) /\ status \in [Clients -> {"none", "open", "closed"}]
  /\ cur \in Clients \cup {NoClient} /\ (cur = NoClient <=> pc = "accept")
  /\ line \in {"stale", "other", "request", "fields", "blank"} /\ content_length \in Int
  /\ remaining \in Int /\ allocated \in BOOLEAN /\ short \in BOOLEAN
  /\ cgi \in {"none", "forked", "running", "zombie"} /\ held \subseteq Clients

\* Type invariant.
TypeOK ==
  /\ TransactionTypes
  /\ stdout \in Clients \cup {NoClient}
  /\ logged \in [Clients -> SUBSET {"line", "status line"}]

\* One transaction, one response: a transaction sends at most one status line,
\* and exactly one by the time it is closed if the client completed its header
\* lines and did not reset.  Nothing else reaches a client, but for one whose
\* CGI program could not be executed: its socket is the stdout of the child
\* that serves on, and it gets what that prints, the status lines of other
\* clients' static pages included (tiny.c 211, 251).
OneResponse ==
  /\ TypeOK
  /\ \A c \in Clients :
       /\ Len(replies[c]) <= 1
       /\ logged[c] # {} => c \in held
       /\ status[c] = "closed" /\ rcvd[c] >= Header /\ ~rst[c] => Len(replies[c]) = 1

\* Between two transactions nothing is left of the last one, whichever way it
\* ended: no open file, no buffer, no child that was not waited for, and no
\* connection but those of failed CGI programs.
NothingLeft ==
  pc = "accept" =>
    /\ outfd = <<>> /\ ~allocated /\ cgi = "none"
    /\ {c \in Clients : status[c] = "open"} = held

\* The announced part of the body that the client really sent.
Uploaded(c) == SubSeq(req[c].body, 1, Min({req[c].length, sent[c] - Header}))

PlainUpload(c) ==
  req[c].method = "PUT" \/ (req[c].method = "POST" /\ req[c].type = "plain")

\* A file is stored as it was sent: the response to a PUT, and to a POST that
\* is not a form, counts the bytes of the body that were announced and sent,
\* neither more (what follows the body is left alone) nor fewer, and the file
\* holds exactly them unless the disk took less.
UploadExact ==
  \A c \in Clients : \A k \in DOMAIN replies[c] :
    PlainUpload(c) /\ replies[c][k].code \in {"200", "201"} =>
      /\ replies[c][k].n = Len(Uploaded(c))
      /\ cur = c /\ ~short => disk[upload_path(parsed.uri)].content = Uploaded(c)

\* Clients send on or end their stream, at any point of their request.
ClientsGoOn == \A c \in Clients : WF_vars(Send(c) \/ Shutdown(c))

\* read_requesthdrs (tiny.c 153) has got a line that is not empty and will get
\* no other: its loop turns for ever.
EndlessHeaders == pc = "headers" /\ Ended(cur) /\ line \notin {"stale", "blank"}

\* Every client's turn comes, and its connection is closed, wherever other
\* clients end or reset their streams: only header lines that end before the
\* empty line stop the server for good (tiny.c 153), and only a CGI program
\* that cannot be executed keeps a connection open.
TurnsCome ==
  ClientsGoOn =>
    \A c \in Clients : Connected(c) ~> status[c] = "closed" \/ c \in held \/ EndlessHeaders

\* The first file of a multipart body, read from its parts.
first_file(b) ==
  LET h == First({j \in DOMAIN b : b[j] = "file"}) IN
    SubSeq(b, h + 1, First(After(b, h, {"sep"})) - 1)
has_file(b) == \E j \in DOMAIN b : b[j] = "file" /\ After(b, j, {"sep"}) # {}

\* serve_post takes the first file of a form: what it is about to store is the
\* content of the first part that has a file name (tiny.c 331).
FirstFileStored ==
  pc = "store" /\ content_type = "multipart" /\ has_file(body) => content = first_file(body)
=============================================================================
