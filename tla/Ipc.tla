--------------------------------- MODULE Ipc ---------------------------------
(***************************************************************************)
(* The three demonstrations of Chapter12/12.1/experiments/ipc_demo.c: a    *)
(* request and a reply over a Unix-domain socket, a message in a shared    *)
(* mapping announced by a semaphore, and a counter in an eventfd, each     *)
(* between the program and a child it forks and waits for.  Every call may *)
(* fail; die() ends the process.  The request and the reply are counted in *)
(* pieces, what one write takes.                                           *)
(***************************************************************************)
EXTENDS Integers, Sequences

CONSTANT Pieces      \* of the request, and of the reply

VARIABLES
  todo,              \* demonstrations still to run, the current one first
  ppc, pexit,        \* parent: position; exit code, -1 while it runs
  cpc, cexit,        \* the child of the current demonstration
  named,             \* the socket file exists
  listeners,         \* who has the listening socket open
  link,              \* connection: none, queued, up or reset
  connfd,            \* the parent has its end open
  wrote, took,       \* pieces of the request written and read
  answered,          \* pieces of the reply written
  ready, message,    \* shared_region: semaphore and message
  counter,           \* of the eventfd
  seen               \* what the children of each demonstration printed

parent == <<todo, ppc, pexit>>
socket == <<named, listeners, link, connfd, wrote, took, answered>>
vars == <<parent, cpc, cexit, socket, ready, message, counter, seen>>

Demos == {"uds", "mmap", "eventfd"}
Programs == {<<"uds">>, <<"mmap">>, <<"eventfd">>, <<"uds", "mmap", "eventfd">>}
demo == Head(todo)
Empty == ""           \* what fresh memory reads as

Init ==
  /\ todo \in Programs /\ ppc = "setup" /\ pexit = -1 /\ cpc = "none" /\ cexit = -1
  /\ named \in BOOLEAN /\ listeners = {} /\ link = "none" /\ connfd = FALSE
  /\ wrote = 0 /\ took = 0 /\ answered = 0
  /\ ready = 0 /\ message = Empty /\ counter = 0
  /\ seen = [d \in Demos |-> "nothing"]

\* With the last descriptor of the listening socket its queue is reset.
AfterClose == link' = IF link = "queued" /\ listeners' = {} THEN "reset" ELSE link
-----------------------------------------------------------------------------
(* The parent. *)

ParentTo(l) == ppc' = l /\ UNCHANGED <<todo, pexit>>

\* exit: the kernel closes its descriptors.
ParentExit(code) ==
  /\ ppc' = "done" /\ pexit' = code /\ connfd' = FALSE
  /\ listeners' = listeners \ {"parent"}
  /\ AfterClose
  /\ UNCHANGED <<todo, cpc, cexit, wrote, took, answered, ready, message, counter, seen>>

\* unlink, socket, bind, listen; mmap, sem_init; eventfd.
Setup ==
  /\ ppc = "setup"
  /\ ParentTo("fork")
  /\ IF demo = "uds"
     THEN /\ named' = TRUE /\ listeners' = {"parent"}
          /\ UNCHANGED <<ready, message, counter>>
     ELSE /\ ready' = 0 /\ message' = Empty /\ counter' = 0   \* fresh memory is zero
          /\ UNCHANGED <<named, listeners>>
  /\ UNCHANGED <<cpc, cexit, link, connfd, wrote, took, answered, seen>>

Fork ==
  /\ ppc = "fork"
  /\ ParentTo(CASE demo = "uds" -> "accept" [] demo = "mmap" -> "store" [] OTHER -> "signal")
  /\ cpc' = (CASE demo = "uds" -> "connect" [] demo = "mmap" -> "sem_wait" [] OTHER -> "efdread")
  /\ cexit' = -1
  /\ listeners' = IF demo = "uds" THEN {"parent", "child"} ELSE {}
  /\ UNCHANGED <<named, link, connfd, wrote, took, answered, ready, message, counter, seen>>

Accept ==
  /\ ppc = "accept" /\ link = "queued"
  /\ link' = "up" /\ connfd' = TRUE
  /\ ParentTo("read")
  /\ UNCHANGED <<cpc, cexit, named, listeners, wrote, took, answered, ready, message, counter, seen>>

\* One read: what there is of the request, nothing at the end of the stream.
ReadRequest ==
  /\ ppc = "read" /\ (wrote > 0 \/ cpc = "done")
  /\ took' \in IF wrote > 0 THEN 1..wrote ELSE {0}
  /\ ParentTo("write")
  /\ UNCHANGED <<cpc, cexit, named, listeners, link, connfd, wrote, answered, ready, message, counter, seen>>

\* write_all of the reply; the socket of a child that is gone raises SIGPIPE.
WriteReply ==
  /\ ppc = "write" /\ answered < Pieces /\ cpc # "done"
  /\ answered' \in (answered + 1)..Pieces
  /\ ParentTo("write")
  /\ UNCHANGED <<cpc, cexit, named, listeners, link, connfd, wrote, took, ready, message, counter, seen>>

ReplyWritten ==
  /\ ppc = "write" /\ answered = Pieces
  /\ ParentTo("close")
  /\ UNCHANGED <<cpc, cexit, socket, ready, message, counter, seen>>

WriteKilled == ppc = "write" /\ answered < Pieces /\ cpc = "done" /\ ParentExit(141) /\ UNCHANGED named

\* close(connfd), close(listenfd).
Close ==
  /\ ppc = "close"
  /\ connfd' = FALSE /\ listeners' = listeners \ {"parent"}
  /\ ParentTo("wait")
  /\ UNCHANGED <<cpc, cexit, named, link, wrote, took, answered, ready, message, counter, seen>>

Store ==
  /\ ppc = "store"
  /\ message' = "hello" /\ ParentTo("post")
  /\ UNCHANGED <<cpc, cexit, socket, ready, counter, seen>>

Post ==
  /\ ppc = "post"
  /\ ready' = ready + 1 /\ ParentTo("wait")
  /\ UNCHANGED <<cpc, cexit, socket, message, counter, seen>>

\* write_all of the value 3 adds it to the counter.
Signal ==
  /\ ppc = "signal"
  /\ counter' = counter + 3 /\ ParentTo("wait")
  /\ UNCHANGED <<cpc, cexit, socket, ready, message, seen>>

\* wait_child; then the next demonstration, or the end of main.
WaitChild ==
  /\ ppc = "wait" /\ cpc = "done" /\ cexit = 0
  /\ ParentTo("cleanup")
  /\ UNCHANGED <<cpc, cexit, socket, ready, message, counter, seen>>
ChildAbnormal == ppc = "wait" /\ cpc = "done" /\ cexit # 0 /\ ParentExit(1) /\ UNCHANGED named

NextDemo ==
  /\ ppc = "cleanup" /\ Len(todo) > 1
  /\ todo' = Tail(todo) /\ ppc' = "setup" /\ cpc' = "none"
  /\ named' = IF demo = "uds" THEN FALSE ELSE named
  /\ UNCHANGED <<pexit, cexit, listeners, link, connfd, wrote, took, answered,
                 ready, message, counter, seen>>
MainReturns ==
  /\ ppc = "cleanup" /\ Len(todo) = 1
  /\ ppc' = "done" /\ pexit' = 0
  /\ named' = IF demo = "uds" THEN FALSE ELSE named
  /\ UNCHANGED <<todo, cpc, cexit, listeners, link, connfd, wrote, took, answered,
                 ready, message, counter, seen>>

\* A call fails: die.  The first demonstration may fail before or after bind.
die ==
  /\ ppc \in {"setup", "fork", "accept", "read", "write", "post", "signal", "wait"}
  /\ ParentExit(1)
  /\ IF ppc = "setup" /\ demo = "uds" THEN named' \in BOOLEAN ELSE UNCHANGED named
-----------------------------------------------------------------------------
(* The child. *)

ChildTo(l) == cpc' = l /\ UNCHANGED <<parent, cexit, named, connfd>>

ChildExit(code) ==
  /\ cpc' = "done" /\ cexit' = code
  /\ listeners' = listeners \ {"child"}
  /\ AfterClose
  /\ UNCHANGED <<parent, named, connfd, wrote, took, answered, message, counter>>

Connect ==
  /\ cpc = "connect"
  /\ link' = "queued" /\ ChildTo("request")
  /\ UNCHANGED <<listeners, wrote, took, answered, ready, message, counter, seen>>

\* write_all of the request.
WriteRequest ==
  /\ cpc = "request" /\ wrote < Pieces /\ (link = "queued" \/ connfd)
  /\ wrote' \in (wrote + 1)..Pieces
  /\ ChildTo("request")
  /\ UNCHANGED <<listeners, link, took, answered, ready, message, counter, seen>>

RequestWritten ==
  /\ cpc = "request" /\ wrote = Pieces
  /\ ChildTo("reply")
  /\ UNCHANGED <<listeners, link, wrote, took, answered, ready, message, counter, seen>>

RequestKilled ==
  /\ cpc = "request" /\ wrote < Pieces /\ link # "queued" /\ ~connfd
  /\ ChildExit(141) /\ UNCHANGED <<ready, seen>>

\* One read: some of the reply, or nothing when the parent has gone.
ReadReply ==
  /\ cpc = "reply" /\ (answered > 0 \/ (link = "up" /\ ~connfd))
  /\ seen' = [seen EXCEPT !["uds"] = IF answered > 0 THEN "reply" ELSE "empty"]
  /\ ChildExit(0) /\ UNCHANGED ready

SemWait ==
  /\ cpc = "sem_wait" /\ ready > 0
  /\ ready' = ready - 1
  /\ ChildTo("load")
  /\ UNCHANGED <<listeners, link, wrote, took, answered, message, counter, seen>>

Load ==
  /\ cpc = "load"
  /\ seen' = [seen EXCEPT !["mmap"] = message]
  /\ ChildExit(0) /\ UNCHANGED ready

\* read of an eventfd takes the whole counter and waits while it is zero.
ReadCounter ==
  /\ cpc = "efdread" /\ counter > 0
  /\ seen' = [seen EXCEPT !["eventfd"] = IF counter = 3 THEN "three" ELSE "other"]
  /\ cpc' = "done" /\ cexit' = 0 /\ counter' = 0
  /\ UNCHANGED <<parent, socket, ready, message>>

child_die ==
  /\ cpc \in {"connect", "request", "reply", "sem_wait", "efdread"}
  /\ ChildExit(1) /\ UNCHANGED <<ready, seen>>
-----------------------------------------------------------------------------
ParentSteps ==
  \/ Setup \/ Fork \/ Accept \/ ReadRequest \/ WriteReply \/ ReplyWritten \/ WriteKilled \/ Close
  \/ Store \/ Post \/ Signal \/ WaitChild \/ ChildAbnormal \/ NextDemo \/ MainReturns
ChildSteps ==
  \/ Connect \/ WriteRequest \/ RequestWritten \/ RequestKilled \/ ReadReply
  \/ SemWait \/ Load \/ ReadCounter

\* The child that waits for a parent that has failed: on the semaphore, on the
\* counter, or on a listening socket that only its own descriptor keeps open.
Orphaned ==
  /\ ppc = "done" /\ pexit # 0
  /\ \/ cpc = "sem_wait" /\ ready = 0
     \/ cpc = "efdread" /\ counter = 0
     \/ cpc = "reply" /\ link = "queued" /\ listeners = {"child"}

\* The parent that waits in accept for a child that could not connect.
AcceptsNobody == ppc = "accept" /\ cpc = "done" /\ link # "queued"

\* Nothing is left to do, or nothing can be done.
Stopped ==
  /\ AcceptsNobody \/ (ppc = "done" /\ (cpc \in {"none", "done"} \/ Orphaned))
  /\ UNCHANGED vars

Next == ParentSteps \/ die \/ ChildSteps \/ child_die \/ Stopped

Spec == Init /\ [][Next]_vars
-----------------------------------------------------------------------------
(* Properties. *)

\* Type invariant.
TypeOK ==
  /\ ppc \in {"setup", "fork", "accept", "read", "write", "close", "store", "post", "signal",
              "wait", "cleanup", "done"}
  /\ cpc \in {"none", "connect", "request", "reply", "sem_wait", "load", "efdread", "done"}
  /\ pexit \in {-1, 0, 1, 141} /\ cexit \in {-1, 0, 1, 141}
  /\ listeners \subseteq {"parent", "child"} /\ link \in {"none", "queued", "up", "reset"}
  /\ wrote \in 0..Pieces /\ took \in 0..wrote /\ answered \in 0..Pieces
  /\ ready \in 0..1 /\ message \in {Empty, "hello"} /\ counter \in {0, 3}

Expected == [uds |-> "reply", mmap |-> "hello", eventfd |-> "three"]

\* What a child prints is what the parent wrote for it, never the memory as it
\* was before; and a parent that goes on to the next demonstration, or
\* reports success, leaves behind one whose child has printed it.
PrintedExact ==
  /\ seen["mmap"] \in {"nothing", "hello"} /\ seen["eventfd"] \in {"nothing", "three"}
  /\ todo # <<>> /\ ppc = "cleanup" => seen[demo] = Expected[demo]

\* Both processes end, whichever call fails, except in these situations.
IpcEnds ==
  /\ <>(ppc = "done" \/ AcceptsNobody)
  /\ cpc # "none" ~> cpc \in {"none", "done"} \/ Orphaned
=============================================================================
