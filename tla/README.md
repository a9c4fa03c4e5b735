# Verification of the concurrent programs of ComputerSystem

The repository is a set of study programs that follow the chapters of CS:APP.
Many of its chapters are notes and measurements. Its own logic is in the
programs of chapters 7 to 12: two shells and four smaller process and signal
programs, the Rio input/output package and a race on it, programs that talk and
pass open files over Unix-domain sockets, socket helpers, a web server and an
HTTP client, seven echo servers that use seven ways of serving clients, three
demonstrations of inter-process communication, a coroutine scheduler, an
interposed allocator; and, of the measurements, a hash set and a deadlock. This
directory holds TLA+ models of these programs, TLC configurations that check
them on small instances, and TLAPS proofs of the most important results for
every value of the constants.

## 1. Inventory

| Part | State it keeps | Operations | What makes it hard | What makes it correct |
|---|---|---|---|---|
| Job shell (`Chapter8/8.5-8.6/shell`) | job table, `fg_done`, signal mask, locals of `eval` | `eval`, `builtin_command`, `add_job`, `delete_job`, `list_jobs`, `sigchld_handler` | the handler interrupts main between any two instructions where SIGCHLD is open; signals merge; children end at any time; the table is bounded | the table is the picture of the unreaped children; the prompt comes back when, and only when, the foreground job is over; no zombie stays |
| First shell (`Chapter8/8.3-8.4/shell`) | the command line, the children | `parseline`, `builtin_command`, `eval` | background children end during a foreground wait and stay zombies | the wait is for its own child; no foreground program is left behind |
| wait (`Chapter8/8.3-8.4/wait`) | `pid[N]` | `order_wait`, `no_order_wait` | children end in any order; the wait past the last one | each child reported once, in order where asked |
| handler (`Chapter8/8.5-8.6/handler`) | `errno` | main's loop over `read`, the SIGCHLD handler | handler and main share `errno`; `read` is interrupted | main acts on its own errors, all children reaped |
| `sio_*` (`Chapter8/8.5-8.6/shell/csapp.c`) | digits of a number | `sio_ltoa`, `sio_putl` | the most negative number | the decimal text of the number |
| procmask (`Chapter8/8.5-8.6/sync`) | packed job list, mask | `addjob`, `deletejob`, handler, main's loop | as above; removal by swapping | `deletejob` always finds its job; main ends with all reaped |
| waitforsignal (`Chapter8/8.5-8.6/waitsig`) | `pid`, mask, handler frames | `sigsuspend` loop, two handlers | SIGINT wakes the sleep too; handlers nest | no wakeup lost, each round reports its own child |
| Rio (`Chapter10/rio`) | `rio_cnt`, `rio_bufptr`, `rio_buf` | `rio_readn`, `rio_writen`, `rio_readlineb`, `rio_readnb` | short reads, EINTR, errors, end of file between any two bytes | no byte lost or repeated, results as specified, caller's buffer respected |
| Race on a `rio_t` (`Chapter10/experiments/tsan_race.c`) | one `rio_t` in two threads | `rio_read` load by load and store by store | a data race | exact as long as calls do not overlap; readers end |
| Descriptor passing (`uds_passfd.c`, `passfd_send.c`, `passfd_recv.c`, `passfd_cpp.cpp`, `uds.h`, `unix_socket.hpp`) | descriptors of two processes, the message in flight, the shared offset, the socket's name | `send_fd`, `recv_fd`, bind, listen, accept, connect, fork | the file is open in two processes and in the kernel at once; each call may fail in one process while the other waits | handed over exactly once, read on from its offset in one piece, no name left, both processes end |
| `uds::Fd` (`unix_socket.hpp`) | `fd_` of each object | construction, move, `release`, `reset`, destruction | numbers are reused at once | one owner per open descriptor, no double close, no leak |
| Unix-domain echo server and client (`uds_server.c`, `uds_client.c`) | the name, one connection at a time, a line | start, line loop, ends by error and signal; the client's loop | the name outlives a killed server; each side waits for the other's line | answers exact, a restarted server serves, waiting for each other only over an unfinished line |
| Socket helpers (`Chapter11/socket/net.h`) | address list, sockets | `open_clientfd`, `open_serverfd` | every address may fail at two calls | one descriptor returned or none left |
| Iterative server and clients (`echo_server.c`, `echo_client.c`, `process_echo_client.c`) | one connection at a time | blocking read and write; the clients' loops | ignored results, SIGPIPE, each side waits for the other | echo promise kept, clients end; waiting for each other only over an unfinished line |
| HTTP client (`Chapter11/experiments/http_client.cpp`) | an easy handle with the options of the last request, body and error text | `get`, `post_json`, `perform`, the write callback | the handle keeps a pointer to a freed list; failed requests leave text behind | the request asked for, its own answer |
| Output buffer (`epoll_et_echo_server.c`) | `output`, `output_begin`, `output_end`, `output_capacity` | `append_output`, `flush_output` | compaction, capped doubling, `realloc` failure, partial writes | a bounded FIFO of bytes |
| Edge-triggered epoll server | connections, interest masks, event array | accept/read/flush until EAGAIN, re-arming | an edge is reported once; a connection is freed between two events | no lost wakeup, no dangling event, everything echoed, no busy loop |
| select, poll and level-triggered epoll servers | fd sets and `maxfd`; pollfd array; epoll set and event array | wait, accept, `echo_once`, close | descriptor numbers are reused at once; removal during the scan; blocking calls in a single thread | bookkeeping exact, no blocking read in vain, everything echoed |
| Process-per-client server | connection open in two processes, SIGCHLD handler | accept, fork, echo, reap | both must close; deaths merge | no descriptor leak, every stream ends, no zombie |
| Thread-per-client server | heap cell with the descriptor, shared descriptor table | accept, malloc, `pthread_create`, echo | ownership passes between threads; failure paths | one owner per descriptor and per cell |
| Coroutine scheduler | ready queue, timers, virtual clock | `spawn`, `schedule_after`, `run` | the clock jumps; zero and negative delays | each coroutine resumes exactly when due, `run` ends |
| IPC demonstrations (`Chapter12/12.1/experiments/ipc_demo.c`) | a socket, a shared region with a semaphore, an eventfd | three demonstrations, each with a forked child | parent and child wait for each other, either may fail | the child prints what the parent wrote; who can be left waiting is known |
| Interposed allocator (`Chapter7/preload/mymalloc.c`) | `in_hook` of each thread | `malloc`, `free` | `printf` allocates inside the wrapper | one line per call, of every thread |
| Duplicate finder (`Chapter5/5.12-5.14`) | hash table, words collected | `dedup_hash`, `dedup_quadratic` | collisions, probes that wrap | first occurrences, as the quadratic version |
| `race_write.c` (`Chapter9`), `deadlock.c` (`Chapter3`) | a file with two offsets; two mutexes | writes with and without `O_APPEND`; locks in opposite orders | interleaving | every appended line is there; the one deadlock is known |
| Tiny web server (`Chapter11/tiny_web`) | one transaction at a time, header fields, CGI child, upload files | `doit`, `read_requesthdrs`, `serve_static`, `serve_dynamic`, `serve_put`, `serve_post` | input may end or fail between any two lines or bytes; many early returns; fork without exec | one response per transaction, nothing left over, uploads stored as sent, every client's turn comes |

The echo servers interact with clients through sockets only. The edge-triggered
server uses the output buffer; the three level-triggered servers, the process
and the thread server, and Tiny use Rio; all of them begin with the helpers of
`net.h`; the shell's main and handler share the job table and the flag.

## 2. Modules

| Module | Models | Used by |
|---|---|---|
| `JobControl` | abstract: what a job-control shell promises | refined by `Shell` and `FirstShell` |
| `Shell` | `shell/main.c` with the wrappers of `csapp.c` | `ProgramProofs` |
| `ByteFifo` | abstract: bounded FIFO | refined by `OutputBuffer` |
| `OutputBuffer` | `append_output`, `flush_output`, byte by byte | `ConnectionProofs` |
| `EchoService` | abstract: what every echo server promises a client | refined by all seven servers |
| `SeqFilter` | the loop that picks elements out of a list in order, of the timers and of the ready lists | `CoScheduler`, `EpollEtServer`, `EpollLtServer` |
| `EpollEtServer` | `epoll_et_echo_server.c` | `EpollEtProofs` |
| `BlockingEcho` | clients, blocking sockets, descriptor numbers and `echo_once`, with `rio_writen` | the next three |
| `SelectServer`, `PollServer`, `EpollLtServer` | the three level-triggered servers | `MCLevelTriggered`, `LevelTriggeredProofs` |
| `IterativeEcho` | `echo_server.c` with its clients | `MCPerClient`, `ConnectionProofs` |
| `Net` | `net.h` | `MCPerClient`, `ConnectionProofs` |
| `ThreadServer`, `ProcessServer` | `thread_echo_server.c`, `process_echo_server.c` | `MCPerClient`, `ConnectionProofs` |
| `EventQueue` | abstract: discrete-event simulation | refined by `CoScheduler` |
| `CoScheduler` | `cpp20_coroutine_scheduler.cpp` | `MCCoScheduler`, `ProgramProofs` |
| `Library`, `Interpose`, `HttpClient` | `dedup.c` and `sio_ltoa`; `mymalloc.c`; `http_client.cpp` | `MCCoScheduler`, `ProgramProofs` |
| `Rio` | the readers of `rio.c` | `MCChapter10`, `RioRace`, `Chapter10Proofs` |
| `RioRace` | `tsan_race.c` | `MCChapter10`, `Chapter10Proofs` |
| `FdHandle` | `uds::Fd` | `MCChapter10`, `Chapter10Proofs` |
| `FdPassing` | the three programs that pass an open file | `MCChapter10`, `Chapter10Proofs` |
| `UdsServer` | `uds_server.c` with `uds_client.c` | `MCChapter10`, `Chapter10Proofs` |
| `Tiny` | `tiny.c` | `MCTiny`, `TinyProofs` |
| `ProcMask`, `WaitSignal` | `procmask.c` with `joblist.c`; `waitforsignal.c` | `MCSignals`, `SignalProofs` |
| `Ipc` | `ipc_demo.c` | `MCSignals`, `SignalProofs` |
| `FirstShell`, `Children` | the first shell; `wait.c` and `handler/main.c` | `MCSignals`, `SignalProofs` |
| `Contention` | `race_write.c` and `deadlock.c` | `MCSignals`, `SignalProofs` |
| `DataLemmas` | lemmas about minima and maxima, induction, filters and pieces of sequences | all proof modules |

The `MC` modules join programs that share a run; `Shell`, `OutputBuffer` and
`EpollEtServer` are instantiated by configurations of their own names, `Shell` also
by `ShellFull.cfg`.

### How state and actions correspond to the code

*Shell.* `pc` is a position in `eval`/`main`, `hpc` one in `sigchld_handler`;
main moves only while no handler frame is on the stack. `jobs`, `fg_done`,
`bg`, `pid`, `prev` and the handler's `pid`, `bg`, `prev` are the variables of
the code. The kernel's part is `proc` (process states), `pending` (one bit: SIGCHLDs
merge) and `saved` (the mask a handler return restores). Every
`sigprocmask`, `fork`, `waitpid`, table access and test of the flag is a step
of its own, so that the handler can run between any two of them; between the
test of `fg_done` (`TestFgDone`) and `sigsuspend` only the mask keeps it out.
A command line is a sequence of words out of `quit`, `jobs`, `&`, `&prog`,
`prog`: `parseline` looks at the first character of the last word only, so
`&prog` matters. Children may also stop and continue, which raises SIGCHLD because `try_signal`
sets no `SA_NOCLDSTOP`. A failing `fork` ends the shell (`unix_error`).

*OutputBuffer.* A byte is one of a set of values; memory nobody has written holds
`Junk`. Compaction, each doubling,
`realloc` and the copy are separate steps. `write` takes any part, or reports
EINTR, EAGAIN or an error.

*EpollEtServer.* The kernel's ready list is a sequence; an edge puts a source on
it, `epoll_wait` takes up to `MAX_EVENTS` off it, and `EPOLL_CTL_MOD` puts a
descriptor back when it is ready at that moment. Clients connect, send, shut
down, reset and read between any two system calls. The output buffer is the
sequence of its pending bytes, which is what `FifoRefinement` justifies.

*BlockingEcho and the three level-triggered servers.* A connection has the
lowest free descriptor number, so a number closed is the next one given out. A
blocking call with nothing to do is a step that is not enabled. `all_reads`,
`ready_reads`, `maxfd`, the array `fds` with `nfds`, `nready` and the loop index,
and the `events` array are the variables of the code.

*ThreadServer, ProcessServer.* A stream is counted in lines, what
`rio_readlineb` returns. A descriptor table and a heap of cells are shared by the threads;
parent and child each hold the connection.

*IterativeEcho.* `pc` is the server's position, `cpc` a client's; a blocking write
copies byte by byte as the client reads. A write to a client that has closed is
lost and answered by a reset (`rst`), and the next one is `Sigpipe`, which ends
the server. A line is what `fgets` returns, `NL` says where its newlines are.

*Net.* `plist` is the length of the address list while it is allocated, `p` the
address at hand; `opened` the descriptors of the process, some taken by others
at the start, so that `socket` can fail for want of one.

*CoScheduler.* `tick_`, `ready_`, `timers_` are the members of `Scheduler`. A coroutine
is its suspension point; both awaits of `handle_request` are resolved as
`await_ready` does.

*Rio.* The fields of `rio_t`; the k-th byte of the file is the number k, `NL`
says which are newlines.

*RioRace.* Each thread has a position inside `rio_read` and registers; a load, a
store, `read()` and the copy are steps of their own. Where the source names
`rio_cnt` again the compiled code may use the register or memory, so both are
choices (`Known`). `raced` records that two calls have overlapped.

*FdHandle.* `fd_` is the member of each object; `raw` holds the numbers the program
has as plain integers (before construction, after `release`), `open` is the
kernel's table. A program may do any of the operations in any order.

*FdPassing.* `spc`, `rpc` are positions of the sender and the receivers, `sfd`, `rfd`
their descriptors, named for what they refer to. `msg` says that the kernel
holds the file for a message that nobody has received; `offset` belongs to the
open file, so that whoever reads moves it for all. Every call that can fail may
fail: `uds_die`, an exception or a signal ends the process and closes what it held.

*UdsServer.* `upc` is the server's position, from `bind` over the
registration of `cleanup` and the handlers to the loop; it may be killed or
interrupted at any of them and started again. `sockfile` tells a name that
leads to a server from one that a dead server left.

*Ipc.* `todo` is the list of demonstrations still to run, `ppc` and `cpc` are the
positions of the parent and of the current child. The message is zero memory
until it is stored; the semaphore and the counter are what the kernel keeps.

*ProcMask, WaitSignal.* As in the shell, with a mask reduced to whether it
blocks SIGCHLD. The handler of `procmask.c` waits for all children with a
blocking `waitpid`; the frames of `waitforsignal.c` nest, and its test of `pid` and
its `sigsuspend` are two steps (`TestPid`, `Sigsuspend`).

*FirstShell.* As the later shell, without masks and handler: `waitpid` of the
foreground pid is the only wait, and a child that ends stays in `zombies`.

*Children, Contention.* One step per system call, lock or
test. `cause` is the error main's own call reported, to compare with the `errno`
it tests. A line of the file is the tag of its writer.

*Library.* `hash` is any function from words to hash values, so that every pattern of
collisions is met; each doubling of the table's size and each probe is a step. In
`sio_ltoa` characters are their codes, a long lies between `LONG_MIN` and `LONG_MAX`,
and negation wraps as the compiled code does. *Interpose.* A
thread has a stack of frames; `printf` may call `malloc` once, which pushes
another. *HttpClient.* A request's URL, JSON, header list, pieces of body and
error text all carry its number, so that anything left from an earlier one is
seen; the caller may make any sequence of requests and go on after an exception,
which is more than the `main` of the file does.

*Tiny.* A request is a stream of items (request line, header lines, empty line, bytes of
the body), which may end or be reset between any two of them. `parsed`, `line`,
`content_length`, `content_type`, `remaining`, `outfd` and `body` are the
variables of `doit`, `read_requesthdrs`, `serve_put` and `serve_post`. What an
array holds after a failed read is a choice: the value it had, or anything
before the first read. `disk` maps paths to files; a write to it may be cut
short, and its result is ignored as in the code. A child whose `execve` fails
goes on as the server: from then on `pc` is its position, and `held` keeps the
connection its waiting parent still has open. Since `dup2` came before `execve`,
that connection is also the child's `stdout` from then on: `logged` says whether
what the server prints there has reached a client, and whether the line
`HTTP/1.0 200 OK`, which `serve_static` prints too (`tiny.c:211`), was among it.
`stdout` is taken to be line-buffered, as on a terminal. A multipart body is a sequence of
separators, part headers with or without a file name, and bytes.

Definitions with a suffix such as `mask_chld_empty` are mutants: plausible
mistakes, written next to the definition they would replace, which the property
named with them must catch.

## 3. Runs

| Run | Instance | Shows |
|---|---|---|
| `shell` | 3 pids, 2 slots, lines of up to 2 words | table exact and exclusive, add before delete, `JobControl` implemented, zombies reaped, recorded foreground jobs return |
| `shell_full_table` | 2 pids, 1 slot | **violation**: see section 6 |
| `output_buffer` | capacity limit 5, initial 1, chunks up to 3 of 2 byte values | indices in bounds, growth loop ends, `ByteFifo` implemented |
| `epoll_et` | 2 clients of 2 bytes, 2 events, room for 1 byte in the socket and 2 in the buffer | no lost wakeup, no dangling event, `EchoService`, everything echoed, streams end, the loop goes to sleep |
| `level_triggered` | 3 clients of 1 byte, room for 2 | bookkeeping exact, no entry skipped and no event stale, no read blocks |
| `level_triggered_service` | 2 clients of 2 and 1 bytes, 1 event at a time; clients may stop reading | `EchoService`, only a write to a client that does not read holds a server up, everything echoed while clients read |
| `per_client` | 2 clients of 2 lines (or 2 bytes, one client of each program, for the iterative server), 2 descriptors, threads and cells; 3 addresses and 2 descriptors for the helpers | one owner each, no leak, the helpers leave no socket, clients in step, `EchoService`, streams end, no zombie |
| `scheduler` | 3 tasks, delays -1..3; up to 4 words of 3, hashes 0, 6 and 7 of a table of 8 slots or fewer; all longs of 8 bits; 2 threads of 2 calls; 3 requests of 2 pieces | one place each, on time, `EventQueue`; dedup, `sio_ltoa`, the allocator's log and the HTTP client exact; all return |
| `chapter10` | Rio: every file up to 5 bytes, buffer of 3, sizes 1, 2 and 4. Race: 2 threads, a file of 2 bytes, lines of up to 2. Handles: 3 objects, 2 numbers. Passing: 2 receivers, a file longer than a read. Server: 2 clients of 2 lines, one restart | Rio: stream preserved, buffers respected, results exact, calls return. Race: exact unless calls overlap, lines fit, readers end. Handles: one owner each. Passing: handed over once, content exact, name removed, processes end but for two situations. Server: answers and name exact, every session ends unless a line is unfinished |
| `tiny` | 2 clients, 14 requests for one and 2 for the other, bodies up to 4 items, reads of 2 | one response per transaction, the server's output at no client but one whose `execve` failed, nothing left over, uploads stored as sent, every turn comes unless the header loop never ends |
| `tiny_forms` | 1 client, a form with a text field and a file | **violation**: see section 6 |
| `signals` | procmask: 5 children on 4 pids; ipc_demo: messages in up to 2 writes; first shell: lines of 2 words on 4 pids; wait and handler: 3 children; race_write: 2 and 3 lines | job list exact, rounds report their child, ipc_demo's children print what was written for them, reports in order, errors main's own, appended lines all there; `JobControl` implemented by the first shell; programs end but for the situations named in `IpcEnds` and `LocksEnd` |

*Bounds.* Each is named in its module or configuration. The job table is shorter
than the number of processes, so that it fills up; pids, descriptor numbers,
threads and heap cells are fewer than the things that need them over time, so
that they are reused; the capacity limit is not a doubling of the initial
capacity, so that the cap is exercised; socket buffers hold one unit, so that
writes are partial; the read buffer of Rio is shorter than the file and lies
between the sizes asked for. One client is enough to break a stream, two to
mix up connections, three to refuse one while two are being scanned.

*Runs over several programs.* `MCLevelTriggered`, `MCPerClient`, `MCChapter10`,
`MCCoScheduler` and `MCSignals` each hold programs that answer the same questions over the same
clients or the same kernel, that belong to one chapter, or that stand alone; a behaviour is that of one program, chosen in the
initial state, and the variables of the others do not change. The property of
such a run is a conjunction with one part per program; the parts have names of
their own in the programs' modules.

*Deadlock* is checked in `output_buffer`. In the other runs something may really
stop: programs end, a killed server need not be started again, two threads lock
each other out, servers, Tiny and the shells wait for clients and users who need
do nothing, and the job shell may wait forever when the table is full. That
nothing else stops is what the liveness properties say.

*Fairness.* A program's thread keeps running (weak fairness of its steps; a failing
`epoll_wait`, `poll` or `select` is not among them, so that no property holds
because the server must fail in the end). A
pending signal that is unblocked again and again is delivered (strong fairness):
`sigprocmask` and `sigsuspend` deliver before they return. In the level-triggered runs `accept` and
`read` do not fail forever on a connection that is there (strong fairness): an
error such as EINTR or EMFILE is passing. `read` is not interrupted forever in
Rio. In `FdPassing`, `UdsServer` and `Ipc` each process goes on (weak fairness of
its steps); no call has to fail and nobody has to be killed. No client has to read its echo. `EchoCompletes` of the level-triggered servers
says what happens while all of them do (`ClientsRead`), and `StallsOnlyOnWrite`
that a client which does not is the only thing that can hold such a server up; the
edge-triggered server's `Quiescence` holds without it too. The clients of the
iterative server are the repository's own programs, which go on as their code
does. `curl_easy_perform` ends, by its timeout at the latest. A free mutex is
given to a thread that waits for it. Programs started by the shell need not end;
those of procmask and waitforsignal do (they call `exit` at once), as do those of wait and handler. Users and clients
never have to type, connect or send: `DemoRuns` says of `handler/main.c` that all
children are reaped and main is at its `read`, or past it, and the steps that are
fair there (`DemoSteps`) do not include the input. One exception: `TurnsCome` of Tiny
assumes clients that, once connected, send on or end their stream, at whatever point
(`ClientsGoOn`): a server that serves one client at a time promises nothing without it.

## 4. Proofs

`ProgramProofs` begins with the shell. It proves, for every finite or infinite set of pids and every number of
slots (`ShellAssumption`), that `Spec` implies `[]TypeOK`, `[]TableMatchesChildren`,
`[]DeleteFindsJob`, `[]TableIsExclusive`, `[]PromptHasNoForeground` and the
refinement `ImplementsJobControl`. None of these is inductive. The inductive
invariant `IndInv` adds

* `MaskInv`: which signals are blocked at each position of main and of the handler,
  which is what keeps them apart;
* `HandlerInv`, `ForkedInv`: what the locals of the handler and of `eval` refer to between
  `waitpid` and `delete_job`, and between `fork` and `add_job`;
* `ModeInv`, `ForegroundInv`, `FgDoneInv`: which children were started in the
  foreground, where main is while one is unreaped, and what a raised `fg_done` means.

The proof that a step preserves it has one step per action. The refinement maps
`fork` to starting a program, `waitpid` to its end and the test of `fg_done` to the
return of the terminal; every other step stutters.

`ConnectionProofs` begins with the output buffer. For every capacity limit and initial
capacity (`BufferAssumption`) it proves `[]BufferTypeOK`, `[]BufferBounds` and
`ImplementsFifo`. The strengthening `AppendInv` records, for each position inside
`append_output`, what the compaction and the growth loop have established about room
and capacity; that the cells between start and end are the pending bytes in order is
the refinement itself.

Its larger part is about the servers without an event loop and `net.h`: for any
clients, threads, heap cells, descriptor numbers, amounts of data and addresses
(`ThreadAssumption`, `PerClientAssumption`) it proves `[]ConnectionsExact` and
`ImplementsEcho`. Three servers share their clients, and so `PeerInv`: who waits
for accept waits once and has no conversation yet, and no more is echoed than
read, or read than sent. To it each adds its own:

* `ThreadInv`: main and the threads hold different descriptors and between them every
  open one (`HoldInv`), and the same of the cells that carry a descriptor to a thread
  (`CellInv`); a thread that writes has its client's last line in hand (`LineInv`);
* `ProcessInv`: which of parent and child has which connection open (`HolderInv`), and
  that the way a conversation ends is decided when its child ends or fork fails,
  although the client sees the end only with the last close (`ResultInv`);
* `IterInv`: one conversation at a time (`TurnInv`); what a client has read and what is on
  its way is what was written (`WireAt`), and `process_echo_client` is never more than
  one line ahead of it (`AheadAt`), from which it follows that client and server wait
  for each other over a line without newline only;
* `NetInv`: between two addresses no socket is open, while one is tried that one is.

Every action is shown to keep its server's invariant and to be a step of
`EchoService` (`Promise`) in one lemma, as both need the same facts.

`LevelTriggeredProofs` proves, for any clients, descriptor numbers and amounts of data
and any sizes of the table and of the event array (`EchoAssumption`, `PollAssumption`,
`LevelAssumption`), `[]ReadNeverBlocks`, `[]BookkeepingExact` and `ImplementsEcho` of the
select, poll and level-triggered epoll servers. What they share is in `CoreInv`: no two
open connections have one descriptor (`FdInv`), the accept queue (`QueueInv`), the
descriptor in hand (`CurInv`) and the bytes between read and write (`FlowInv`). The
rest is what each remembers of a report that is older than the closes and accepts since:

* `SelectInv`: `all_reads` and `maxfd` are exact, and each descriptor of `ready_reads` that
  the scan has before it is still open and still readable;
* `PollInv`: the array lists every open connection once (`Listed`), and `nready` counts
  the entries the scan has before it, each still open and readable, also the one
  just moved into a gap;
* `EpollInv`: the kernel watches the listening socket and each open connection once
  (`Watched`); the events left in the array are about different descriptors, each still
  readable and still that of the connection that raised it (`Announced`).

`Chapter10Proofs` proves of `uds::Fd`, for every set of objects and every set of descriptor
numbers (`NumbersAssumption`: they are natural numbers, so that -1 is none of
them), that `HandlesExact` is always true: each open descriptor is owned by exactly one
object or held once as a plain integer. `HandleTypeOK /\ HandlesExact` is inductive as it
stands; the step with substance is move assignment, which closes what the target
had and takes over what the source must then no longer have.

`EpollEtProofs` proves, for every set of clients, every amount of data and every
size of the event array, the read buffer, the output buffer and the socket's room
(`EpollAssumption`), `[]NoLostWakeup`, `[]EventsAreLive` and the refinement
`ImplementsEcho`. An edge is reported once, so `NoLostWakeup`, which speaks of the
moment before `epoll_wait`, depends on everything the loop does before it. The
inductive invariant has these parts:

* `ShapeInv`, `ListInv`: the event in hand is the head of the array; ready list
  and array hold each live descriptor at most once;
* `InputInv`, `FlowInv`: bytes written, pending and in hand add up to the bytes
  read, and are consecutive;
* `InterestInv`: the registered events are those the connection's state calls for;
* `WakeInv`: a connection with work for the server is on the ready list, in the
  array, or in hand at a place from which the work is still done. This is where
  reading and writing until EAGAIN, and the re-arming by `EPOLL_CTL_MOD`, are needed.

The refinement maps a write to an echo, the close of a finished connection to
`Finish` and every failure to `Abort`; every other step of the server stutters.

`ProgramProofs` also proves of the coroutine scheduler, for any number of coroutines and any delays that leave
the clock within an int (`SchedulerAssumption`), `[]OnePlaceEach`, `[]OnTime` and
`ImplementsEventQueue`. The invariant is that every coroutine that is not done stands
in one place (`PlaceInv`), and that clock and timers agree with the ticks each has
asked for: what is ready is due now, no timer lies in the past (`TimeInv`). The
refinement shows that the agenda, the ready queue followed by the timers of each
later tick in their order, changes only as the simulation's does: `wake_due_timers` and
the jump of the clock leave it alone, which takes the lemmas about filters.

`Chapter10Proofs` also proves of Rio, for every file, every size of `rio_buf` and every size a caller
passes (`RioAssumption`; `MaxLen` is any number), `[]ResultsExact`, `[]StreamPreserved`
and `[]FitsBuffers`, the last two being Rio's parts of `RioExact`. `Run(s, a, n)` says that s is the n bytes of the
file after the first a. The invariant says which run the internal buffer, the
caller's buffer and the history are, that pointer and count meet at the buffer's
end, and that a line has no newline before its last byte.

For the whole of `MCChapter10` (`Chapter10Assumption` with those of its parts) it proves
`[]RioExact`, `[]DescriptorsExact` and `[]UdsExact`:

* of the shared `rio_t` (`RaceInv`), for any number of threads, `RacyInv` says what holds
  however the loads and stores interleave, and `AloneInv` what holds as long as no two
  calls of `rio_read` have overlapped: the buffer is stocked with the bytes that follow those
  handed out (`Stocked`), with the thread inside at a known distance (`InsideInv`);
* of descriptor passing (`PassInv`): how far each process has come (`StageInv`), that one
  connection at most is accepted (`LinkInv`), that only its receiver comes to hold the
  file and the sender gets past `sendmsg` only by handing it over (`HeldInv`), who moves
  the shared offset (`OffsetInv`), and which process still has to remove the name
  (`NameInv`);
* of the Unix-domain server (`UdsInv`): `NameExact`, with who waits, who is served and what each
  has been answered (`IdleInv`, `WaitingInv`, `ServingInv`, `AnswerInv`, `LineInv`,
  `TurnInv`), from which `WaitOnlyUnfinished` follows.

`TinyProofs` proves, for any set of clients, any requests and files and every
`MAXBUF` and `MAX_UPLOAD` (`TinyAssumption`: a URI is not empty, a body is a finite
sequence), `[]OneResponse`, `[]NothingLeft` and `[]UploadExact`. The invariant adds

* `QueueInv`, `OpenInv`, `ResourceInv`: who waits, which connections are open, and the
  part of a transaction each resource belongs to;
* `LogInv`: `stdout` is the terminal or a held connection, so that nothing printed
  reaches any other client;
* `ReplyInv`: no response before the place where one is sent, one after it;
* `HeaderInv`, `RequestInv`: how far the header loop has come by the line in its
  buffer, and that what `doit` knows is the current client's request, although
  the arrays still hold the last one's after a failed read;
* `PutInv`, `PostInv`, `StoredInv`: what is read, what is written and what remains of
  an upload, and that an answered upload is `Final`: bytes the client sends later
  no longer change what the answer must count.

`RespondsKeeps` treats all places that send a response at once; each such action
only shows that it is one of them.

`DataLemmas` holds what these proofs share. The library's induction theorems take an operator as
parameter, which the provers cannot instantiate, so induction is stated over
sets: `NatInduct` and `SeqInduct` follow from the existence of a least natural number
(`LeastNatural`). With them it is proved what the recursive function in `Filter` computes:
`FilterPicks` gives the increasing list of positions it keeps. `Filter`
takes the place of `SelectSeq`, of which the provers know nothing.

Of the functions that stand alone `ProgramProofs` shows `AloneSpec => []LibraryExact`, for
any words, hashes, inputs, threads, calls, requests and pieces and for every
width of a long (`AloneAssumption`: hashes are not negative, and `LONG_MAX` + 1, a power of
two, does not end in 0). `AloneInv` has one part per program:

* `DedupInv`: the words collected are those read, in the order of their first
  occurrences (`WordsInv`), and the table leads to each of them (`TableInv`). Instead of
  the slots a probe passes, which would need induction and modular arithmetic, it
  speaks of the sets of slots that a probe for a word cannot leave (`Closed`): every
  such set holds the word's slot (`Certain`). What a probe in progress has seen
  (`Visited`) is such a set when it reaches a free slot, so the word is new
  (`FreeSlotMeansNew`); and an insertion adds no such set, so all other words are still
  found (`InsertKeeps`).
* `LtoaInv`: there is a list of quotients, from the number to zero, in which each is ten
  times the next plus the digit written between them (`Quotients`). Read from its end
  it solves the recursion of `Value`, whose solution is unique (`ValuedUnique`).
* `HookInv`: each thread is outside, in a call of its own, or in the `malloc` that its `printf`
  calls, the flag says which, and every call but the one under way has its line.
* `HttpInv`: while a request is under way the members hold its own pieces and no error.

`SignalProofs` proves `MCSpec => []ChildrenExact` for any number of children, pids,
rounds and pieces of a message. `ProcMaskAssumption` asks that the job list has room for all children, which
the code's 16 slots have for its 5 (`addjob` silently drops the job otherwise);
`SignalsAssumption` that a message has a piece. `SmallInv` has one part per program:

* `ProcMaskInv`: SIGCHLD is blocked from before `fork` until after `addjob` and in the handler
  (`MaskInv`), which child is under way to the list and which out of it (`PidInv`), and
  that the list has room (`RoomInv`);
* `WaitInv`: one child at a time, which `pid` names once it is reaped (`ChildInv`), and SIGCHLD
  stays blocked through nested handlers until `sigsuspend` (`FrameInv`);
* `DemoInv`: where parent and child are in which demonstration (`StageInv`), what the parent has
  written by then (`WrittenInv`) and what a child that succeeds has printed (`SeenInv`);
* `OrderInv`, `HandlerInv`, `FileInv`: children not made are not reported; the error of main's call is
  in `errno` or kept for it by the handler; offsets and lines of the two writers agree.

It also proves that the first shell implements `JobControl` and satisfies
`ForegroundReaped`, from `FirstInv`: a foreground child is there exactly while the shell waits
for it.

Only model-checked: all liveness properties, because the provers do not handle fairness
and ENABLED. Every invariant of every passing run is proved, and so are all refinements
and the action properties that are not part of a liveness property.

## 5. Plan

All parts with logic of their own are modelled, and their safety properties are
proved for every value of the constants. What is left to the bounds of the runs
is liveness.

## 6. Findings

*A foreground job that finds the table full is waited for forever.* `add_job`
prints a message and returns (`main.c:53`); the child runs unrecorded. When it
ends, `delete_job` returns -1, nobody raises `fg_done`, and the loop at
`main.c:206` sleeps on. The run `shell_full_table` shows it with one slot. The
passing run states the property of recorded jobs (`RecordedJobReturns`).

*A form's first part is stored, not its first file.* The comment at `tiny.c:331`
says that `serve_post` takes the first file part; the code takes the first part
(`tiny.c:373`). The run `tiny_forms` shows a form with a text field before the
file: the field is stored under the name in the URI.

Two more things Tiny's model shows, where no line of the repository promises
otherwise, and which `TurnsCome`, `NothingLeft` and `OneResponse` name as their
exceptions. The header loop (`tiny.c:153`) does not
look at the result of `rio_readlineb`: when the input ends before the empty
line it never ends (`EndlessHeaders`); `TurnsCome` shows that nothing else a client does to
its stream stops the server. A child whose `execve` fails (`tiny.c:252`) returns into
`main` and serves on, while its parent waits for it with the connection open; as
`dup2` (`tiny.c:251`) has made that connection its standard output, the client
there goes on to get everything the server prints: the request and header lines
of later clients, and the status line of every static page served to them.

Situations in which processes wait forever, which `PassingEnds`, `UdsServes`,
`IpcEnds`, `ClientsEnd` and `LocksEnd` name as their exceptions. In `passfd_cpp.cpp` the parent waits in `accept`
for a child that could not connect (line 63), and a child whose parent's
`accept` failed waits on a connection that its own inherited listening
descriptor keeps queued; `ipc_demo.c` has both (lines 108 and 98), and its children wait on a
semaphore or an eventfd that a failed parent never raises (lines 144 and 177). The
client of `uds_server.c` waits for an answer to a last line without newline, for
whose end the server waits (`uds_client.c:43`); later clients wait with them.
`process_echo_client.c` does the same with any echo server, and holds up the
iterative one for everybody (line 35; `WaitOnlyUnfinished`). `deadlock.c` ends in the
state its comments name, and in no other.

What else the models show, where the code promises nothing. `echo_server.c` leaves
SIGPIPE at its default: the second write to a client that has gone kills the
server (line 35). `echo_client.c` takes one `read` for a whole line, as its
comment says, and may lag behind its input from then on (`InStep` holds of the
other client only). When two threads overlap in `rio_read`, the shared count and
pointer can be advanced twice for one byte or once for two, the pointer can run
past `rio_buf`, and if `read()` keeps failing a thread can loop on the other's
count; `RioExact` says that without overlap none of this happens. After a
`curl_slist_append` without memory `post_json` sends its request without the
JSON header (`http_client.cpp:111`). `sio_ltoa` prints a sign and one character that is no
digit for the most negative number; its callers print pids. The first shell
collects no background program: their pids stay taken until `fork` fails, which
ends the shell. The model allows that exit at any `fork`; that it comes from the
zombies is not a property of any run. Nor is what `serve_post` stores of a form that was
cut off before its closing line: the whole body as it came (`content`), which no line of the
repository rules out.

Comments that the code does not bear out, without a run of their own. The comment at
`uds_server.c:51` says that the socket file is removed on every way out after `bind`;
a signal between `bind` and the installation of the handlers leaves it (the next
start removes it, which `UdsServes` needs). The comment at `passfd_send.c:9-12` says
that the sender first reads a part of the file, so that the receiver goes on in
its second half; the code (lines 60-65) opens the file and sends it unread, as the
model does. `ContentExact` takes no side: it says of this program only that the receiver
reads one piece that ends at the shared offset. `Chapter11/summary.md:327` says that
Tiny answers 501 to everything but GET; the code serves PUT and POST as well
(`tiny.c:107-114`). The comment at `race_write.c:2-3`
promises 2N lines with `O_APPEND` and fewer without; the writers make M and N, and
the file has M + N lines or the longer of the two (`LinesExact`). `order_wait` in
`wait.c` reads `pid[N]`, one past the array, in its last round (line 46; no child is left then, so
`waitpid` fails whatever it reads), and prints the address of the array for each pid (line 48).

## 7. Not modelled

* Notes, snippets read as assembly, and cache, branch and virtual-memory
  measurements (chapters 1-6 and 9): they have no state machine of their own; what
  they show is the hardware's or the kernel's behaviour.
* `mem_errors.c`, `leak.c`, `ub.c`, `crash.c`: each function commits a memory error on
  purpose, for a tool to find; undefined behaviour is all there is.
* Straight-line demonstrations (`shared.c`, `shm.c`, `fork.c`, `addrinfo.c`, the linking
  examples) and the CGI program `adder.c`: one path, no state.
* `Chapter12/12.1/experiments/grpc_echo`: templates over the gRPC library. The server puts `echo: ` before
  the text of a request and the client makes one call; the concurrency is the library's.
* `write_all` and `read_some` of `UnixSocket`, which no program calls; `checksum` and the
  timing of `dedup.c`, which do not affect its result.
* `csapp.c` wrappers other than those whose failure ends a modelled program, and the
  formatting of messages.

Limits of the models: responses of Tiny, and what it prints to a held connection, fit into the socket buffer, and files change
only through it; command text, addresses and payloads are symbols; a
stream is counted in bytes or lines; `waitpid` errors other than ECHILD, which
end the shell, are not modelled; signed overflow of the scheduler's clock is
excluded by `SchedulerAssumption`, and that of `g_n * 2` in `dedup_hash` by the
bound on the words; `open` is taken to succeed in `race_write.c`, which does not test it.
