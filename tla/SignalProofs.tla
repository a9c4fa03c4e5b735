---------------------------- MODULE SignalProofs ----------------------------
(***************************************************************************)
(* Proofs about the small programs with processes of their own, for any    *)
(* number of children, pids, rounds and pieces of a message: ChildrenExact *)
(* as an invariant of MCSignals, and the refinement of JobControl by the   *)
(* first shell.                                                            *)
(***************************************************************************)
EXTENDS MCSignals, DataLemmas, FiniteSetTheorems
-----------------------------------------------------------------------------
(* procmask *)

\* SIGCHLD is blocked from before fork until after addjob, and while the
\* handler runs: the two never work on the list together.
MaskInv ==
  /\ pc \in {"fork", "block_all", "add", "restore"} => mask /\ hpc = "idle" /\ i < N
  /\ hpc # "idle" => mask

\* The child under way to the list, and the one under way out of it.
PidInv ==
  /\ pc \in {"block_all", "add"} => pid \in Pids /\ proc[pid] # "free"
  /\ hpc = "delete" => hpid \in Pids /\ proc[hpid] = "free"

\* No more jobs than children made, so that none is dropped.
RoomInv == Len(jobs) <= IF pc = "restore" THEN i + 1 ELSE i

ProcMaskInv == TypeOK /\ ListMatchesChildren /\ NeverNotFound /\ MaskInv /\ PidInv /\ RoomInv

(* waitforsignal *)

\* One child at a time, which pid names as soon as it is reaped.
ChildInv ==
  /\ pc \in {"clear", "check", "suspend", "suspended", "report"} => child \in Pids
  /\ \A p \in Pids : proc[p] # "free" =>
       p = child /\ pc \in {"clear", "check", "suspend", "suspended"}
  /\ pc = "clear" => proc[child] # "free"
  /\ pc \in {"check", "suspend", "suspended"} => pid = IF proc[child] = "free" THEN child ELSE NoPid
  /\ pc \in {"fork", "clear", "check", "suspend", "suspended", "report"} => i < N

\* SIGCHLD stays blocked, through interrupts, from before fork until sigsuspend,
\* and again when that returns; a handler is not entered twice.
FrameInv ==
  /\ pc \in {"fork", "clear", "check", "suspend"} =>
       mask /\ \A k \in 1..Len(frame) : frame[k].sig = "INT" /\ frame[k].mask
  /\ pc = "suspended" => held /\ (frame # <<>> => frame[Len(frame)].mask)
  /\ \A k \in 1..Len(frame) : frame[k].sig = "CHLD" =>
       mask /\ \A l \in 1..(k - 1) : frame[l].mask
  /\ \A k, l \in 1..Len(frame) : frame[k].sig = frame[l].sig => k = l

WaitInv == Wait!TypeOK /\ Wait!ReportsItsChild /\ ChildInv /\ FrameInv

(* ipc_demo *)

\* Which demonstrations may be left, and who is where in which of them.
StageInv ==
  /\ todo \in {<<"uds">>, <<"mmap">>, <<"eventfd">>, <<"mmap", "eventfd">>,
               <<"uds", "mmap", "eventfd">>}
  /\ ppc \in {"accept", "read", "write", "close"} => Demos!demo = "uds"
  /\ ppc \in {"store", "post"} => Demos!demo = "mmap"
  /\ ppc = "signal" => Demos!demo = "eventfd"
  /\ cpc \in {"connect", "request", "reply"} => Demos!demo = "uds"
  /\ cpc \in {"sem_wait", "load"} => Demos!demo = "mmap"
  /\ cpc = "efdread" => Demos!demo = "eventfd"
  /\ ppc \in {"setup", "fork"} => cpc = "none"
  /\ ppc = "cleanup" => cpc = "done" /\ cexit = 0

\* What the parent has written for its child, and when.
WrittenInv ==
  /\ ppc \in {"wait", "cleanup"} /\ Demos!demo = "uds" => answered = Pieces
  /\ link = "up" /\ ~connfd /\ ppc # "done" => answered = Pieces
  /\ ppc = "close" => answered = Pieces
  /\ ppc \in {"fork", "store", "post"} /\ Demos!demo = "mmap" => ready = 0 /\ cpc # "load"
  /\ ready > 0 \/ cpc = "load" => message = "hello"
  /\ ppc = "post" => message = "hello"
  /\ ppc \in {"fork", "signal"} /\ Demos!demo = "eventfd" => counter = 0

\* A child that succeeds has printed it, unless its parent has failed.
SeenInv ==
  /\ seen \in [Demos!Demos -> {"nothing", "reply", "empty", "hello", "three"}]
  /\ seen["mmap"] \in {"nothing", "hello"} /\ seen["eventfd"] \in {"nothing", "three"}
  /\ cpc = "done" /\ cexit = 0 /\ ppc # "done" => seen[Demos!demo] = Demos!Expected[Demos!demo]

DemoInv == Demos!TypeOK /\ StageInv /\ WrittenInv /\ SeenInv

(* wait and handler *)

OrderInv ==
  /\ ordered \in BOOLEAN /\ made \in 0..Kids /\ reported \in Seq(1..Kids)
  /\ state \in [1..Kids -> {"none", "running", "zombie", "reaped"}]
  /\ \A n \in 1..Kids : n > made => state[n] = "none"
  /\ Kin!ReportsExact

\* The error of main's call is in errno, or kept for it by the handler.
HandlerInv ==
  /\ hat \in {"idle", "wait", "sleep"}
  /\ mat = "test" => (IF hat = "idle" THEN errno ELSE olderrno) = cause /\ cause \in {"EINTR", "EIO"}
  /\ mat = "exited" => cause \in {"EAGAIN", "EIO"}

(* race_write *)

FileInv ==
  /\ offset \in [Races!Writers -> Nat]
  /\ rat \in {"start", "fork"} => bat = "none" /\ \A w \in Races!Writers : offset[w] = 0
  /\ rat # "start" => file \in Seq(Races!Writers)
  /\ Races!LinesExact

SmallInv ==
  /\ program = "procmask" => ProcMaskInv
  /\ program = "waitforsignal" => WaitInv
  /\ program = "ipc_demo" => DemoInv
  /\ OrderInv /\ HandlerInv /\ FileInv
-----------------------------------------------------------------------------
(* procmask *)

\* The jobs of a list, and a set they are to be.
LEMMA JobsAre ==
  ASSUME NEW js \in Seq(Pids), NEW S \in SUBSET Pids
  PROVE  ({js[k] : k \in 1..Len(js)} = S)
           <=> \A p \in Pids : (p \in S <=> \E k \in 1..Len(js) : js[k] = p)
  OBVIOUS

\* deletejob takes out the one job it is to take out.
LEMMA JobRemoved ==
  ASSUME jobs \in Seq(Pids), NEW h \in 1..Len(jobs),
         \A k, l \in 1..Len(jobs) : jobs[k] = jobs[l] => k = l
  PROVE  /\ without(h) \in Seq(Pids) /\ Len(without(h)) = Len(jobs) - 1
         /\ \A k, l \in 1..Len(without(h)) : without(h)[k] = without(h)[l] => k = l
         /\ \A p \in Pids : (\E k \in 1..Len(without(h)) : without(h)[k] = p)
                              <=> p # jobs[h] /\ \E k \in 1..Len(jobs) : jobs[k] = p
<1> DEFINE s == [jobs EXCEPT ![h] = jobs[Len(jobs)]]
           r == without(h)
<1>1. Len(jobs) \in Nat /\ Len(jobs) >= 1 /\ Len(jobs) - 1 \in Nat /\ \A k \in 1..Len(jobs) : jobs[k] \in Pids
  OBVIOUS
<1>2. s \in Seq(Pids) /\ Len(s) = Len(jobs)
  BY <1>1
<1>3. r = SubSeq(s, 1, Len(jobs) - 1)
  BY DEF without, njobs
<1> HIDE DEF r
<1>4. r \in Seq(Pids) /\ Len(r) = Len(jobs) - 1 /\ \A k \in 1..(Len(jobs) - 1) : r[k] = s[k]
  BY <1>1, <1>2, <1>3
<1>5. \A k \in 1..Len(r) : r[k] = IF k = h THEN jobs[Len(jobs)] ELSE jobs[k]
  BY <1>1, <1>4
<1>6. \A k, l \in 1..Len(r) : r[k] = r[l] => k = l
  BY <1>1, <1>4, <1>5
<1>7. ASSUME NEW p \in Pids
      PROVE  (\E k \in 1..Len(r) : r[k] = p) <=> p # jobs[h] /\ \E k \in 1..Len(jobs) : jobs[k] = p
  <2>1. ASSUME NEW k \in 1..Len(r), r[k] = p
        PROVE  p # jobs[h] /\ \E l \in 1..Len(jobs) : jobs[l] = p
    BY <1>1, <1>4, <1>5, <2>1
  <2>2. ASSUME p # jobs[h], NEW k \in 1..Len(jobs), jobs[k] = p
        PROVE  \E l \in 1..Len(r) : r[l] = p
    <3>1. CASE k = Len(jobs)
      <4>1. h \in 1..Len(r) /\ r[h] = p
        BY <1>1, <1>4, <1>5, <2>2, <3>1
      <4> QED BY <4>1
    <3>2. CASE k # Len(jobs)
      <4>1. k \in 1..Len(r) /\ r[k] = p
        BY <1>1, <1>4, <1>5, <2>2, <3>2
      <4> QED BY <4>1
    <3> QED BY <3>1, <3>2
  <2> QED BY <2>1, <2>2
<1> QED BY <1>4, <1>6, <1>7 DEF r

\* A step that leaves list and children alone.
LEMMA ListSame ==
  ASSUME ListMatchesChildren, UNCHANGED jobs, BeingAdded' = BeingAdded, BeingDeleted' = BeingDeleted,
         \A p \in Pids : proc'[p] # "free" <=> proc[p] # "free"
  PROVE  ListMatchesChildren'
  BY DEF ListMatchesChildren, njobs

\* Two children under way, in turn.
LEMMA NobodyUnderWay ==
  ASSUME NEW l \in {"block", "fork", "restore", "sleep", "exited", "failed"}, NEW m \in {"idle", "waitpid"}
  PROVE  /\ pc = l => BeingAdded = {}
         /\ pc' = l => BeingAdded' = {}
         /\ hpc = m => BeingDeleted = {}
         /\ hpc' = m => BeingDeleted' = {}
  BY DEF BeingAdded, BeingDeleted

LEMMA ProcMaskInitial == Init => ProcMaskInv
<1> SUFFICES ASSUME Init PROVE ProcMaskInv
  OBVIOUS
<1>1. TypeOK
  <2>1. {mask, prev_one, saved, pending, notfound} \subseteq BOOLEAN
    BY Zenon DEF Init
  <2>2. jobs \in Seq(Pids) /\ Len(jobs) = 0
    BY DEF Init
  <2> QED BY <2>1, <2>2, ProcMaskAssumption DEF Init, TypeOK
<1>2. BeingAdded = {} /\ BeingDeleted = {} /\ Len(jobs) = 0 /\ \A p \in Pids : proc[p] = "free"
  BY DEF Init, BeingAdded, BeingDeleted
<1>3. ListMatchesChildren
  BY <1>2 DEF ListMatchesChildren, njobs
<1>4. NeverNotFound /\ MaskInv /\ PidInv /\ RoomInv
  BY <1>2 DEF Init, NeverNotFound, MaskInv, PidInv, RoomInv
<1> QED BY <1>1, <1>3, <1>4 DEF ProcMaskInv

\* Main's part of a step: it moves while no handler runs.
LEMMA ProcMaskMain ==
  ASSUME ProcMaskInv, MainSteps
  PROVE  ProcMaskInv'
<1>1. /\ TypeOK /\ ListMatchesChildren /\ NeverNotFound /\ MaskInv /\ PidInv /\ RoomInv /\ hpc = "idle"
      /\ UNCHANGED <<saved, hpc, hpid, pending, notfound>>
  BY DEF ProcMaskInv, MainSteps, Block, Fork, ForkFails, BlockAll, AddJob, Restore, WaitLoop, ExitMain,
         MainAt, kernelVars
<1>2. /\ BeingDeleted = {} /\ BeingDeleted' = {} /\ Len(jobs) \in Nat /\ i \in Nat /\ N \in Nat /\ i <= N
      /\ MAXJOBS \in Nat /\ N <= MAXJOBS /\ hpc' = "idle" /\ jobs \in Seq(Pids)
  BY <1>1, ProcMaskAssumption DEF BeingDeleted, TypeOK
<1>b. {mask, prev_one, saved, pending, notfound} \subseteq BOOLEAN
  BY <1>1 DEF TypeOK
<1>n. NeverNotFound'
  BY <1>1 DEF NeverNotFound
<1>3. CASE Block
  <2>b. {mask, prev_one, saved, pending, notfound}' \subseteq BOOLEAN
    BY <1>1, <1>3, <1>b, Zenon DEF Block, mask_one
  <2>1. BeingAdded = {} /\ BeingAdded' = {} /\ UNCHANGED <<jobs, proc, i, pid>> /\ pc' = "fork" /\ pc = "block"
    BY <1>3, NobodyUnderWay DEF Block, MainAt, kernelVars
  <2>2. ListMatchesChildren'
    BY <1>1, <1>2, <2>1, ListSame
  <2>3. mask' /\ i < N
    BY <1>3 DEF Block, mask_one, more
  <2>4. TypeOK'
    BY <1>1, <2>1, <2>b DEF TypeOK
  <2>5. MaskInv' /\ PidInv' /\ RoomInv'
    BY <1>1, <1>2, <2>1, <2>3 DEF MaskInv, PidInv, RoomInv
  <2> QED BY <1>n, <2>2, <2>4, <2>5 DEF ProcMaskInv
<1>4. CASE Fork
  <2>1. PICK p \in Pids : proc[p] = "free" /\ proc' = [proc EXCEPT ![p] = "running"] /\ pid' = p
    BY <1>4 DEF Fork
  <2>2. pc = "fork" /\ pc' = "block_all" /\ UNCHANGED <<i, prev_one, jobs, mask>>
    BY <1>4 DEF Fork, MainAt
  <2>3. BeingAdded = {} /\ BeingAdded' = {p}
    BY <2>1, <2>2, NobodyUnderWay DEF BeingAdded
  <2>4. TypeOK'
    BY <1>1, <1>b, <2>1, <2>2 DEF TypeOK
  <2>5. {q \in Pids : proc[q] # "free"} = {q \in Pids : proc'[q] # "free"} \ {p}
    BY <1>1, <2>1 DEF TypeOK
  <2>6. ListMatchesChildren'
    BY <1>1, <1>2, <2>2, <2>3, <2>5 DEF ListMatchesChildren, njobs
  <2>7. proc'[p] # "free"
    BY <1>1, <2>1 DEF TypeOK
  <2>8. MaskInv' /\ PidInv' /\ RoomInv'
    BY <1>1, <1>2, <2>1, <2>2, <2>7 DEF MaskInv, PidInv, RoomInv
  <2> QED BY <1>n, <2>4, <2>6, <2>8 DEF ProcMaskInv
<1>5. CASE BlockAll
  <2>b. {mask, prev_one, saved, pending, notfound}' \subseteq BOOLEAN
    BY <1>1, <1>5, <1>b, Zenon DEF BlockAll, mask_all
  <2>1. pc = "block_all" /\ pc' = "add" /\ UNCHANGED <<i, pid, jobs, proc>> /\ mask'
    BY <1>5 DEF BlockAll, MainAt, kernelVars, mask_all
  <2>2. ListMatchesChildren'
    BY <1>1, <1>2, <2>1, ListSame DEF BeingAdded
  <2>3. TypeOK'
    BY <1>1, <2>1, <2>b DEF TypeOK
  <2>4. MaskInv' /\ PidInv' /\ RoomInv'
    BY <1>1, <1>2, <2>1 DEF MaskInv, PidInv, RoomInv
  <2> QED BY <1>n, <2>2, <2>3, <2>4 DEF ProcMaskInv
<1>6. CASE AddJob
  <2>1. pc = "add" /\ pc' = "restore" /\ UNCHANGED <<i, pid, prev_one, mask, proc>>
    BY <1>6 DEF AddJob, MainAt, kernelVars
  <2>2. pid \in Pids /\ proc[pid] # "free" /\ Len(jobs) <= i /\ i < N
    BY <1>1, <2>1 DEF PidInv, RoomInv, MaskInv
  <2>3. jobs' = Append(jobs, pid)
    BY <1>2, <1>6, <2>2 DEF AddJob, addjob, njobs
  <2>4. BeingAdded = {pid} /\ BeingAdded' = {}
    BY <2>1, NobodyUnderWay DEF BeingAdded
  <2>5. jobs' \in Seq(Pids) /\ Len(jobs') = Len(jobs) + 1
        /\ \A k \in 1..Len(jobs') : jobs'[k] = IF k = Len(jobs) + 1 THEN pid ELSE jobs[k]
    BY <1>2, <2>2, <2>3
  <2>6. TypeOK'
    BY <1>1, <1>2, <1>b, <2>1, <2>2, <2>5 DEF TypeOK
  <2>7. {jobs[k] : k \in 1..Len(jobs)} = {q \in Pids : proc[q] # "free"} \ {pid}
    BY <1>1, <1>2, <2>4 DEF ListMatchesChildren, njobs
  <2>8. \A k \in 1..Len(jobs) : jobs[k] # pid
    BY <2>7
  <2>9. {jobs'[k] : k \in 1..Len(jobs')} = {q \in Pids : proc[q] # "free"}
    <3>1. \A q \in Pids : proc[q] # "free" => \E k \in 1..Len(jobs') : jobs'[k] = q
      <4> SUFFICES ASSUME NEW q \in Pids, proc[q] # "free" PROVE \E k \in 1..Len(jobs') : jobs'[k] = q
        OBVIOUS
      <4>1. CASE q = pid
        BY <1>2, <2>5, <4>1
      <4>2. CASE q # pid
        <5>1. PICK k \in 1..Len(jobs) : jobs[k] = q
          BY <2>7, <4>2
        <5>2. k \in 1..Len(jobs') /\ jobs'[k] = q
          BY <1>2, <2>5, <5>1
        <5> QED BY <5>2
      <4> QED BY <4>1, <4>2
    <3>2. \A k \in 1..Len(jobs') : jobs'[k] \in Pids /\ proc[jobs'[k]] # "free"
      BY <1>2, <2>2, <2>5, <2>7
    <3> QED BY <3>1, <3>2
  <2>10. \A k, l \in 1..Len(jobs') : jobs'[k] = jobs'[l] => k = l
    BY <1>1, <1>2, <2>5, <2>8 DEF ListMatchesChildren, njobs
  <2>11. ListMatchesChildren'
    BY <1>2, <2>1, <2>4, <2>9, <2>10 DEF ListMatchesChildren, njobs
  <2>12. MaskInv' /\ PidInv' /\ RoomInv'
    BY <1>1, <1>2, <2>1, <2>2, <2>5 DEF MaskInv, PidInv, RoomInv
  <2> QED BY <1>n, <2>6, <2>11, <2>12 DEF ProcMaskInv
<1>7. CASE Restore
  <2>b. {mask, prev_one, saved, pending, notfound}' \subseteq BOOLEAN
    BY <1>1, <1>7, <1>b, Zenon DEF Restore
  <2>1. pc = "restore" /\ pc' = "block" /\ UNCHANGED <<jobs, proc>> /\ i' = i + 1 /\ pid' = NoPid
    BY <1>7 DEF Restore, MainAt, kernelVars
  <2>2. ListMatchesChildren'
    BY <1>1, <1>2, <2>1, ListSame, NobodyUnderWay
  <2>3. i < N /\ Len(jobs) <= i + 1
    BY <1>1, <2>1 DEF MaskInv, RoomInv
  <2>4. TypeOK'
    BY <1>1, <1>2, <2>1, <2>3, <2>b DEF TypeOK
  <2>5. MaskInv' /\ PidInv' /\ RoomInv'
    BY <1>1, <1>2, <2>1, <2>3 DEF MaskInv, PidInv, RoomInv
  <2> QED BY <1>n, <2>2, <2>4, <2>5 DEF ProcMaskInv
<1>8. CASE ForkFails \/ WaitLoop \/ ExitMain
  <2>1. /\ pc \in {"fork", "block", "sleep"} /\ pc' \in {"failed", "sleep", "exited"}
        /\ UNCHANGED <<i, pid, prev_one, jobs, mask, proc>>
    BY <1>8 DEF ForkFails, WaitLoop, ExitMain, MainAt, kernelVars
  <2>2. BeingAdded = {} /\ BeingAdded' = {}
    BY <2>1 DEF BeingAdded
  <2>3. ListMatchesChildren'
    BY <1>1, <1>2, <2>1, <2>2, ListSame
  <2>4. TypeOK'
    BY <1>1, <1>b, <2>1 DEF TypeOK
  <2>5. MaskInv' /\ PidInv' /\ RoomInv'
    BY <1>1, <1>2, <2>1 DEF MaskInv, PidInv, RoomInv
  <2> QED BY <1>n, <2>3, <2>4, <2>5 DEF ProcMaskInv
<1> QED BY <1>3, <1>4, <1>5, <1>6, <1>7, <1>8 DEF MainSteps

\* The handler, the kernel and the children.
LEMMA ProcMaskRest ==
  ASSUME ProcMaskInv, Deliver \/ HandlerSteps \/ \E p \in Pids : ChildExits(p)
  PROVE  ProcMaskInv'
<1>1. /\ TypeOK /\ ListMatchesChildren /\ NeverNotFound /\ MaskInv /\ PidInv /\ RoomInv /\ Alive
      /\ UNCHANGED <<pc, i, pid, prev_one>>
  BY DEF ProcMaskInv, HandlerSteps, Deliver, Reap, DeleteJob, HandlerReturn, ChildExits, mainVars
<1>2. Len(jobs) \in Nat /\ i \in Nat /\ jobs \in Seq(Pids) /\ BeingAdded' = BeingAdded
  BY <1>1 DEF TypeOK, BeingAdded
<1>b. {mask, prev_one, saved, pending, notfound} \subseteq BOOLEAN
  BY <1>1 DEF TypeOK
<1>3. CASE Deliver
  <2>b. {mask, prev_one, saved, pending, notfound}' \subseteq BOOLEAN
    BY <1>1, <1>3, <1>b, Zenon DEF Deliver
  <2>1. /\ UNCHANGED <<jobs, hpid, proc, notfound>> /\ hpc' = "waitpid" /\ mask'
        /\ hpc = "idle" /\ pc \notin {"fork", "block_all", "add", "restore"}
    BY <1>1, <1>3 DEF Deliver, MaskInv
  <2>2. ListMatchesChildren'
    BY <1>1, <1>2, <2>1, ListSame, NobodyUnderWay
  <2>3. TypeOK'
    BY <1>1, <2>1, <2>b DEF TypeOK
  <2>4. MaskInv' /\ PidInv' /\ RoomInv' /\ NeverNotFound'
    BY <1>1, <2>1 DEF MaskInv, PidInv, RoomInv, NeverNotFound
  <2> QED BY <2>2, <2>3, <2>4 DEF ProcMaskInv
<1>4. CASE Reap
  <2>1. PICK p \in Pids : proc[p] = "zombie" /\ proc' = [proc EXCEPT ![p] = "free"] /\ hpid' = p
    BY <1>4 DEF Reap
  <2>2. hpc = "waitpid" /\ hpc' = "delete" /\ UNCHANGED <<jobs, mask, saved, pending, notfound>>
    BY <1>4 DEF Reap
  <2>3. BeingDeleted = {} /\ BeingDeleted' = {p}
    BY <2>1, <2>2 DEF BeingDeleted
  <2>4. pc \notin {"fork", "block_all", "add", "restore"} /\ mask
    BY <1>1, <2>2 DEF MaskInv
  <2>5. {q \in Pids : proc[q] # "free"} = {q \in Pids : proc'[q] # "free"} \cup {p} /\ proc'[p] = "free"
    BY <1>1, <2>1 DEF TypeOK
  <2>6. ListMatchesChildren'
    BY <1>1, <1>2, <2>2, <2>3, <2>5 DEF ListMatchesChildren, njobs
  <2>7. TypeOK'
    BY <1>1, <1>b, <2>1, <2>2 DEF TypeOK
  <2>8. MaskInv' /\ PidInv' /\ RoomInv' /\ NeverNotFound'
    BY <1>1, <2>1, <2>2, <2>4, <2>5 DEF MaskInv, PidInv, RoomInv, NeverNotFound
  <2> QED BY <2>6, <2>7, <2>8 DEF ProcMaskInv
<1>5. CASE DeleteJob
  <2>1. hpc = "delete" /\ hpc' = "waitpid" /\ hpid' = NoPid /\ UNCHANGED <<mask, saved, proc, pending>>
    BY <1>5 DEF DeleteJob
  <2>2. hpid \in Pids /\ proc[hpid] = "free" /\ pc \notin {"fork", "block_all", "add", "restore"} /\ mask
    BY <1>1, <2>1 DEF MaskInv, PidInv
  <2>3. BeingAdded = {} /\ BeingDeleted = {hpid} /\ BeingDeleted' = {}
    BY <2>1, <2>2 DEF BeingAdded, BeingDeleted
  <2>4. \A p \in Pids : proc[p] # "free" \/ p = hpid <=> \E k \in 1..Len(jobs) : jobs[k] = p
    <3> DEFINE S == {p \in Pids : proc[p] # "free"} \cup {hpid}
    <3>1. {jobs[k] : k \in 1..Len(jobs)} = S /\ S \in SUBSET Pids
      BY <1>1, <1>2, <2>2, <2>3 DEF ListMatchesChildren, njobs
    <3>2. \A p \in Pids : p \in S <=> proc[p] # "free" \/ p = hpid
      BY <2>2
    <3> HIDE DEF S
    <3>3. \A p \in Pids : p \in S <=> \E k \in 1..Len(jobs) : jobs[k] = p
      BY <1>2, <3>1, JobsAre
    <3> QED BY <3>2, <3>3
  <2>5. \A k, l \in 1..Len(jobs) : jobs[k] = jobs[l] => k = l
    BY <1>1 DEF ListMatchesChildren, njobs
  <2>6. PICK h \in 1..Len(jobs) : jobs[h] = hpid
    BY <2>2, <2>4
  <2>7. places(hpid) = {h} /\ h \in Nat
    BY <1>2, <2>5, <2>6 DEF places, njobs
  <2>8. Min(places(hpid)) = h
    BY <2>7, MinIs
  <2>9. jobs' = without(h) /\ notfound' = notfound
    <3>1. places(hpid) # {} /\ notfound' = (notfound \/ places(hpid) = {}) /\ jobs' = without(Min(places(hpid)))
      BY <1>5, <2>7 DEF DeleteJob, deletejob
    <3>2. notfound' = FALSE /\ notfound = FALSE
      BY <1>1, <1>b, <3>1 DEF NeverNotFound
    <3> QED BY <2>8, <3>1, <3>2
  <2>10. /\ jobs' \in Seq(Pids) /\ Len(jobs') = Len(jobs) - 1
         /\ \A k, l \in 1..Len(jobs') : jobs'[k] = jobs'[l] => k = l
         /\ \A p \in Pids : (\E k \in 1..Len(jobs') : jobs'[k] = p)
                              <=> p # hpid /\ \E k \in 1..Len(jobs) : jobs[k] = p
    <3>1. /\ without(h) \in Seq(Pids) /\ Len(without(h)) = Len(jobs) - 1
          /\ \A k, l \in 1..Len(without(h)) : without(h)[k] = without(h)[l] => k = l
          /\ \A p \in Pids : (\E k \in 1..Len(without(h)) : without(h)[k] = p)
                               <=> p # jobs[h] /\ \E k \in 1..Len(jobs) : jobs[k] = p
      BY <1>2, <2>5, JobRemoved
    <3>2. jobs' = without(h) /\ jobs[h] = hpid
      BY <2>6, <2>9
    <3> QED BY <3>1, <3>2
  <2>11. {jobs'[k] : k \in 1..Len(jobs')} = {p \in Pids : proc[p] # "free"}
    <3> DEFINE S == {p \in Pids : proc[p] # "free"}
    <3>1. \A p \in Pids : p \in S <=> \E k \in 1..Len(jobs') : jobs'[k] = p
      BY <2>2, <2>4, <2>10
    <3>2. S \in SUBSET Pids
      OBVIOUS
    <3> HIDE DEF S
    <3>3. {jobs'[k] : k \in 1..Len(jobs')} = S
      BY <2>10, <3>1, <3>2, JobsAre
    <3> QED BY <3>3 DEF S
  <2>12. ListMatchesChildren'
    BY <1>2, <2>1, <2>3, <2>10, <2>11 DEF ListMatchesChildren, njobs
  <2>13. TypeOK'
    <3>1. {mask, prev_one, saved, pending, notfound}' \subseteq BOOLEAN
      BY <1>1, <1>b, <2>1, <2>9, Zenon
    <3>2. Len(jobs') <= MAXJOBS
      BY <1>1, <1>2, <2>10, ProcMaskAssumption DEF TypeOK
    <3> QED BY <1>1, <2>1, <2>10, <3>1, <3>2 DEF TypeOK
  <2>14. MaskInv' /\ PidInv' /\ RoomInv' /\ NeverNotFound'
    BY <1>1, <1>2, <2>1, <2>2, <2>9, <2>10 DEF MaskInv, PidInv, RoomInv, NeverNotFound
  <2> QED BY <2>12, <2>13, <2>14 DEF ProcMaskInv
<1>6. CASE HandlerReturn
  <2>b. {mask, prev_one, saved, pending, notfound}' \subseteq BOOLEAN
    BY <1>1, <1>6, <1>b, Zenon DEF HandlerReturn
  <2>1. hpc = "waitpid" /\ hpc' = "idle" /\ UNCHANGED <<jobs, hpid, proc, notfound>>
    BY <1>6 DEF HandlerReturn
  <2>2. pc \notin {"fork", "block_all", "add", "restore"}
    BY <1>1, <2>1 DEF MaskInv
  <2>3. ListMatchesChildren'
    BY <1>1, <1>2, <2>1, ListSame, NobodyUnderWay
  <2>4. TypeOK'
    BY <1>1, <2>1, <2>b DEF TypeOK
  <2>5. MaskInv' /\ PidInv' /\ RoomInv' /\ NeverNotFound'
    BY <1>1, <2>1, <2>2 DEF MaskInv, PidInv, RoomInv, NeverNotFound
  <2> QED BY <2>3, <2>4, <2>5 DEF ProcMaskInv
<1>7. ASSUME NEW p \in Pids, ChildExits(p)
      PROVE  ProcMaskInv'
  <2>b. {mask, prev_one, saved, pending, notfound}' \subseteq BOOLEAN
    BY <1>1, <1>7, <1>b, Zenon DEF ChildExits
  <2>1. /\ proc[p] = "running" /\ proc' = [proc EXCEPT ![p] = "zombie"]
        /\ UNCHANGED <<jobs, mask, hpc, hpid, notfound>>
    BY <1>7 DEF ChildExits
  <2>2. \A q \in Pids : proc'[q] # "free" <=> proc[q] # "free"
    BY <1>1, <2>1 DEF TypeOK
  <2>3. ListMatchesChildren'
    BY <1>1, <1>2, <2>1, <2>2, ListSame DEF BeingDeleted
  <2>4. TypeOK'
    BY <1>1, <2>1, <2>b DEF TypeOK
  <2>5. MaskInv' /\ PidInv' /\ RoomInv' /\ NeverNotFound'
    BY <1>1, <2>1, <2>2 DEF MaskInv, PidInv, RoomInv, NeverNotFound
  <2> QED BY <2>3, <2>4, <2>5 DEF ProcMaskInv
<1> QED BY <1>3, <1>4, <1>5, <1>6, <1>7 DEF HandlerSteps

\* Every step of procmask keeps its invariant.
LEMMA ProcMaskStep ==
  ASSUME ProcMaskInv, [Next]_vars
  PROVE  ProcMaskInv'
<1>1. CASE UNCHANGED vars
  BY <1>1 DEF vars, mainVars, ProcMaskInv, TypeOK, ListMatchesChildren, NeverNotFound, MaskInv, PidInv,
              RoomInv, njobs, BeingAdded, BeingDeleted
<1>2. CASE Next
  BY <1>1, <1>2, ProcMaskMain, ProcMaskRest DEF Next, Ended
<1> QED BY <1>1, <1>2

(* waitforsignal *)

Frames == [sig : {"CHLD", "INT"}, mask : BOOLEAN]

\* A frame on top of the stack, and one taken off it.
LEMMA FramePushed ==
  ASSUME NEW f \in Seq(Frames), NEW e \in Frames
  PROVE  /\ <<e>> \o f \in Seq(Frames) /\ Len(<<e>> \o f) = Len(f) + 1
         /\ \A k \in 1..(Len(f) + 1) : (<<e>> \o f)[k] = IF k = 1 THEN e ELSE f[k - 1]
<1> HIDE DEF Frames
<1> QED OBVIOUS

LEMMA FramePopped ==
  ASSUME NEW f \in Seq(Frames), f # <<>>
  PROVE  /\ Head(f) = f[1] /\ f[1] \in Frames /\ Len(f) >= 1 /\ 1 \in 1..Len(f)
         /\ Tail(f) \in Seq(Frames) /\ Len(Tail(f)) = Len(f) - 1
         /\ \A k \in 1..(Len(f) - 1) : Tail(f)[k] = f[k + 1]
<1> HIDE DEF Frames
<1> QED OBVIOUS

LEMMA WaitTypes ==
  ASSUME WaitInv
  PROVE  /\ frame \in Seq(Frames) /\ Len(frame) \in Nat /\ Len(frame) <= 2
         /\ \A k \in 1..Len(frame) : frame[k] \in Frames /\ frame[k].sig \in {"CHLD", "INT"} /\ frame[k].mask \in BOOLEAN
         /\ mask \in BOOLEAN /\ prev \in BOOLEAN /\ held \in BOOLEAN /\ pendchld \in BOOLEAN /\ pendint \in BOOLEAN
         /\ child \in Pids \cup {NoPid} /\ pid \in Pids \cup {NoPid} /\ i \in Nat /\ i <= N
         /\ proc \in [Pids -> {"free", "running", "zombie"}]
         /\ pc \in {"block", "fork", "clear", "check", "suspend", "suspended", "report", "exited", "failed"}
<1>1. /\ pc \in {"block", "fork", "clear", "check", "suspend", "suspended", "report", "exited", "failed"}
      /\ i \in 0..N /\ {child, pid} \subseteq Pids \cup {NoPid}
      /\ {mask, prev, held, pendchld, pendint} \subseteq BOOLEAN
      /\ frame \in Seq(Frames) /\ Len(frame) <= 2
      /\ proc \in [Pids -> {"free", "running", "zombie"}]
  BY DEF WaitInv, Wait!TypeOK, Frames
<1>2. mask \in BOOLEAN /\ prev \in BOOLEAN /\ held \in BOOLEAN /\ pendchld \in BOOLEAN /\ pendint \in BOOLEAN
  BY <1>1, Zenon
<1>3. Len(frame) \in Nat /\ \A k \in 1..Len(frame) : frame[k] \in Frames
  BY <1>1
<1>4. \A k \in 1..Len(frame) : frame[k].sig \in {"CHLD", "INT"} /\ frame[k].mask \in BOOLEAN
  BY <1>3 DEF Frames
<1> QED BY <1>1, <1>2, <1>3, <1>4, ProcMaskAssumption

\* What has to be shown of a type.
LEMMA WaitTyped ==
  ASSUME frame' \in Seq(Frames), Len(frame') <= 2, mask' \in BOOLEAN, prev' \in BOOLEAN, held' \in BOOLEAN,
         pendchld' \in BOOLEAN, pendint' \in BOOLEAN, child' \in Pids \cup {NoPid}, pid' \in Pids \cup {NoPid},
         i' \in 0..N, proc' \in [Pids -> {"free", "running", "zombie"}],
         pc' \in {"block", "fork", "clear", "check", "suspend", "suspended", "report", "exited", "failed"}
  PROVE  Wait!TypeOK'
<1>1. {mask, prev, held, pendchld, pendint}' \subseteq BOOLEAN
  BY Zenon
<1> QED BY <1>1 DEF Wait!TypeOK, Frames

LEMMA WaitInitial == Wait!Init => WaitInv
<1> SUFFICES ASSUME Wait!Init PROVE WaitInv
  OBVIOUS
<1>1. frame = <<>> /\ Len(frame) = 0 /\ frame \in Seq([sig : {"CHLD", "INT"}, mask : BOOLEAN])
  BY DEF Wait!Init
<1>2. {mask, prev, held, pendchld, pendint} \subseteq BOOLEAN
  BY Zenon DEF Wait!Init
<1>3. Wait!TypeOK
  BY <1>1, <1>2, ProcMaskAssumption DEF Wait!Init, Wait!TypeOK
<1>4. Wait!ReportsItsChild /\ ChildInv /\ FrameInv
  BY <1>1 DEF Wait!Init, Wait!ReportsItsChild, ChildInv, FrameInv
<1> QED BY <1>3, <1>4 DEF WaitInv

\* Main moves while no handler frame is on the stack.
LEMMA WaitMain ==
  ASSUME WaitInv, Wait!MainSteps
  PROVE  WaitInv'
<1>1. frame = <<>> /\ frame' = <<>> /\ Len(frame') = 0 /\ UNCHANGED <<pendchld, pendint>>
  BY DEF Wait!MainSteps, Wait!Block, Wait!Fork, Wait!ForkFails, Wait!Clear, Wait!TestPid,
         Wait!Sigsuspend, Wait!Restore, Wait!Report, Wait!ExitMain, Wait!MainAt, Wait!kernelVars
<1>2. ChildInv /\ FrameInv /\ frame' \in Seq(Frames)
  BY <1>1 DEF WaitInv
<1>m. NoPid \notin Pids /\ N \in Nat
  BY ProcMaskAssumption
<1>3. CASE Wait!Block
  <2>1. pc = "block" /\ pc' = "fork" /\ i < N /\ mask' = TRUE /\ prev' = mask /\ UNCHANGED <<i, child, pid, held, proc>>
    BY <1>3 DEF Wait!Block, Wait!MainAt, Wait!more, Wait!kernelVars, Wait!mask_chld
  <2>2. Wait!TypeOK'
    BY <1>1, <1>2, <2>1, WaitTypes, WaitTyped
  <2>3. Wait!ReportsItsChild' /\ ChildInv'
    BY <1>2, <2>1 DEF Wait!ReportsItsChild, ChildInv
  <2>4. FrameInv'
    BY <1>1, <2>1 DEF FrameInv
  <2> QED BY <2>2, <2>3, <2>4 DEF WaitInv
<1>4. CASE Wait!Fork
  <2>1. PICK p \in Pids : proc[p] = "free" /\ proc' = [proc EXCEPT ![p] = "running"] /\ child' = p
    BY <1>4 DEF Wait!Fork
  <2>2. pc = "fork" /\ pc' = "clear" /\ UNCHANGED <<i, prev, pid, mask, held>>
    BY <1>4 DEF Wait!Fork, Wait!MainAt
  <2>3. proc' \in [Pids -> {"free", "running", "zombie"}] /\ proc'[p] = "running"
        /\ \A q \in Pids : q # p => proc'[q] = "free"
    BY <1>2, <2>1, <2>2, WaitTypes DEF ChildInv
  <2>4. Wait!TypeOK'
    BY <1>1, <1>2, <2>1, <2>2, <2>3, WaitTypes, WaitTyped
  <2>5. Wait!ReportsItsChild' /\ ChildInv'
    BY <1>2, <2>1, <2>2, <2>3 DEF Wait!ReportsItsChild, ChildInv
  <2>6. FrameInv'
    BY <1>1, <1>2, <2>2 DEF FrameInv
  <2> QED BY <2>4, <2>5, <2>6 DEF WaitInv
<1>5. CASE Wait!ForkFails \/ Wait!ExitMain
  <2>1. pc \in {"fork", "block"} /\ pc' \in {"failed", "exited"} /\ UNCHANGED <<i, child, prev, pid, mask, held, proc>>
    BY <1>5 DEF Wait!ForkFails, Wait!ExitMain, Wait!MainAt, Wait!kernelVars
  <2>2. Wait!TypeOK'
    BY <1>1, <1>2, <2>1, WaitTypes, WaitTyped
  <2>3. Wait!ReportsItsChild' /\ ChildInv'
    BY <1>2, <2>1 DEF Wait!ReportsItsChild, ChildInv
  <2>4. FrameInv'
    BY <1>1, <2>1 DEF FrameInv
  <2> QED BY <2>2, <2>3, <2>4 DEF WaitInv
<1>6. CASE Wait!Clear
  <2>1. pc = "clear" /\ pc' = "check" /\ pid' = NoPid /\ UNCHANGED <<i, child, prev, mask, held, proc>>
    BY <1>6 DEF Wait!Clear, Wait!MainAt, Wait!kernelVars
  <2>2. Wait!TypeOK'
    BY <1>1, <1>2, <2>1, WaitTypes, WaitTyped
  <2>3. Wait!ReportsItsChild' /\ ChildInv'
    BY <1>2, <2>1 DEF Wait!ReportsItsChild, ChildInv
  <2>4. FrameInv'
    BY <1>1, <1>2, <2>1 DEF FrameInv
  <2> QED BY <2>2, <2>3, <2>4 DEF WaitInv
<1>t. CASE Wait!TestPid
  <2>1. pc = "check" /\ pc' = "suspend" /\ UNCHANGED <<i, child, prev, pid, mask, held, proc>>
    BY <1>t DEF Wait!TestPid, Wait!MainAt, Wait!kernelVars
  <2>2. Wait!TypeOK'
    BY <1>1, <1>2, <2>1, WaitTypes, WaitTyped
  <2>3. Wait!ReportsItsChild' /\ ChildInv'
    BY <1>2, <2>1 DEF Wait!ReportsItsChild, ChildInv
  <2>4. FrameInv'
    BY <1>1, <1>2, <2>1 DEF FrameInv
  <2> QED BY <2>2, <2>3, <2>4 DEF WaitInv
<1>7. CASE Wait!Sigsuspend
  <2>1. pc = "suspend" /\ pc' = "suspended" /\ held' = mask /\ mask' = prev /\ UNCHANGED <<i, child, prev, pid, proc>>
    BY <1>7 DEF Wait!Sigsuspend, Wait!MainAt, Wait!kernelVars
  <2>2. Wait!TypeOK'
    BY <1>1, <1>2, <2>1, WaitTypes, WaitTyped
  <2>3. Wait!ReportsItsChild' /\ ChildInv'
    BY <1>2, <2>1 DEF Wait!ReportsItsChild, ChildInv
  <2>4. FrameInv'
    BY <1>1, <1>2, <2>1 DEF FrameInv
  <2> QED BY <2>2, <2>3, <2>4 DEF WaitInv
<1>8. CASE Wait!Restore
  <2>1. pc = "check" /\ pc' = "report" /\ mask' = prev /\ pid # NoPid /\ UNCHANGED <<i, child, prev, pid, held, proc>>
    BY <1>8 DEF Wait!Restore, Wait!MainAt, Wait!kernelVars, Wait!wait_over
  <2>2. Wait!TypeOK'
    BY <1>1, <1>2, <2>1, WaitTypes, WaitTyped
  <2>3. pid = child /\ proc[child] = "free"
    BY <1>2, <2>1 DEF ChildInv
  <2>4. Wait!ReportsItsChild' /\ ChildInv'
    BY <1>2, <2>1, <2>3 DEF Wait!ReportsItsChild, ChildInv
  <2>5. FrameInv'
    BY <1>1, <2>1 DEF FrameInv
  <2> QED BY <2>2, <2>4, <2>5 DEF WaitInv
<1>9. CASE Wait!Report
  <2>1. pc = "report" /\ pc' = "block" /\ i' = i + 1 /\ child' = NoPid /\ UNCHANGED <<prev, pid, mask, held, proc>>
    BY <1>9 DEF Wait!Report, Wait!MainAt, Wait!kernelVars
  <2>2. i < N
    BY <1>2, <2>1 DEF ChildInv
  <2>3. i' \in 0..N
    BY <1>m, <2>1, <2>2, WaitTypes
  <2>4. Wait!TypeOK'
    BY <1>1, <1>2, <2>1, <2>3, WaitTypes, WaitTyped
  <2>5. Wait!ReportsItsChild' /\ ChildInv'
    BY <1>2, <2>1 DEF Wait!ReportsItsChild, ChildInv
  <2>6. FrameInv'
    BY <1>1, <2>1 DEF FrameInv
  <2> QED BY <2>4, <2>5, <2>6 DEF WaitInv
<1> QED BY <1>3, <1>4, <1>5, <1>6, <1>t, <1>7, <1>8, <1>9 DEF Wait!MainSteps

\* A signal is delivered, on top of the other's handler if that runs.
LEMMA WaitDelivers ==
  ASSUME WaitInv, Wait!DeliverChld \/ Wait!DeliverInt
  PROVE  WaitInv'
<1>1. ChildInv /\ FrameInv /\ Wait!ReportsItsChild /\ UNCHANGED <<pc, i, child, prev, pid, held, proc>>
  BY DEF WaitInv, Wait!DeliverChld, Wait!DeliverInt, Wait!mainVars
<1> DEFINE kept == IF pc = "suspended" /\ frame = <<>> THEN held ELSE mask
           sig == IF Wait!DeliverChld THEN "CHLD" ELSE "INT"
           e == [sig |-> sig, mask |-> kept]
<1>2. kept \in BOOLEAN
  BY WaitTypes
<1> HIDE DEF kept
<1>3. e \in Frames
  BY <1>2 DEF Frames
<1>4. frame' = <<e>> \o frame
  BY DEF Wait!DeliverChld, Wait!DeliverInt, Wait!Push, kept
<1> HIDE DEF e
<1>5. /\ frame' \in Seq(Frames) /\ Len(frame') = Len(frame) + 1
      /\ \A k \in 1..(Len(frame) + 1) : frame'[k] = IF k = 1 THEN e ELSE frame[k - 1]
  BY <1>3, <1>4, WaitTypes, FramePushed
<1>6. mask' = (Wait!DeliverChld \/ mask) /\ mask' \in BOOLEAN /\ pendchld' \in BOOLEAN /\ pendint' \in BOOLEAN
  BY WaitTypes DEF Wait!DeliverChld, Wait!DeliverInt
<1>7. \A k \in 1..Len(frame) : frame[k].sig # sig
  BY WaitTypes, <1>1 DEF Wait!DeliverChld, Wait!DeliverInt, Wait!Running, FrameInv
<1>8. Len(frame) <= 1
  BY <1>1, <1>7, WaitTypes DEF FrameInv
<1>9. Wait!TypeOK'
  BY <1>1, <1>5, <1>6, <1>8, WaitTypes, WaitTyped
<1>10. Wait!ReportsItsChild' /\ ChildInv'
  BY <1>1 DEF Wait!ReportsItsChild, ChildInv
<1>11. e.sig = sig /\ e.mask = kept
  BY DEF e
<1>12. FrameInv'
  <2>1. Len(frame') \in Nat /\ Len(frame) \in Nat /\ frame'[1] = e /\ frame'[1].sig = sig /\ frame'[1].mask = kept
        /\ \A k \in 1..Len(frame') : k # 1 => k - 1 \in 1..Len(frame) /\ frame'[k] = frame[k - 1]
    BY <1>5, <1>11, WaitTypes
  <2>2. kept = (IF pc = "suspended" /\ Len(frame) = 0 THEN held ELSE mask) /\ (mask => mask')
    BY <1>6, WaitTypes DEF kept
  <2>3. /\ mask => sig = "INT"
        /\ sig = "CHLD" => mask'
        /\ sig \in {"CHLD", "INT"}
    BY <1>6 DEF Wait!DeliverChld
  <2> HIDE DEF sig
  <2>8. Len(frame') = Len(frame) + 1
    BY <1>5
  <2>4. pc' \in {"fork", "clear", "check", "suspend"} =>
          mask' /\ \A k \in 1..Len(frame') : frame'[k].sig = "INT" /\ frame'[k].mask
    <3> SUFFICES ASSUME pc \in {"fork", "clear", "check", "suspend"}
                 PROVE  mask' /\ \A k \in 1..Len(frame') : frame'[k].sig = "INT" /\ frame'[k].mask
      BY <1>1
    <3>1. mask /\ kept /\ mask' /\ sig = "INT" /\ \A k \in 1..Len(frame) : frame[k].sig = "INT" /\ frame[k].mask
      BY <1>1, <2>2, <2>3 DEF FrameInv
    <3> QED BY <2>1, <3>1
  <2>5. pc' = "suspended" => held' /\ (frame' # <<>> => frame'[Len(frame')].mask)
    <3> SUFFICES ASSUME pc = "suspended" PROVE held' /\ frame'[Len(frame')].mask
      BY <1>1
    <3>1. held /\ (Len(frame) # 0 => frame[Len(frame)].mask) /\ held' = held
      BY <1>1, WaitTypes DEF FrameInv
    <3>2. CASE Len(frame) = 0
      <4>1. Len(frame') = 1 /\ frame'[1].mask = kept /\ kept = held
        BY <2>1, <2>2, <2>8, <3>2
      <4> QED BY <3>1, <4>1
    <3>3. CASE Len(frame) # 0
      <4>1. Len(frame') \in 1..Len(frame') /\ Len(frame') # 1 /\ Len(frame') - 1 = Len(frame)
        BY <2>1, <2>8, <3>3
      <4>2. frame'[Len(frame')] = frame[Len(frame)]
        BY <2>1, <4>1
      <4> QED BY <3>1, <3>3, <4>2
    <3> QED BY <3>2, <3>3
  <2>7. \A k \in 1..Len(frame') : frame'[k].sig = "CHLD" => mask' /\ \A l \in 1..(k - 1) : frame'[l].mask
    <3> SUFFICES ASSUME NEW k \in 1..Len(frame'), frame'[k].sig = "CHLD"
                 PROVE  mask' /\ \A l \in 1..(k - 1) : frame'[l].mask
      OBVIOUS
    <3>1. CASE k = 1
      BY <2>1, <2>3, <3>1
    <3>2. CASE k # 1
      <4>1. k - 1 \in 1..Len(frame) /\ frame'[k] = frame[k - 1] /\ Len(frame) # 0
        BY <2>1, <3>2
      <4>2. mask /\ \A l \in 1..(k - 2) : frame[l].mask
        BY <1>1, <4>1 DEF FrameInv
      <4>3. mask' /\ kept
        BY <2>2, <4>1, <4>2
      <4>4. ASSUME NEW l \in 1..(k - 1), l # 1 PROVE frame'[l].mask
        <5>1. l \in 1..Len(frame') /\ l - 1 \in 1..(k - 2)
          BY <2>1, <4>1, <4>4, SMTT(40)
        <5> QED BY <2>1, <4>2, <4>4, <5>1
      <4> QED BY <2>1, <4>3, <4>4
    <3> QED BY <3>1, <3>2
  <2>6. \A k, l \in 1..Len(frame') : frame'[k].sig = frame'[l].sig => k = l
    <3>1. \A k \in 1..Len(frame) : frame[k].sig # frame'[1].sig
      BY <1>7, <2>1
    <3>2. \A k \in 1..Len(frame') : k = 1 \/ k = 2
      BY <1>5, <1>8, <2>1
    <3> QED BY <2>1, <3>1, <3>2
  <2> QED BY <2>4, <2>5, <2>6, <2>7 DEF FrameInv
<1> QED BY <1>9, <1>10, <1>12 DEF WaitInv

\* The innermost handler returns.
LEMMA WaitPops ==
  ASSUME WaitInv, Wait!Pop, frame # <<>>,
         \/ frame[1].sig = "INT" /\ UNCHANGED <<pid, proc>>
         \/ /\ frame[1].sig = "CHLD"
            /\ \E p \in Pids : proc[p] = "zombie" /\ proc' = [proc EXCEPT ![p] = "free"] /\ pid' = p
  PROVE  WaitInv'
<1>1. /\ ChildInv /\ FrameInv /\ Wait!ReportsItsChild /\ UNCHANGED <<i, child, prev, held, pendchld, pendint>>
      /\ pc' = IF pc = "suspended" /\ Len(frame) = 1 THEN "check" ELSE pc
      /\ mask' = Head(frame).mask /\ frame' = Tail(frame)
  BY DEF WaitInv, Wait!Pop
<1>2. /\ mask' = frame[1].mask /\ frame' \in Seq(Frames) /\ Len(frame') = Len(frame) - 1 /\ 1 \in 1..Len(frame)
      /\ \A k \in 1..(Len(frame) - 1) : frame'[k] = frame[k + 1]
      /\ Len(frame) >= 1
  BY <1>1, WaitTypes, FramePopped
<1>3. FrameInv'
  BY <1>1, <1>2, WaitTypes DEF FrameInv
<1>4. CASE frame[1].sig = "INT" /\ UNCHANGED <<pid, proc>>
  <2>1. Wait!TypeOK'
    BY <1>1, <1>2, <1>4, WaitTypes, WaitTyped
  <2>2. Wait!ReportsItsChild' /\ ChildInv'
    BY <1>1, <1>4 DEF Wait!ReportsItsChild, ChildInv
  <2> QED BY <1>3, <2>1, <2>2 DEF WaitInv
<1>5. ASSUME frame[1].sig = "CHLD",
             NEW p \in Pids, proc[p] = "zombie", proc' = [proc EXCEPT ![p] = "free"], pid' = p
      PROVE  WaitInv'
  <2>1. pc = "suspended" /\ p = child
    BY <1>1, <1>2, <1>5 DEF ChildInv, FrameInv
  <2>2. proc' \in [Pids -> {"free", "running", "zombie"}] /\ \A q \in Pids : proc'[q] = "free"
    BY <1>1, <1>5, <2>1, WaitTypes DEF ChildInv
  <2>3. Wait!TypeOK'
    BY <1>1, <1>2, <1>5, <2>2, WaitTypes, WaitTyped
  <2>4. Wait!ReportsItsChild' /\ ChildInv'
    BY <1>1, <1>5, <2>1, <2>2 DEF Wait!ReportsItsChild, ChildInv
  <2> QED BY <1>3, <2>3, <2>4 DEF WaitInv
<1> QED BY <1>4, <1>5

\* Every step of waitforsignal keeps its invariant.
LEMMA WaitStep ==
  ASSUME WaitInv, [Wait!Next]_(Wait!vars)
  PROVE  WaitInv'
<1>1. CASE UNCHANGED Wait!vars
  BY <1>1 DEF Wait!vars, Wait!mainVars, WaitInv, Wait!TypeOK, Wait!ReportsItsChild, ChildInv, FrameInv
<1>2. CASE Wait!HandleChld \/ Wait!HandleInt
  <2>1. frame # <<>> /\ Wait!Pop /\ Head(frame) = frame[1]
    BY <1>2, WaitTypes, FramePopped DEF Wait!HandleChld, Wait!HandleInt, Wait!InFrame
  <2>2. \/ frame[1].sig = "INT" /\ UNCHANGED <<pid, proc>>
        \/ /\ frame[1].sig = "CHLD"
           /\ \E p \in Pids : proc[p] = "zombie" /\ proc' = [proc EXCEPT ![p] = "free"] /\ pid' = p
    BY <1>2, <2>1 DEF Wait!HandleChld, Wait!HandleInt, Wait!InFrame
  <2> QED BY <2>1, <2>2, WaitPops
<1>3. ASSUME NEW p \in Pids, Wait!ChildExits(p)
      PROVE  WaitInv'
  <2>1. /\ proc[p] = "running" /\ proc' = [proc EXCEPT ![p] = "zombie"] /\ pendchld' = TRUE
        /\ UNCHANGED <<pc, i, child, prev, pid, mask, held, frame, pendint>>
    BY <1>3 DEF Wait!ChildExits, Wait!mainVars
  <2>2. proc' \in [Pids -> {"free", "running", "zombie"}] /\ \A q \in Pids : proc'[q] = "free" <=> proc[q] = "free"
    BY <2>1, WaitTypes
  <2>3. Wait!TypeOK'
    BY <2>1, <2>2, WaitTypes, WaitTyped
  <2>4. Wait!ReportsItsChild' /\ ChildInv' /\ FrameInv'
    BY <2>1, <2>2 DEF WaitInv, Wait!ReportsItsChild, ChildInv, FrameInv
  <2> QED BY <2>3, <2>4 DEF WaitInv
<1>4. CASE Wait!UserInterrupts
  <2>1. pendint' = TRUE /\ UNCHANGED <<pc, i, child, prev, pid, mask, held, frame, proc, pendchld>>
    BY <1>4 DEF Wait!UserInterrupts, Wait!mainVars
  <2>2. Wait!TypeOK'
    BY <2>1, WaitTypes, WaitTyped
  <2>3. Wait!ReportsItsChild' /\ ChildInv' /\ FrameInv'
    BY <2>1 DEF WaitInv, Wait!ReportsItsChild, ChildInv, FrameInv
  <2> QED BY <2>2, <2>3 DEF WaitInv
<1> QED BY <1>1, <1>2, <1>3, <1>4, WaitMain, WaitDelivers DEF Wait!Next, Wait!Ended

(* wait *)

LEMMA OrderInitial == Kin!WaitInit => OrderInv
  BY SignalsAssumption DEF Kin!WaitInit, OrderInv, Kin!ReportsExact, Kin!ToSet, Kin!IsInjective

\* Every step of wait keeps the order of its reports.
LEMMA OrderStep ==
  ASSUME OrderInv, [Kin!WaitNext]_orderVars
  PROVE  OrderInv'
<1>1. /\ ordered \in BOOLEAN /\ made \in 0..Kids /\ reported \in Seq(1..Kids) /\ Kids \in Nat
      /\ state \in [1..Kids -> {"none", "running", "zombie", "reaped"}]
      /\ \A n \in 1..Kids : n > made => state[n] = "none"
      /\ DOMAIN reported = 1..Len(reported) /\ Len(reported) \in Nat
  BY SignalsAssumption DEF OrderInv
<1>2. /\ {reported[n] : n \in 1..Len(reported)} = {n \in 1..Kids : state[n] = "reaped"}
      /\ \A a, b \in 1..Len(reported) : reported[a] = reported[b] => a = b
      /\ ordered => \A n \in 1..Len(reported) : reported[n] = n
  BY <1>1 DEF OrderInv, Kin!ReportsExact, Kin!ToSet, Kin!IsInjective
<1>3. ASSUME UNCHANGED <<ordered, reported>>, made' \in 0..Kids,
             state' \in [1..Kids -> {"none", "running", "zombie", "reaped"}],
             \A n \in 1..Kids : (n > made' => state'[n] = "none") /\ (state'[n] = "reaped" <=> state[n] = "reaped")
      PROVE  OrderInv'
  BY <1>1, <1>2, <1>3 DEF OrderInv, Kin!ReportsExact, Kin!ToSet, Kin!IsInjective
<1>4. CASE Kin!MakeChild
  <2>1. made' = made + 1 /\ made < Kids /\ state' = [state EXCEPT ![made + 1] = "running"] /\ UNCHANGED <<ordered, reported>>
    BY <1>4 DEF Kin!MakeChild
  <2>2. made + 1 \in 1..Kids /\ state[made + 1] = "none"
    BY <1>1, <2>1
  <2> QED BY <1>1, <1>3, <2>1, <2>2
<1>5. CASE Kin!MakeFails \/ Kin!AllMade \/ Kin!WaitFails \/ UNCHANGED orderVars
  BY <1>1, <1>3, <1>5 DEF Kin!MakeFails, Kin!AllMade, Kin!WaitFails, orderVars
<1>6. CASE Kin!Waitpid
  <2>1. PICK h \in 1..Kids : Kin!awaited(h) /\ state' = [state EXCEPT ![h] = "reaped"] /\ reported' = Append(reported, h)
    BY <1>6 DEF Kin!Waitpid
  <2>2. UNCHANGED <<ordered, made>> /\ state[h] = "zombie" /\ (ordered => h = Len(reported) + 1)
    BY <1>6, <2>1 DEF Kin!Waitpid, Kin!awaited
  <2>3. /\ reported' \in Seq(1..Kids) /\ Len(reported') = Len(reported) + 1 /\ DOMAIN reported' = 1..(Len(reported) + 1)
        /\ \A n \in 1..(Len(reported) + 1) : reported'[n] = IF n = Len(reported) + 1 THEN h ELSE reported[n]
    BY <1>1, <2>1
  <2>4. state' \in [1..Kids -> {"none", "running", "zombie", "reaped"}]
        /\ \A n \in 1..Kids : (state'[n] = "reaped" <=> n = h \/ state[n] = "reaped") /\ (n > made' => state'[n] = "none")
    BY <1>1, <2>1, <2>2
  <2>5. \A n \in 1..Len(reported) : reported[n] # h
    BY <1>1, <1>2, <2>2
  <2>6. {reported'[n] : n \in 1..Len(reported')} = {n \in 1..Kids : state'[n] = "reaped"}
    <3>1. ASSUME NEW n \in 1..Len(reported')
          PROVE  reported'[n] \in 1..Kids /\ state'[reported'[n]] = "reaped"
      <4>1. CASE n = Len(reported) + 1
        BY <1>1, <2>3, <2>4, <4>1, SMTT(40)
      <4>2. CASE n # Len(reported) + 1
        <5>1. n \in 1..Len(reported) /\ reported'[n] = reported[n]
          BY <1>1, <2>3, <4>2
        <5>2. reported[n] \in 1..Kids /\ state[reported[n]] = "reaped"
          BY <1>2, <5>1
        <5> QED BY <2>4, <5>1, <5>2
      <4> QED BY <4>1, <4>2
    <3>2. ASSUME NEW m \in 1..Kids, state'[m] = "reaped"
          PROVE  \E n \in 1..Len(reported') : reported'[n] = m
      <4>1. CASE m = h
        BY <1>1, <2>3, <4>1
      <4>2. CASE m # h
        <5>1. PICK n \in 1..Len(reported) : reported[n] = m
          BY <1>2, <2>4, <3>2, <4>2
        <5>2. n \in 1..Len(reported') /\ reported'[n] = m
          BY <1>1, <2>3, <5>1, SMTT(40)
        <5> QED BY <5>2
      <4> QED BY <4>1, <4>2
    <3> QED BY <3>1, <3>2
  <2>7. \A a, b \in 1..Len(reported') : reported'[a] = reported'[b] => a = b
    <3>1. \A n \in 1..Len(reported') :
            IF n = Len(reported) + 1 THEN reported'[n] = h ELSE n \in 1..Len(reported) /\ reported'[n] = reported[n]
      BY <1>1, <2>3
    <3> QED BY <1>2, <2>5, <3>1
  <2>8. ordered => \A n \in 1..Len(reported') : reported'[n] = n
    BY <1>1, <1>2, <2>2, <2>3
  <2> QED BY <1>1, <2>2, <2>3, <2>4, <2>6, <2>7, <2>8 DEF OrderInv, Kin!ReportsExact, Kin!ToSet, Kin!IsInjective
<1>7. ASSUME NEW h \in 1..Kids, Kin!KidEnds(h)
      PROVE  OrderInv'
  <2>1. state[h] = "running" /\ state' = [state EXCEPT ![h] = "zombie"] /\ UNCHANGED <<ordered, made, reported>>
    BY <1>7 DEF Kin!KidEnds
  <2> QED BY <1>1, <1>3, <2>1
<1> QED BY <1>4, <1>5, <1>6, <1>7 DEF Kin!WaitNext, Kin!ParentSteps

(* handler *)

LEMMA HandlerInitial == Kin!DemoInit => HandlerInv
  BY DEF Kin!DemoInit, HandlerInv

LEMMA HandlerStep ==
  ASSUME HandlerInv, [Kin!DemoNext]_handlerVars
  PROVE  HandlerInv'
<1>1. CASE Kin!Fork \/ Kin!ForkFails \/ Kin!Read \/ Kin!ReadFails \/ Kin!Test
  BY <1>1 DEF Kin!Fork, Kin!ForkFails, Kin!Read, Kin!ReadFails, Kin!Test, Kin!MainAt, Kin!Fails, HandlerInv
<1>2. CASE Kin!Deliver \/ Kin!Reap \/ Kin!NobodyLeft \/ Kin!HandlerReturn \/ UNCHANGED handlerVars
  BY <1>2 DEF Kin!Deliver, Kin!Reap, Kin!NobodyLeft, Kin!HandlerReturn, handlerVars, HandlerInv
<1>3. CASE \E h \in 1..Kids : Kin!ChildExits(h)
  BY <1>3 DEF Kin!ChildExits, HandlerInv
<1> QED BY <1>1, <1>2, <1>3 DEF Kin!DemoNext, Kin!DemoSteps

(* race_write *)

TaggedIn(f, w) == {k \in 1..Len(f) : f[k] = w}

\* Every line of the file is one of the two writers'.
LEMMA TagsAddUp ==
  ASSUME NEW f \in Seq({"A", "B"})
  PROVE  /\ \A w \in {"A", "B"} : IsFiniteSet(TaggedIn(f, w)) /\ Cardinality(TaggedIn(f, w)) \in Nat
         /\ Len(f) = Cardinality(TaggedIn(f, "A")) + Cardinality(TaggedIn(f, "B"))
<1>1. Len(f) \in Nat /\ IsFiniteSet(1..Len(f)) /\ Cardinality(1..Len(f)) = Len(f)
  <2>1. Len(f) \in Nat /\ Len(f) \in Int /\ 1 \in Int
    OBVIOUS
  <2>2. IsFiniteSet(1..Len(f)) /\ Cardinality(1..Len(f)) = IF 1 > Len(f) THEN 0 ELSE Len(f) - 1 + 1
    BY <2>1, FS_Interval
  <2> QED BY <2>1, <2>2
<1>2. \A w : TaggedIn(f, w) \in SUBSET (1..Len(f))
  BY DEF TaggedIn
<1>3. \A w : IsFiniteSet(TaggedIn(f, w)) /\ Cardinality(TaggedIn(f, w)) \in Nat
  BY <1>1, <1>2, FS_Subset, FS_CardinalityType
<1>4. TaggedIn(f, "A") \cup TaggedIn(f, "B") = 1..Len(f) /\ TaggedIn(f, "A") \cap TaggedIn(f, "B") = {}
  BY DEF TaggedIn
<1>5. Cardinality(TaggedIn(f, "A") \cup TaggedIn(f, "B"))
        = Cardinality(TaggedIn(f, "A")) + Cardinality(TaggedIn(f, "B")) - Cardinality(TaggedIn(f, "A") \cap TaggedIn(f, "B"))
  BY <1>3, FS_Union
<1>6. Cardinality(TaggedIn(f, "A") \cap TaggedIn(f, "B")) = 0
  BY <1>4, FS_EmptySet
<1>7. Len(f) = Cardinality(TaggedIn(f, "A")) + Cardinality(TaggedIn(f, "B"))
  <2> DEFINE a == Cardinality(TaggedIn(f, "A"))
             b == Cardinality(TaggedIn(f, "B"))
  <2>1. a \in Nat /\ b \in Nat /\ Len(f) = a + b - 0
    BY <1>1, <1>3, <1>4, <1>5, <1>6
  <2> HIDE DEF a, b
  <2>2. Len(f) = a + b
    BY <2>1
  <2> QED BY <2>2 DEF a, b
<1> QED BY <1>3, <1>7

\* How race_write's lines are counted.
LEMMA TaggedIs ==
  ASSUME NEW w, DOMAIN file = 1..Len(file)
  PROVE  Races!Tagged(w) = Cardinality(TaggedIn(file, w))
<1>1. \A S : Races!Cardinality(S) = Cardinality(S)
  BY DEF Races!Cardinality, Cardinality
<1> QED BY <1>1 DEF Races!Tagged, TaggedIn

LEMMA TaggedNext ==
  ASSUME NEW w, DOMAIN file' = 1..Len(file')
  PROVE  Races!Tagged(w)' = Cardinality(TaggedIn(file', w))
<1>1. \A S : Races!Cardinality(S) = Cardinality(S)
  BY DEF Races!Cardinality, Cardinality
<1> QED BY <1>1 DEF Races!Tagged, TaggedIn

LEMMA MaxOfTwo ==
  ASSUME NEW a \in Int, NEW b \in Int
  PROVE  Races!Max({a, b}) = IF a >= b THEN a ELSE b
<1>1. Races!Max({a, b}) = Max({a, b})
  BY DEF Races!Max, Max
<1>2. CASE a >= b
  BY <1>1, <1>2, MaxIs
<1>3. CASE ~(a >= b)
  BY <1>1, <1>3, MaxIs
<1> QED BY <1>2, <1>3

\* What LinesExact says once the file is begun.
Exact(f) ==
  /\ append => \A w \in {"A", "B"} : Cardinality(TaggedIn(f, w)) = offset[w]
  /\ ~append => Len(f) = IF offset["A"] >= offset["B"] THEN offset["A"] ELSE offset["B"]

LEMMA FileInitial == Races!FileInit => FileInv
  BY DEF Races!FileInit, FileInv, Races!Writers, Races!LinesExact

\* The parts of the invariant.
LEMMA FileParts ==
  ASSUME FileInv
  PROVE  /\ offset \in [{"A", "B"} -> Nat]
         /\ rat \in {"start", "fork"} => bat = "none" /\ offset["A"] = 0 /\ offset["B"] = 0
         /\ rat # "start" => file \in Seq({"A", "B"}) /\ Exact(file)
<1>1. offset \in [{"A", "B"} -> Nat] /\ (rat # "start" => file \in Seq({"A", "B"}))
  BY DEF FileInv, Races!Writers
<1>2. ASSUME rat # "start" PROVE DOMAIN file = 1..Len(file)
  BY <1>1, <1>2
<1>3. ASSUME rat # "start", append PROVE \A w \in {"A", "B"} : Cardinality(TaggedIn(file, w)) = offset[w]
  BY <1>2, <1>3, TaggedIs DEF FileInv, Races!Writers, Races!LinesExact
<1>4. ASSUME rat # "start", ~append PROVE Len(file) = Races!Max({offset["A"], offset["B"]})
  BY <1>4 DEF FileInv, Races!LinesExact
<1>5. offset["A"] \in Int /\ offset["B"] \in Int
  BY <1>1
<1>6. rat \in {"start", "fork"} => bat = "none" /\ offset["A"] = 0 /\ offset["B"] = 0
  BY DEF FileInv, Races!Writers
<1>7. rat # "start" => Exact(file)
  BY <1>3, <1>4, <1>5, MaxOfTwo DEF Exact
<1> QED BY <1>1, <1>6, <1>7

\* They make it up.
LEMMA FileMade ==
  ASSUME offset' \in [{"A", "B"} -> Nat],
         rat' \in {"start", "fork"} => bat' = "none" /\ offset'["A"] = 0 /\ offset'["B"] = 0,
         rat' # "start" => file' \in Seq({"A", "B"}) /\ Exact(file)'
  PROVE  FileInv'
<1>1. offset'["A"] \in Int /\ offset'["B"] \in Int
  OBVIOUS
<1>2. ASSUME rat' # "start" PROVE Races!LinesExact'
  <2>1. DOMAIN file' = 1..Len(file') /\ Len(file') \in Nat
    BY <1>2
  <2>2. \A w : Races!Tagged(w)' = Cardinality(TaggedIn(file', w))
    BY <2>1, TaggedNext
  <2>3. append' => \A w \in {"A", "B"} : Races!Tagged(w)' = offset'[w]
    BY <1>2, <2>2 DEF Exact
  <2>4. Len(file') = Races!Tagged("A")' + Races!Tagged("B")'
    BY <1>2, <2>2, TagsAddUp
  <2>5. ~append' => Len(file') = Races!Max({offset'["A"], offset'["B"]})
    BY <1>1, <1>2, MaxOfTwo DEF Exact
  <2> QED BY <2>3, <2>4, <2>5 DEF Races!LinesExact, Races!Writers
<1>3. Races!LinesExact'
  BY <1>2 DEF Races!LinesExact
<1> QED BY <1>3 DEF FileInv, Races!Writers

\* Every step of race_write keeps the lines.
LEMMA FileStep ==
  ASSUME FileInv, [Races!FileNext]_fileVars
  PROVE  FileInv'
<1>1. CASE UNCHANGED fileVars
  BY <1>1, FileParts, FileMade DEF fileVars, Exact
<1>2. CASE Races!Truncate
  <2>1. rat = "start" /\ rat' = "fork" /\ file' = <<>> /\ UNCHANGED <<append, bat, offset>>
    BY <1>2 DEF Races!Truncate
  <2>2. file' \in Seq({"A", "B"}) /\ Len(file') = 0
    BY <2>1
  <2>3. \A w : TaggedIn(file', w) = {}
    BY <2>2 DEF TaggedIn
  <2>4. Exact(file)'
    BY <2>1, <2>2, <2>3, FileParts, FS_EmptySet DEF Exact
  <2> QED BY <2>1, <2>2, <2>4, FileParts, FileMade
<1>3. CASE Races!Fork \/ Races!ChildEnds \/ Races!Wait \/ \E w \in Races!Writers : Races!WriteFails(w)
  <2>1. UNCHANGED <<append, file, offset>> /\ (rat' = rat \/ rat' \notin {"start", "fork"}) /\ (rat' # "start" => rat # "start")
        /\ (rat' \in {"start", "fork"} => bat' = bat)
    BY <1>3, FileParts DEF Races!Fork, Races!ChildEnds, Races!Wait, Races!WriteFails, Races!Writing
  <2>2. rat # "start" => Exact(file)'
    BY <2>1, FileParts DEF Exact
  <2> QED BY <2>1, <2>2, FileParts, FileMade
<1>4. ASSUME NEW w \in {"A", "B"}, Races!Write(w)
      PROVE  FileInv'
  <2>1. /\ UNCHANGED <<append, rat, bat>> /\ offset' = [offset EXCEPT ![w] = @ + 1] /\ rat \notin {"start", "fork"}
        /\ file' = [k \in 1..Races!Max({Len(file), Races!placed(w)}) |-> IF k = Races!placed(w) THEN w ELSE file[k]]
    BY <1>4, FileParts DEF Races!Write, Races!Writing
  <2> DEFINE at_ == IF append THEN Len(file) + 1 ELSE offset[w] + 1
             n == IF Len(file) >= at_ THEN Len(file) ELSE at_
  <2>2. /\ file \in Seq({"A", "B"}) /\ Len(file) \in Nat /\ Exact(file) /\ offset \in [{"A", "B"} -> Nat]
        /\ \A k \in 1..Len(file) : file[k] \in {"A", "B"}
    BY <2>1, FileParts
  <2>3. offset["A"] \in Nat /\ offset["B"] \in Nat /\ offset[w] \in Nat /\ offset' \in [{"A", "B"} -> Nat]
        /\ offset'[w] = offset[w] + 1 /\ \A v \in {"A", "B"} : v # w => offset'[v] = offset[v]
    BY <2>1, <2>2
  <2>4. at_ \in Nat /\ at_ >= 1 /\ at_ <= Len(file) + 1 /\ n \in Nat /\ at_ <= n
    BY <2>2, <2>3 DEF Exact
  <2>5. Races!placed(w) = at_
    BY DEF Races!placed
  <2>6. Races!Max({Len(file), at_}) = n
    BY <2>2, <2>4, MaxOfTwo, SMTT(40)
  <2>7. file' = [k \in 1..n |-> IF k = at_ THEN w ELSE file[k]]
    BY <2>1, <2>5, <2>6
  <2>8. \A k \in 1..n : k # at_ => k \in 1..Len(file)
    BY <2>2, <2>4
  <2> HIDE DEF n
  <2>9. file' \in Seq({"A", "B"}) /\ Len(file') = n /\ \A k \in 1..n : file'[k] = IF k = at_ THEN w ELSE file[k]
    <3>1. file' \in [1..n -> {"A", "B"}]
      BY <2>2, <2>7, <2>8
    <3>2. file' \in Seq({"A", "B"})
      BY <2>4, <3>1, SeqDef
    <3>3. Len(file') = n
      BY <2>4, <3>1, <3>2
    <3> QED BY <2>7, <3>2, <3>3
  <2>10. CASE append
    <3>1. n = Len(file) + 1 /\ at_ = Len(file) + 1
      BY <2>2, <2>10 DEF n
    <3>2. TaggedIn(file', w) = TaggedIn(file, w) \cup {at_} /\ at_ \notin TaggedIn(file, w)
      BY <2>2, <2>9, <3>1 DEF TaggedIn
    <3>3. \A v \in {"A", "B"} : v # w => TaggedIn(file', v) = TaggedIn(file, v)
      BY <2>2, <2>9, <3>1 DEF TaggedIn
    <3>4. Cardinality(TaggedIn(file', w)) = Cardinality(TaggedIn(file, w)) + 1
      <4>1. IsFiniteSet(TaggedIn(file, w))
        BY <2>2, TagsAddUp
      <4> HIDE DEF at_
      <4>2. Cardinality(TaggedIn(file, w) \cup {at_}) = Cardinality(TaggedIn(file, w)) + 1
        BY <3>2, <4>1, FS_AddElement
      <4> QED BY <3>2, <4>2
    <3>5. \A v \in {"A", "B"} : Cardinality(TaggedIn(file, v)) = offset[v]
      BY <2>2, <2>10 DEF Exact
    <3>6. \A v \in {"A", "B"} : Cardinality(TaggedIn(file', v)) = offset'[v]
      BY <2>3, <3>3, <3>4, <3>5
    <3>7. Exact(file)'
      BY <2>1, <2>10, <3>6 DEF Exact
    <3> QED BY <2>1, <2>3, <2>9, <3>7, FileMade
  <2>11. CASE ~append
    <3>1. Len(file') = IF offset'["A"] >= offset'["B"] THEN offset'["A"] ELSE offset'["B"]
      BY <2>2, <2>3, <2>9, <2>11 DEF Exact, n
    <3>2. Exact(file)'
      BY <2>1, <2>11, <3>1 DEF Exact
    <3> QED BY <2>1, <2>3, <2>9, <3>2, FileMade
  <2> QED BY <2>10, <2>11
<1> QED BY <1>1, <1>2, <1>3, <1>4 DEF Races!FileNext, Races!FileSteps, Races!Writers

(* ipc_demo *)

\* The demonstration that runs is the first of those left.
LEMMA DemoNow ==
  ASSUME StageInv
  PROVE  /\ Demos!demo \in {"uds", "mmap", "eventfd"} /\ todo # <<>>
         /\ Len(todo) > 1 => Tail(todo) \in {<<"mmap", "eventfd">>, <<"eventfd">>}
         /\ UNCHANGED todo => Demos!demo' = Demos!demo
<1>1. todo \in {<<"uds">>, <<"mmap">>, <<"eventfd">>, <<"mmap", "eventfd">>, <<"uds", "mmap", "eventfd">>}
  BY DEF StageInv
<1>2. /\ Len(<<"uds">>) = 1 /\ Head(<<"uds">>) = "uds" /\ Len(<<"mmap">>) = 1 /\ Head(<<"mmap">>) = "mmap"
      /\ Len(<<"eventfd">>) = 1 /\ Head(<<"eventfd">>) = "eventfd"
      /\ Head(<<"mmap", "eventfd">>) = "mmap" /\ Tail(<<"mmap", "eventfd">>) = <<"eventfd">>
      /\ Head(<<"uds", "mmap", "eventfd">>) = "uds" /\ Tail(<<"uds", "mmap", "eventfd">>) = <<"mmap", "eventfd">>
  OBVIOUS
<1>3. todo # <<>>
  BY <1>1
<1>4. /\ Head(todo) \in {"uds", "mmap", "eventfd"}
      /\ Len(todo) > 1 => Tail(todo) \in {<<"mmap", "eventfd">>, <<"eventfd">>}
  <2>1. CASE todo \in {<<"uds">>, <<"mmap">>, <<"eventfd">>}
    BY <1>2, <2>1
  <2>2. CASE todo = <<"mmap", "eventfd">>
    BY <1>2, <2>2
  <2>3. CASE todo = <<"uds", "mmap", "eventfd">>
    BY <1>2, <2>3
  <2> QED BY <1>1, <2>1, <2>2, <2>3
<1> QED BY <1>3, <1>4 DEF Demos!demo

LEMMA ExpectedOf ==
  /\ Demos!Expected["uds"] = "reply" /\ Demos!Expected["mmap"] = "hello"
  /\ Demos!Expected["eventfd"] = "three"
  BY DEF Demos!Expected

LEMMA DemoInitial == Demos!Init => DemoInv
<1> SUFFICES ASSUME Demos!Init PROVE DemoInv
  OBVIOUS
<1>1. todo \in {<<"uds">>, <<"mmap">>, <<"eventfd">>, <<"uds", "mmap", "eventfd">>}
  BY DEF Demos!Init, Demos!Programs
<1>2. /\ ppc = "setup" /\ pexit = -1 /\ cpc = "none" /\ cexit = -1 /\ listeners = {} /\ link = "none"
      /\ wrote = 0 /\ took = 0 /\ answered = 0 /\ ready = 0 /\ message = Demos!Empty /\ counter = 0
      /\ seen = [d \in Demos!Demos |-> "nothing"]
  BY DEF Demos!Init
<1>3. Demos!TypeOK
  BY <1>2, SignalsAssumption DEF Demos!TypeOK
<1>4. StageInv /\ WrittenInv
  BY <1>1, <1>2 DEF StageInv, WrittenInv
<1>5. SeenInv
  BY <1>2 DEF SeenInv, Demos!Demos
<1> QED BY <1>3, <1>4, <1>5 DEF DemoInv

\* The parent's steps.
LEMMA DemoParent ==
  ASSUME DemoInv, Demos!ParentSteps \/ Demos!die
  PROVE  DemoInv'
<1>1. Demos!TypeOK /\ StageInv /\ WrittenInv /\ SeenInv /\ Pieces \in Nat /\ Pieces >= 1
  BY SignalsAssumption DEF DemoInv
<1> USE DEF Demos!ParentTo, Demos!ParentExit, Demos!ChildTo, Demos!ChildExit, Demos!AfterClose, Demos!parent,
            Demos!socket
<1>2. CASE Demos!Setup
  <2>1. UNCHANGED todo /\ Demos!demo' = Demos!demo
    BY <1>1, <1>2, DemoNow DEF Demos!Setup
  <2>2. Demos!TypeOK'
    <3>1. ready' \in 0..1 /\ message' \in {Demos!Empty, "hello"} /\ counter' \in {0, 3} /\ listeners' \subseteq {"parent", "child"}
      <4>1. CASE Demos!demo = "uds"
        <5>1. UNCHANGED <<ready, message, counter>> /\ listeners' = {"parent"}
          BY <1>2, <4>1 DEF Demos!Setup
        <5> QED BY <1>1, <5>1 DEF Demos!TypeOK
      <4>2. CASE Demos!demo # "uds"
        <5>1. ready' = 0 /\ message' = Demos!Empty /\ counter' = 0 /\ listeners' = listeners
          BY <1>2, <4>2 DEF Demos!Setup
        <5> QED BY <1>1, <5>1 DEF Demos!TypeOK
      <4> QED BY <4>1, <4>2
    <3>2. ppc' = "fork" /\ UNCHANGED <<cpc, pexit, cexit, link, wrote, took, answered>>
      BY <1>2 DEF Demos!Setup
    <3> QED BY <1>1, <3>1, <3>2 DEF Demos!TypeOK
  <2>3. StageInv'
    BY <1>1, <1>2, <2>1, DemoNow DEF Demos!Setup, StageInv
  <2>4. WrittenInv'
    BY <1>1, <1>2, <2>1, DemoNow DEF Demos!Setup, StageInv, WrittenInv, Demos!TypeOK
  <2>5. SeenInv'
    BY <1>1, <1>2, <2>1, DemoNow, ExpectedOf DEF Demos!Setup, StageInv, WrittenInv, SeenInv, Demos!TypeOK, Demos!Demos
  <2> QED BY <2>2, <2>3, <2>4, <2>5 DEF DemoInv
<1>3. CASE Demos!Fork
  <2>1. UNCHANGED todo /\ Demos!demo' = Demos!demo
    BY <1>1, <1>3, DemoNow DEF Demos!Fork
  <2>2. Demos!TypeOK'
    BY <1>1, <1>3 DEF Demos!Fork, Demos!TypeOK, StageInv, WrittenInv
  <2>3. StageInv'
    BY <1>1, <1>3, <2>1, DemoNow DEF Demos!Fork, StageInv
  <2>4. WrittenInv'
    BY <1>1, <1>3, <2>1, DemoNow DEF Demos!Fork, StageInv, WrittenInv, Demos!TypeOK
  <2>5. SeenInv'
    BY <1>1, <1>3, <2>1, DemoNow, ExpectedOf DEF Demos!Fork, StageInv, WrittenInv, SeenInv, Demos!TypeOK, Demos!Demos
  <2> QED BY <2>2, <2>3, <2>4, <2>5 DEF DemoInv
<1>4. CASE Demos!Accept
  <2>1. UNCHANGED todo /\ Demos!demo' = Demos!demo
    BY <1>1, <1>4, DemoNow DEF Demos!Accept
  <2>2. Demos!TypeOK'
    BY <1>1, <1>4 DEF Demos!Accept, Demos!TypeOK, StageInv, WrittenInv
  <2>3. StageInv'
    BY <1>1, <1>4, <2>1, DemoNow DEF Demos!Accept, StageInv
  <2>4. WrittenInv'
    BY <1>1, <1>4, <2>1, DemoNow DEF Demos!Accept, StageInv, WrittenInv, Demos!TypeOK
  <2>5. SeenInv'
    BY <1>1, <1>4, <2>1, DemoNow, ExpectedOf DEF Demos!Accept, StageInv, WrittenInv, SeenInv, Demos!TypeOK, Demos!Demos
  <2> QED BY <2>2, <2>3, <2>4, <2>5 DEF DemoInv
<1>5. CASE Demos!ReadRequest
  <2>1. UNCHANGED todo /\ Demos!demo' = Demos!demo
    BY <1>1, <1>5, DemoNow DEF Demos!ReadRequest
  <2>2. Demos!TypeOK'
    BY <1>1, <1>5 DEF Demos!ReadRequest, Demos!TypeOK, StageInv, WrittenInv
  <2>3. StageInv'
    BY <1>1, <1>5, <2>1, DemoNow DEF Demos!ReadRequest, StageInv
  <2>4. WrittenInv'
    BY <1>1, <1>5, <2>1, DemoNow DEF Demos!ReadRequest, StageInv, WrittenInv, Demos!TypeOK
  <2>5. SeenInv'
    BY <1>1, <1>5, <2>1, DemoNow, ExpectedOf DEF Demos!ReadRequest, StageInv, WrittenInv, SeenInv, Demos!TypeOK, Demos!Demos
  <2> QED BY <2>2, <2>3, <2>4, <2>5 DEF DemoInv
<1>6. CASE Demos!WriteReply
  <2>1. UNCHANGED todo /\ Demos!demo' = Demos!demo
    BY <1>1, <1>6, DemoNow DEF Demos!WriteReply
  <2>2. Demos!TypeOK'
    BY <1>1, <1>6 DEF Demos!WriteReply, Demos!TypeOK, StageInv, WrittenInv
  <2>3. StageInv'
    BY <1>1, <1>6, <2>1, DemoNow DEF Demos!WriteReply, StageInv
  <2>4. WrittenInv'
    BY <1>1, <1>6, <2>1, DemoNow DEF Demos!WriteReply, StageInv, WrittenInv, Demos!TypeOK
  <2>5. SeenInv'
    BY <1>1, <1>6, <2>1, DemoNow, ExpectedOf DEF Demos!WriteReply, StageInv, WrittenInv, SeenInv, Demos!TypeOK, Demos!Demos
  <2> QED BY <2>2, <2>3, <2>4, <2>5 DEF DemoInv
<1>7. CASE Demos!ReplyWritten
  <2>1. UNCHANGED todo /\ Demos!demo' = Demos!demo
    BY <1>1, <1>7, DemoNow DEF Demos!ReplyWritten
  <2>2. Demos!TypeOK'
    BY <1>1, <1>7 DEF Demos!ReplyWritten, Demos!TypeOK, StageInv, WrittenInv
  <2>3. StageInv'
    BY <1>1, <1>7, <2>1, DemoNow DEF Demos!ReplyWritten, StageInv
  <2>4. WrittenInv'
    BY <1>1, <1>7, <2>1, DemoNow DEF Demos!ReplyWritten, StageInv, WrittenInv, Demos!TypeOK
  <2>5. SeenInv'
    BY <1>1, <1>7, <2>1, DemoNow, ExpectedOf DEF Demos!ReplyWritten, StageInv, WrittenInv, SeenInv, Demos!TypeOK, Demos!Demos
  <2> QED BY <2>2, <2>3, <2>4, <2>5 DEF DemoInv
<1>8. CASE Demos!WriteKilled
  <2>1. UNCHANGED todo /\ Demos!demo' = Demos!demo
    BY <1>1, <1>8, DemoNow DEF Demos!WriteKilled
  <2>2. Demos!TypeOK'
    BY <1>1, <1>8 DEF Demos!WriteKilled, Demos!TypeOK, StageInv, WrittenInv
  <2>3. StageInv'
    BY <1>1, <1>8, <2>1, DemoNow DEF Demos!WriteKilled, StageInv
  <2>4. WrittenInv'
    BY <1>1, <1>8, <2>1, DemoNow DEF Demos!WriteKilled, StageInv, WrittenInv, Demos!TypeOK
  <2>5. SeenInv'
    BY <1>1, <1>8, <2>1, DemoNow, ExpectedOf DEF Demos!WriteKilled, StageInv, WrittenInv, SeenInv, Demos!TypeOK, Demos!Demos
  <2> QED BY <2>2, <2>3, <2>4, <2>5 DEF DemoInv
<1>9. CASE Demos!Close
  <2>1. UNCHANGED todo /\ Demos!demo' = Demos!demo
    BY <1>1, <1>9, DemoNow DEF Demos!Close
  <2>2. Demos!TypeOK'
    BY <1>1, <1>9 DEF Demos!Close, Demos!TypeOK, StageInv, WrittenInv
  <2>3. StageInv'
    BY <1>1, <1>9, <2>1, DemoNow DEF Demos!Close, StageInv
  <2>4. WrittenInv'
    BY <1>1, <1>9, <2>1, DemoNow DEF Demos!Close, StageInv, WrittenInv, Demos!TypeOK
  <2>5. SeenInv'
    BY <1>1, <1>9, <2>1, DemoNow, ExpectedOf DEF Demos!Close, StageInv, WrittenInv, SeenInv, Demos!TypeOK, Demos!Demos
  <2> QED BY <2>2, <2>3, <2>4, <2>5 DEF DemoInv
<1>10. CASE Demos!Store
  <2>1. UNCHANGED todo /\ Demos!demo' = Demos!demo
    BY <1>1, <1>10, DemoNow DEF Demos!Store
  <2>2. Demos!TypeOK'
    BY <1>1, <1>10 DEF Demos!Store, Demos!TypeOK, StageInv, WrittenInv
  <2>3. StageInv'
    BY <1>1, <1>10, <2>1, DemoNow DEF Demos!Store, StageInv
  <2>4. WrittenInv'
    BY <1>1, <1>10, <2>1, DemoNow DEF Demos!Store, StageInv, WrittenInv, Demos!TypeOK
  <2>5. SeenInv'
    BY <1>1, <1>10, <2>1, DemoNow, ExpectedOf DEF Demos!Store, StageInv, WrittenInv, SeenInv, Demos!TypeOK, Demos!Demos
  <2> QED BY <2>2, <2>3, <2>4, <2>5 DEF DemoInv
<1>11. CASE Demos!Post
  <2>1. UNCHANGED todo /\ Demos!demo' = Demos!demo
    BY <1>1, <1>11, DemoNow DEF Demos!Post
  <2>2. Demos!TypeOK'
    BY <1>1, <1>11 DEF Demos!Post, Demos!TypeOK, StageInv, WrittenInv
  <2>3. StageInv'
    BY <1>1, <1>11, <2>1, DemoNow DEF Demos!Post, StageInv
  <2>4. WrittenInv'
    BY <1>1, <1>11, <2>1, DemoNow DEF Demos!Post, StageInv, WrittenInv, Demos!TypeOK
  <2>5. SeenInv'
    BY <1>1, <1>11, <2>1, DemoNow, ExpectedOf DEF Demos!Post, StageInv, WrittenInv, SeenInv, Demos!TypeOK, Demos!Demos
  <2> QED BY <2>2, <2>3, <2>4, <2>5 DEF DemoInv
<1>12. CASE Demos!Signal
  <2>1. UNCHANGED todo /\ Demos!demo' = Demos!demo
    BY <1>1, <1>12, DemoNow DEF Demos!Signal
  <2>2. Demos!TypeOK'
    BY <1>1, <1>12 DEF Demos!Signal, Demos!TypeOK, StageInv, WrittenInv
  <2>3. StageInv'
    BY <1>1, <1>12, <2>1, DemoNow DEF Demos!Signal, StageInv
  <2>4. WrittenInv'
    BY <1>1, <1>12, <2>1, DemoNow DEF Demos!Signal, StageInv, WrittenInv, Demos!TypeOK
  <2>5. SeenInv'
    BY <1>1, <1>12, <2>1, DemoNow, ExpectedOf DEF Demos!Signal, StageInv, WrittenInv, SeenInv, Demos!TypeOK, Demos!Demos
  <2> QED BY <2>2, <2>3, <2>4, <2>5 DEF DemoInv
<1>13. CASE Demos!WaitChild
  <2>1. UNCHANGED todo /\ Demos!demo' = Demos!demo
    BY <1>1, <1>13, DemoNow DEF Demos!WaitChild
  <2>2. Demos!TypeOK'
    BY <1>1, <1>13 DEF Demos!WaitChild, Demos!TypeOK, StageInv, WrittenInv
  <2>3. StageInv'
    BY <1>1, <1>13, <2>1, DemoNow DEF Demos!WaitChild, StageInv
  <2>4. WrittenInv'
    BY <1>1, <1>13, <2>1, DemoNow DEF Demos!WaitChild, StageInv, WrittenInv, Demos!TypeOK
  <2>5. SeenInv'
    BY <1>1, <1>13, <2>1, DemoNow, ExpectedOf DEF Demos!WaitChild, StageInv, WrittenInv, SeenInv, Demos!TypeOK, Demos!Demos
  <2> QED BY <2>2, <2>3, <2>4, <2>5 DEF DemoInv
<1>14. CASE Demos!ChildAbnormal
  <2>1. UNCHANGED todo /\ Demos!demo' = Demos!demo
    BY <1>1, <1>14, DemoNow DEF Demos!ChildAbnormal
  <2>2. Demos!TypeOK'
    BY <1>1, <1>14 DEF Demos!ChildAbnormal, Demos!TypeOK, StageInv, WrittenInv
  <2>3. StageInv'
    BY <1>1, <1>14, <2>1, DemoNow DEF Demos!ChildAbnormal, StageInv
  <2>4. WrittenInv'
    BY <1>1, <1>14, <2>1, DemoNow DEF Demos!ChildAbnormal, StageInv, WrittenInv, Demos!TypeOK
  <2>5. SeenInv'
    BY <1>1, <1>14, <2>1, DemoNow, ExpectedOf DEF Demos!ChildAbnormal, StageInv, WrittenInv, SeenInv, Demos!TypeOK, Demos!Demos
  <2> QED BY <2>2, <2>3, <2>4, <2>5 DEF DemoInv
<1>15. CASE Demos!MainReturns
  <2>1. UNCHANGED todo /\ Demos!demo' = Demos!demo
    BY <1>1, <1>15, DemoNow DEF Demos!MainReturns
  <2>2. Demos!TypeOK'
    BY <1>1, <1>15 DEF Demos!MainReturns, Demos!TypeOK, StageInv, WrittenInv
  <2>3. StageInv'
    BY <1>1, <1>15, <2>1, DemoNow DEF Demos!MainReturns, StageInv
  <2>4. WrittenInv'
    BY <1>1, <1>15, <2>1, DemoNow DEF Demos!MainReturns, StageInv, WrittenInv, Demos!TypeOK
  <2>5. SeenInv'
    BY <1>1, <1>15, <2>1, DemoNow, ExpectedOf DEF Demos!MainReturns, StageInv, WrittenInv, SeenInv, Demos!TypeOK, Demos!Demos
  <2> QED BY <2>2, <2>3, <2>4, <2>5 DEF DemoInv
<1>16. CASE Demos!die
  <2>1. UNCHANGED todo /\ Demos!demo' = Demos!demo
    BY <1>1, <1>16, DemoNow DEF Demos!die
  <2>2. Demos!TypeOK'
    BY <1>1, <1>16 DEF Demos!die, Demos!TypeOK, StageInv, WrittenInv
  <2>3. StageInv'
    BY <1>1, <1>16, <2>1, DemoNow DEF Demos!die, StageInv
  <2>4. WrittenInv'
    BY <1>1, <1>16, <2>1, DemoNow DEF Demos!die, StageInv, WrittenInv, Demos!TypeOK
  <2>5. SeenInv'
    BY <1>1, <1>16, <2>1, DemoNow, ExpectedOf DEF Demos!die, StageInv, WrittenInv, SeenInv, Demos!TypeOK, Demos!Demos
  <2> QED BY <2>2, <2>3, <2>4, <2>5 DEF DemoInv
<1>17. CASE Demos!NextDemo
  <2>1. /\ ppc = "cleanup" /\ todo' = Tail(todo) /\ Len(todo) > 1 /\ ppc' = "setup" /\ cpc' = "none"
        /\ UNCHANGED <<pexit, cexit, listeners, link, connfd, wrote, took, answered, ready, message, counter, seen>>
    BY <1>17 DEF Demos!NextDemo
  <2>2. Demos!TypeOK'
    BY <1>1, <2>1 DEF Demos!TypeOK
  <2>3. StageInv'
    BY <1>1, <2>1, DemoNow DEF StageInv
  <2>4. WrittenInv'
    BY <1>1, <2>1 DEF WrittenInv
  <2>5. SeenInv'
    BY <1>1, <2>1 DEF SeenInv
  <2> QED BY <2>2, <2>3, <2>4, <2>5 DEF DemoInv
<1> QED BY <1>2, <1>3, <1>4, <1>5, <1>6, <1>7, <1>8, <1>9, <1>10, <1>11, <1>12, <1>13, <1>14, <1>15, <1>16, <1>17 DEF Demos!ParentSteps

\* The child's.
LEMMA DemoChild ==
  ASSUME DemoInv, Demos!ChildSteps \/ Demos!child_die
  PROVE  DemoInv'
<1>1. Demos!TypeOK /\ StageInv /\ WrittenInv /\ SeenInv /\ Pieces \in Nat /\ Pieces >= 1
  BY SignalsAssumption DEF DemoInv
<1> USE DEF Demos!ParentTo, Demos!ParentExit, Demos!ChildTo, Demos!ChildExit, Demos!AfterClose, Demos!parent,
            Demos!socket
<1>2. CASE Demos!Connect
  <2>1. UNCHANGED todo /\ Demos!demo' = Demos!demo
    BY <1>1, <1>2, DemoNow DEF Demos!Connect
  <2>2. Demos!TypeOK'
    BY <1>1, <1>2 DEF Demos!Connect, Demos!TypeOK, StageInv, WrittenInv
  <2>3. StageInv'
    BY <1>1, <1>2, <2>1, DemoNow DEF Demos!Connect, StageInv
  <2>4. WrittenInv'
    BY <1>1, <1>2, <2>1, DemoNow DEF Demos!Connect, StageInv, WrittenInv, Demos!TypeOK
  <2>5. SeenInv'
    BY <1>1, <1>2, <2>1, DemoNow, ExpectedOf DEF Demos!Connect, StageInv, WrittenInv, SeenInv, Demos!TypeOK, Demos!Demos
  <2> QED BY <2>2, <2>3, <2>4, <2>5 DEF DemoInv
<1>3. CASE Demos!WriteRequest
  <2>1. UNCHANGED todo /\ Demos!demo' = Demos!demo
    BY <1>1, <1>3, DemoNow DEF Demos!WriteRequest
  <2>2. Demos!TypeOK'
    BY <1>1, <1>3 DEF Demos!WriteRequest, Demos!TypeOK, StageInv, WrittenInv
  <2>3. StageInv'
    BY <1>1, <1>3, <2>1, DemoNow DEF Demos!WriteRequest, StageInv
  <2>4. WrittenInv'
    BY <1>1, <1>3, <2>1, DemoNow DEF Demos!WriteRequest, StageInv, WrittenInv, Demos!TypeOK
  <2>5. SeenInv'
    BY <1>1, <1>3, <2>1, DemoNow, ExpectedOf DEF Demos!WriteRequest, StageInv, WrittenInv, SeenInv, Demos!TypeOK, Demos!Demos
  <2> QED BY <2>2, <2>3, <2>4, <2>5 DEF DemoInv
<1>4. CASE Demos!RequestWritten
  <2>1. UNCHANGED todo /\ Demos!demo' = Demos!demo
    BY <1>1, <1>4, DemoNow DEF Demos!RequestWritten
  <2>2. Demos!TypeOK'
    BY <1>1, <1>4 DEF Demos!RequestWritten, Demos!TypeOK, StageInv, WrittenInv
  <2>3. StageInv'
    BY <1>1, <1>4, <2>1, DemoNow DEF Demos!RequestWritten, StageInv
  <2>4. WrittenInv'
    BY <1>1, <1>4, <2>1, DemoNow DEF Demos!RequestWritten, StageInv, WrittenInv, Demos!TypeOK
  <2>5. SeenInv'
    BY <1>1, <1>4, <2>1, DemoNow, ExpectedOf DEF Demos!RequestWritten, StageInv, WrittenInv, SeenInv, Demos!TypeOK, Demos!Demos
  <2> QED BY <2>2, <2>3, <2>4, <2>5 DEF DemoInv
<1>5. CASE Demos!RequestKilled
  <2>1. UNCHANGED todo /\ Demos!demo' = Demos!demo
    BY <1>1, <1>5, DemoNow DEF Demos!RequestKilled
  <2>2. Demos!TypeOK'
    BY <1>1, <1>5 DEF Demos!RequestKilled, Demos!TypeOK, StageInv, WrittenInv
  <2>3. StageInv'
    BY <1>1, <1>5, <2>1, DemoNow DEF Demos!RequestKilled, StageInv
  <2>4. WrittenInv'
    BY <1>1, <1>5, <2>1, DemoNow DEF Demos!RequestKilled, StageInv, WrittenInv, Demos!TypeOK
  <2>5. SeenInv'
    BY <1>1, <1>5, <2>1, DemoNow, ExpectedOf DEF Demos!RequestKilled, StageInv, WrittenInv, SeenInv, Demos!TypeOK, Demos!Demos
  <2> QED BY <2>2, <2>3, <2>4, <2>5 DEF DemoInv
<1>6. CASE Demos!ReadReply
  <2>1. UNCHANGED todo /\ Demos!demo' = Demos!demo
    BY <1>1, <1>6, DemoNow DEF Demos!ReadReply
  <2>2. Demos!TypeOK'
    BY <1>1, <1>6 DEF Demos!ReadReply, Demos!TypeOK, StageInv, WrittenInv
  <2>3. StageInv'
    BY <1>1, <1>6, <2>1, DemoNow DEF Demos!ReadReply, StageInv
  <2>4. WrittenInv'
    BY <1>1, <1>6, <2>1, DemoNow DEF Demos!ReadReply, StageInv, WrittenInv, Demos!TypeOK
  <2>5. SeenInv'
    BY <1>1, <1>6, <2>1, DemoNow, ExpectedOf DEF Demos!ReadReply, StageInv, WrittenInv, SeenInv, Demos!TypeOK, Demos!Demos
  <2> QED BY <2>2, <2>3, <2>4, <2>5 DEF DemoInv
<1>7. CASE Demos!SemWait
  <2>1. UNCHANGED todo /\ Demos!demo' = Demos!demo
    BY <1>1, <1>7, DemoNow DEF Demos!SemWait
  <2>2. Demos!TypeOK'
    BY <1>1, <1>7 DEF Demos!SemWait, Demos!TypeOK, StageInv, WrittenInv
  <2>3. StageInv'
    BY <1>1, <1>7, <2>1, DemoNow DEF Demos!SemWait, StageInv
  <2>4. WrittenInv'
    BY <1>1, <1>7, <2>1, DemoNow DEF Demos!SemWait, StageInv, WrittenInv, Demos!TypeOK
  <2>5. SeenInv'
    BY <1>1, <1>7, <2>1, DemoNow, ExpectedOf DEF Demos!SemWait, StageInv, WrittenInv, SeenInv, Demos!TypeOK, Demos!Demos
  <2> QED BY <2>2, <2>3, <2>4, <2>5 DEF DemoInv
<1>8. CASE Demos!Load
  <2>1. UNCHANGED todo /\ Demos!demo' = Demos!demo
    BY <1>1, <1>8, DemoNow DEF Demos!Load
  <2>2. Demos!TypeOK'
    BY <1>1, <1>8 DEF Demos!Load, Demos!TypeOK, StageInv, WrittenInv
  <2>3. StageInv'
    BY <1>1, <1>8, <2>1, DemoNow DEF Demos!Load, StageInv
  <2>4. WrittenInv'
    BY <1>1, <1>8, <2>1, DemoNow DEF Demos!Load, StageInv, WrittenInv, Demos!TypeOK
  <2>5. SeenInv'
    BY <1>1, <1>8, <2>1, DemoNow, ExpectedOf DEF Demos!Load, StageInv, WrittenInv, SeenInv, Demos!TypeOK, Demos!Demos
  <2> QED BY <2>2, <2>3, <2>4, <2>5 DEF DemoInv
<1>9. CASE Demos!ReadCounter
  <2>1. UNCHANGED todo /\ Demos!demo' = Demos!demo
    BY <1>1, <1>9, DemoNow DEF Demos!ReadCounter
  <2>2. Demos!TypeOK'
    BY <1>1, <1>9 DEF Demos!ReadCounter, Demos!TypeOK, StageInv, WrittenInv
  <2>3. StageInv'
    BY <1>1, <1>9, <2>1, DemoNow DEF Demos!ReadCounter, StageInv
  <2>4. WrittenInv'
    BY <1>1, <1>9, <2>1, DemoNow DEF Demos!ReadCounter, StageInv, WrittenInv, Demos!TypeOK
  <2>5. SeenInv'
    BY <1>1, <1>9, <2>1, DemoNow, ExpectedOf DEF Demos!ReadCounter, StageInv, WrittenInv, SeenInv, Demos!TypeOK, Demos!Demos
  <2> QED BY <2>2, <2>3, <2>4, <2>5 DEF DemoInv
<1>10. CASE Demos!child_die
  <2>1. UNCHANGED todo /\ Demos!demo' = Demos!demo
    BY <1>1, <1>10, DemoNow DEF Demos!child_die
  <2>2. Demos!TypeOK'
    BY <1>1, <1>10 DEF Demos!child_die, Demos!TypeOK, StageInv, WrittenInv
  <2>3. StageInv'
    BY <1>1, <1>10, <2>1, DemoNow DEF Demos!child_die, StageInv
  <2>4. WrittenInv'
    BY <1>1, <1>10, <2>1, DemoNow DEF Demos!child_die, StageInv, WrittenInv, Demos!TypeOK
  <2>5. SeenInv'
    BY <1>1, <1>10, <2>1, DemoNow, ExpectedOf DEF Demos!child_die, StageInv, WrittenInv, SeenInv, Demos!TypeOK, Demos!Demos
  <2> QED BY <2>2, <2>3, <2>4, <2>5 DEF DemoInv
<1> QED BY <1>2, <1>3, <1>4, <1>5, <1>6, <1>7, <1>8, <1>9, <1>10 DEF Demos!ChildSteps

LEMMA DemoStep ==
  ASSUME DemoInv, [Demos!Next]_ipcVars
  PROVE  DemoInv'
<1>1. CASE UNCHANGED ipcVars
  BY <1>1 DEF ipcVars, DemoInv, Demos!TypeOK, StageInv, WrittenInv, SeenInv, Demos!demo
<1>2. CASE Demos!Stopped
  BY <1>1, <1>2 DEF Demos!Stopped, Demos!vars, Demos!parent, Demos!socket, ipcVars
<1> QED BY <1>1, <1>2, DemoParent, DemoChild DEF Demos!Next

\* What the invariant is for.
LEMMA DemoPrinted == DemoInv => Demos!PrintedExact
  BY DemoNow DEF DemoInv, SeenInv, StageInv, Demos!PrintedExact

(* The first shell. *)

\* A foreground child is there exactly while the shell waits for it.
FirstInv ==
  /\ at \in {"prompt", "eval", "waitfg", "waited", "exited"}
  /\ job \in [Pids -> {"none", "fg", "bg"}]
  /\ at = "waitfg" => fg \in Pids /\ job[fg] = "fg"
  /\ \A p \in Pids : job[p] = "fg" => at = "waitfg" /\ p = fg

LEMMA FirstInitial == First!ShellInit => FirstInv /\ First!Control!JInit
  BY DEF First!ShellInit, FirstInv, First!Control!JInit, First!termMap

\* Every step of the first shell keeps it and is one of JobControl.
LEMMA FirstStep ==
  ASSUME FirstInv, [First!ShellNext]_firstVars
  PROVE  FirstInv' /\ [First!Control!JNext]_(First!Control!jvars)
<1> USE DEF FirstInv, First!termMap, First!Control!jvars
<1>1. CASE UNCHANGED firstVars
  BY <1>1 DEF firstVars
<1>2. CASE First!IgnoreLine \/ First!ReadLine
  BY <1>2 DEF First!IgnoreLine, First!ReadLine
<1>3. CASE First!Quit \/ First!ForkFails \/ First!EndOfInput
  BY <1>3 DEF First!Quit, First!ForkFails, First!EndOfInput, First!Control!JNext, First!Control!Leave
<1>4. ASSUME NEW p \in Pids, First!Fork(p)
      PROVE  FirstInv' /\ [First!Control!JNext]_(First!Control!jvars)
  <2>1. CASE First!background
    <3>1. /\ at = "eval" /\ at' = "prompt" /\ job[p] = "none" /\ job' = [job EXCEPT ![p] = "bg"]
      BY <1>4, <2>1 DEF First!Fork
    <3>2. First!Control!StartBackground(p)
      BY <3>1 DEF First!Control!StartBackground
    <3> QED BY <3>1, <3>2 DEF First!Control!JNext
  <2>2. CASE ~First!background
    <3>1. /\ at = "eval" /\ at' = "waitfg" /\ job[p] = "none" /\ job' = [job EXCEPT ![p] = "fg"] /\ fg' = p
      BY <1>4, <2>2 DEF First!Fork
    <3>2. First!Control!StartForeground(p)
      BY <3>1 DEF First!Control!StartForeground
    <3> QED BY <3>1, <3>2 DEF First!Control!JNext
  <2> QED BY <2>1, <2>2
<1>5. CASE First!Waitpid
  <2>1. /\ at = "waitfg" /\ at' = "waited" /\ job' = [job EXCEPT ![fg] = "none"] /\ UNCHANGED fg
    BY <1>5 DEF First!Waitpid, First!awaited
  <2>2. First!Control!Collect(fg)
    BY <2>1 DEF First!Control!Collect
  <2> QED BY <2>1, <2>2 DEF First!Control!JNext
<1>6. CASE First!WaitReturns
  BY <1>6 DEF First!WaitReturns, First!Control!JNext, First!Control!GiveBack
<1>7. ASSUME NEW p \in Pids, First!ChildExits(p)
      PROVE  FirstInv' /\ [First!Control!JNext]_(First!Control!jvars)
  BY <1>7 DEF First!ChildExits
<1> QED BY <1>1, <1>2, <1>3, <1>4, <1>5, <1>6, <1>7 DEF First!ShellNext, First!ShellSteps
-----------------------------------------------------------------------------
(* All of them. *)

LEMMA SmallInitial == MCInit => SmallInv
<1> SUFFICES ASSUME MCInit PROVE SmallInv
  OBVIOUS
<1>1. OrderInv /\ HandlerInv /\ FileInv
  BY OrderInitial, HandlerInitial, FileInitial DEF MCInit
<1>2. (program = "procmask" => Init) /\ (program = "waitforsignal" => Wait!Init) /\ (program = "ipc_demo" => Demos!Init)
  BY DEF MCInit, OwnPrograms
<1> QED BY <1>1, <1>2, ProcMaskInitial, WaitInitial, DemoInitial DEF SmallInv

\* A step is one of each program, or leaves its variables alone.
LEMMA SmallSteps ==
  ASSUME [MCNext]_mcVars
  PROVE  /\ UNCHANGED program
         /\ program = "procmask" => [Next]_vars
         /\ program = "waitforsignal" => [Wait!Next]_(Wait!vars)
         /\ program = "ipc_demo" => [Demos!Next]_ipcVars
         /\ [First!ShellNext]_firstVars /\ [Kin!WaitNext]_orderVars
         /\ [Kin!DemoNext]_handlerVars /\ [Races!FileNext]_fileVars
<1>1. CASE UNCHANGED mcVars
  <2>1. UNCHANGED <<program, vars, waitOnly, ipcVars, firstVars, orderVars, handlerVars, fileVars>>
    BY <1>1, Zenon DEF mcVars
  <2>2. UNCHANGED Wait!vars
    BY <2>1 DEF vars, mainVars, waitOnly, Wait!vars, Wait!mainVars
  <2> QED BY <2>1, <2>2
<1>2. CASE InProcMask(Next)
  BY <1>2 DEF InProcMask
<1>3. CASE InWait(Wait!Next)
  BY <1>3 DEF InWait
<1>4. CASE InDemos(Demos!Next)
  BY <1>4 DEF InDemos
<1>5. CASE InFirst(First!ShellNext)
  BY <1>5 DEF InFirst
<1>6. CASE InOrder(Kin!WaitNext)
  BY <1>6 DEF InOrder
<1>7. CASE InHandler(Kin!DemoNext)
  BY <1>7 DEF InHandler
<1>8. CASE InFile(Races!FileNext)
  BY <1>8 DEF InFile
<1>9. CASE InLocks(\E t \in Races!Both : Races!LockSteps(t))
  BY <1>9 DEF InLocks
<1> QED BY <1>1, <1>2, <1>3, <1>4, <1>5, <1>6, <1>7, <1>8, <1>9 DEF MCNext

LEMMA SmallStep ==
  ASSUME SmallInv, [MCNext]_mcVars
  PROVE  SmallInv'
<1>1. OrderInv' /\ HandlerInv' /\ FileInv'
  BY SmallSteps, OrderStep, HandlerStep, FileStep DEF SmallInv
<1>2. program = "procmask" => ProcMaskInv'
  BY SmallSteps, ProcMaskStep DEF SmallInv
<1>3. program = "waitforsignal" => WaitInv'
  BY SmallSteps, WaitStep DEF SmallInv
<1>4. program = "ipc_demo" => DemoInv'
  BY SmallSteps, DemoStep DEF SmallInv
<1>5. program' = program
  BY SmallSteps
<1> QED BY <1>1, <1>2, <1>3, <1>4, <1>5 DEF SmallInv

\* The small programs do what they promise, whatever ends, fails or interrupts
\* when: procmask's job list is its children and deletejob finds each of them,
\* waitforsignal reports the child of its round, ipc_demo's children print what
\* was written for them, wait reports in order, handler's main acts on errors of
\* its own, and no line of race_write's is lost.
THEOREM ChildrenAreExact == MCSpec => []ChildrenExact
<1>1. MCInit => SmallInv
  BY SmallInitial
<1>2. SmallInv /\ [MCNext]_mcVars => SmallInv'
  BY SmallStep
<1>3. SmallInv => ChildrenExact
  <2> SUFFICES ASSUME SmallInv PROVE ChildrenExact
    OBVIOUS
  <2>1. program = "procmask" => TypeOK /\ ListMatchesChildren /\ NeverNotFound
    BY DEF SmallInv, ProcMaskInv
  <2>2. program = "waitforsignal" => Wait!TypeOK /\ Wait!ReportsItsChild
    BY DEF SmallInv, WaitInv
  <2>3. program = "ipc_demo" => Demos!TypeOK /\ Demos!PrintedExact
    BY DemoPrinted DEF SmallInv, DemoInv
  <2>4. Kin!ReportsExact /\ Races!LinesExact
    BY DEF SmallInv, OrderInv, FileInv
  <2>5. Kin!ErrorIsMains
    BY DEF SmallInv, HandlerInv, Kin!ErrorIsMains, Kin!MainAt
  <2> QED BY <2>1, <2>2, <2>3, <2>4, <2>5 DEF ChildrenExact
<1> QED BY <1>1, <1>2, <1>3, PTL DEF MCSpec

\* The first shell, which waits for foreground programs in main and has no
\* handler, implements the same job control as the later one; it only waits
\* for a foreground child that is there, and shows the prompt when none is.
THEOREM FirstShellRefines == MCSpec => First!ImplementsJobControl /\ First!ForegroundReaped
<1>1. MCInit => FirstInv /\ First!Control!JInit
  BY FirstInitial DEF MCInit
<1> DEFINE Reaped == /\ at' = "waitfg" => job'[fg'] = "fg"
                     /\ at' = "prompt" => \A p \in Pids : job'[p] # "fg"
<1>2. FirstInv /\ [MCNext]_mcVars =>
        FirstInv' /\ [First!Control!JNext]_(First!Control!jvars) /\ [Reaped]_(First!shellVars)
  <2> SUFFICES ASSUME FirstInv, [MCNext]_mcVars
               PROVE  FirstInv' /\ [First!Control!JNext]_(First!Control!jvars) /\ Reaped
    OBVIOUS
  <2>1. FirstInv' /\ [First!Control!JNext]_(First!Control!jvars)
    BY SmallSteps, FirstStep
  <2>2. Reaped
    BY <2>1 DEF FirstInv
  <2> QED BY <2>1, <2>2
<1> QED BY <1>1, <1>2, PTL DEF MCSpec, First!ImplementsJobControl, First!Control!JSpec, First!ForegroundReaped
=============================================================================
