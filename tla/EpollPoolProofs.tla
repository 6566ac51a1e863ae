--------------------------- MODULE EpollPoolProofs --------------------------
(***************************************************************************)
(* Proofs about EpollPool, for every number of workers, size of the ring,  *)
(* number of descriptors and set of clients.                               *)
(*                                                                         *)
(* The pool's own invariant is SimplePoolProofs' and is reused through the *)
(* instance P: main and the workers take only steps of that pool.  For the *)
(* rest of the server, ServerInv says how tasks, descriptors and clients   *)
(* belong together.  Each action is first shown to keep ServerInv and to   *)
(* have an effect with a name (Accepts, Handles, Reads, Writes, Ends,      *)
(* Closes, Dels, Acts, with Quiet, Queues, Takes, Starts, Finishes for the *)
(* pool); everything after that argues from those effects:                 *)
(*   Heard    who knows of each readable descriptor     (EdgesKept)        *)
(*   Owns     whose data and descriptor a worker has    (ConnectionsOwn)   *)
(*   Once     each unit that was read is in one place,                     *)
(*   Ordered  and what a worker holds is next for its                      *)
(*            client while no descriptor is shared      (EchoesOrdered)    *)
(***************************************************************************)
EXTENDS EpollPool, FiniteSetTheorems, SequenceTheorems, WellFoundedInduction, TLAPS

P == INSTANCE SimplePoolProofs WITH Adders <- {Main}, MayDestroy <- FALSE

Workers == 0 .. ThrNum - 1

(* Main is the only caller of addtask: it has numbered a task when it has   *)
(* put it.                                                                  *)
Numbered == beginnum = IF apc[Main] \in P!Unput THEN calls ELSE calls + 1

(* The pool is never shut down. *)
PoolInv == P!PoolInv /\ dst = "idle" /\ shutdown = FALSE /\ Numbered
-----------------------------------------------------------------------------
(* The pool is one of those SimplePoolProofs is about. *)
LEMMA PoolSizes == P!SizesAssumption /\ P!SwitchAssumption /\ P!AdderAssumption
<1>1. IsFiniteSet({Main}) BY FS_Singleton
<1>2. P!IsFiniteSet({Main}) BY <1>1 DEF IsFiniteSet, P!IsFiniteSet
<1>. QED BY <1>2, SizesAssumption, MainAssumption
     DEF P!SizesAssumption, P!SwitchAssumption, P!AdderAssumption, P!Workers, P!NoOne

(* It starts empty and idle. *)
LEMMA InitPool == ASSUME Init PROVE PoolInv
<1>1. P!Init BY DEF Init, Pool!Init, P!Init, Pool!Workers, P!Workers, Pool!Cells, P!Cells,
                    Pool!NoTask, P!NoTask, Pool!NoOne, P!NoOne
<1>2. P!PoolInv BY <1>1, PoolSizes, P!PoolInit
<1>. QED BY <1>1, <1>2 DEF PoolInv, P!Init, Numbered, P!Unput

(* The steps of main and the workers in EpollPool are steps of that pool,   *)
(* and so is a wakeup without a signal.                                     *)
LEMMA SameMain ==
  /\ Pool!AddCall(Main) => P!AddCall(Main)
  /\ Pool!AddLock(Main) => P!AddLock(Main)
  /\ Pool!AddTestFull(Main) => P!AddTestFull(Main)
  /\ Pool!AddWait(Main) => P!AddWait(Main)
  /\ Pool!AddPut(Main) => P!AddPut(Main)
  /\ Pool!AddSignal(Main) => P!AddSignal(Main)
  /\ Pool!Wakeup => P!Wakeup
BY DEF Pool!AddCall, P!AddCall, Pool!AddLock, P!AddLock, Pool!AddTestFull, P!AddTestFull,
       Pool!Wakeup, P!Wakeup, Pool!Goto, P!Goto, Pool!Workers, P!Workers,
       Pool!AddWait, P!AddWait, Pool!AddPut, P!AddPut, Pool!AddSignal, P!AddSignal,
       Pool!Full, P!Full, Pool!Cell, P!Cell, Pool!Cells, P!Cells, Pool!Incr, P!Incr,
       Pool!Signalled, P!Signalled, Pool!NoOne, P!NoOne, Pool!queueVars, P!queueVars,
       Pool!workerVars, P!workerVars, Pool!adderVars, P!adderVars

(* So are those of the workers. *)
LEMMA SameWorker ==
  ASSUME NEW w
  PROVE  /\ Pool!WorkerLock(w) => P!WorkerLock(w)
         /\ Pool!WorkerTestEmpty(w) => P!WorkerTestEmpty(w)
         /\ Pool!WorkerWait(w) => P!WorkerWait(w)
         /\ Pool!WorkerPop(w) => P!WorkerPop(w)
         /\ Pool!WorkerUnlock(w) => P!WorkerUnlock(w)
         /\ Pool!WorkerRun(w) => P!WorkerRun(w)
BY DEF Pool!WorkerLock, P!WorkerLock, Pool!WorkerTestEmpty, P!WorkerTestEmpty,
       Pool!WorkerWait, P!WorkerWait, Pool!WorkerPop, P!WorkerPop,
       Pool!WorkerUnlock, P!WorkerUnlock, Pool!WorkerRun, P!WorkerRun,
       Pool!Goto, P!Goto, Pool!Cell, P!Cell, Pool!Cells, P!Cells, Pool!Incr, P!Incr,
       Pool!Signalled, P!Signalled, Pool!NoOne, P!NoOne, Pool!NoTask, P!NoTask,
       Pool!queueVars, P!queueVars, Pool!adderVars, P!adderVars

(* A step of the pool other than shutdown keeps its invariant. *)
LEMMA PoolStep ==
  ASSUME PoolInv, [P!Next]_(P!vars), dst' = dst, shutdown' = shutdown, Numbered'
  PROVE  PoolInv'
<1>1. P!PoolInv BY DEF PoolInv
<1>2. P!TypeOK' BY <1>1, PoolSizes, P!TypeStep
<1>3. P!LockInv' /\ P!RoomInv' BY <1>1, PoolSizes, P!LockStep
<1>4. P!BeginInv' BY <1>1, PoolSizes, P!BeginStep
<1>5. P!RingInv' BY <1>1, PoolSizes, P!RingStep
<1>6. P!HandInv' BY <1>1, PoolSizes, P!HandStep
<1>7. P!PlaceInv' BY <1>1, PoolSizes, P!PlaceStep
<1>8. P!PoolInv' BY <1>2, <1>3, <1>4, <1>5, <1>6, <1>7 DEF P!PoolInv
<1>. QED BY <1>8 DEF PoolInv
-----------------------------------------------------------------------------
(* What the steps of the pool do, seen from the server: how many tasks have *)
(* been taken out, how many calls have begun, who holds what and who runs.  *)
Quiet ==
  /\ P!Pops' = P!Pops /\ calls' = calls /\ task' = task
  /\ \A w \in Workers : pc'[w] = "run" <=> pc[w] = "run"

Queues ==
  /\ P!Pops' = P!Pops /\ calls' = calls + 1 /\ task' = task /\ pc' = pc

Takes(w) ==
  /\ P!Pops' = P!Pops + 1 /\ calls' = calls
  /\ task[w] = 0 /\ pc[w] # "run"
  /\ \A v \in Workers : task'[v] = IF v = w THEN P!Pops + 1 ELSE task[v]
  /\ \A v \in Workers : pc'[v] = "run" <=> pc[v] = "run"

Starts(w) ==
  /\ P!Pops' = P!Pops /\ calls' = calls /\ task' = task
  /\ task[w] # 0 /\ pc[w] # "run" /\ pc'[w] = "run"
  /\ \A v \in Workers : v # w => pc'[v] = pc[v]

Finishes(w) ==
  /\ P!Pops' = P!Pops /\ calls' = calls
  /\ task[w] # 0 /\ pc[w] = "run" /\ pc'[w] # "run"
  /\ \A v \in Workers : task'[v] = IF v = w THEN 0 ELSE task[v]
  /\ \A v \in Workers : v # w => pc'[v] = pc[v]

(* The facts of the pool that the server needs: a task is held after it was *)
(* taken out and taken out after it was put; a worker that runs has a task. *)
PoolView ==
  /\ P!Pops \in Nat /\ calls \in 0 .. NTasks /\ P!Pops <= calls
  /\ task \in [Workers -> 0 .. NTasks]
  /\ \A w \in Workers : task[w] <= P!Pops /\ (pc[w] = "run" => task[w] # 0)
  /\ AddingFds \cup QueuedFds = {fdOf[t] : t \in P!Pops + 1 .. calls}

(* They follow from the invariant of the pool. *)
LEMMA PoolViewIs == PoolInv => PoolView
<1>. SUFFICES ASSUME PoolInv PROVE PoolView OBVIOUS
<1>1. /\ P!TypeOK /\ P!RingInv /\ P!PlaceInv /\ P!HandInv /\ P!PendingForm
      /\ Numbered
  BY PoolSizes, P!PendingIs DEF PoolInv, P!PoolInv
<1>2. /\ calls \in 0 .. NTasks /\ job_num \in 0 .. MaxJob /\ beginnum \in 1 .. NTasks + 1
      /\ task \in [Workers -> 0 .. NTasks] /\ apc[Main] \in P!AdderPc
  BY <1>1, SizesAssumption DEF P!TypeOK, P!Task, P!NoTask, P!Workers, Workers
<1>3. P!Pops \in Nat /\ P!Puts = P!Pops + job_num /\ P!Puts \in Nat /\ beginnum = P!Puts + 1
  BY <1>1, <1>2, SizesAssumption DEF P!RingInv, P!Pops, P!Puts
<1>4. P!Puts = IF apc[Main] \in P!Unput THEN calls - 1 ELSE calls
  BY <1>1, <1>2, <1>3 DEF Numbered
<1>5. P!Pops <= calls BY <1>2, <1>3, <1>4, SizesAssumption
<1>6. \A w \in Workers : task[w] <= P!Pops /\ (pc[w] = "run" => task[w] # 0)
  BY <1>1 DEF P!PlaceInv, P!HandInv, P!Workers, P!NoTask, Workers
<1>7. QueuedFds = {fdOf[t] : t \in P!Pops + 1 .. P!Puts}
  <2>1. Pool!Pending = P!Pending
    BY DEF Pool!Pending, P!Pending, Pool!Cell, P!Cell
  <2>2. Pool!Queued = {P!Pops + i : i \in 1 .. job_num}
    BY <1>1, <2>1 DEF Pool!Queued, P!PendingForm
  <2>3. Pool!Queued = P!Pops + 1 .. P!Puts
    <3>1. PICK p \in Nat, n \in Nat : p = P!Pops /\ n = job_num BY <1>2, <1>3, SizesAssumption
    <3>2. {p + i : i \in 1 .. n} = p + 1 .. p + n
      <4>1. ASSUME NEW x \in p + 1 .. p + n PROVE x \in {p + i : i \in 1 .. n}
        <5>1. x - p \in 1 .. n /\ x = p + (x - p) OBVIOUS
        <5>. QED BY <5>1
      <4>. QED BY <4>1
    <3>. QED BY <1>3, <2>2, <3>1, <3>2
  <2>. QED BY <2>3 DEF QueuedFds
<1>8. AddingFds \cup QueuedFds = {fdOf[t] : t \in P!Pops + 1 .. calls}
  <2>1. CASE apc[Main] \in P!Unput
    <3>1. AddingFds = {fdOf[calls]} BY <2>1 DEF AddingFds, P!Unput
    <3>2. P!Pops + 1 .. calls = (P!Pops + 1 .. P!Puts) \cup {calls}
      BY <1>2, <1>3, <1>4, <2>1, SizesAssumption
    <3>. QED BY <1>7, <3>1, <3>2
  <2>2. CASE apc[Main] \notin P!Unput
    <3>1. AddingFds = {} BY <1>2, <2>2 DEF AddingFds, P!Unput, P!AdderPc
    <3>. QED BY <1>4, <1>7, <2>2, <3>1
  <2>. QED BY <2>1, <2>2
<1>. QED BY <1>2, <1>3, <1>5, <1>6, <1>8 DEF PoolView

(* So it is after a step. *)
LEMMA PoolViewNext == PoolInv' => PoolView'
BY PoolViewIs, PTL
-----------------------------------------------------------------------------
(* The types behind the steps. *)
LEMMA PoolTypes ==
  ASSUME PoolInv
  PROVE  /\ pc \in [Workers -> P!WorkerPc] /\ apc \in [{Main} -> P!AdderPc]
         /\ task \in [Workers -> 0 .. NTasks] /\ calls \in 0 .. NTasks
         /\ beginnum \in 1 .. NTasks + 1 /\ job_num \in 0 .. MaxJob
         /\ \A w \in Workers : pc[w] \notin {"check", "run"} => task[w] = 0
         /\ \A w \in Workers : pc[w] \in {"check", "run"} => task[w] # 0
<1>1. P!TypeOK /\ P!HandInv /\ shutdown = FALSE BY DEF PoolInv, P!PoolInv
<1>2. /\ \A w \in Workers : pc[w] \notin {"check", "run"} => task[w] = 0
      /\ \A w \in Workers : pc[w] \in {"check", "run"} => task[w] # 0
  BY <1>1 DEF P!HandInv, P!Workers, Workers, P!NoTask
<1>3. task \in [Workers -> 0 .. NTasks]
  <2>1. (1 .. NTasks) \cup {0} = 0 .. NTasks BY SizesAssumption
  <2>. QED BY <1>1, <2>1 DEF P!TypeOK, P!Workers, Workers, P!Task, P!NoTask
<1>. QED BY <1>1, <1>2, <1>3 DEF P!TypeOK, P!Workers, Workers

(* A signal wakes at most one sleeping thread and moves no other. *)
LEMMA SignalMoves ==
  ASSUME NEW D, NEW S, NEW p \in [D -> S], NEW q \in P!Signalled(p)
  PROVE  \A t \in D : q[t] = p[t] \/ (p[t] = "blocked" /\ q[t] = "relock")
BY DEF P!Signalled

(* addtask is called: *)
LEMMA CallStep ==
  ASSUME PoolInv, Pool!AddCall(Main)
  PROVE  PoolInv' /\ Queues /\ calls + 1 \in P!Task
<1>1. P!AddCall(Main) BY SameMain
<1>2. /\ apc \in [{Main} -> P!AdderPc] /\ calls \in 0 .. NTasks BY PoolTypes
<1>3. [P!Next]_(P!vars) BY <1>1 DEF P!Next, P!addtask, PoolInv
<1>4. /\ apc[Main] = "idle" /\ calls < NTasks /\ apc'[Main] = "lock" /\ calls' = calls + 1
      /\ beginnum' = beginnum /\ job_num' = job_num /\ task' = task /\ pc' = pc
      /\ dst' = dst /\ shutdown' = shutdown
  BY <1>1, <1>2 DEF P!AddCall, P!queueVars, P!workerVars
<1>5. Numbered' BY <1>4 DEF Numbered, P!Unput, PoolInv
<1>6. PoolInv' BY <1>3, <1>4, <1>5, PoolStep
<1>. QED BY <1>2, <1>4, <1>6, SizesAssumption DEF Queues, P!Pops, P!Task

(* its task goes into the ring, and nothing else of it is seen; *)
LEMMA AddStep ==
  ASSUME PoolInv,
         \/ Pool!AddLock(Main) \/ Pool!AddTestFull(Main) \/ Pool!AddWait(Main)
         \/ Pool!AddPut(Main) \/ Pool!AddSignal(Main)
  PROVE  PoolInv' /\ Quiet
<1>1. \/ P!AddLock(Main) \/ P!AddTestFull(Main) \/ P!AddWait(Main)
      \/ P!AddPut(Main) \/ P!AddSignal(Main)
  BY SameMain
<1>2. /\ apc \in [{Main} -> P!AdderPc] /\ pc \in [Workers -> P!WorkerPc] /\ calls \in 0 .. NTasks
      /\ beginnum \in 1 .. NTasks + 1 /\ job_num \in 0 .. MaxJob
  BY PoolTypes
<1>3. [P!Next]_(P!vars) BY <1>1 DEF P!Next, P!addtask, PoolInv
<1>4. /\ calls' = calls /\ task' = task /\ dst' = dst /\ shutdown' = shutdown
  BY <1>1 DEF P!AddLock, P!AddTestFull, P!AddWait, P!AddPut, P!AddSignal, P!queueVars,
              P!workerVars
<1>5. CASE P!AddPut(Main)
  <2>1. /\ apc[Main] = "test" /\ apc'[Main] = "signal" /\ beginnum' = beginnum + 1
        /\ job_num' = job_num + 1 /\ pc' = pc
    BY <1>2, <1>5 DEF P!AddPut, P!workerVars
  <2>2. Numbered' BY <1>4, <2>1 DEF Numbered, P!Unput, PoolInv
  <2>3. P!Pops' = P!Pops BY <1>2, <2>1, SizesAssumption DEF P!Pops
  <2>. QED BY <1>3, <1>4, <2>1, <2>2, <2>3, PoolStep DEF Quiet
<1>6. CASE P!AddSignal(Main)
  <2>1. /\ apc[Main] = "signal" /\ apc'[Main] = "idle" /\ beginnum' = beginnum
        /\ job_num' = job_num /\ pc' \in P!Signalled(pc)
    BY <1>2, <1>6 DEF P!AddSignal, P!queueVars
  <2>2. Numbered' BY <1>4, <2>1 DEF Numbered, P!Unput, PoolInv
  <2>3. \A t \in Workers : pc'[t] = pc[t] \/ (pc[t] = "blocked" /\ pc'[t] = "relock")
    <3>1. pc' \in P!Signalled(pc) BY <2>1
    <3>. QED BY <1>2, <3>1, SignalMoves
  <2>4. P!Pops' = P!Pops BY <2>1 DEF P!Pops
  <2>. QED BY <1>3, <1>4, <2>1, <2>2, <2>3, <2>4, PoolStep DEF Quiet
<1>7. CASE P!AddLock(Main) \/ P!AddTestFull(Main) \/ P!AddWait(Main)
  <2>1. /\ apc[Main] \in P!Unput /\ apc'[Main] \in P!Unput /\ beginnum' = beginnum
        /\ job_num' = job_num /\ pc' = pc
    BY <1>2, <1>7 DEF P!AddLock, P!AddTestFull, P!AddWait, P!queueVars, P!workerVars, P!Unput
  <2>2. Numbered' BY <1>4, <2>1 DEF Numbered, PoolInv
  <2>3. P!Pops' = P!Pops BY <2>1 DEF P!Pops
  <2>. QED BY <1>3, <1>4, <2>1, <2>2, <2>3, PoolStep DEF Quiet
<1>. QED BY <1>1, <1>5, <1>6, <1>7

(* A wakeup without a signal lets a thread look at the queue again. *)
LEMMA WakeStep ==
  ASSUME PoolInv, Pool!Wakeup
  PROVE  PoolInv' /\ Quiet
<1>1. P!Wakeup BY SameMain
<1>2. /\ apc \in [{Main} -> P!AdderPc] /\ pc \in [Workers -> P!WorkerPc]
  BY PoolTypes
<1>3. [P!Next]_(P!vars) BY <1>1 DEF P!Next, PoolInv
<1>4. /\ calls' = calls /\ task' = task /\ dst' = dst /\ shutdown' = shutdown
      /\ beginnum' = beginnum /\ job_num' = job_num
  BY <1>1 DEF P!Wakeup, P!queueVars
<1>5. \A v \in Workers : pc'[v] = pc[v] \/ (pc[v] = "blocked" /\ pc'[v] = "relock")
  BY <1>1, <1>2 DEF P!Wakeup, P!Goto, P!Workers, Workers
<1>6. apc'[Main] = apc[Main] \/ (apc[Main] = "blocked" /\ apc'[Main] = "relock")
  BY <1>1, <1>2 DEF P!Wakeup
<1>7. Numbered' BY <1>4, <1>6 DEF Numbered, PoolInv, P!Unput
<1>8. P!Pops' = P!Pops BY <1>4 DEF P!Pops
<1>. QED BY <1>3, <1>4, <1>5, <1>7, <1>8, PoolStep DEF Quiet

(* A worker looks for a task *)
LEMMA LookStep ==
  ASSUME PoolInv, NEW w \in Workers,
         Pool!WorkerLock(w) \/ Pool!WorkerTestEmpty(w) \/ Pool!WorkerWait(w)
  PROVE  PoolInv' /\ Quiet
<1>1. P!WorkerLock(w) \/ P!WorkerTestEmpty(w) \/ P!WorkerWait(w) BY SameWorker
<1>2. pc \in [Workers -> P!WorkerPc] BY PoolTypes
<1>3. w \in P!Workers BY DEF P!Workers, Workers
<1>4. [P!Next]_(P!vars) BY <1>1, <1>3 DEF P!Next, P!thrRun, PoolInv
<1>5. /\ calls' = calls /\ task' = task /\ dst' = dst /\ shutdown' = shutdown
      /\ beginnum' = beginnum /\ job_num' = job_num /\ apc' = apc
      /\ pc[w] # "run"
      /\ \E l \in {"test", "wait", "blocked"} : pc' = [pc EXCEPT ![w] = l]
  BY <1>1 DEF P!WorkerLock, P!WorkerTestEmpty, P!WorkerWait, P!Goto, P!queueVars, P!adderVars
<1>6. Numbered' BY <1>5 DEF Numbered, PoolInv
<1>7. P!Pops' = P!Pops BY <1>5 DEF P!Pops
<1>8. \A v \in Workers : pc'[v] = "run" <=> pc[v] = "run" BY <1>2, <1>5
<1>. QED BY <1>4, <1>5, <1>6, <1>7, <1>8, PoolStep DEF Quiet

(* and takes the oldest; *)
LEMMA TakeStep ==
  ASSUME PoolInv, NEW w \in Workers, Pool!WorkerPop(w)
  PROVE  PoolInv' /\ Takes(w) /\ P!Pops + 1 \in P!Task
<1>1. P!WorkerPop(w) BY SameWorker
<1>2. /\ pc \in [Workers -> P!WorkerPc] /\ apc \in [{Main} -> P!AdderPc]
      /\ task \in [Workers -> 0 .. NTasks]
  BY PoolTypes
<1>3. w \in P!Workers BY DEF P!Workers, Workers
<1>4. [P!Next]_(P!vars) BY <1>1, <1>3 DEF P!Next, P!thrRun, PoolInv
<1>5. P!PoolInv BY DEF PoolInv
<1>6. /\ P!Pops' = P!Pops + 1 /\ P!Pops + 1 \in P!Task
      /\ task' = [task EXCEPT ![w] = P!Pops + 1]
  BY <1>1, <1>3, <1>5, PoolSizes, P!PopFacts
<1>7. /\ calls' = calls /\ dst' = dst /\ shutdown' = shutdown /\ beginnum' = beginnum
      /\ pc[w] = "test" /\ pc' = [pc EXCEPT ![w] = "check"]
      /\ apc' \in P!Signalled(apc)
  BY <1>1 DEF P!WorkerPop, P!Goto
<1>8. apc'[Main] = apc[Main] \/ (apc[Main] = "blocked" /\ apc'[Main] = "relock")
  <2>1. apc' \in P!Signalled(apc) BY <1>7
  <2>2. \A t \in {Main} : apc'[t] = apc[t] \/ (apc[t] = "blocked" /\ apc'[t] = "relock")
    BY <1>2, <2>1, SignalMoves
  <2>. QED BY <2>2
<1>9. Numbered' BY <1>7, <1>8 DEF Numbered, PoolInv, P!Unput
<1>10. PoolInv' BY <1>4, <1>7, <1>9, PoolStep
<1>11. task[w] = 0 BY <1>7, PoolTypes
<1>12. /\ \A v \in Workers : task'[v] = IF v = w THEN P!Pops + 1 ELSE task[v]
       /\ \A v \in Workers : pc'[v] = "run" <=> pc[v] = "run"
  BY <1>2, <1>6, <1>7
<1>. QED BY <1>6, <1>7, <1>10, <1>11, <1>12 DEF Takes

(* it calls taskRun for it *)
LEMMA StartStep ==
  ASSUME PoolInv, NEW w \in Workers, Pool!WorkerUnlock(w)
  PROVE  PoolInv' /\ Starts(w)
<1>1. P!WorkerUnlock(w) BY SameWorker
<1>2. pc \in [Workers -> P!WorkerPc] BY PoolTypes
<1>3. w \in P!Workers BY DEF P!Workers, Workers
<1>4. [P!Next]_(P!vars) BY <1>1, <1>3 DEF P!Next, P!thrRun, PoolInv
<1>5. /\ calls' = calls /\ task' = task /\ dst' = dst /\ shutdown' = shutdown
      /\ beginnum' = beginnum /\ job_num' = job_num /\ apc' = apc
      /\ pc[w] = "check" /\ pc' = [pc EXCEPT ![w] = "run"]
  BY <1>1 DEF P!WorkerUnlock, P!Goto, P!queueVars, P!adderVars
<1>6. Numbered' BY <1>5 DEF Numbered, PoolInv
<1>7. P!Pops' = P!Pops BY <1>5 DEF P!Pops
<1>8. task[w] # 0 BY <1>5, PoolTypes
<1>9. pc'[w] = "run" /\ \A v \in Workers : v # w => pc'[v] = pc[v] BY <1>2, <1>5
<1>. QED BY <1>4, <1>5, <1>6, <1>7, <1>8, <1>9, PoolStep DEF Starts

(* and is done with it when taskRun returns. *)
LEMMA FinishStep ==
  ASSUME PoolInv, NEW w \in Workers, Pool!WorkerRun(w)
  PROVE  PoolInv' /\ Finishes(w)
<1>1. P!WorkerRun(w) BY SameWorker
<1>2. pc \in [Workers -> P!WorkerPc] /\ task \in [Workers -> 0 .. NTasks] BY PoolTypes
<1>3. w \in P!Workers BY DEF P!Workers, Workers
<1>4. [P!Next]_(P!vars) BY <1>1, <1>3 DEF P!Next, P!thrRun, PoolInv
<1>5. /\ calls' = calls /\ task' = [task EXCEPT ![w] = 0] /\ dst' = dst
      /\ shutdown' = shutdown
      /\ beginnum' = beginnum /\ job_num' = job_num /\ apc' = apc
      /\ pc[w] = "run" /\ pc' = [pc EXCEPT ![w] = "lock"]
  BY <1>1 DEF P!WorkerRun, P!Goto, P!queueVars, P!adderVars, P!NoTask
<1>6. Numbered' BY <1>5 DEF Numbered, PoolInv
<1>7. P!Pops' = P!Pops BY <1>5 DEF P!Pops
<1>8. task[w] # 0 BY <1>5, PoolTypes
<1>9. /\ pc'[w] # "run" /\ \A v \in Workers : v # w => pc'[v] = pc[v]
      /\ \A v \in Workers : task'[v] = IF v = w THEN 0 ELSE task[v]
  BY <1>2, <1>5
<1>. QED BY <1>4, <1>5, <1>6, <1>7, <1>8, <1>9, PoolStep DEF Finishes

(* A step outside the pool. *)
LEMMA PoolStutter ==
  ASSUME PoolInv, UNCHANGED poolVars
  PROVE  PoolInv' /\ Quiet
<1>1. UNCHANGED P!vars
  BY DEF poolVars, P!vars, P!queueVars, P!workerVars, P!adderVars
<1>2. Numbered' BY DEF Numbered, PoolInv, poolVars
<1>3. PoolInv' BY <1>1, <1>2, PoolStep DEF poolVars
<1>4. Quiet BY DEF Quiet, poolVars, P!Pops
<1>. QED BY <1>3, <1>4
-----------------------------------------------------------------------------
States == {"new", "backlog", "up", "down"}
Units  == Clients \X Nat
Bufs   == Seq(Units)
Peer   == [st : States, sent : Nat, read : Nat, got : Bufs, fin : BOOLEAN, rst : BOOLEAN]
Places == [pc : {"read", "write", "close", "del"}, buf : Bufs]

(* The server, the kernel and the clients have the values they should, *)
ServerTyped ==
  /\ fdOf \in [P!Task -> FD \cup {Lfd}] /\ run \in [Workers -> Places]
  /\ batch \subseteq FD \cup {Lfd}
  /\ conn \in [FD -> Clients \cup {None}] /\ cl \in [Clients -> Peer]
  /\ alive \in BOOLEAN /\ shared \in BOOLEAN /\ reused \in BOOLEAN

(* a worker is in taskRun, with data in buf, only while it runs a task, and *)
(* a task names a descriptor,                                               *)
RunInv ==
  /\ \A w \in Workers : /\ pc[w] # "run" => run[w] = NotRunning
                        /\ run[w].pc # "write" => run[w].buf = <<>>
  /\ alive => \A t \in 1 .. calls : fdOf[t] \in FD

(* a connection that is open has one descriptor, and only descriptors of    *)
(* open connections are on the tree,                                        *)
ConnInv ==
  /\ \A f, g \in FD : conn[f] = conn[g] /\ conn[f] # None => f = g
  /\ \A f \in FD : conn[f] # None => cl[conn[f]].st = "up"
  /\ tree \subseteq FD /\ edge \subseteq tree /\ \A f \in tree : conn[f] # None

(* and nothing is read that was not sent, nor before it was accepted.       *)
PeerInv ==
  \A c \in Clients :
    /\ cl[c].read <= cl[c].sent
    /\ cl[c].st \in {"new", "backlog"} => cl[c].read = 0 /\ cl[c].got = <<>>

ServerInv == PoolInv /\ ServerTyped /\ RunInv /\ ConnInv /\ PeerInv
-----------------------------------------------------------------------------
(* A set of numbers has a lowest one. *)
LEMMA LowestIs ==
  ASSUME NEW S, S \subseteq Nat, S # {}
  PROVE  Lowest(S) \in S
<1>. DEFINE Less == {pair \in Nat \X Nat : pair[1] < pair[2]}
<1>1. IsWellFoundedOn(Less, Nat) BY NatLessThanWellFounded DEF OpToRel
<1>. HIDE DEF Less
<1>2. PICK x \in S : \A y \in S : ~ (<<y, x>> \in Less) BY <1>1, WFMin
<1>3. ASSUME NEW y \in S PROVE x <= y
  <2>1. <<y, x>> \notin Less /\ x \in Nat /\ y \in Nat BY <1>2
  <2>2. ~ (y < x) BY <2>1 DEF Less
  <2>. QED BY <2>1, <2>2
<1>. QED BY <1>3 DEF Lowest

(* The listener is no connection. *)
LEMMA FdNumbers == FD \subseteq Nat /\ Lfd \notin FD
BY SizesAssumption DEF FD, Lfd

(* A worker with a task serves a descriptor. *)
LEMMA ServingIs ==
  ASSUME ServerInv, alive, NEW w \in Workers, task[w] # 0
  PROVE  Serving(w) \in FD /\ task[w] \in 1 .. P!Pops /\ P!Pops <= calls /\ P!Pops \in Nat
<1>1. PoolView BY PoolViewIs DEF ServerInv
<1>2. task[w] \in 1 .. P!Pops /\ P!Pops <= calls /\ calls \in Nat /\ P!Pops \in Nat
  BY <1>1, SizesAssumption DEF PoolView
<1>3. task[w] \in 1 .. calls BY <1>2
<1>. QED BY <1>2, <1>3 DEF ServerInv, RunInv, Serving

(* Read fills buf with the next units of the client. *)
LEMMA ReceivedIs ==
  ASSUME ServerInv, NEW c \in Clients, Unread(c)
  PROVE  /\ Received(c) \in Bufs
         /\ Len(Received(c)) \in 1 .. cl[c].sent - cl[c].read
         /\ \A i \in 1 .. Len(Received(c)) : Received(c)[i] = <<c, cl[c].read + i>>
<1>1. cl[c].sent \in Nat /\ cl[c].read \in Nat /\ cl[c].read < cl[c].sent
  BY DEF ServerInv, ServerTyped, Peer, Unread
<1>2. PICK n \in Nat : /\ n = IF cl[c].sent - cl[c].read < BufLen
                              THEN cl[c].sent - cl[c].read ELSE BufLen
                       /\ n \in 1 .. cl[c].sent - cl[c].read
  BY <1>1, SizesAssumption
<1>3. Received(c) = [i \in 1 .. n |-> <<c, cl[c].read + i>>] BY <1>2 DEF Received
<1>4. \A i \in 1 .. n : <<c, cl[c].read + i>> \in Units BY <1>1 DEF Units
<1>5. Received(c) \in Seq(Units) /\ Len(Received(c)) = n BY <1>3, <1>4
<1>. QED BY <1>2, <1>3, <1>5 DEF Bufs
-----------------------------------------------------------------------------
(* What the steps of the server do to the connections: the step changes     *)
(* only client c,                                                           *)
Touches(c) ==
  /\ cl' \in [Clients -> Peer] /\ \A d \in Clients : d # c => cl'[d] = cl[d]

(* or nothing that server and client have exchanged.                        *)
SameData ==
  \A c \in Clients :
    /\ cl'[c].sent = cl[c].sent /\ cl'[c].read = cl[c].read /\ cl'[c].got = cl[c].got
    /\ cl'[c].fin = cl[c].fin /\ cl'[c].rst = cl[c].rst

(* The end of the process closes connections and leaves the data. *)
LEMMA ExitEffect ==
  ASSUME ServerInv, Exit
  PROVE  /\ cl' \in [Clients -> Peer] /\ SameData
         /\ \A c \in Clients : cl'[c].st \in {"new", "backlog"} => cl[c].st \in {"new", "backlog"}
<1>1. \A c \in Clients : cl'[c] = Gone(c) BY DEF Exit
<1>2. cl \in [Clients -> Peer] BY DEF ServerInv, ServerTyped
<1>3. "down" \in States BY DEF States
<1>4. ASSUME NEW c \in Clients
      PROVE  /\ cl'[c] \in Peer
             /\ cl'[c].sent = cl[c].sent /\ cl'[c].read = cl[c].read /\ cl'[c].got = cl[c].got
             /\ cl'[c].fin = cl[c].fin /\ cl'[c].rst = cl[c].rst
             /\ cl'[c].st \in {"new", "backlog"} => cl[c].st \in {"new", "backlog"}
  <2>1. cl'[c] = cl[c] \/ cl'[c] = [cl[c] EXCEPT !.st = "down"] BY <1>1 DEF Gone
  <2>. QED BY <1>2, <1>3, <2>1 DEF Peer
<1>5. cl' = [c \in Clients |-> cl'[c]] BY DEF Exit
<1>. QED BY <1>4, <1>5 DEF SameData

(* The end of the process. *)
LEMMA ExitStep ==
  ASSUME ServerInv, Exit
  PROVE  ServerInv' /\ Quiet
<1>1. PoolInv' /\ Quiet BY PoolStutter DEF ServerInv, Exit
<1>2. NotRunning \in Places BY DEF NotRunning, Places, Bufs
<1>3. /\ fdOf' \in [P!Task -> FD \cup {Lfd}] /\ run' = [w \in Workers |-> NotRunning]
      /\ conn' = [fd \in FD |-> None]
  BY DEF Exit, NoFds, AtStart, NoConn, Pool!Task, P!Task, Pool!Workers, Workers
<1>4. /\ cl' \in [Clients -> Peer] /\ SameData
      /\ \A c \in Clients : cl'[c].st \in {"new", "backlog"} => cl[c].st \in {"new", "backlog"}
  BY ExitEffect
<1>5. ServerTyped' BY <1>2, <1>3, <1>4 DEF ServerInv, ServerTyped, Exit, ghostVars
<1>6. RunInv' BY <1>3 DEF RunInv, NotRunning, Exit
<1>7. ConnInv' BY <1>3 DEF ConnInv, Exit
<1>8. PeerInv' BY <1>4 DEF ServerInv, PeerInv, SameData
<1>. QED BY <1>1, <1>5, <1>6, <1>7, <1>8 DEF ServerInv

(* epoll_wait hands over what is ready. *)
LEMMA WaitStep ==
  ASSUME ServerInv, EpollWait
  PROVE  ServerInv' /\ Quiet
<1>1. PoolInv' /\ Quiet BY PoolStutter DEF ServerInv, EpollWait
<1>2. batch' \subseteq FD \cup {Lfd} BY DEF EpollWait, Ready, ServerInv, ConnInv
<1>3. calls' = calls /\ pc' = pc BY DEF EpollWait, poolVars
<1>4. ServerTyped' BY <1>2 DEF ServerInv, ServerTyped, EpollWait, ghostVars
<1>5. RunInv' BY <1>3 DEF ServerInv, RunInv, EpollWait
<1>6. ConnInv' BY DEF ServerInv, ConnInv, EpollWait
<1>7. PeerInv' BY DEF ServerInv, PeerInv, EpollWait
<1>. QED BY <1>1, <1>4, <1>5, <1>6, <1>7 DEF ServerInv

(* Accept opens the descriptor a for the client c. *)
Accepts(c, a) ==
  /\ a \in FD /\ conn[a] = None /\ a \notin tree /\ cl[c].st = "backlog"
  /\ conn'[a] = c /\ \A f \in FD : f # a => conn'[f] = conn[f]
  /\ \A f \in FD : conn[f] # c
  /\ Touches(c) /\ cl'[c].st = "up" /\ SameData
  /\ tree' = tree \cup {a} /\ edge' = (IF Readable(c) THEN edge \cup {a} ELSE edge)
  /\ batch' = batch \ {Lfd}
  /\ reused' = (reused \/ a \in batch \cup QueuedFds \cup HeldFds)

(* AcceptConn does this: it takes the lowest number that is closed. *)
LEMMA AcceptStep ==
  ASSUME ServerInv, AcceptConn
  PROVE  ServerInv' /\ Quiet /\ \E c \in Clients, a \in FD : Accepts(c, a)
<1>1. PoolInv' /\ Quiet BY PoolStutter DEF ServerInv, AcceptConn
<1>2. PICK a : a = Lowest(ClosedFds) OBVIOUS
<1>3. a \in FD /\ conn[a] = None
  <2>1. ClosedFds \subseteq Nat /\ ClosedFds # {} BY FdNumbers DEF ClosedFds, AcceptConn
  <2>2. a \in ClosedFds BY <1>2, <2>1, LowestIs
  <2>. QED BY <2>2 DEF ClosedFds
<1>4. PICK c \in Backlog :
        /\ conn' = [conn EXCEPT ![a] = c] /\ cl' = [cl EXCEPT ![c].st = "up"]
        /\ tree' = tree \cup {a} /\ edge' = (IF Readable(c) THEN edge \cup {a} ELSE edge)
        /\ reused' = (reused \/ a \in batch \cup QueuedFds \cup HeldFds)
  BY <1>2 DEF AcceptConn
<1>5. c \in Clients /\ cl[c].st = "backlog" /\ c # None BY ClientsAssumption DEF Backlog
<1>6. /\ conn' \in [FD -> Clients \cup {None}] /\ conn'[a] = c
      /\ \A f \in FD : f # a => conn'[f] = conn[f]
  BY <1>3, <1>4, <1>5 DEF ServerInv, ServerTyped
<1>7. cl[c] \in Peer /\ cl \in [Clients -> Peer] BY <1>5 DEF ServerInv, ServerTyped
<1>8. "up" \in States BY DEF States
<1>9. Touches(c) BY <1>4, <1>7, <1>8 DEF Peer, Touches
<1>10. cl'[c].st = "up" BY <1>4, <1>5, <1>7, <1>8 DEF Peer
<1>11. SameData
  <2>1. cl'[c] = [cl[c] EXCEPT !.st = "up"] BY <1>4, <1>5, <1>7
  <2>2. /\ cl'[c].sent = cl[c].sent /\ cl'[c].read = cl[c].read /\ cl'[c].got = cl[c].got
        /\ cl'[c].fin = cl[c].fin /\ cl'[c].rst = cl[c].rst
    BY <1>7, <2>1 DEF Peer
  <2>. QED BY <1>9, <2>2 DEF Touches, SameData
<1>12. \A f \in FD : conn[f] # c BY <1>5 DEF ServerInv, ConnInv
<1>13. a \notin tree BY <1>3 DEF ServerInv, ConnInv
<1>14. calls' = calls /\ pc' = pc /\ fdOf' = fdOf /\ run' = run /\ alive' = alive
       /\ shared' = shared /\ batch' = batch \ {Lfd}
  BY DEF AcceptConn, poolVars
<1>15. ServerTyped'
  <2>1. reused' \in BOOLEAN BY <1>4
  <2>. QED BY <1>6, <1>9, <1>14, <2>1 DEF ServerInv, ServerTyped, Touches
<1>16. RunInv' BY <1>14 DEF ServerInv, RunInv
<1>17. ConnInv'
  <2>1. \A f, g \in FD : conn'[f] = conn'[g] /\ conn'[f] # None => f = g
    BY <1>6, <1>12 DEF ServerInv, ConnInv
  <2>2. \A f \in FD : conn'[f] # None => cl'[conn'[f]].st = "up"
    BY <1>6, <1>9, <1>10, <1>12 DEF ServerInv, ServerTyped, ConnInv, Touches
  <2>3. tree' \subseteq FD /\ edge' \subseteq tree' /\ \A f \in tree' : conn'[f] # None
    BY <1>3, <1>4, <1>5, <1>6 DEF ServerInv, ConnInv
  <2>. QED BY <2>1, <2>2, <2>3 DEF ConnInv
<1>18. PeerInv' BY <1>5, <1>9, <1>10, <1>11 DEF ServerInv, PeerInv, SameData, Touches
<1>19. Accepts(c, a) BY <1>3, <1>4, <1>5, <1>6, <1>9, <1>10, <1>11, <1>12, <1>13, <1>14 DEF Accepts
<1>. QED BY <1>1, <1>3, <1>5, <1>15, <1>16, <1>17, <1>18, <1>19 DEF ServerInv
-----------------------------------------------------------------------------
(* addtask is called for an event of descriptor fd. *)
Handles(fd) ==
  /\ fd \in batch /\ batch' = batch \ {fd} /\ alive
  /\ fdOf'[calls + 1] = fd /\ \A t \in 1 .. calls : fdOf'[t] = fdOf[t]
  /\ UNCHANGED <<run, conn, tree, edge, cl, alive, ghostVars>>

(* HandleEvent does this: addtask has a number for the task. *)
LEMMA HandleStep ==
  ASSUME ServerInv, NEW fd \in FD, HandleEvent(fd)
  PROVE  ServerInv' /\ Queues /\ Handles(fd)
<1>1. PoolInv' /\ Queues /\ calls + 1 \in P!Task BY CallStep DEF ServerInv, HandleEvent
<1>2. PoolView /\ PoolView' BY <1>1, PoolViewIs, PoolViewNext DEF ServerInv
<1>3. calls \in Nat /\ calls' = calls + 1 /\ pc' = pc BY <1>1, <1>2 DEF PoolView, Queues
<1>4. PICK n \in P!Task : n = calls + 1 BY <1>1
<1>5. fdOf' = [fdOf EXCEPT ![n] = fd] /\ UNCHANGED <<run, kernelVars, alive, ghostVars>>
      /\ fd \in batch /\ batch' = batch \ {fd} /\ alive
  BY <1>4 DEF HandleEvent, Handling
<1>6. /\ fdOf' \in [P!Task -> FD \cup {Lfd}] /\ fdOf'[n] = fd
      /\ \A t \in P!Task : t # n => fdOf'[t] = fdOf[t]
  BY <1>5 DEF ServerInv, ServerTyped
<1>7. calls \in 0 .. NTasks BY <1>2 DEF PoolView
<1>8. \A t \in 1 .. calls : t \in P!Task /\ t # n
  BY <1>4, <1>7, SizesAssumption DEF P!Task
<1>9. \A t \in 1 .. calls : fdOf'[t] = fdOf[t] BY <1>6, <1>8
<1>10. Handles(fd) BY <1>4, <1>5, <1>6, <1>9 DEF Handles, kernelVars
<1>11. ServerTyped' BY <1>5, <1>6 DEF ServerInv, ServerTyped, kernelVars, ghostVars
<1>12. RunInv'
  <2>1. ASSUME NEW t \in 1 .. calls' PROVE fdOf'[t] \in FD
    <3>1. t \in 1 .. calls \/ t = n BY <1>3, <1>4
    <3>. QED BY <1>5, <1>6, <1>9, <3>1 DEF ServerInv, RunInv
  <2>. QED BY <1>3, <1>5, <2>1 DEF ServerInv, RunInv
<1>13. ConnInv' /\ PeerInv' BY <1>5 DEF ServerInv, ConnInv, PeerInv, kernelVars
<1>. QED BY <1>1, <1>10, <1>11, <1>12, <1>13 DEF ServerInv

(* The rest of the way through the pool, but for the start of taskRun. *)
InPool == AddTask \/ Wakeup \/ \E w \in Workers : TakeTask(w)

(* It changes nothing but the pool. *)
LEMMA PoolSteps ==
  ASSUME ServerInv, InPool
  PROVE  /\ ServerInv' /\ alive
         /\ UNCHANGED <<fdOf, run, batch, kernelVars, alive, ghostVars>>
         /\ Quiet \/ \E w \in Workers : Takes(w)
<1>1. UNCHANGED <<fdOf, run, batch, kernelVars, alive, ghostVars>> /\ alive
  BY DEF InPool, AddTask, Wakeup, TakeTask
<1>2. PoolInv' /\ (Quiet \/ \E w \in Workers : Takes(w))
  BY AddStep, WakeStep, LookStep, TakeStep DEF ServerInv, InPool, AddTask, Wakeup, TakeTask
<1>3. calls' = calls /\ \A w \in Workers : pc'[w] = "run" <=> pc[w] = "run"
  BY <1>2 DEF Quiet, Takes
<1>4. ServerTyped' BY <1>1 DEF ServerInv, ServerTyped, kernelVars, ghostVars
<1>5. RunInv' BY <1>1, <1>3 DEF ServerInv, RunInv
<1>6. ConnInv' /\ PeerInv' BY <1>1 DEF ServerInv, ConnInv, PeerInv, kernelVars
<1>. QED BY <1>1, <1>2, <1>4, <1>5, <1>6 DEF ServerInv

(* A worker calls taskRun. *)
LEMMA StartTaskStep ==
  ASSUME ServerInv, NEW w \in Workers, StartTask(w)
  PROVE  ServerInv' /\ Starts(w) /\ run[w] = NotRunning
<1>1. PoolInv' /\ Starts(w) BY StartStep DEF ServerInv, StartTask
<1>2. UNCHANGED <<fdOf, run, batch, kernelVars, alive, reused>>
  BY DEF StartTask
<1>3. calls' = calls /\ \A v \in Workers : pc'[v] # "run" => pc[v] # "run"
  BY <1>1 DEF Starts
<1>4. shared' \in BOOLEAN BY DEF StartTask
<1>5. ServerTyped' BY <1>2, <1>4 DEF ServerInv, ServerTyped, kernelVars
<1>6. RunInv' BY <1>2, <1>3 DEF ServerInv, RunInv
<1>7. ConnInv' /\ PeerInv' BY <1>2 DEF ServerInv, ConnInv, PeerInv, kernelVars
<1>8. run[w] = NotRunning BY <1>1 DEF ServerInv, RunInv, Starts
<1>. QED BY <1>1, <1>5, <1>6, <1>7, <1>8 DEF ServerInv
-----------------------------------------------------------------------------
(* Worker w goes on in taskRun, and no other worker does anything. *)
Moves(w, place) ==
  /\ run'[w] = place /\ \A v \in Workers : v # w => run'[v] = run[v]
  /\ fdOf' = fdOf /\ batch' = batch /\ UNCHANGED <<alive, ghostVars>>

(* It runs a task. *)
Runs(w) ==
  /\ alive /\ w \in Workers /\ pc[w] = "run" /\ task[w] # 0 /\ Serving(w) \in FD
  /\ fdOf[task[w]] = Serving(w)

(* A worker in taskRun is such a worker. *)
LEMMA RunsIs ==
  ASSUME ServerInv, NEW w \in Workers, NEW p, At(w, p)
  PROVE  Runs(w)
<1>1. pc[w] = "run" /\ alive BY DEF At
<1>2. task[w] # 0 BY <1>1, PoolViewIs DEF ServerInv, PoolView
<1>. QED BY <1>1, <1>2, ServingIs DEF Runs, Serving

(* What a step of taskRun that does not end it needs for the invariant. *)
LEMMA MovesStep ==
  ASSUME ServerInv, NEW w \in Workers, Runs(w), NEW place \in Places,
         run' = [run EXCEPT ![w] = place], fdOf' = fdOf, batch' = batch,
         UNCHANGED <<alive, ghostVars>>,
         UNCHANGED poolVars \/ (Pool!WorkerRun(w) /\ place = NotRunning),
         place.pc # "write" => place.buf = <<>>
  PROVE  /\ PoolInv' /\ RunInv' /\ run' \in [Workers -> Places] /\ Moves(w, place)
         /\ UNCHANGED poolVars => Quiet
         /\ Pool!WorkerRun(w) => Finishes(w)
<1>1. PoolInv' BY PoolStutter, FinishStep DEF ServerInv
<1>2. UNCHANGED poolVars => Quiet BY PoolStutter DEF ServerInv
<1>3. Pool!WorkerRun(w) => Finishes(w) BY FinishStep DEF ServerInv
<1>4. /\ run'[w] = place /\ run' \in [Workers -> Places]
      /\ \A v \in Workers : v # w => run'[v] = run[v]
  BY DEF ServerInv, ServerTyped
<1>5. Moves(w, place) BY <1>4 DEF Moves
<1>6. calls' = calls BY <1>2, <1>3 DEF Quiet, Finishes
<1>7. \A v \in Workers : pc'[v] # "run" => run'[v] = NotRunning
  <2>1. CASE UNCHANGED poolVars
    <3>1. pc' = pc BY <2>1 DEF poolVars
    <3>2. pc[w] = "run" BY DEF Runs
    <3>. QED BY <1>4, <3>1, <3>2 DEF ServerInv, RunInv
  <2>2. CASE Pool!WorkerRun(w) /\ place = NotRunning
    <3>1. \A v \in Workers : v # w => pc'[v] = pc[v] BY <1>3, <2>2 DEF Finishes
    <3>. QED BY <1>4, <2>2, <3>1 DEF ServerInv, RunInv
  <2>. QED BY <2>1, <2>2
<1>8. \A v \in Workers : run'[v].pc # "write" => run'[v].buf = <<>>
  BY <1>4 DEF ServerInv, RunInv
<1>9. alive' => \A t \in 1 .. calls' : fdOf'[t] \in FD
  BY <1>6 DEF ServerInv, RunInv
<1>10. RunInv' BY <1>7, <1>8, <1>9 DEF RunInv
<1>. QED BY <1>1, <1>2, <1>3, <1>4, <1>5, <1>10

(* The places in taskRun. *)
LEMMA PlacesAre ==
  /\ NotRunning \in Places /\ NotRunning.pc = "read" /\ NotRunning.buf = <<>>
  /\ \A buf \in Bufs : /\ [pc |-> "write", buf |-> buf] \in Places
                       /\ [pc |-> "write", buf |-> buf].pc = "write"
  /\ \A p \in {"close", "del"} : /\ [pc |-> p, buf |-> <<>>] \in Places
                                 /\ [pc |-> p, buf |-> <<>>].pc = p
                                 /\ [pc |-> p, buf |-> <<>>].buf = <<>>
<1>1. <<>> \in Bufs BY DEF Bufs
<1>. QED BY <1>1 DEF NotRunning, Places

(* A step that leaves the connections alone. *)
LEMMA SameConnStep ==
  ASSUME ServerInv, UNCHANGED <<conn, tree, edge, cl>>
  PROVE  ConnInv' /\ PeerInv'
BY DEF ServerInv, ConnInv, PeerInv

(* Read: some data, *)
Reads(w, c) ==
  /\ Runs(w) /\ run[w].pc = "read" /\ conn[Serving(w)] = c /\ Unread(c)
  /\ Moves(w, [pc |-> "write", buf |-> Received(c)])
  /\ UNCHANGED <<conn, tree, edge>>
  /\ Touches(c)
  /\ cl'[c].read = cl[c].read + Len(Received(c)) /\ cl'[c].read \in Nat
  /\ cl'[c].read <= cl[c].sent
  /\ cl'[c].sent = cl[c].sent /\ cl'[c].got = cl[c].got /\ cl'[c].st = cl[c].st
  /\ cl'[c].fin = cl[c].fin /\ cl'[c].rst = cl[c].rst

(* ReadData does this. *)
LEMMA ReadStep ==
  ASSUME ServerInv, NEW w \in Workers, ReadData(w)
  PROVE  ServerInv' /\ Quiet /\ \E c \in Clients : Reads(w, c)
<1>1. Runs(w) /\ run[w].pc = "read" BY RunsIs DEF ReadData, At
<1>2. PICK c : c = conn[Serving(w)] OBVIOUS
<1>3. c \in Clients /\ Unread(c) /\ c # None
  BY <1>1, <1>2 DEF ReadData, ServerInv, ServerTyped, Runs
<1>4. PICK buf \in Bufs : buf = Received(c) BY <1>3, ReceivedIs
<1>5. PICK n \in Nat : n = cl[c].read + Len(buf) /\ n <= cl[c].sent
  <2>1. cl[c].sent \in Nat /\ cl[c].read \in Nat BY <1>3 DEF ServerInv, ServerTyped, Peer
  <2>2. Len(buf) \in 1 .. cl[c].sent - cl[c].read BY <1>3, <1>4, ReceivedIs
  <2>. QED BY <2>1, <2>2
<1>6. /\ run' = [run EXCEPT ![w] = [pc |-> "write", buf |-> buf]]
      /\ cl' = [cl EXCEPT ![c].read = n]
      /\ UNCHANGED <<poolVars, fdOf, batch, conn, tree, edge, alive, ghostVars>>
  BY <1>2, <1>3, <1>4, <1>5 DEF ReadData
<1>7. PICK place \in Places : place = [pc |-> "write", buf |-> buf] /\ place.pc = "write"
  BY PlacesAre
<1>8. /\ PoolInv' /\ RunInv' /\ run' \in [Workers -> Places] /\ Moves(w, place) /\ Quiet
  BY <1>1, <1>6, <1>7, MovesStep
<1>9. cl[c] \in Peer /\ cl \in [Clients -> Peer] BY <1>3 DEF ServerInv, ServerTyped
<1>10. Touches(c) BY <1>6, <1>9 DEF Touches, Peer
<1>11. /\ cl'[c].read = n
       /\ cl'[c].sent = cl[c].sent /\ cl'[c].got = cl[c].got /\ cl'[c].st = cl[c].st
       /\ cl'[c].fin = cl[c].fin /\ cl'[c].rst = cl[c].rst
  BY <1>3, <1>6, <1>9 DEF Peer
<1>12. Reads(w, c)
  BY <1>1, <1>2, <1>3, <1>4, <1>5, <1>6, <1>7, <1>8, <1>10, <1>11 DEF Reads
<1>13. ServerTyped' BY <1>6, <1>8, <1>10 DEF ServerInv, ServerTyped, Touches, ghostVars
<1>14. ConnInv'
  <2>1. \A d \in Clients : cl'[d].st = cl[d].st BY <1>10, <1>11 DEF Touches
  <2>. QED BY <1>6, <2>1 DEF ServerInv, ServerTyped, ConnInv
<1>15. cl[c].st = "up" BY <1>1, <1>2, <1>3 DEF ServerInv, ConnInv, Runs
<1>16. PeerInv' BY <1>5, <1>10, <1>11, <1>15 DEF ServerInv, PeerInv, Touches
<1>. QED BY <1>3, <1>8, <1>12, <1>13, <1>14, <1>16 DEF ServerInv
-----------------------------------------------------------------------------
(* Write: n units of buf reach the client of the descriptor. *)
Writes(w, c, n) ==
  /\ Runs(w) /\ run[w].pc = "write" /\ conn[Serving(w)] = c
  /\ n \in 0 .. Len(run[w].buf)
  /\ Moves(w, NotRunning) /\ UNCHANGED <<conn, tree, edge>>
  /\ Touches(c) /\ cl'[c].got = cl[c].got \o SubSeq(run[w].buf, 1, n)
  /\ cl'[c].sent = cl[c].sent /\ cl'[c].read = cl[c].read /\ cl'[c].st = cl[c].st
  /\ cl'[c].fin = cl[c].fin /\ cl'[c].rst = cl[c].rst

(* WriteBack does this for some n: the result of Write is not looked at. *)
LEMMA WriteStep ==
  ASSUME ServerInv, NEW w \in Workers, WriteBack(w)
  PROVE  ServerInv' /\ Quiet /\ \E c \in Clients, n \in Nat : Writes(w, c, n)
<1>1. Runs(w) /\ run[w].pc = "write" BY RunsIs DEF WriteBack, At
<1>2. PICK c : c = conn[Serving(w)] OBVIOUS
<1>3. c \in Clients BY <1>1, <1>2 DEF WriteBack, ServerInv, ServerTyped, Runs
<1>4. cl[c] \in Peer /\ cl \in [Clients -> Peer] BY <1>3 DEF ServerInv, ServerTyped
<1>5. PICK buf \in Bufs : buf = run[w].buf BY DEF ServerInv, ServerTyped, Places
<1>6. PICK n \in 0 .. Len(buf) : cl' = [cl EXCEPT ![c].got = @ \o SubSeq(buf, 1, n)]
  BY <1>2, <1>5 DEF WriteBack
<1>7. PICK part \in Bufs : part = SubSeq(buf, 1, n)
  <2>1. SubSeq(buf, 1, n) \in Seq(Units)
    <3>1. buf \in Seq(Units) BY DEF Bufs
    <3>2. \A i \in 1 .. n : buf[i] \in Units BY <3>1
    <3>. QED BY <3>1, <3>2, SubSeqProperties
  <2>. QED BY <2>1 DEF Bufs
<1>8. PICK got \in Bufs : got = cl[c].got \o part
  <2>1. cl[c].got \in Seq(Units) /\ part \in Seq(Units) BY <1>4 DEF Peer, Bufs
  <2>2. cl[c].got \o part \in Seq(Units) BY <2>1, ConcatProperties
  <2>. QED BY <2>2 DEF Bufs
<1>9. cl' = [cl EXCEPT ![c].got = got] BY <1>4, <1>6, <1>7, <1>8
<1>10. Touches(c) BY <1>4, <1>9 DEF Touches, Peer
<1>11. /\ cl'[c].got = got /\ cl'[c].read = cl[c].read
       /\ cl'[c].sent = cl[c].sent /\ cl'[c].st = cl[c].st
       /\ cl'[c].fin = cl[c].fin /\ cl'[c].rst = cl[c].rst
  BY <1>3, <1>4, <1>9 DEF Peer
<1>12. /\ run' = [run EXCEPT ![w] = NotRunning]
       /\ UNCHANGED <<poolVars, fdOf, batch, conn, tree, edge, alive, ghostVars>>
  BY DEF WriteBack
<1>13. /\ PoolInv' /\ RunInv' /\ run' \in [Workers -> Places] /\ Moves(w, NotRunning) /\ Quiet
  BY <1>1, <1>12, PlacesAre, MovesStep
<1>14. Writes(w, c, n)
  BY <1>1, <1>2, <1>5, <1>7, <1>8, <1>10, <1>11, <1>12, <1>13 DEF Writes
<1>15. ServerTyped' BY <1>10, <1>12, <1>13 DEF ServerInv, ServerTyped, Touches, ghostVars
<1>16. ConnInv'
  <2>1. \A d \in Clients : cl'[d].st = cl[d].st BY <1>10, <1>11 DEF Touches
  <2>. QED BY <1>12, <2>1 DEF ServerInv, ServerTyped, ConnInv
<1>17. cl[c].st = "up" BY <1>1, <1>2, <1>3, ClientsAssumption DEF ServerInv, ConnInv, Runs
<1>18. PeerInv' BY <1>10, <1>11, <1>17 DEF ServerInv, PeerInv, Touches
<1>19. n \in Nat BY <1>5
<1>. QED BY <1>3, <1>13, <1>14, <1>15, <1>16, <1>18, <1>19 DEF ServerInv

(* A step of taskRun that leaves the connections alone. *)
LEMMA PlainMoves ==
  ASSUME ServerInv, UNCHANGED <<conn, tree, edge, cl>>,
         PoolInv', RunInv', run' \in [Workers -> Places],
         NEW w, NEW place, Moves(w, place)
  PROVE  ServerInv'
BY SameConnStep DEF ServerInv, ServerTyped, Moves, ghostVars

(* Write fails, and the data is gone. *)
LEMMA WriteFailsStep ==
  ASSUME ServerInv, NEW w \in Workers, WriteFails(w)
  PROVE  /\ ServerInv' /\ Quiet /\ Runs(w) /\ Moves(w, NotRunning)
         /\ UNCHANGED <<conn, tree, edge, cl>>
<1>1. Runs(w) BY RunsIs DEF WriteFails
<1>2. /\ run' = [run EXCEPT ![w] = NotRunning]
      /\ UNCHANGED <<poolVars, fdOf, batch, conn, tree, edge, cl, alive, ghostVars>>
  BY DEF WriteFails, kernelVars
<1>3. /\ PoolInv' /\ RunInv' /\ run' \in [Workers -> Places] /\ Moves(w, NotRunning) /\ Quiet
  BY <1>1, <1>2, PlacesAre, MovesStep
<1>. QED BY <1>1, <1>2, <1>3, PlainMoves

(* Read finds nothing more, and taskRun returns. *)
LEMMA AgainStep ==
  ASSUME ServerInv, NEW w \in Workers, ReadAgain(w)
  PROVE  /\ ServerInv' /\ Finishes(w) /\ Runs(w) /\ Moves(w, NotRunning)
         /\ run' = run /\ UNCHANGED <<conn, tree, edge, cl>>
         /\ ~ Readable(conn[Serving(w)])
<1>1. Runs(w) /\ run[w].pc = "read" BY RunsIs DEF ReadAgain, At
<1>2. /\ Pool!WorkerRun(w) /\ ~ Readable(conn[Serving(w)])
      /\ UNCHANGED <<fdOf, run, batch, conn, tree, edge, cl, alive, ghostVars>>
  BY DEF ReadAgain, kernelVars
<1>3. run[w] = NotRunning /\ run' = [run EXCEPT ![w] = NotRunning]
  <2>1. run[w] \in Places /\ run[w].buf = <<>> BY <1>1 DEF ServerInv, ServerTyped, RunInv
  <2>2. run[w] = NotRunning BY <1>1, <2>1 DEF Places, NotRunning
  <2>. QED BY <1>2, <2>2 DEF ServerInv, ServerTyped
<1>4. /\ PoolInv' /\ RunInv' /\ run' \in [Workers -> Places] /\ Moves(w, NotRunning)
      /\ Finishes(w)
  BY <1>1, <1>2, <1>3, PlacesAre, MovesStep
<1>. QED BY <1>1, <1>2, <1>4, PlainMoves

(* Read finds the end, or an error. *)
Ends(w) ==
  /\ Runs(w) /\ run[w].pc = "read" /\ Moves(w, [pc |-> "close", buf |-> <<>>])
  /\ conn[Serving(w)] # None => ~ Unread(conn[Serving(w)]) /\ Ended(conn[Serving(w)])
  /\ UNCHANGED <<conn, tree, edge, cl>>

(* ReadEnds does this. *)
LEMMA EndsStep ==
  ASSUME ServerInv, NEW w \in Workers, ReadEnds(w)
  PROVE  ServerInv' /\ Quiet /\ Ends(w)
<1>1. Runs(w) /\ run[w].pc = "read" BY RunsIs DEF ReadEnds, At
<1>2. PICK place \in Places : /\ place = [pc |-> "close", buf |-> <<>>]
                              /\ place.pc = "close" /\ place.buf = <<>>
  BY PlacesAre
<1>3. run' = [run EXCEPT ![w] = place]
  <2>1. run[w] \in Places /\ run[w].buf = <<>> BY <1>1 DEF ServerInv, ServerTyped, RunInv
  <2>2. [run[w] EXCEPT !.pc = "close"] = place BY <1>2, <2>1 DEF Places
  <2>. QED BY <2>2 DEF ReadEnds, ServerInv, ServerTyped
<1>4. /\ conn[Serving(w)] # None => ~ Unread(conn[Serving(w)]) /\ Ended(conn[Serving(w)])
      /\ UNCHANGED <<poolVars, fdOf, batch, conn, tree, edge, cl, alive, ghostVars>>
  BY DEF ReadEnds, kernelVars
<1>5. /\ PoolInv' /\ RunInv' /\ run' \in [Workers -> Places] /\ Moves(w, place) /\ Quiet
  BY <1>1, <1>2, <1>3, <1>4, MovesStep
<1>6. ServerInv' BY <1>4, <1>5, PlainMoves
<1>7. Ends(w) BY <1>1, <1>2, <1>4, <1>5 DEF Ends
<1>. QED BY <1>5, <1>6, <1>7

(* close *)
Closes(w) ==
  /\ Runs(w) /\ run[w].pc = "close" /\ Moves(w, [pc |-> "del", buf |-> <<>>])
  /\ conn'[Serving(w)] = None /\ \A f \in FD : f # Serving(w) => conn'[f] = conn[f]
  /\ cl' \in [Clients -> Peer] /\ SameData
  /\ \A c \in Clients : cl'[c].st = IF conn[Serving(w)] = c THEN "down" ELSE cl[c].st
  /\ tree' = tree \ {Serving(w)} /\ edge' = edge \ {Serving(w)}

(* CloseFd does this. *)
LEMMA CloseStep ==
  ASSUME ServerInv, NEW w \in Workers, CloseFd(w)
  PROVE  ServerInv' /\ Quiet /\ Closes(w)
<1>1. Runs(w) /\ run[w].pc = "close" BY RunsIs DEF CloseFd, At
<1>2. PICK place \in Places : /\ place = [pc |-> "del", buf |-> <<>>]
                              /\ place.pc = "del" /\ place.buf = <<>>
  BY PlacesAre
<1>3. run' = [run EXCEPT ![w] = place]
  <2>1. run[w] \in Places /\ run[w].buf = <<>> BY <1>1 DEF ServerInv, ServerTyped, RunInv
  <2>2. [run[w] EXCEPT !.pc = "del"] = place BY <1>2, <2>1 DEF Places
  <2>. QED BY <2>2 DEF CloseFd, ServerInv, ServerTyped
<1>4. PICK s \in FD : s = Serving(w) BY <1>1 DEF Runs
<1>5. /\ conn' = [conn EXCEPT ![s] = None]
      /\ cl' = [c \in Clients |-> IF conn[s] = c THEN [cl[c] EXCEPT !.st = "down"] ELSE cl[c]]
      /\ tree' = tree \ {s} /\ edge' = edge \ {s}
      /\ UNCHANGED <<poolVars, fdOf, batch, alive, ghostVars>>
  BY <1>4 DEF CloseFd
<1>6. /\ PoolInv' /\ RunInv' /\ run' \in [Workers -> Places] /\ Moves(w, place) /\ Quiet
  BY <1>1, <1>2, <1>3, <1>5, MovesStep
<1>7. /\ conn' \in [FD -> Clients \cup {None}] /\ conn'[s] = None
      /\ \A f \in FD : f # s => conn'[f] = conn[f]
  BY <1>5 DEF ServerInv, ServerTyped
<1>8. cl \in [Clients -> Peer] BY DEF ServerInv, ServerTyped
<1>9. ASSUME NEW c \in Clients
      PROVE  /\ cl'[c] \in Peer
             /\ cl'[c].st = IF conn[s] = c THEN "down" ELSE cl[c].st
             /\ cl'[c].sent = cl[c].sent /\ cl'[c].read = cl[c].read /\ cl'[c].got = cl[c].got
             /\ cl'[c].fin = cl[c].fin /\ cl'[c].rst = cl[c].rst
  <2>1. cl[c] \in Peer /\ "down" \in States BY <1>8 DEF States
  <2>2. cl'[c] = IF conn[s] = c THEN [cl[c] EXCEPT !.st = "down"] ELSE cl[c] BY <1>5
  <2>. QED BY <2>1, <2>2 DEF Peer
<1>10. cl' \in [Clients -> Peer] BY <1>5, <1>9
<1>11. SameData BY <1>9 DEF SameData
<1>12. Closes(w)
  BY <1>1, <1>2, <1>4, <1>5, <1>6, <1>7, <1>9, <1>10, <1>11 DEF Closes
<1>13. ServerTyped' BY <1>5, <1>6, <1>7, <1>10 DEF ServerInv, ServerTyped, ghostVars
<1>14. ConnInv'
  <2>1. \A f, g \in FD : conn'[f] = conn'[g] /\ conn'[f] # None => f = g
    BY <1>7 DEF ServerInv, ConnInv
  <2>2. \A f \in FD : conn'[f] # None => cl'[conn'[f]].st = "up"
    <3>1. SUFFICES ASSUME NEW f \in FD, conn'[f] # None PROVE cl'[conn'[f]].st = "up"
      OBVIOUS
    <3>2. f # s /\ conn'[f] = conn[f] /\ conn[f] # conn[s] /\ conn[f] \in Clients
      BY <1>7, <3>1 DEF ServerInv, ServerTyped, ConnInv
    <3>3. cl[conn[f]].st = "up" BY <3>2, ClientsAssumption DEF ServerInv, ConnInv
    <3>4. cl'[conn[f]].st = cl[conn[f]].st BY <1>9, <3>2
    <3>. QED BY <3>2, <3>3, <3>4
  <2>3. tree' \subseteq FD /\ edge' \subseteq tree' /\ \A f \in tree' : conn'[f] # None
    BY <1>5, <1>7 DEF ServerInv, ConnInv
  <2>. QED BY <2>1, <2>2, <2>3 DEF ConnInv
<1>15. PeerInv' BY <1>9 DEF ServerInv, PeerInv
<1>. QED BY <1>6, <1>12, <1>13, <1>14, <1>15 DEF ServerInv

(* epoll_ctl of a number that is closed, or has been given out again *)
Dels(w) ==
  /\ Runs(w) /\ run[w].pc = "del" /\ Moves(w, NotRunning)
  /\ \/ tree' = tree /\ edge' = edge
     \/ tree' = tree \ {Serving(w)} /\ edge' = edge \ {Serving(w)}
  /\ UNCHANGED <<conn, cl>>

(* DelFd does this, whatever the uninitialised epfd is. *)
LEMMA DelStep ==
  ASSUME ServerInv, NEW w \in Workers, DelFd(w)
  PROVE  ServerInv' /\ Finishes(w) /\ Dels(w)
<1>1. Runs(w) /\ run[w].pc = "del" BY RunsIs DEF DelFd, At
<1>2. /\ run' = [run EXCEPT ![w] = NotRunning] /\ Pool!WorkerRun(w)
      /\ UNCHANGED <<fdOf, batch, conn, cl, alive, ghostVars>>
  BY DEF DelFd
<1>3. \/ tree' = tree /\ edge' = edge
      \/ tree' = tree \ {Serving(w)} /\ edge' = edge \ {Serving(w)}
  BY DEF DelFd
<1>4. /\ PoolInv' /\ RunInv' /\ run' \in [Workers -> Places] /\ Moves(w, NotRunning)
      /\ Finishes(w)
  BY <1>1, <1>2, PlacesAre, MovesStep
<1>5. ServerTyped' BY <1>2, <1>4 DEF ServerInv, ServerTyped, ghostVars
<1>6. ConnInv' /\ PeerInv' BY <1>2, <1>3 DEF ServerInv, ConnInv, PeerInv
<1>7. Dels(w) BY <1>1, <1>2, <1>3, <1>4 DEF Dels
<1>. QED BY <1>4, <1>5, <1>6, <1>7 DEF ServerInv
-----------------------------------------------------------------------------
(* What a client does is news for its descriptor, unless it only connects.  *)
Acts(c) ==
  /\ Touches(c) /\ cl'[c].read = cl[c].read /\ cl'[c].got = cl[c].got
  /\ cl'[c].sent >= cl[c].sent /\ (Ended(c) => cl'[c].sent = cl[c].sent)
  /\ cl[c].fin => cl'[c].fin
  /\ cl[c].rst => cl'[c].rst
  /\ cl[c].st \in {"up", "down"} => cl'[c].st = cl[c].st
  /\ cl[c].st \in {"new", "backlog"} => cl'[c].st \in {"new", "backlog"}
  /\ \/ Arrives(c)
     \/ /\ cl'[c].sent = cl[c].sent /\ cl'[c].fin = cl[c].fin /\ cl'[c].rst = cl[c].rst
        /\ edge' = edge
  /\ UNCHANGED <<fdOf, run, batch, conn, tree, alive, ghostVars>>

ClientActs(c) == Connect(c) \/ Send(c) \/ Close(c) \/ Reset(c)

(* Connect, Send, Close and Reset do this. *)
LEMMA ClientStep ==
  ASSUME ServerInv, NEW c \in Clients, ClientActs(c)
  PROVE  ServerInv' /\ Quiet /\ Acts(c)
<1>1. cl[c] \in Peer /\ cl \in [Clients -> Peer] BY DEF ServerInv, ServerTyped
<1>2. UNCHANGED <<poolVars, fdOf, run, batch, conn, tree, alive, ghostVars>>
  BY DEF ClientActs, Connect, Send, Close, Reset
<1>3. cl[c].sent \in Nat /\ cl[c].read \in Nat /\ cl[c].st \in States BY <1>1 DEF Peer
<1>4. cl[c].read <= cl[c].sent BY DEF ServerInv, PeerInv
<1>5. Acts(c)
  <2>1. CASE Connect(c)
    <3>1. /\ cl' = [cl EXCEPT ![c].st = "backlog"] /\ cl[c].st = "new" /\ "backlog" \in States
          /\ edge' = edge
      BY <2>1 DEF Connect, States
    <3>2. Touches(c) BY <1>1, <3>1 DEF Peer, Touches
    <3>3. /\ cl'[c].st = "backlog" /\ cl'[c].sent = cl[c].sent /\ cl'[c].read = cl[c].read
          /\ cl'[c].got = cl[c].got /\ cl'[c].fin = cl[c].fin /\ cl'[c].rst = cl[c].rst
      BY <1>1, <3>1 DEF Peer
    <3>. QED BY <1>2, <1>3, <3>1, <3>2, <3>3 DEF Acts
  <2>2. CASE Send(c)
    <3>1. PICK n \in Nat : n = cl[c].sent + 1 BY <1>3
    <3>2. cl' = [cl EXCEPT ![c].sent = n] /\ ~ Ended(c) /\ Arrives(c)
      BY <1>1, <2>2, <3>1 DEF Send
    <3>3. Touches(c) BY <1>1, <3>1, <3>2 DEF Peer, Touches
    <3>4. /\ cl'[c].st = cl[c].st /\ cl'[c].sent = n /\ cl'[c].read = cl[c].read
          /\ cl'[c].got = cl[c].got /\ cl'[c].fin = cl[c].fin /\ cl'[c].rst = cl[c].rst
      BY <1>1, <3>2 DEF Peer
    <3>. QED BY <1>2, <1>3, <3>1, <3>2, <3>3, <3>4 DEF Acts
  <2>3. CASE Close(c)
    <3>1. cl' = [cl EXCEPT ![c].fin = TRUE] /\ Arrives(c) BY <2>3 DEF Close
    <3>2. Touches(c) BY <1>1, <3>1 DEF Peer, Touches
    <3>3. /\ cl'[c].st = cl[c].st /\ cl'[c].sent = cl[c].sent /\ cl'[c].read = cl[c].read
          /\ cl'[c].got = cl[c].got /\ cl'[c].fin = TRUE /\ cl'[c].rst = cl[c].rst
      BY <1>1, <3>1 DEF Peer
    <3>. QED BY <1>2, <1>3, <3>1, <3>2, <3>3 DEF Acts
  <2>4. CASE Reset(c)
    <3>1. cl' = [cl EXCEPT ![c].rst = TRUE] /\ Arrives(c) BY <2>4 DEF Reset
    <3>2. Touches(c) BY <1>1, <3>1 DEF Peer, Touches
    <3>3. /\ cl'[c].st = cl[c].st /\ cl'[c].sent = cl[c].sent /\ cl'[c].read = cl[c].read
          /\ cl'[c].got = cl[c].got /\ cl'[c].fin = cl[c].fin /\ cl'[c].rst = TRUE
      BY <1>1, <3>1 DEF Peer
    <3>. QED BY <1>2, <1>3, <3>1, <3>2, <3>3 DEF Acts
  <2>. QED BY <2>1, <2>2, <2>3, <2>4 DEF ClientActs
<1>6. PoolInv' /\ Quiet BY <1>2, PoolStutter DEF ServerInv
<1>7. ServerTyped' BY <1>2, <1>5 DEF ServerInv, ServerTyped, Acts, Touches, ghostVars
<1>8. RunInv'
  <2>1. calls' = calls /\ pc' = pc BY <1>2 DEF poolVars
  <2>. QED BY <1>2, <2>1 DEF ServerInv, RunInv
<1>9. ConnInv'
  <2>1. \A d \in Clients : cl[d].st = "up" => cl'[d].st = "up" BY <1>5 DEF Acts, Touches
  <2>2. edge' \subseteq tree
    BY <1>5 DEF Acts, Arrives, ServerInv, ConnInv
  <2>. QED BY <1>2, <2>1, <2>2 DEF ServerInv, ServerTyped, ConnInv
<1>10. PeerInv'
  <2>1. cl'[c].read <= cl'[c].sent
    <3>1. cl'[c].sent \in Nat BY <1>5 DEF Acts, Touches, Peer
    <3>. QED BY <1>3, <1>4, <1>5, <3>1 DEF Acts
  <2>2. cl'[c].st \in {"new", "backlog"} => cl'[c].read = 0 /\ cl'[c].got = <<>>
    BY <1>3, <1>5 DEF Acts, ServerInv, PeerInv, States
  <2>. QED BY <1>5, <2>1, <2>2 DEF ServerInv, PeerInv, Acts, Touches
<1>. QED BY <1>5, <1>6, <1>7, <1>8, <1>9, <1>10 DEF ServerInv

(* The server starts with nothing open. *)
LEMMA InitServer == ASSUME Init PROVE ServerInv
<1>1. PoolInv BY InitPool
<1>2. calls = 0 BY DEF Init, Pool!Init
<1>3. NotRunning \in Places BY PlacesAre
<1>4. /\ fdOf \in [P!Task -> FD \cup {Lfd}] /\ run = [w \in Workers |-> NotRunning]
      /\ conn = [fd \in FD |-> None]
  BY DEF Init, NoFds, AtStart, NoConn, Pool!Task, P!Task, Pool!Workers, Workers
<1>5. cl = [c \in Clients |-> NewClient] /\ NewClient \in Peer
  BY DEF Init, NewClient, Peer, States, Bufs
<1>6. ServerTyped BY <1>3, <1>4, <1>5 DEF ServerTyped, Init
<1>7. RunInv
  <2>1. \A w \in Workers : run[w] = NotRunning BY <1>4
  <2>2. 1 .. calls = {} BY <1>2
  <2>. QED BY <2>1, <2>2, PlacesAre DEF RunInv
<1>8. ConnInv BY <1>4 DEF ConnInv, Init
<1>9. PeerInv BY <1>5 DEF PeerInv, NewClient
<1>. QED BY <1>1, <1>6, <1>7, <1>8, <1>9 DEF ServerInv

(* The steps of the server, by their effects. *)
LEMMA NextIs ==
  ASSUME [Next]_vars
  PROVE  \/ Exit \/ EpollWait \/ AcceptConn
         \/ \E fd \in FD : HandleEvent(fd)
         \/ InPool
         \/ \E w \in Workers : StartTask(w)
         \/ \E w \in Workers : \/ ReadData(w) \/ WriteBack(w) \/ WriteFails(w)
                               \/ ReadAgain(w) \/ ReadEnds(w) \/ CloseFd(w) \/ DelFd(w)
         \/ \E c \in Clients : ClientActs(c)
         \/ UNCHANGED vars
BY DEF Next, InPool, taskRun, EpollWaitFails, AcceptFails, WriteKilled, ClientActs, Pool!Workers, Workers

(* A step in which nothing happens. *)
LEMMA StutterStep ==
  ASSUME ServerInv, UNCHANGED vars
  PROVE  ServerInv' /\ Quiet
<1>1. UNCHANGED <<poolVars, fdOf, run, batch, conn, tree, edge, cl, alive, ghostVars>>
  BY DEF vars, kernelVars
<1>2. PoolInv' /\ Quiet BY <1>1, PoolStutter DEF ServerInv
<1>3. ServerTyped' BY <1>1 DEF ServerInv, ServerTyped, ghostVars
<1>4. RunInv'
  <2>1. calls' = calls /\ pc' = pc BY <1>1 DEF poolVars
  <2>. QED BY <1>1, <2>1 DEF ServerInv, RunInv
<1>5. ConnInv' /\ PeerInv' BY <1>1, SameConnStep DEF ServerInv
<1>. QED BY <1>2, <1>3, <1>4, <1>5 DEF ServerInv
-----------------------------------------------------------------------------
(* An event of descriptor fd is with the kernel, main, the queue, or a      *)
(* worker that has still to read until nothing is left.                     *)
Told(fd) ==
  \/ fd \in edge \cup batch
  \/ \E t \in P!Pops + 1 .. calls : fdOf[t] = fd
  \/ \E w \in Workers : task[w] # 0 /\ Serving(w) = fd /\ run[w].pc # "del"

Heard == \A fd \in tree : Readable(conn[fd]) => Told(fd)

(* This is what EdgeNotLost says. *)
LEMMA HeardIs == PoolInv => (EdgeNotLost <=> Heard)
<1>. SUFFICES ASSUME PoolInv PROVE EdgeNotLost <=> Heard OBVIOUS
<1>1. AddingFds \cup QueuedFds = {fdOf[t] : t \in P!Pops + 1 .. calls}
  BY PoolViewIs DEF PoolView
<1>2. ASSUME NEW fd
      PROVE  fd \in AddingFds \cup QueuedFds <=> \E t \in P!Pops + 1 .. calls : fdOf[t] = fd
  BY <1>1
<1>. QED BY <1>2 DEF EdgeNotLost, Heard, Told, Pool!Workers, Pool!NoTask, Workers

(* Who knows of fd goes on knowing it while no task changes hands. *)
LEMMA ToldKept ==
  ASSUME NEW fd, Told(fd),
         P!Pops' = P!Pops, calls' = calls, task' = task, fdOf' = fdOf,
         fd \in edge \cup batch => fd \in edge' \cup batch',
         \A w \in Workers : Serving(w) = fd /\ task[w] # 0 /\ run[w].pc # "del"
                              => run'[w].pc # "del"
  PROVE  Told(fd)'
BY DEF Told, Serving

(* The same client on the same descriptor is readable if it was. *)
LEMMA ReadableKept ==
  ASSUME SameData, NEW c \in Clients
  PROVE  Readable(c)' <=> Readable(c)
BY DEF SameData, Readable, Unread, Ended

(* A descriptor that names a client. *)
LEMMA TreeConn ==
  ASSUME ServerInv, NEW fd \in tree
  PROVE  fd \in FD /\ conn[fd] \in Clients
BY DEF ServerInv, ServerTyped, ConnInv

(* A step that changes neither the connections nor who has which task, and *)
(* brings no worker behind close, loses no edge.                            *)
LEMMA PlainHeard ==
  ASSUME ServerInv, Heard, P!Pops' = P!Pops, calls' = calls, task' = task, fdOf' = fdOf,
         UNCHANGED <<conn, tree, edge, cl, batch>>,
         \A w \in Workers : run[w].pc # "del" => run'[w].pc # "del"
  PROVE  Heard'
<1>. SUFFICES ASSUME NEW fd \in tree, Readable(conn[fd])' PROVE Told(fd)'
  BY DEF Heard
<1>1. Readable(conn[fd]) BY DEF Readable, Unread, Ended
<1>2. Told(fd) BY <1>1 DEF Heard
<1>. QED BY <1>2, ToldKept

(* epoll_wait takes the edges that are readable into its batch, and drops *)
(* only those that are not.                                                *)
LEMMA HeardWait == ASSUME ServerInv, Heard, EpollWait PROVE Heard'
<1>. SUFFICES ASSUME NEW fd \in tree, Readable(conn[fd])' PROVE Told(fd)'
  BY DEF Heard, EpollWait
<1>1. Readable(conn[fd]) BY DEF Readable, Unread, Ended, EpollWait
<1>2. Told(fd) BY <1>1 DEF Heard
<1>3. batch = {} /\ batch' = Ready /\ fdOf' = fdOf /\ run' = run
  BY DEF EpollWait, AtLoopHead
<1>4. fd \in edge \cup batch => fd \in batch' BY <1>1, <1>3 DEF Ready
<1>5. Quiet BY WaitStep
<1>. QED BY <1>2, <1>3, <1>4, <1>5, ToldKept DEF Quiet

(* A descriptor put on the tree with something to read has its edge. *)
LEMMA HeardAccept == ASSUME ServerInv, Heard, AcceptConn PROVE Heard'
<1>1. Quiet BY AcceptStep
<1>2. PICK c \in Clients, a \in FD : Accepts(c, a) BY AcceptStep
<1>3. fdOf' = fdOf /\ run' = run BY DEF AcceptConn
<1>. SUFFICES ASSUME NEW fd \in tree', Readable(conn[fd])' PROVE Told(fd)'
  BY DEF Heard
<1>4. CASE fd = a
  <2>1. conn'[fd] = c BY <1>2, <1>4 DEF Accepts
  <2>2. Readable(c)' BY <2>1 DEF Readable, Unread, Ended
  <2>3. Readable(c) BY <1>2, <2>2, ReadableKept DEF Accepts
  <2>. QED BY <1>2, <1>4, <2>3 DEF Accepts, Told
<1>5. CASE fd # a
  <2>1. fd \in tree BY <1>2, <1>5 DEF Accepts
  <2>2. fd \in FD /\ conn[fd] \in Clients BY <2>1, TreeConn
  <2>3. conn'[fd] = conn[fd] BY <1>2, <1>5, <2>2 DEF Accepts
  <2>4. Readable(conn[fd]) <=> Readable(conn[fd])'
    <3>1. PICK d \in Clients : d = conn[fd] BY <2>2
    <3>2. Readable(d)' <=> Readable(d) BY <1>2, ReadableKept DEF Accepts
    <3>3. Readable(conn[fd])' <=> Readable(d)' BY <2>3, <3>1 DEF Readable, Unread, Ended
    <3>. QED BY <3>1, <3>2, <3>3
  <2>5. Told(fd) BY <2>1, <2>4 DEF Heard
  <2>6. fd \in edge \cup batch => fd \in edge' \cup batch'
    BY <1>2, <2>2, FdNumbers DEF Accepts
  <2>. QED BY <1>1, <1>3, <2>5, <2>6, ToldKept DEF Quiet
<1>. QED BY <1>4, <1>5

(* The event goes from main to a task. *)
LEMMA HeardHandle ==
  ASSUME ServerInv, Heard, NEW h \in FD, HandleEvent(h) PROVE Heard'
<1>1. Queues /\ Handles(h) BY HandleStep
<1>2. PoolView BY PoolViewIs DEF ServerInv
<1>3. P!Pops \in Nat /\ calls \in Nat /\ P!Pops <= calls BY <1>2, SizesAssumption DEF PoolView
<1>4. P!Pops' = P!Pops /\ calls' = calls + 1 /\ task' = task BY <1>1 DEF Queues
<1>5. /\ fdOf'[calls + 1] = h /\ \A t \in 1 .. calls : fdOf'[t] = fdOf[t]
      /\ batch' = batch \ {h} /\ alive /\ run' = run
      /\ conn' = conn /\ tree' = tree /\ edge' = edge /\ cl' = cl
  BY <1>1 DEF Handles
<1>. SUFFICES ASSUME NEW fd \in tree, Readable(conn[fd])' PROVE Told(fd)'
  BY <1>5 DEF Heard
<1>6. Readable(conn[fd]) BY <1>5 DEF Readable, Unread, Ended
<1>7. Told(fd) BY <1>6 DEF Heard
<1>8. CASE fd \in edge \cup batch
  <2>1. CASE fd = h
    <3>1. calls + 1 \in P!Pops' + 1 .. calls' BY <1>3, <1>4
    <3>. QED BY <1>5, <2>1, <3>1 DEF Told
  <2>2. CASE fd # h BY <1>5, <1>8, <2>2 DEF Told
  <2>. QED BY <2>1, <2>2
<1>9. ASSUME NEW t \in P!Pops + 1 .. calls, fdOf[t] = fd PROVE Told(fd)'
  <2>1. t \in 1 .. calls /\ t \in P!Pops' + 1 .. calls' BY <1>3, <1>4
  <2>. QED BY <1>5, <1>9, <2>1 DEF Told
<1>10. ASSUME NEW w \in Workers, task[w] # 0, Serving(w) = fd, run[w].pc # "del"
       PROVE  Told(fd)'
  <2>1. task[w] \in 1 .. calls BY <1>3, <1>5, <1>10, ServingIs
  <2>2. Serving(w)' = fd BY <1>4, <1>5, <1>10, <2>1 DEF Serving
  <2>. QED BY <1>4, <1>5, <1>10, <2>2 DEF Told
<1>. QED BY <1>7, <1>8, <1>9, <1>10 DEF Told

(* The oldest task goes from the queue to a worker that has none. *)
LEMMA HeardTakes ==
  ASSUME ServerInv, Heard, NEW w \in Workers, Takes(w),
         UNCHANGED <<fdOf, run, batch, kernelVars>>
  PROVE  Heard'
<1>1. PoolView BY PoolViewIs DEF ServerInv
<1>2. P!Pops \in Nat /\ calls \in Nat BY <1>1, SizesAssumption DEF PoolView
<1>3. /\ P!Pops' = P!Pops + 1 /\ calls' = calls /\ task[w] = 0 /\ pc[w] # "run"
      /\ \A v \in Workers : task'[v] = IF v = w THEN P!Pops + 1 ELSE task[v]
  BY DEF Takes
<1>4. run[w].pc # "del" BY <1>3, PlacesAre DEF ServerInv, RunInv
<1>5. conn' = conn /\ tree' = tree /\ edge' = edge /\ cl' = cl BY DEF kernelVars
<1>. SUFFICES ASSUME NEW fd \in tree, Readable(conn[fd])' PROVE Told(fd)'
  BY <1>5 DEF Heard
<1>6. Readable(conn[fd]) BY <1>5 DEF Readable, Unread, Ended
<1>7. Told(fd) BY <1>6 DEF Heard
<1>8. ASSUME NEW t \in P!Pops + 1 .. calls, fdOf[t] = fd PROVE Told(fd)'
  <2>1. CASE t = P!Pops + 1
    <3>1. task'[w] = t /\ t # 0 BY <1>2, <1>3, <2>1
    <3>2. Serving(w)' = fd BY <1>8, <3>1 DEF Serving
    <3>. QED BY <1>4, <3>1, <3>2 DEF Told
  <2>2. CASE t # P!Pops + 1
    <3>1. t \in P!Pops' + 1 .. calls' BY <1>2, <1>3, <2>2
    <3>. QED BY <1>8, <3>1 DEF Told
  <2>. QED BY <2>1, <2>2
<1>9. ASSUME NEW v \in Workers, task[v] # 0, Serving(v) = fd, run[v].pc # "del"
      PROVE  Told(fd)'
  <2>1. task'[v] = task[v] BY <1>3, <1>9
  <2>2. Serving(v)' = fd BY <1>9, <2>1 DEF Serving
  <2>. QED BY <1>9, <2>1, <2>2 DEF Told
<1>. QED BY <1>5, <1>7, <1>8, <1>9 DEF Told
-----------------------------------------------------------------------------
(* A worker that has read goes on; what it has read was readable. *)
LEMMA HeardReads ==
  ASSUME ServerInv, Heard, NEW w \in Workers, NEW c \in Clients, Quiet,
         Reads(w, c) \/ \E n \in Nat : Writes(w, c, n)
  PROVE  Heard'
<1>1. /\ \E place \in Places : Moves(w, place) /\ place.pc # "del"
      /\ UNCHANGED <<conn, tree, edge>> /\ Touches(c)
      /\ cl'[c].sent = cl[c].sent /\ cl'[c].read >= cl[c].read /\ cl'[c].read \in Nat
      /\ cl'[c].fin = cl[c].fin /\ cl'[c].rst = cl[c].rst
  <2>0. cl[c].read \in Nat /\ cl'[c].read = cl'[c].read BY DEF ServerInv, ServerTyped, Peer
  <2>1. CASE Reads(w, c)
    <3>1. Received(c) \in Bufs /\ Len(Received(c)) \in Nat
      <4>1. Unread(c) BY <2>1 DEF Reads
      <4>. QED BY <4>1, ReceivedIs
    <3>2. cl'[c].read >= cl[c].read /\ cl'[c].read \in Nat
      <4>1. PICK n \in Nat : n = Len(Received(c)) BY <3>1
      <4>. QED BY <2>0, <2>1, <4>1 DEF Reads
    <3>. QED BY <2>1, <3>1, <3>2, PlacesAre DEF Reads
  <2>2. CASE \E n \in Nat : Writes(w, c, n)
    <3>1. NotRunning \in Places /\ NotRunning.pc # "del" BY PlacesAre
    <3>. QED BY <2>0, <2>2, <3>1 DEF Writes
  <2>. QED BY <2>1, <2>2
<1>2. fdOf' = fdOf /\ batch' = batch /\ \A v \in Workers : run[v].pc # "del" => run'[v].pc # "del"
  BY <1>1 DEF Moves
<1>. SUFFICES ASSUME NEW fd \in tree, Readable(conn[fd])' PROVE Told(fd)'
  BY <1>1 DEF Heard
<1>3. PICK d \in Clients : d = conn[fd] BY TreeConn
<1>4. Readable(d)' BY <1>1, <1>3 DEF Readable, Unread, Ended
<1>5. Readable(d)
  <2>1. CASE d = c
    <3>1. cl[c].read \in Nat /\ cl[c].sent \in Nat BY DEF ServerInv, ServerTyped, Peer
    <3>. QED BY <1>1, <1>4, <2>1, <3>1 DEF Readable, Unread, Ended
  <2>2. CASE d # c BY <1>1, <1>4, <2>2 DEF Touches, Readable, Unread, Ended
  <2>. QED BY <2>1, <2>2
<1>6. Told(fd) BY <1>3, <1>5 DEF Heard
<1>. QED BY <1>1, <1>2, <1>6, ToldKept DEF Quiet

(* taskRun returns after there was nothing to read, or after the close. *)
LEMMA HeardFinishes ==
  ASSUME ServerInv, Heard, NEW w \in Workers, Finishes(w), NEW place, Moves(w, place),
         tree' \subseteq tree, UNCHANGED <<conn, cl>>,
         \A fd \in tree' : fd \in edge => fd \in edge',
         run[w].pc = "del" \/ ~ Readable(conn[Serving(w)])
  PROVE  Heard'
<1>1. /\ P!Pops' = P!Pops /\ calls' = calls
      /\ \A v \in Workers : v # w => task'[v] = task[v]
  BY DEF Finishes
<1>2. fdOf' = fdOf /\ batch' = batch /\ \A v \in Workers : v # w => run'[v] = run[v]
  BY DEF Moves
<1>. SUFFICES ASSUME NEW fd \in tree', Readable(conn[fd])' PROVE Told(fd)'
  BY DEF Heard
<1>3. Readable(conn[fd]) BY DEF Readable, Unread, Ended
<1>4. Told(fd) BY <1>3 DEF Heard
<1>5. ASSUME NEW v \in Workers, task[v] # 0, Serving(v) = fd, run[v].pc # "del"
      PROVE  Told(fd)'
  <2>1. v # w BY <1>3, <1>5
  <2>2. task'[v] = task[v] /\ run'[v] = run[v] BY <1>1, <1>2, <2>1
  <2>3. Serving(v)' = fd BY <1>2, <1>5, <2>2 DEF Serving
  <2>. QED BY <1>5, <2>2, <2>3 DEF Told
<1>. QED BY <1>1, <1>2, <1>4, <1>5 DEF Told

(* A closed descriptor is off the tree. *)
LEMMA HeardCloses ==
  ASSUME ServerInv, Heard, NEW w \in Workers, Closes(w), Quiet
  PROVE  Heard'
<1>1. /\ fdOf' = fdOf /\ batch' = batch /\ \A v \in Workers : v # w => run'[v] = run[v]
      /\ tree' = tree \ {Serving(w)} /\ edge' = edge \ {Serving(w)}
      /\ \A f \in FD : f # Serving(w) => conn'[f] = conn[f]
      /\ SameData
  BY DEF Closes, Moves
<1>. SUFFICES ASSUME NEW fd \in tree', Readable(conn[fd])' PROVE Told(fd)'
  BY DEF Heard
<1>2. fd \in tree /\ fd # Serving(w) BY <1>1
<1>3. fd \in FD BY <1>2, TreeConn
<1>4. PICK c \in Clients : c = conn[fd] BY <1>2, TreeConn
<1>5. Readable(c)' BY <1>1, <1>2, <1>3, <1>4 DEF Readable, Unread, Ended
<1>6. Readable(conn[fd]) BY <1>1, <1>4, <1>5, ReadableKept
<1>7. Told(fd) BY <1>2, <1>6 DEF Heard
<1>8. \A v \in Workers : Serving(v) = fd /\ task[v] # 0 /\ run[v].pc # "del"
                           => run'[v].pc # "del"
  BY <1>1, <1>2
<1>9. fd \in edge \cup batch => fd \in edge' \cup batch' BY <1>1, <1>2
<1>. QED BY <1>1, <1>7, <1>8, <1>9, ToldKept DEF Quiet

(* News makes an edge. *)
LEMMA HeardActs ==
  ASSUME ServerInv, Heard, NEW c \in Clients, Acts(c), Quiet
  PROVE  Heard'
<1>1. UNCHANGED <<fdOf, run, batch, conn, tree>> /\ edge \subseteq edge'
  BY DEF Acts, Arrives
<1>. SUFFICES ASSUME NEW fd \in tree, Readable(conn[fd])' PROVE Told(fd)'
  BY <1>1 DEF Heard
<1>2. PICK d \in Clients : d = conn[fd] BY TreeConn
<1>3. Readable(d)' BY <1>1, <1>2 DEF Readable, Unread, Ended
<1>4. CASE ~ Readable(d)
  <2>1. d = c BY <1>3, <1>4 DEF Acts, Touches, Readable, Unread, Ended
  <2>2. Arrives(c) BY <1>3, <1>4, <2>1 DEF Acts, Readable, Unread, Ended
  <2>3. fd \in edge' BY <1>2, <2>1, <2>2 DEF Arrives
  <2>. QED BY <2>3 DEF Told
<1>5. CASE Readable(d)
  <2>1. Told(fd) BY <1>2, <1>5 DEF Heard
  <2>. QED BY <1>1, <2>1, ToldKept DEF Quiet
<1>. QED BY <1>4, <1>5

(* No step loses an edge. *)
LEMMA HeardStep ==
  ASSUME ServerInv, Heard, [Next]_vars
  PROVE  Heard'
<1>1. CASE Exit BY <1>1 DEF Exit, Heard
<1>2. CASE EpollWait BY <1>2, HeardWait
<1>3. CASE AcceptConn BY <1>3, HeardAccept
<1>4. ASSUME NEW fd \in FD, HandleEvent(fd) PROVE Heard' BY <1>4, HeardHandle
<1>5. CASE InPool
  <2>1. /\ UNCHANGED <<fdOf, run, batch, kernelVars, alive, ghostVars>>
        /\ Quiet \/ \E w \in Workers : Takes(w)
    BY <1>5, PoolSteps
  <2>2. CASE Quiet BY <2>1, <2>2, PlainHeard DEF Quiet, kernelVars
  <2>. QED BY <2>1, <2>2, HeardTakes
<1>6. ASSUME NEW w \in Workers, StartTask(w) PROVE Heard'
  <2>1. Starts(w) BY <1>6, StartTaskStep
  <2>2. UNCHANGED <<fdOf, run, batch, conn, tree, edge, cl>>
    BY <1>6 DEF StartTask, kernelVars
  <2>. QED BY <2>1, <2>2, PlainHeard DEF Starts
<1>7. ASSUME NEW w \in Workers, ReadData(w) PROVE Heard'
  BY <1>7, ReadStep, HeardReads
<1>8. ASSUME NEW w \in Workers, WriteBack(w) PROVE Heard'
  BY <1>8, WriteStep, HeardReads
<1>9. ASSUME NEW w \in Workers, WriteFails(w) PROVE Heard'
  <2>1. Quiet /\ Moves(w, NotRunning) /\ UNCHANGED <<conn, tree, edge, cl>>
    BY <1>9, WriteFailsStep
  <2>2. \A v \in Workers : run[v].pc # "del" => run'[v].pc # "del"
    BY <2>1, PlacesAre DEF Moves
  <2>. QED BY <2>1, <2>2, PlainHeard DEF Quiet, Moves
<1>10. ASSUME NEW w \in Workers, ReadAgain(w) PROVE Heard'
  <2>1. /\ Finishes(w) /\ Moves(w, NotRunning) /\ UNCHANGED <<conn, tree, edge, cl>>
        /\ ~ Readable(conn[Serving(w)])
    BY <1>10, AgainStep
  <2>. QED BY <2>1, HeardFinishes
<1>11. ASSUME NEW w \in Workers, ReadEnds(w) PROVE Heard'
  <2>1. Quiet /\ Ends(w) BY <1>11, EndsStep
  <2>2. Moves(w, [pc |-> "close", buf |-> <<>>]) /\ UNCHANGED <<conn, tree, edge, cl>>
    BY <2>1 DEF Ends
  <2>3. \A v \in Workers : run[v].pc # "del" => run'[v].pc # "del"
    BY <2>2, PlacesAre DEF Moves
  <2>. QED BY <2>1, <2>2, <2>3, PlainHeard DEF Quiet, Moves
<1>12. ASSUME NEW w \in Workers, CloseFd(w) PROVE Heard'
  BY <1>12, CloseStep, HeardCloses
<1>13. ASSUME NEW w \in Workers, DelFd(w) PROVE Heard'
  <2>1. Finishes(w) /\ Dels(w) BY <1>13, DelStep
  <2>2. /\ Moves(w, NotRunning) /\ tree' \subseteq tree /\ UNCHANGED <<conn, cl>>
        /\ run[w].pc = "del" /\ \A fd \in tree' : fd \in edge => fd \in edge'
    BY <2>1 DEF Dels
  <2>. QED BY <2>1, <2>2, HeardFinishes
<1>14. ASSUME NEW c \in Clients, ClientActs(c) PROVE Heard'
  BY <1>14, ClientStep, HeardActs
<1>15. CASE UNCHANGED vars
  <2>1. Quiet BY <1>15, StutterStep
  <2>2. UNCHANGED <<fdOf, run, batch, conn, tree, edge, cl>> BY <1>15 DEF vars, kernelVars
  <2>. QED BY <2>1, <2>2, PlainHeard DEF Quiet
<1>. QED BY NextIs, <1>1, <1>2, <1>3, <1>4, <1>5, <1>6, <1>7, <1>8, <1>9, <1>10, <1>11, <1>12,
            <1>13, <1>14, <1>15

(* No step breaks the invariant of the server. *)
LEMMA ServerStep ==
  ASSUME ServerInv, [Next]_vars
  PROVE  ServerInv'
BY NextIs, ExitStep, WaitStep, AcceptStep, HandleStep, PoolSteps, StartTaskStep, ReadStep,
   WriteStep, WriteFailsStep, AgainStep, EndsStep, CloseStep, DelStep, ClientStep, StutterStep

(* The server keeps its state in order: the pool keeps its invariant under  *)
(* main and the tasks, a worker holds data in buf only while it runs a task *)
(* and stands at Write, an open connection has exactly one descriptor, the  *)
(* epoll tree holds only descriptors of open connections, and Read delivers *)
(* nothing that was not sent.                                               *)
THEOREM EpollPoolSafe == Spec => []ServerInv
<1>1. Init => ServerInv BY InitServer
<1>2. ServerInv /\ [Next]_vars => ServerInv' BY ServerStep
<1>. QED BY <1>1, <1>2, PTL DEF Spec

(* No edge is lost, though epoll_wait reports it once and taskRun may be    *)
(* past its last Read when the news comes: whenever a descriptor of the     *)
(* tree has something to read, the kernel, main, the queue or a worker that *)
(* will still read knows about it.                                          *)
THEOREM EdgesKept == Spec => []EdgeNotLost
<1>1. Init => Heard BY DEF Init, Heard
<1>2. ServerInv /\ Heard /\ [Next]_vars => Heard' BY HeardStep
<1>3. ServerInv /\ Heard => EdgeNotLost BY HeardIs DEF ServerInv
<1>. QED BY EpollPoolSafe, <1>1, <1>2, <1>3, PTL DEF Spec
-----------------------------------------------------------------------------
(* A client that has ended and whose data is read is settled. *)
Settled(c) == Ended(c) /\ ~ Unread(c)

(* A worker in taskRun has in buf what the client on its descriptor sent,   *)
(* unless the descriptor is closed; it goes to close a descriptor only for  *)
(* a client that is settled; and when it has closed it nobody has it.       *)
PlaceOwn(w) ==
  /\ run[w].pc = "write" /\ conn[Serving(w)] # None =>
       \A i \in DOMAIN run[w].buf : run[w].buf[i][1] = conn[Serving(w)]
  /\ run[w].pc = "close" /\ conn[Serving(w)] # None => Settled(conn[Serving(w)])
  /\ run[w].pc = "del" => conn[Serving(w)] = None

ClientOwn(c) ==
  /\ \A i \in DOMAIN cl[c].got : cl[c].got[i][1] = c
  /\ alive /\ cl[c].st = "down" => Settled(c)
  /\ \A fd \in FD : conn[fd] = c => fd \in tree

Owns ==
  ~ reused => /\ \A w \in Workers : pc[w] = "run" => PlaceOwn(w)
              /\ \A c \in Clients : ClientOwn(c)

(* The worker v is where it was, with the same client. *)
Stays(v) ==
  /\ pc[v] = "run" /\ run'[v] = run[v] /\ Serving(v) \in FD
  /\ Serving(v)' = Serving(v) /\ conn'[Serving(v)] = conn[Serving(v)]

(* Settled clients remain so. *)
LEMMA SettledKept ==
  ASSUME ServerInv,
         \/ SameData
         \/ \E c \in Clients : Acts(c) \/ (\E w \in Workers, n \in Nat : Writes(w, c, n))
                               \/ (\E w \in Workers : Reads(w, c)),
         NEW d \in Clients, Settled(d)
  PROVE  Settled(d)'
<1>1. CASE SameData BY <1>1 DEF SameData, Settled, Ended, Unread
<1>2. ASSUME NEW c \in Clients, Acts(c) PROVE Settled(d)'
  <2>1. CASE d = c BY <1>2, <2>1 DEF Acts, Settled, Ended, Unread
  <2>2. CASE d # c BY <1>2, <2>2 DEF Acts, Touches, Settled, Ended, Unread
  <2>. QED BY <2>1, <2>2
<1>3. ASSUME NEW c \in Clients, NEW w \in Workers, NEW n \in Nat, Writes(w, c, n) PROVE Settled(d)'
  <2>1. CASE d = c BY <1>3, <2>1 DEF Writes, Settled, Ended, Unread
  <2>2. CASE d # c BY <1>3, <2>2 DEF Writes, Touches, Settled, Ended, Unread
  <2>. QED BY <2>1, <2>2
<1>4. ASSUME NEW c \in Clients, NEW w \in Workers, Reads(w, c) PROVE Settled(d)'
  <2>1. d # c BY <1>4 DEF Reads, Settled
  <2>. QED BY <1>4, <2>1 DEF Reads, Touches, Settled, Ended, Unread
<1>. QED BY <1>1, <1>2, <1>3, <1>4

(* A worker that stays keeps what it owns. *)
LEMMA StaysOwn ==
  ASSUME ServerInv, NEW v \in Workers, PlaceOwn(v), Stays(v),
         \A d \in Clients : Settled(d) => Settled(d)'
  PROVE  PlaceOwn(v)'
<1>1. PICK s \in FD : s = Serving(v) /\ Serving(v)' = s /\ conn'[s] = conn[s] BY DEF Stays
<1>2. PICK d : d = conn[s] OBVIOUS
<1>3. d \in Clients \/ d = None BY <1>2 DEF ServerInv, ServerTyped
<1>4. run'[v] = run[v] BY DEF Stays
<1>5. run[v].pc = "close" /\ d # None => Settled(d)'
  BY <1>1, <1>2, <1>3 DEF PlaceOwn
<1>6. run'[v].pc = "close" /\ conn'[Serving(v)'] # None => Settled(conn[Serving(v)])'
  <2>1. conn'[Serving(v)'] = d BY <1>1, <1>2
  <2>2. Settled(conn[Serving(v)])' <=> Settled(d)' BY <2>1 DEF Settled, Ended, Unread
  <2>. QED BY <1>4, <1>5, <2>1, <2>2
<1>. QED BY <1>1, <1>2, <1>4, <1>6 DEF PlaceOwn

(* At the start of taskRun there is nothing to own. *)
LEMMA ReadOwn == ASSUME NEW v, run'[v].pc = "read" PROVE PlaceOwn(v)'
BY DEF PlaceOwn

(* What there is to show of a step. *)
LEMMA OwnsBy ==
  ASSUME ServerInv, Owns, reused => reused',
         ~ reused /\ ~ reused' => \A d \in Clients : Settled(d) => Settled(d)',
         ~ reused /\ ~ reused' =>
           \A v \in Workers : pc'[v] = "run" => PlaceOwn(v)' \/ Stays(v),
         ~ reused /\ ~ reused' => \A d \in Clients : ClientOwn(d)'
  PROVE  Owns'
<1>. SUFFICES ASSUME ~ reused, ~ reused'
              PROVE  /\ \A w \in Workers : pc'[w] = "run" => PlaceOwn(w)'
                     /\ \A c \in Clients : ClientOwn(c)'
  BY DEF Owns
<1>1. ASSUME NEW v \in Workers, pc'[v] = "run" PROVE PlaceOwn(v)'
  <2>1. CASE PlaceOwn(v)' BY <2>1
  <2>2. CASE Stays(v)
    <3>1. PlaceOwn(v) BY <2>2 DEF Owns, Stays
    <3>. QED BY <2>2, <3>1, StaysOwn
  <2>. QED BY <1>1, <2>1, <2>2
<1>. QED BY <1>1

(* A running worker serves the same descriptor while it has its task. *)
LEMMA ServesOn ==
  ASSUME ServerInv, alive, NEW v \in Workers, pc[v] = "run", task'[v] = task[v],
         fdOf' = fdOf \/ \E fd \in FD : Handles(fd)
  PROVE  Serving(v) \in FD /\ Serving(v)' = Serving(v)
<1>1. task[v] # 0 BY PoolViewIs DEF ServerInv, PoolView
<1>2. PoolView BY PoolViewIs DEF ServerInv
<1>3. Serving(v) \in FD /\ task[v] \in 1 .. P!Pops /\ P!Pops <= calls /\ P!Pops \in Nat
  BY <1>1, ServingIs
<1>4. calls \in Nat BY <1>2, SizesAssumption DEF PoolView
<1>5. task[v] \in 1 .. calls BY <1>3, <1>4
<1>6. fdOf'[task[v]] = fdOf[task[v]] BY <1>5 DEF Handles
<1>. QED BY <1>3, <1>6 DEF Serving

(* The clients' side, when the connections are left alone. *)
LEMMA ClientsOwnSame ==
  ASSUME ServerInv, Owns, alive, ~ reused, UNCHANGED <<conn, tree>>,
         NEW d \in Clients, cl'[d].got = cl[d].got, cl'[d].st = "down" => cl[d].st = "down",
         Settled(d) => Settled(d)'
  PROVE  ClientOwn(d)'
<1>1. ClientOwn(d) BY DEF Owns
<1>. QED BY <1>1 DEF ClientOwn
-----------------------------------------------------------------------------
(* The end of the process closes all, for everyone alike. *)
LEMMA OwnsExit == ASSUME ServerInv, Owns, Exit PROVE Owns'
<1>1. \A w \in Workers : run'[w].pc = "read"
  BY PlacesAre DEF Exit, AtStart, Pool!Workers, Workers
<1>2. ~ alive' /\ tree' = {} /\ reused' = reused /\ \A fd \in FD : conn'[fd] = None
  BY DEF Exit, NoConn, ghostVars
<1>3. SameData BY ExitEffect
<1>4. \A d \in Clients : Settled(d) => Settled(d)' BY <1>3, SettledKept
<1>5. ASSUME ~ reused, NEW d \in Clients PROVE ClientOwn(d)'
  <2>1. ClientOwn(d) BY <1>5 DEF Owns
  <2>2. d # None BY ClientsAssumption
  <2>. QED BY <1>2, <1>3, <2>1, <2>2 DEF ClientOwn, SameData
<1>6. \A v \in Workers : PlaceOwn(v)' BY <1>1, ReadOwn
<1>. QED BY <1>2, <1>4, <1>5, <1>6, OwnsBy

(* A step that changes none of this. *)
LEMMA OwnsStutter ==
  ASSUME Owns, UNCHANGED <<run, pc, task, fdOf, conn, tree, cl, alive, reused>>
  PROVE  Owns'
BY DEF Owns, PlaceOwn, ClientOwn, Settled, Ended, Unread, Serving

(* Steps that leave the connections alone, and move at most one worker. *)
LEMMA OwnsPlain ==
  ASSUME ServerInv, Owns, alive, UNCHANGED <<conn, tree, cl, reused>>,
         fdOf' = fdOf \/ \E fd \in FD : Handles(fd),
         \A v \in Workers : pc'[v] = "run" =>
           \/ PlaceOwn(v)'
           \/ pc[v] = "run" /\ task'[v] = task[v] /\ run'[v] = run[v]
  PROVE  Owns'
<1>1. SameData BY DEF SameData
<1>2. \A d \in Clients : Settled(d) => Settled(d)' BY <1>1, SettledKept
<1>3. ASSUME ~ reused, NEW d \in Clients PROVE ClientOwn(d)'
  BY <1>2, <1>3, ClientsOwnSame
<1>4. ASSUME NEW v \in Workers, pc'[v] = "run" PROVE PlaceOwn(v)' \/ Stays(v)
  <2>1. CASE PlaceOwn(v)' BY <2>1
  <2>2. CASE pc[v] = "run" /\ task'[v] = task[v] /\ run'[v] = run[v]
    <3>1. Serving(v) \in FD /\ Serving(v)' = Serving(v) BY <2>2, ServesOn
    <3>. QED BY <2>2, <3>1 DEF Stays
  <2>. QED BY <1>4, <2>1, <2>2
<1>. QED BY <1>2, <1>3, <1>4, OwnsBy

(* A number that no task names is given out. *)
LEMMA OwnsAccept == ASSUME ServerInv, Owns, AcceptConn PROVE Owns'
<1>1. PICK c \in Clients, a \in FD : Accepts(c, a) BY AcceptStep
<1>2. UNCHANGED <<pc, task, run, fdOf>> /\ alive BY DEF AcceptConn, poolVars, Handling
<1>3. reused => reused' BY <1>1 DEF Accepts
<1>4. SameData BY <1>1 DEF Accepts
<1>5. \A d \in Clients : Settled(d) => Settled(d)' BY <1>4, SettledKept
<1>6. ASSUME ~ reused', NEW v \in Workers, pc'[v] = "run" PROVE Stays(v)
  <2>1. pc[v] = "run" /\ task'[v] = task[v] /\ task[v] # 0
    BY <1>2, <1>6, PoolViewIs DEF ServerInv, PoolView
  <2>2. Serving(v) \in FD /\ Serving(v)' = Serving(v) BY <1>2, <2>1, ServesOn
  <2>3. Serving(v) \in HeldFds BY <2>1 DEF HeldFds, Pool!Workers, Workers, Pool!NoTask
  <2>4. Serving(v) # a BY <1>1, <1>6, <2>3 DEF Accepts
  <2>. QED BY <1>1, <1>2, <2>1, <2>2, <2>4 DEF Accepts, Stays
<1>7. ASSUME ~ reused, NEW d \in Clients PROVE ClientOwn(d)'
  <2>1. ClientOwn(d) BY <1>7 DEF Owns
  <2>2. cl'[d].got = cl[d].got BY <1>4 DEF SameData
  <2>3. cl'[d].st = "down" => Settled(d)'
    BY <1>1, <1>2, <1>5, <2>1 DEF Accepts, Touches, ClientOwn
  <2>4. \A fd \in FD : conn'[fd] = d => fd \in tree'
    BY <1>1, <2>1 DEF Accepts, ClientOwn
  <2>. QED BY <2>1, <2>2, <2>3, <2>4 DEF ClientOwn
<1>. QED BY <1>3, <1>5, <1>6, <1>7, OwnsBy

(* Read puts data of the client on the descriptor into buf. *)
LEMMA OwnsReads ==
  ASSUME ServerInv, Owns, NEW w \in Workers, NEW c \in Clients, Reads(w, c), Quiet
  PROVE  Owns'
<1>1. /\ reused' = reused /\ alive /\ fdOf' = fdOf /\ conn' = conn /\ tree' = tree
      /\ run'[w] = [pc |-> "write", buf |-> Received(c)]
      /\ \A v \in Workers : v # w => run'[v] = run[v]
      /\ pc[w] = "run" /\ conn[Serving(w)] = c /\ Unread(c)
  BY DEF Reads, Moves, ghostVars, Runs
<1>2. task' = task /\ \A v \in Workers : pc'[v] = "run" <=> pc[v] = "run" BY DEF Quiet
<1>3. \A d \in Clients : Settled(d) => Settled(d)' BY SettledKept
<1>4. ASSUME NEW v \in Workers, pc'[v] = "run" PROVE PlaceOwn(v)' \/ Stays(v)
  <2>1. Serving(v) \in FD /\ Serving(v)' = Serving(v) BY <1>1, <1>2, <1>4, ServesOn
  <2>2. CASE v # w BY <1>1, <1>2, <1>4, <2>1, <2>2 DEF Stays
  <2>3. CASE v = w
    <3>1. /\ Received(c) \in Bufs
          /\ \A i \in 1 .. Len(Received(c)) : Received(c)[i] = <<c, cl[c].read + i>>
      BY <1>1, ReceivedIs
    <3>2. DOMAIN Received(c) = 1 .. Len(Received(c)) BY <3>1 DEF Bufs
    <3>3. \A i \in DOMAIN Received(c) : Received(c)[i][1] = c BY <3>1, <3>2
    <3>4. run'[w].pc = "write" /\ run'[w].buf = Received(c) BY <1>1
    <3>. QED BY <1>1, <2>1, <2>3, <3>3, <3>4 DEF PlaceOwn
  <2>. QED BY <2>2, <2>3
<1>5. ASSUME ~ reused, NEW d \in Clients PROVE ClientOwn(d)'
  <2>1. cl'[d].got = cl[d].got /\ cl'[d].st = cl[d].st BY DEF Reads, Touches
  <2>. QED BY <1>1, <1>3, <1>5, <2>1, ClientsOwnSame
<1>. QED BY <1>1, <1>3, <1>4, <1>5, OwnsBy

(* What Write adds to what the client has got. *)
Grown(all, got, buf, n) ==
  \E m \in Nat :
    /\ DOMAIN got = 1 .. m /\ DOMAIN all = 1 .. m + n
    /\ \A i \in 1 .. m : all[i] = got[i]
    /\ \A j \in 1 .. n : all[m + j] = buf[j] /\ j \in DOMAIN buf

(* Appending the first n units of buf does that. *)
LEMMA GotGrows ==
  ASSUME NEW got \in Bufs, NEW buf \in Bufs, NEW n \in 0 .. Len(buf)
  PROVE  Grown(got \o SubSeq(buf, 1, n), got, buf, n)
<1>1. got \in Seq(Units) /\ buf \in Seq(Units) /\ n \in Nat BY DEF Bufs
<1>2. PICK part : part = SubSeq(buf, 1, n) OBVIOUS
<1>3. part \in Seq(Units) /\ Len(part) = n /\ \A j \in 1 .. n : part[j] = buf[j]
  <2>1. \A i \in 1 .. n : buf[i] \in Units BY <1>1
  <2>2. part = [i \in 1 .. n |-> buf[i]] BY <1>1, <1>2
  <2>. QED BY <1>1, <2>1, <2>2
<1>4. /\ got \o part \in Seq(Units) /\ Len(got \o part) = Len(got) + Len(part)
      /\ \A i \in 1 .. Len(got) + Len(part) :
           (got \o part)[i] = IF i <= Len(got) THEN got[i] ELSE part[i - Len(got)]
  BY <1>1, <1>3, ConcatProperties
<1>5. PICK m \in Nat : m = Len(got) BY <1>1
<1>6. PICK all : all = got \o part OBVIOUS
<1>7. DOMAIN all = 1 .. m + n /\ DOMAIN got = 1 .. m /\ DOMAIN buf = 1 .. Len(buf)
  BY <1>1, <1>3, <1>4, <1>5, <1>6
<1>8. \A i \in 1 .. m + n : all[i] = IF i <= m THEN got[i] ELSE part[i - m]
  BY <1>3, <1>4, <1>5, <1>6
<1>9. \A i \in 1 .. m : all[i] = got[i] BY <1>1, <1>8
<1>10. ASSUME NEW j \in 1 .. n PROVE all[m + j] = buf[j] /\ j \in DOMAIN buf
  <2>1. m + j \in 1 .. m + n /\ ~ (m + j <= m) /\ (m + j) - m = j BY <1>1
  <2>2. all[m + j] = part[j] BY <1>8, <2>1
  <2>. QED BY <1>1, <1>3, <1>7, <2>2
<1>. QED BY <1>2, <1>6, <1>7, <1>9, <1>10 DEF Grown

(* A number of all is one of got or one of buf. *)
LEMMA GrownSplit ==
  ASSUME NEW m \in Nat, NEW n \in Nat, NEW i \in 1 .. m + n
  PROVE  i \in 1 .. m \/ (i - m \in 1 .. n /\ i = m + (i - m))
OBVIOUS

(* Write gives the client on the descriptor its own data. *)
LEMMA OwnsWrites ==
  ASSUME ServerInv, Owns, NEW w \in Workers, NEW c \in Clients, NEW n \in Nat,
         Writes(w, c, n), Quiet
  PROVE  Owns'
<1>1. /\ reused' = reused /\ alive /\ fdOf' = fdOf /\ conn' = conn /\ tree' = tree
      /\ run'[w].pc = "read" /\ \A v \in Workers : v # w => run'[v] = run[v]
      /\ pc[w] = "run" /\ run[w].pc = "write" /\ conn[Serving(w)] = c
  BY PlacesAre DEF Writes, Moves, ghostVars, Runs
<1>2. task' = task /\ \A v \in Workers : pc'[v] = "run" <=> pc[v] = "run" BY DEF Quiet
<1>3. \A d \in Clients : Settled(d) => Settled(d)' BY SettledKept
<1>4. ASSUME NEW v \in Workers, pc'[v] = "run" PROVE PlaceOwn(v)' \/ Stays(v)
  <2>1. Serving(v) \in FD /\ Serving(v)' = Serving(v) BY <1>1, <1>2, <1>4, ServesOn
  <2>2. CASE v # w BY <1>1, <1>2, <1>4, <2>1, <2>2 DEF Stays
  <2>3. CASE v = w BY <1>1, <2>3, ReadOwn
  <2>. QED BY <2>2, <2>3
<1>5. ASSUME ~ reused, NEW d \in Clients, d # c PROVE ClientOwn(d)'
  <2>1. cl'[d].got = cl[d].got /\ cl'[d].st = cl[d].st BY <1>5 DEF Writes, Touches
  <2>. QED BY <1>1, <1>3, <1>5, <2>1, ClientsOwnSame
<1>6. ASSUME ~ reused PROVE ClientOwn(c)'
  <2>1. ClientOwn(c) /\ PlaceOwn(w) BY <1>1, <1>6 DEF Owns
  <2>2. PICK got \in Bufs, buf \in Bufs : got = cl[c].got /\ buf = run[w].buf
    BY DEF ServerInv, ServerTyped, Peer, Places
  <2>3. c # None BY ClientsAssumption
  <2>4. /\ \A i \in DOMAIN got : got[i][1] = c
        /\ \A i \in DOMAIN buf : buf[i][1] = c
    BY <1>1, <2>1, <2>2, <2>3 DEF ClientOwn, PlaceOwn
  <2>5. n \in 0 .. Len(buf) BY <2>2 DEF Writes
  <2>6. PICK all : all = got \o SubSeq(buf, 1, n) OBVIOUS
  <2>7. ASSUME NEW i \in DOMAIN all PROVE all[i][1] = c
    <3>1. Grown(all, got, buf, n) BY <2>5, <2>6, GotGrows
    <3>2. PICK m \in Nat : /\ DOMAIN got = 1 .. m /\ DOMAIN all = 1 .. m + n
                           /\ \A k \in 1 .. m : all[k] = got[k]
                           /\ \A j \in 1 .. n : all[m + j] = buf[j] /\ j \in DOMAIN buf
      BY <3>1 DEF Grown
    <3>3. CASE i \in 1 .. m BY <2>4, <3>2, <3>3
    <3>4. CASE i \notin 1 .. m
      <4>1. PICK j \in 1 .. n : i = m + j BY <3>2, <3>4, GrownSplit
      <4>. QED BY <2>4, <3>2, <4>1
    <3>. QED BY <3>3, <3>4
  <2>8. cl'[c].got = all /\ cl'[c].st = cl[c].st BY <2>2, <2>6 DEF Writes
  <2>. QED BY <1>1, <1>3, <2>1, <2>7, <2>8 DEF ClientOwn
<1>. QED BY <1>1, <1>3, <1>4, <1>5, <1>6, OwnsBy
-----------------------------------------------------------------------------
(* A descriptor is closed only for a client that is settled. *)
LEMMA OwnsCloses ==
  ASSUME ServerInv, Owns, NEW w \in Workers, Closes(w), Quiet
  PROVE  Owns'
<1>1. /\ reused' = reused /\ alive /\ fdOf' = fdOf /\ Serving(w) \in FD
      /\ run'[w].pc = "del" /\ \A v \in Workers : v # w => run'[v] = run[v]
      /\ pc[w] = "run" /\ run[w].pc = "close" /\ SameData
      /\ conn'[Serving(w)] = None /\ tree' = tree \ {Serving(w)}
      /\ \A f \in FD : f # Serving(w) => conn'[f] = conn[f]
  BY DEF Closes, Moves, ghostVars, Runs
<1>2. task' = task /\ \A v \in Workers : pc'[v] = "run" <=> pc[v] = "run" BY DEF Quiet
<1>3. \A d \in Clients : Settled(d) => Settled(d)' BY <1>1, SettledKept
<1>4. ASSUME NEW v \in Workers, pc'[v] = "run" PROVE PlaceOwn(v)' \/ Stays(v)
  <2>1. Serving(v) \in FD /\ Serving(v)' = Serving(v) BY <1>1, <1>2, <1>4, ServesOn
  <2>2. CASE Serving(v) = Serving(w) BY <1>1, <2>1, <2>2 DEF PlaceOwn
  <2>3. CASE Serving(v) # Serving(w) BY <1>1, <1>2, <1>4, <2>1, <2>3 DEF Stays
  <2>. QED BY <2>2, <2>3
<1>5. ASSUME ~ reused, NEW d \in Clients PROVE ClientOwn(d)'
  <2>1. ClientOwn(d) /\ PlaceOwn(w) /\ d # None BY <1>1, <1>5, ClientsAssumption DEF Owns
  <2>2. cl'[d].got = cl[d].got BY <1>1 DEF SameData
  <2>3. cl'[d].st = "down" => Settled(d)
    <3>1. CASE conn[Serving(w)] = d BY <1>1, <2>1, <3>1 DEF PlaceOwn
    <3>2. CASE conn[Serving(w)] # d BY <1>1, <2>1, <3>2 DEF Closes, ClientOwn
    <3>. QED BY <3>1, <3>2
  <2>4. \A fd \in FD : conn'[fd] = d => fd \in tree'
    BY <1>1, <2>1 DEF ClientOwn
  <2>. QED BY <1>3, <2>1, <2>2, <2>3, <2>4 DEF ClientOwn
<1>. QED BY <1>1, <1>3, <1>4, <1>5, OwnsBy

(* The number that is taken off the tree is nobody's. *)
LEMMA OwnsDels ==
  ASSUME ServerInv, Owns, NEW w \in Workers, Dels(w), Finishes(w)
  PROVE  Owns'
<1>1. /\ reused' = reused /\ alive /\ fdOf' = fdOf
      /\ \A v \in Workers : v # w => run'[v] = run[v]
      /\ pc[w] = "run" /\ run[w].pc = "del" /\ conn' = conn /\ cl' = cl
      /\ tree \ {Serving(w)} \subseteq tree'
  BY DEF Dels, Moves, ghostVars, Runs
<1>2. /\ \A v \in Workers : v # w => task'[v] = task[v] /\ pc'[v] = pc[v]
      /\ pc'[w] # "run"
  BY DEF Finishes
<1>3. SameData BY <1>1 DEF SameData
<1>4. \A d \in Clients : Settled(d) => Settled(d)' BY <1>3, SettledKept
<1>5. ASSUME NEW v \in Workers, pc'[v] = "run" PROVE Stays(v)
  <2>1. v # w /\ pc[v] = "run" /\ task'[v] = task[v] BY <1>2, <1>5
  <2>2. Serving(v) \in FD /\ Serving(v)' = Serving(v) BY <1>1, <2>1, ServesOn
  <2>. QED BY <1>1, <2>1, <2>2 DEF Stays
<1>6. ASSUME ~ reused, NEW d \in Clients PROVE ClientOwn(d)'
  <2>1. ClientOwn(d) /\ PlaceOwn(w) /\ d # None BY <1>1, <1>6, ClientsAssumption DEF Owns
  <2>2. \A fd \in FD : conn'[fd] = d => fd \in tree'
    BY <1>1, <2>1 DEF ClientOwn, PlaceOwn
  <2>. QED BY <1>1, <1>4, <2>1, <2>2 DEF ClientOwn
<1>. QED BY <1>1, <1>4, <1>5, <1>6, OwnsBy

(* The clients act. *)
LEMMA OwnsActs ==
  ASSUME ServerInv, Owns, NEW c \in Clients, ClientActs(c), Acts(c), Quiet
  PROVE  Owns'
<1>1. /\ reused' = reused /\ alive /\ fdOf' = fdOf /\ conn' = conn /\ tree' = tree
      /\ run' = run
  BY DEF Acts, ghostVars, ClientActs, Connect, Send, Close, Reset
<1>2. task' = task /\ \A v \in Workers : pc'[v] = "run" <=> pc[v] = "run" BY DEF Quiet
<1>3. \A d \in Clients : Settled(d) => Settled(d)' BY SettledKept
<1>4. ASSUME NEW v \in Workers, pc'[v] = "run" PROVE Stays(v)
  <2>1. Serving(v) \in FD /\ Serving(v)' = Serving(v) BY <1>1, <1>2, <1>4, ServesOn
  <2>. QED BY <1>1, <1>2, <1>4, <2>1 DEF Stays
<1>5. ASSUME ~ reused, NEW d \in Clients PROVE ClientOwn(d)'
  <2>1. cl'[d].got = cl[d].got BY DEF Acts, Touches
  <2>2. cl'[d].st = "down" => cl[d].st = "down"
    <3>1. CASE d # c BY <3>1 DEF Acts, Touches
    <3>2. CASE d = c
      <4>1. cl[c].st \in States BY DEF ServerInv, ServerTyped, Peer
      <4>. QED BY <3>2, <4>1 DEF Acts, States
    <3>. QED BY <3>1, <3>2
  <2>. QED BY <1>1, <1>3, <1>5, <2>1, <2>2, ClientsOwnSame
<1>. QED BY <1>1, <1>3, <1>4, <1>5, OwnsBy

(* No step mixes connections up. *)
LEMMA OwnsStep ==
  ASSUME ServerInv, Owns, [Next]_vars
  PROVE  Owns'
<1>1. CASE Exit BY <1>1, OwnsExit
<1>2. CASE EpollWait
  <2>1. UNCHANGED <<run, pc, task, fdOf, conn, tree, cl, alive, reused>>
    BY <1>2 DEF EpollWait, poolVars, ghostVars
  <2>. QED BY <2>1, OwnsStutter
<1>3. CASE AcceptConn BY <1>3, OwnsAccept
<1>4. ASSUME NEW fd \in FD, HandleEvent(fd) PROVE Owns'
  <2>1. Queues /\ Handles(fd) BY <1>4, HandleStep
  <2>2. /\ alive /\ UNCHANGED <<conn, tree, cl, reused>> /\ run' = run
        /\ pc' = pc /\ task' = task
    BY <2>1 DEF Queues, Handles, ghostVars
  <2>. QED BY <2>1, <2>2, OwnsPlain
<1>5. CASE InPool
  <2>1. /\ UNCHANGED <<fdOf, run, batch, kernelVars, alive, ghostVars>> /\ alive
        /\ Quiet \/ \E w \in Workers : Takes(w)
    BY <1>5, PoolSteps
  <2>2. UNCHANGED <<conn, tree, cl, reused>> BY <2>1 DEF kernelVars, ghostVars
  <2>3. ASSUME NEW v \in Workers, pc'[v] = "run"
        PROVE  pc[v] = "run" /\ task'[v] = task[v]
    <3>1. CASE Quiet BY <2>3, <3>1 DEF Quiet
    <3>2. ASSUME NEW w \in Workers, Takes(w) PROVE pc[v] = "run" /\ task'[v] = task[v]
      BY <2>3, <3>2 DEF Takes
    <3>. QED BY <2>1, <3>1, <3>2
  <2>. QED BY <2>1, <2>2, <2>3, OwnsPlain
<1>6. ASSUME NEW w \in Workers, StartTask(w) PROVE Owns'
  <2>1. Starts(w) /\ run[w] = NotRunning BY <1>6, StartTaskStep
  <2>2. UNCHANGED <<fdOf, run, conn, tree, cl, reused>> /\ alive
    BY <1>6 DEF StartTask, kernelVars
  <2>3. PlaceOwn(w)' BY <2>1, <2>2, PlacesAre, ReadOwn
  <2>4. \A v \in Workers : v # w => pc'[v] = pc[v] /\ task'[v] = task[v] BY <2>1 DEF Starts
  <2>. QED BY <2>2, <2>3, <2>4, OwnsPlain
<1>7. ASSUME NEW w \in Workers, ReadData(w) PROVE Owns' BY <1>7, ReadStep, OwnsReads
<1>8. ASSUME NEW w \in Workers, WriteBack(w) PROVE Owns' BY <1>8, WriteStep, OwnsWrites
<1>9. ASSUME NEW w \in Workers, WriteFails(w) PROVE Owns'
  <2>1. Quiet /\ Runs(w) /\ Moves(w, NotRunning) /\ UNCHANGED <<conn, tree, edge, cl>>
    BY <1>9, WriteFailsStep
  <2>2. /\ alive /\ reused' = reused /\ fdOf' = fdOf /\ PlaceOwn(w)'
        /\ \A v \in Workers : v # w => run'[v] = run[v]
    BY <2>1, PlacesAre, ReadOwn DEF Moves, ghostVars, Runs
  <2>3. task' = task /\ \A v \in Workers : pc'[v] = "run" <=> pc[v] = "run" BY <2>1 DEF Quiet
  <2>. QED BY <2>1, <2>2, <2>3, OwnsPlain
<1>10. ASSUME NEW w \in Workers, ReadAgain(w) PROVE Owns'
  <2>1. Finishes(w) /\ Runs(w) /\ Moves(w, NotRunning) /\ UNCHANGED <<conn, tree, edge, cl>>
    BY <1>10, AgainStep
  <2>2. /\ alive /\ reused' = reused /\ fdOf' = fdOf
        /\ \A v \in Workers : v # w => run'[v] = run[v]
    BY <2>1 DEF Moves, ghostVars, Runs
  <2>3. /\ pc'[w] # "run"
        /\ \A v \in Workers : v # w => pc'[v] = pc[v] /\ task'[v] = task[v]
    BY <2>1 DEF Finishes
  <2>. QED BY <2>1, <2>2, <2>3, OwnsPlain
<1>11. ASSUME NEW w \in Workers, ReadEnds(w) PROVE Owns'
  <2>1. Quiet /\ Ends(w) BY <1>11, EndsStep
  <2>2. /\ Runs(w) /\ UNCHANGED <<conn, tree, edge, cl>> /\ alive /\ pc[w] = "run"
        /\ reused' = reused /\ fdOf' = fdOf
        /\ run'[w] = [pc |-> "close", buf |-> <<>>]
        /\ \A v \in Workers : v # w => run'[v] = run[v]
    BY <2>1 DEF Ends, Moves, ghostVars, Runs
  <2>3. task' = task /\ \A v \in Workers : pc'[v] = "run" <=> pc[v] = "run" BY <2>1 DEF Quiet
  <2>4. PlaceOwn(w)'
    <3>1. Serving(w)' = Serving(w) BY <2>2, <2>3, ServesOn
    <3>2. run'[w].pc = "close" BY <2>2
    <3>3. conn[Serving(w)] # None => Settled(conn[Serving(w)]) BY <2>1 DEF Ends, Settled
    <3>4. conn'[Serving(w)'] = conn[Serving(w)] BY <2>2, <3>1
    <3>5. Settled(conn[Serving(w)])' <=> Settled(conn[Serving(w)])
      BY <2>2, <3>4 DEF Settled, Ended, Unread
    <3>. QED BY <3>2, <3>3, <3>4, <3>5 DEF PlaceOwn
  <2>. QED BY <2>2, <2>3, <2>4, OwnsPlain
<1>12. ASSUME NEW w \in Workers, CloseFd(w) PROVE Owns' BY <1>12, CloseStep, OwnsCloses
<1>13. ASSUME NEW w \in Workers, DelFd(w) PROVE Owns' BY <1>13, DelStep, OwnsDels
<1>14. ASSUME NEW c \in Clients, ClientActs(c) PROVE Owns' BY <1>14, ClientStep, OwnsActs
<1>15. CASE UNCHANGED vars
  <2>1. UNCHANGED <<run, pc, task, fdOf, conn, tree, cl, alive, reused>>
    BY <1>15 DEF vars, poolVars, kernelVars, ghostVars
  <2>. QED BY <2>1, OwnsStutter
<1>. QED BY NextIs, <1>1, <1>2, <1>3, <1>4, <1>5, <1>6, <1>7, <1>8, <1>9, <1>10, <1>11, <1>12,
            <1>13, <1>14, <1>15

(* At the start there is nothing to own. *)
LEMMA OwnsInit == ASSUME Init PROVE Owns
<1>1. \A w \in Workers : pc[w] # "run" BY DEF Init, Pool!Init, Pool!Workers, Workers
<1>2. cl = [c \in Clients |-> NewClient] /\ conn = [fd \in FD |-> None]
  BY DEF Init, NoConn
<1>3. ASSUME NEW c \in Clients PROVE ClientOwn(c)
  <2>1. cl[c].got = <<>> /\ cl[c].st = "new" BY <1>2 DEF NewClient
  <2>2. DOMAIN cl[c].got = {} BY <2>1
  <2>3. c # None BY ClientsAssumption
  <2>. QED BY <1>2, <2>1, <2>2, <2>3 DEF ClientOwn
<1>. QED BY <1>1, <1>3 DEF Owns

(* Connections are not mixed up, as long as no number is given out while    *)
(* batch, queue or workers still name its earlier connection: taskRun       *)
(* writes to a client only what that client sent, closes a connection only  *)
(* at its end with everything read, and the stray EPOLL_CTL_DEL takes no    *)
(* open connection off the tree.                                            *)
THEOREM ConnectionsOwn == Spec => []OwnConnection
<1>1. Init => Owns BY OwnsInit
<1>2. ServerInv /\ Owns /\ [Next]_vars => Owns' BY OwnsStep
<1>3. Owns => OwnConnection BY DEF Owns, ClientOwn, Settled, OwnConnection
<1>. QED BY EpollPoolSafe, <1>1, <1>2, <1>3, PTL DEF Spec
-----------------------------------------------------------------------------
(* No two workers serve one descriptor. *)
Alone ==
  alive => \A v, w \in Workers :
             pc[v] = "run" /\ pc[w] = "run" /\ Serving(v) = Serving(w) => v = w

(* A step that moves no data: buffers are kept or emptied, a worker that is *)
(* about to write has been there before, with the same client, and Alone    *)
(* remains true unless shared tells of it.                                  *)
Calm ==
  /\ reused => reused'
  /\ shared => shared'
  /\ Alone /\ ~ shared' => Alone'
  /\ \A v \in Workers : run'[v].buf = run[v].buf \/ run'[v].buf = <<>>
  /\ \A v \in Workers :
       ~ reused' /\ pc'[v] = "run" /\ run'[v].pc = "write" /\ conn'[Serving(v)'] # None
         => Stays(v)
  /\ \A c \in Clients : cl'[c].got = cl[c].got /\ cl'[c].read = cl[c].read

(* A worker goes on with its task or stops. *)
Continues(v) ==
  /\ pc'[v] = "run" => pc[v] = "run" /\ task'[v] = task[v]
  /\ run'[v] = run[v] \/ (run'[v].pc # "write" /\ run'[v].buf = <<>>)

(* What there is to show of a step that moves no data. *)
LEMMA CalmBy ==
  ASSUME ServerInv, alive, reused' = reused, shared' = shared,
         fdOf' = fdOf \/ \E fd \in FD : Handles(fd),
         \A v \in Workers : Continues(v),
         \A f \in FD : conn'[f] = conn[f] \/ conn'[f] = None,
         \A c \in Clients : cl'[c].got = cl[c].got /\ cl'[c].read = cl[c].read
  PROVE  Calm
<1>1. ASSUME NEW v \in Workers, pc'[v] = "run"
      PROVE  pc[v] = "run" /\ Serving(v) \in FD /\ Serving(v)' = Serving(v)
  BY <1>1, ServesOn DEF Continues
<1>2. Alone => Alone' BY <1>1 DEF Alone
<1>3. ASSUME NEW v \in Workers, pc'[v] = "run", run'[v].pc = "write", conn'[Serving(v)'] # None
      PROVE  Stays(v)
  <2>1. pc[v] = "run" /\ Serving(v) \in FD /\ Serving(v)' = Serving(v) BY <1>1, <1>3
  <2>2. conn'[Serving(v)] = conn[Serving(v)] BY <1>3, <2>1
  <2>3. run'[v] = run[v] BY <1>3 DEF Continues
  <2>. QED BY <2>1, <2>2, <2>3 DEF Stays
<1>4. \A v \in Workers : run'[v].buf = run[v].buf \/ run'[v].buf = <<>> BY DEF Continues
<1>. QED BY <1>2, <1>3, <1>4 DEF Calm

(* Accept moves none, unless its number is still named, which reused tells. *)
LEMMA CalmAccept == ASSUME ServerInv, AcceptConn PROVE Calm
<1>1. PICK c \in Clients, a \in FD : Accepts(c, a) BY AcceptStep
<1>2. UNCHANGED <<pc, task, run, fdOf, shared, alive>> /\ alive
  BY DEF AcceptConn, poolVars, Handling
<1>3. reused => reused' BY <1>1 DEF Accepts
<1>4. \A d \in Clients : cl'[d].got = cl[d].got /\ cl'[d].read = cl[d].read
  BY <1>1 DEF Accepts, SameData
<1>5. Alone => Alone' BY <1>2 DEF Alone, Serving
<1>6. ASSUME ~ reused', NEW v \in Workers, pc'[v] = "run" PROVE Stays(v)
  <2>1. pc[v] = "run" /\ task'[v] = task[v] /\ task[v] # 0
    BY <1>2, <1>6, PoolViewIs DEF ServerInv, PoolView
  <2>2. Serving(v) \in FD /\ Serving(v)' = Serving(v) BY <1>2, <2>1, ServesOn
  <2>3. Serving(v) \in HeldFds BY <2>1 DEF HeldFds, Pool!Workers, Workers, Pool!NoTask
  <2>4. Serving(v) # a BY <1>1, <1>6, <2>3 DEF Accepts
  <2>. QED BY <1>1, <1>2, <2>1, <2>2, <2>4 DEF Accepts, Stays
<1>. QED BY <1>2, <1>3, <1>4, <1>5, <1>6 DEF Calm

(* Starting a task moves none; shared tells when it has company. *)
LEMMA CalmStart == ASSUME ServerInv, NEW w \in Workers, StartTask(w) PROVE Calm
<1>1. Starts(w) /\ run[w] = NotRunning BY StartTaskStep
<1>2. /\ UNCHANGED <<fdOf, run, conn, cl, reused, alive>> /\ alive
      /\ shared' = (shared \/ \E v \in Running : Serving(v) = Serving(w))
  BY DEF StartTask, kernelVars
<1>3. task' = task /\ pc'[w] = "run" /\ \A v \in Workers : v # w => pc'[v] = pc[v]
  BY <1>1 DEF Starts
<1>4. \A v : Serving(v)' = Serving(v) BY <1>2, <1>3 DEF Serving
<1>5. shared => shared' BY <1>2
<1>6. ~ shared' => \A v \in Workers : pc[v] = "run" => Serving(v) # Serving(w)
  BY <1>2 DEF Running, Pool!Workers, Workers
<1>7. Alone /\ ~ shared' => Alone' BY <1>2, <1>3, <1>4, <1>6 DEF Alone
<1>8. ASSUME NEW v \in Workers, pc'[v] = "run", run'[v].pc = "write" PROVE Stays(v)
  <2>1. v # w BY <1>1, <1>2, <1>8, PlacesAre
  <2>2. pc[v] = "run" /\ task'[v] = task[v] BY <1>3, <1>8, <2>1
  <2>3. Serving(v) \in FD /\ Serving(v)' = Serving(v) BY <1>2, <2>2, ServesOn
  <2>. QED BY <1>2, <2>2, <2>3 DEF Stays
<1>. QED BY <1>2, <1>5, <1>7, <1>8 DEF Calm

(* Every step moves no data, reads, writes, or is the last one. *)
LEMMA StepKinds ==
  ASSUME ServerInv, [Next]_vars
  PROVE  \/ Exit \/ UNCHANGED vars \/ Calm
         \/ \E w \in Workers, c \in Clients : Reads(w, c) /\ Quiet
         \/ \E w \in Workers, c \in Clients, n \in Nat : Writes(w, c, n) /\ Quiet
<1>2. CASE EpollWait
  <2>1. UNCHANGED <<run, pc, task, fdOf, conn, cl, shared, reused>> /\ alive
    BY <1>2 DEF EpollWait, AtLoopHead, poolVars, ghostVars
  <2>2. \A v \in Workers : Continues(v) BY <2>1 DEF Continues
  <2>. QED BY <2>1, <2>2, CalmBy
<1>3. CASE AcceptConn BY <1>3, CalmAccept
<1>4. ASSUME NEW fd \in FD, HandleEvent(fd) PROVE Calm
  <2>1. Queues /\ Handles(fd) BY <1>4, HandleStep
  <2>2. /\ alive /\ UNCHANGED <<conn, cl, shared, reused>> /\ run' = run
        /\ pc' = pc /\ task' = task
    BY <2>1 DEF Queues, Handles, ghostVars
  <2>3. \A v \in Workers : Continues(v) BY <2>2 DEF Continues
  <2>. QED BY <2>1, <2>2, <2>3, CalmBy
<1>5. CASE InPool
  <2>1. /\ UNCHANGED <<fdOf, run, batch, kernelVars, alive, ghostVars>> /\ alive
        /\ Quiet \/ \E w \in Workers : Takes(w)
    BY <1>5, PoolSteps
  <2>2. UNCHANGED <<conn, cl, shared, reused>> BY <2>1 DEF kernelVars, ghostVars
  <2>3. ASSUME NEW v \in Workers, pc'[v] = "run"
        PROVE  pc[v] = "run" /\ task'[v] = task[v]
    <3>1. CASE Quiet BY <2>3, <3>1 DEF Quiet
    <3>2. ASSUME NEW w \in Workers, Takes(w) PROVE pc[v] = "run" /\ task'[v] = task[v]
      BY <2>3, <3>2 DEF Takes
    <3>. QED BY <2>1, <3>1, <3>2
  <2>4. \A v \in Workers : Continues(v) BY <2>1, <2>3 DEF Continues
  <2>. QED BY <2>1, <2>2, <2>4, CalmBy
<1>6. ASSUME NEW w \in Workers, StartTask(w) PROVE Calm BY <1>6, CalmStart
<1>9. ASSUME NEW w \in Workers, WriteFails(w) PROVE Calm
  <2>1. Quiet /\ Runs(w) /\ Moves(w, NotRunning) /\ UNCHANGED <<conn, tree, edge, cl>>
    BY <1>9, WriteFailsStep
  <2>2. /\ alive /\ reused' = reused /\ shared' = shared /\ fdOf' = fdOf
        /\ run'[w].pc # "write" /\ run'[w].buf = <<>>
        /\ \A v \in Workers : v # w => run'[v] = run[v]
    BY <2>1, PlacesAre DEF Moves, ghostVars, Runs
  <2>3. task' = task /\ \A v \in Workers : pc'[v] = "run" <=> pc[v] = "run" BY <2>1 DEF Quiet
  <2>4. \A v \in Workers : Continues(v) BY <2>2, <2>3 DEF Continues
  <2>. QED BY <2>1, <2>2, <2>4, CalmBy
<1>10. ASSUME NEW w \in Workers, ReadAgain(w) PROVE Calm
  <2>1. Finishes(w) /\ Runs(w) /\ Moves(w, NotRunning) /\ UNCHANGED <<conn, tree, edge, cl>>
    BY <1>10, AgainStep
  <2>2. /\ alive /\ reused' = reused /\ shared' = shared /\ fdOf' = fdOf
        /\ run'[w].pc # "write" /\ run'[w].buf = <<>>
        /\ \A v \in Workers : v # w => run'[v] = run[v]
    BY <2>1, PlacesAre DEF Moves, ghostVars, Runs
  <2>3. /\ pc'[w] # "run"
        /\ \A v \in Workers : v # w => pc'[v] = pc[v] /\ task'[v] = task[v]
    BY <2>1 DEF Finishes
  <2>4. \A v \in Workers : Continues(v) BY <2>2, <2>3 DEF Continues
  <2>. QED BY <2>1, <2>2, <2>4, CalmBy
<1>11. ASSUME NEW w \in Workers, ReadEnds(w) PROVE Calm
  <2>1. Quiet /\ Ends(w) BY <1>11, EndsStep
  <2>2. /\ UNCHANGED <<conn, tree, edge, cl>> /\ alive
        /\ reused' = reused /\ shared' = shared /\ fdOf' = fdOf
        /\ run'[w].pc # "write" /\ run'[w].buf = <<>>
        /\ \A v \in Workers : v # w => run'[v] = run[v]
    BY <2>1, PlacesAre DEF Ends, Moves, ghostVars, Runs
  <2>3. task' = task /\ \A v \in Workers : pc'[v] = "run" <=> pc[v] = "run" BY <2>1 DEF Quiet
  <2>4. \A v \in Workers : Continues(v) BY <2>2, <2>3 DEF Continues
  <2>. QED BY <2>2, <2>4, CalmBy
<1>12. ASSUME NEW w \in Workers, CloseFd(w) PROVE Calm
  <2>1. Quiet /\ Closes(w) BY <1>12, CloseStep
  <2>2. /\ alive /\ SameData
        /\ reused' = reused /\ shared' = shared /\ fdOf' = fdOf
        /\ run'[w].pc # "write" /\ run'[w].buf = <<>>
        /\ \A v \in Workers : v # w => run'[v] = run[v]
        /\ \A f \in FD : conn'[f] = conn[f] \/ conn'[f] = None
    BY <2>1, PlacesAre DEF Closes, Moves, ghostVars, Runs
  <2>3. task' = task /\ \A v \in Workers : pc'[v] = "run" <=> pc[v] = "run" BY <2>1 DEF Quiet
  <2>4. \A v \in Workers : Continues(v) BY <2>2, <2>3 DEF Continues
  <2>. QED BY <2>2, <2>4, CalmBy DEF SameData
<1>13. ASSUME NEW w \in Workers, DelFd(w) PROVE Calm
  <2>1. Finishes(w) /\ Dels(w) BY <1>13, DelStep
  <2>2. /\ alive /\ UNCHANGED <<conn, cl>>
        /\ reused' = reused /\ shared' = shared /\ fdOf' = fdOf
        /\ run'[w].pc # "write" /\ run'[w].buf = <<>>
        /\ \A v \in Workers : v # w => run'[v] = run[v]
    BY <2>1, PlacesAre DEF Dels, Moves, ghostVars, Runs
  <2>3. /\ pc'[w] # "run"
        /\ \A v \in Workers : v # w => pc'[v] = pc[v] /\ task'[v] = task[v]
    BY <2>1 DEF Finishes
  <2>4. \A v \in Workers : Continues(v) BY <2>2, <2>3 DEF Continues
  <2>. QED BY <2>2, <2>4, CalmBy
<1>14. ASSUME NEW c \in Clients, ClientActs(c) PROVE Calm
  <2>1. Quiet /\ Acts(c) BY <1>14, ClientStep
  <2>2. alive BY <1>14 DEF ClientActs, Connect, Send, Close, Reset
  <2>3. /\ UNCHANGED <<fdOf, run, conn, shared, reused>>
        /\ \A d \in Clients : cl'[d].got = cl[d].got /\ cl'[d].read = cl[d].read
    BY <2>1 DEF Acts, Touches, ghostVars
  <2>4. task' = task /\ \A v \in Workers : pc'[v] = "run" <=> pc[v] = "run" BY <2>1 DEF Quiet
  <2>5. \A v \in Workers : Continues(v) BY <2>3, <2>4 DEF Continues
  <2>. QED BY <2>2, <2>3, <2>5, CalmBy
<1>. QED BY NextIs, <1>2, <1>3, <1>4, <1>5, <1>6, <1>9, <1>10, <1>11, <1>12,
            <1>13, <1>14, ReadStep, WriteStep
-----------------------------------------------------------------------------
(* The units of s have all been read, and none is twice in s or in s and t. *)
Known(s)    == \A i \in DOMAIN s : s[i][2] <= cl[s[i][1]].read
Distinct(s) == \A i, j \in DOMAIN s : i # j => s[i] # s[j]
Apart(s, t) == \A i \in DOMAIN s, j \in DOMAIN t : s[i] # t[j]

(* The numbers in s go up, and are below those in t. *)
Rising(s)   == \A i, j \in DOMAIN s : i < j => s[i][2] < s[j][2]
Below(s, t) == \A i \in DOMAIN s, j \in DOMAIN t : s[i][2] < t[j][2]

(* What was read is in one place, once: in the buffer of one worker or at a *)
(* client.                                                                  *)
Once ==
  /\ \A w \in Workers : Known(run[w].buf) /\ Distinct(run[w].buf)
  /\ \A v, w \in Workers : v # w => Apart(run[v].buf, run[w].buf)
  /\ \A c \in Clients : Known(cl[c].got) /\ Distinct(cl[c].got)
  /\ \A w \in Workers, c \in Clients : Apart(run[w].buf, cl[c].got)

(* A worker has in buf what its client gets next. *)
NextFor(w, c) ==
  pc[w] = "run" /\ run[w].pc = "write" /\ conn[Serving(w)] = c =>
    Rising(run[w].buf) /\ Below(cl[c].got, run[w].buf)

Ordered ==
  ~ shared /\ ~ reused =>
    /\ Alone
    /\ \A c \in Clients : Rising(cl[c].got)
    /\ \A w \in Workers, c \in Clients : NextFor(w, c)

(* The buffers, and what the clients have got, are sequences of units. *)
LEMMA BufsAre ==
  ASSUME ServerInv
  PROVE  /\ \A w \in Workers : run[w].buf \in Bufs
         /\ \A c \in Clients : cl[c].got \in Bufs /\ cl[c].read \in Nat
BY DEF ServerInv, ServerTyped, Places, Peer

(* What has been read stays read. *)
LEMMA KnownKept ==
  ASSUME ServerInv, NEW s \in Bufs, Known(s),
         \A c \in Clients : cl'[c].read \in Nat /\ cl[c].read <= cl'[c].read
  PROVE  Known(s)'
<1>1. ASSUME NEW i \in DOMAIN s PROVE s[i][2] <= cl'[s[i][1]].read
  <2>1. s[i] \in Units BY DEF Bufs
  <2>2. PICK c \in Clients, k \in Nat : c = s[i][1] /\ k = s[i][2] BY <2>1 DEF Units
  <2>3. PICK r \in Nat, r1 \in Nat : r = cl[c].read /\ r1 = cl'[c].read BY BufsAre
  <2>4. k <= r /\ r <= r1 BY <2>2, <2>3 DEF Known
  <2>. QED BY <2>2, <2>3, <2>4
<1>. QED BY <1>1 DEF Known

(* In an empty buffer there is nothing twice. *)
LEMMA EmptyOnce ==
  /\ Known(<<>>)' /\ Distinct(<<>>) /\ Rising(<<>>)
  /\ \A s : Apart(<<>>, s) /\ Apart(s, <<>>) /\ Below(s, <<>>)
<1>1. DOMAIN <<>> = {} OBVIOUS
<1>. QED BY <1>1 DEF Known, Distinct, Rising, Apart, Below

(* What Read delivers is new, and in order. *)
LEMMA ReadNew ==
  ASSUME ServerInv, NEW w \in Workers, NEW c \in Clients, Reads(w, c),
         NEW buf \in Bufs, buf = Received(c)
  PROVE  /\ Known(buf)' /\ Distinct(buf) /\ Rising(buf)
         /\ \A s \in Bufs : Known(s) => Apart(s, buf) /\ Apart(buf, s)
         /\ \A s \in Bufs : Known(s) /\ (\A i \in DOMAIN s : s[i][1] = c)
                              => Below(s, buf)
<1>1. Unread(c) BY DEF Reads
<1>2. PICK r \in Nat : r = cl[c].read BY BufsAre
<1>3. \A i \in 1 .. Len(buf) : buf[i] = <<c, r + i>>
  BY <1>1, <1>2, ReceivedIs
<1>4. PICK n \in Nat : n = Len(buf) /\ DOMAIN buf = 1 .. n BY DEF Bufs
<1>5. \A i \in 1 .. n : buf[i] = <<c, r + i>> BY <1>3, <1>4
<1>6. cl'[c].read = r + n BY <1>2, <1>3, <1>4 DEF Reads
<1>7. Known(buf)'
  <2>1. \A i \in 1 .. n : buf[i][1] = c /\ buf[i][2] = r + i BY <1>5
  <2>2. \A i \in 1 .. n : r + i <= r + n OBVIOUS
  <2>3. \A i \in 1 .. n : buf[i][2] <= cl'[buf[i][1]].read BY <1>6, <2>1, <2>2
  <2>. QED BY <1>4, <2>3 DEF Known
<1>8. Distinct(buf) BY <1>4, <1>5 DEF Distinct
<1>9. Rising(buf) BY <1>4, <1>5 DEF Rising
<1>10. ASSUME NEW s \in Bufs, Known(s), NEW i \in DOMAIN s, s[i][1] = c,
              NEW j \in 1 .. n
       PROVE  s[i][2] < buf[j][2]
  <2>1. s[i] \in Units BY DEF Bufs
  <2>2. PICK k \in Nat : k = s[i][2] BY <2>1 DEF Units
  <2>3. k <= r BY <1>2, <1>10, <2>2 DEF Known
  <2>4. buf[j][2] = r + j BY <1>5
  <2>. QED BY <2>2, <2>3, <2>4
<1>11. ASSUME NEW s \in Bufs, Known(s) PROVE Apart(s, buf) /\ Apart(buf, s)
  <2>1. ASSUME NEW i \in DOMAIN s, NEW j \in 1 .. n PROVE s[i] # buf[j]
    <3>1. CASE s[i][1] = c
      <4>1. s[i][2] < buf[j][2] BY <1>10, <1>11, <3>1
      <4>2. buf[j][2] = r + j BY <1>5
      <4>3. s[i][2] # r + j BY <4>1, <4>2
      <4>. QED BY <4>2, <4>3
    <3>2. CASE s[i][1] # c BY <1>5, <3>2
    <3>. QED BY <3>1, <3>2
  <2>. QED BY <1>4, <2>1 DEF Apart
<1>12. ASSUME NEW s \in Bufs, Known(s), \A i \in DOMAIN s : s[i][1] = c
       PROVE  Below(s, buf)
  BY <1>4, <1>10, <1>12 DEF Below
<1>. QED BY <1>7, <1>8, <1>9, <1>11, <1>12

(* What Write leaves at the client. *)
LEMMA WrittenOnce ==
  ASSUME NEW got \in Bufs, NEW buf \in Bufs, NEW n \in Nat, NEW all \in Bufs,
         Grown(all, got, buf, n), Apart(buf, got), Distinct(got), Distinct(buf)
  PROVE  /\ Distinct(all)
         /\ Known(got) /\ Known(buf) => Known(all)
         /\ \A s : Apart(s, got) /\ Apart(s, buf) => Apart(s, all)
         /\ Rising(got) /\ Rising(buf) /\ Below(got, buf) => Rising(all)
<1>1. PICK m \in Nat : /\ DOMAIN got = 1 .. m /\ DOMAIN all = 1 .. m + n
                       /\ \A i \in 1 .. m : all[i] = got[i]
                       /\ \A j \in 1 .. n : all[m + j] = buf[j] /\ j \in DOMAIN buf
  BY DEF Grown
<1>. DEFINE Old(i)    == i \in 1 .. m /\ i \in DOMAIN got /\ all[i] = got[i]
            New(i, j) == i = m + j /\ j \in 1 .. n /\ j \in DOMAIN buf /\ all[i] = buf[j]
<1>2. ASSUME NEW i \in DOMAIN all PROVE Old(i) \/ \E j \in DOMAIN buf : New(i, j)
  <2>1. i \in 1 .. m + n BY <1>1
  <2>2. CASE i \in 1 .. m BY <1>1, <2>2
  <2>3. CASE i - m \in 1 .. n /\ i = m + (i - m)
    <3>1. PICK j \in 1 .. n : i = m + j BY <2>3
    <3>2. New(i, j) BY <1>1, <3>1
    <3>. QED BY <3>2
  <2>. QED BY <2>1, <2>2, <2>3, GrownSplit
<1>3. Known(got) /\ Known(buf) => Known(all) BY <1>2 DEF Known
<1>4. ASSUME NEW s, Apart(s, got), Apart(s, buf) PROVE Apart(s, all)
  BY <1>2, <1>4 DEF Apart
<1>5. Distinct(all)
  <2>1. ASSUME NEW i \in DOMAIN all, NEW k \in DOMAIN all, i # k PROVE all[i] # all[k]
    <3>1. CASE Old(i) /\ Old(k) BY <2>1, <3>1 DEF Distinct
    <3>2. CASE Old(i) /\ \E y \in DOMAIN buf : New(k, y) BY <3>2 DEF Apart
    <3>3. CASE (\E x \in DOMAIN buf : New(i, x)) /\ Old(k) BY <3>3 DEF Apart
    <3>4. ASSUME NEW x \in DOMAIN buf, New(i, x), NEW y \in DOMAIN buf, New(k, y)
          PROVE  all[i] # all[k]
      BY <2>1, <3>4 DEF Distinct
    <3>. QED BY <1>2, <3>1, <3>2, <3>3, <3>4
  <2>. QED BY <2>1 DEF Distinct
<1>6. ASSUME Rising(got), Rising(buf), Below(got, buf) PROVE Rising(all)
  <2>1. ASSUME NEW i \in DOMAIN all, NEW k \in DOMAIN all, i < k PROVE all[i][2] < all[k][2]
    <3>1. CASE Old(i) /\ Old(k) BY <1>6, <2>1, <3>1 DEF Rising
    <3>2. CASE Old(i) /\ \E y \in DOMAIN buf : New(k, y) BY <1>6, <3>2 DEF Below
    <3>3. ASSUME NEW x \in DOMAIN buf, New(i, x) PROVE ~ Old(k)
      BY <2>1, <3>3
    <3>4. ASSUME NEW x \in DOMAIN buf, New(i, x), NEW y \in DOMAIN buf, New(k, y)
          PROVE  all[i][2] < all[k][2]
      <4>1. x < y BY <2>1, <3>4
      <4>. QED BY <1>6, <3>4, <4>1 DEF Rising
    <3>. QED BY <1>2, <3>1, <3>2, <3>3, <3>4
  <2>. QED BY <2>1 DEF Rising
<1>. QED BY <1>3, <1>4, <1>5, <1>6
-----------------------------------------------------------------------------
(* Nothing is read, and buffers are kept or emptied. *)
LEMMA OnceKept ==
  ASSUME ServerInv, Once,
         \A w \in Workers : run'[w].buf = run[w].buf \/ run'[w].buf = <<>>,
         \A c \in Clients : cl'[c].got = cl[c].got /\ cl'[c].read = cl[c].read
  PROVE  Once'
<1>1. \A c \in Clients : cl'[c].read \in Nat /\ cl[c].read <= cl'[c].read BY BufsAre
<1>2. ASSUME NEW w \in Workers PROVE (Known(run[w].buf) /\ Distinct(run[w].buf))'
  <2>1. PICK s \in Bufs : s = run[w].buf BY BufsAre
  <2>2. PICK t : t = run'[w].buf OBVIOUS
  <2>3. Known(s) /\ Distinct(s) BY <2>1 DEF Once
  <2>4. Known(s)' BY <1>1, <2>3, KnownKept
  <2>5. t = s \/ t = <<>> BY <2>1, <2>2
  <2>6. Known(t)' /\ Distinct(t) BY <2>3, <2>4, <2>5, EmptyOnce
  <2>. QED BY <2>2, <2>6 DEF Known
<1>3. ASSUME NEW v \in Workers, NEW w \in Workers, v # w
      PROVE  Apart(run[v].buf, run[w].buf)'
  <2>1. Apart(run[v].buf, run[w].buf) BY <1>3 DEF Once
  <2>. QED BY <2>1, EmptyOnce
<1>4. ASSUME NEW c \in Clients PROVE (Known(cl[c].got) /\ Distinct(cl[c].got))'
  <2>1. PICK s \in Bufs : s = cl[c].got /\ cl'[c].got = s BY BufsAre
  <2>2. Known(s) /\ Distinct(s) BY <2>1 DEF Once
  <2>3. Known(s)' BY <1>1, <2>2, KnownKept
  <2>. QED BY <2>1, <2>2, <2>3 DEF Known
<1>5. ASSUME NEW w \in Workers, NEW c \in Clients PROVE Apart(run[w].buf, cl[c].got)'
  <2>1. Apart(run[w].buf, cl[c].got) BY DEF Once
  <2>. QED BY <2>1, EmptyOnce
<1>. QED BY <1>2, <1>3, <1>4, <1>5 DEF Once

(* Read fills one buffer with units that are nowhere else. *)
LEMMA OnceReads ==
  ASSUME ServerInv, Once, NEW w \in Workers, NEW c \in Clients, Reads(w, c)
  PROVE  Once'
<1>1. PICK new \in Bufs : new = Received(c) BY ReceivedIs DEF Reads
<1>2. /\ Known(new)' /\ Distinct(new)
      /\ \A s \in Bufs : Known(s) => Apart(s, new) /\ Apart(new, s)
  BY <1>1, ReadNew
<1>3. run'[w].buf = new /\ \A v \in Workers : v # w => run'[v].buf = run[v].buf
  BY <1>1 DEF Reads, Moves
<1>4. \A d \in Clients : cl'[d].read \in Nat /\ cl[d].read <= cl'[d].read
  <2>1. PICK n \in Nat : n = Len(new) BY DEF Bufs
  <2>2. cl'[c].read = cl[c].read + n /\ cl'[c].read \in Nat BY <1>1, <2>1 DEF Reads
  <2>3. \A d \in Clients : d # c => cl'[d] = cl[d] BY DEF Reads, Touches
  <2>. QED BY <2>2, <2>3, BufsAre
<1>5. \A d \in Clients : cl'[d].got = cl[d].got BY DEF Reads, Touches
<1>6. ASSUME NEW v \in Workers PROVE (Known(run[v].buf) /\ Distinct(run[v].buf))'
  <2>1. CASE v = w BY <1>2, <1>3, <2>1 DEF Known
  <2>2. CASE v # w
    <3>1. PICK s \in Bufs : s = run[v].buf /\ run'[v].buf = s BY <1>3, <2>2, BufsAre
    <3>2. Known(s) /\ Distinct(s) BY <3>1 DEF Once
    <3>3. Known(s)' BY <1>4, <3>2, KnownKept
    <3>. QED BY <3>1, <3>2, <3>3 DEF Known
  <2>. QED BY <2>1, <2>2
<1>7. ASSUME NEW v \in Workers, NEW u \in Workers, v # u
      PROVE  Apart(run[v].buf, run[u].buf)'
  <2>1. \A x \in Workers : run[x].buf \in Bufs /\ Known(run[x].buf) BY BufsAre DEF Once
  <2>2. CASE v = w BY <1>2, <1>3, <1>7, <2>1, <2>2
  <2>3. CASE u = w BY <1>2, <1>3, <1>7, <2>1, <2>3
  <2>4. CASE v # w /\ u # w
    <3>1. Apart(run[v].buf, run[u].buf) BY <1>7 DEF Once
    <3>. QED BY <1>3, <2>4, <3>1
  <2>. QED BY <2>2, <2>3, <2>4
<1>8. ASSUME NEW d \in Clients PROVE (Known(cl[d].got) /\ Distinct(cl[d].got))'
  <2>1. PICK s \in Bufs : s = cl[d].got /\ cl'[d].got = s BY <1>5, BufsAre
  <2>2. Known(s) /\ Distinct(s) BY <2>1 DEF Once
  <2>3. Known(s)' BY <1>4, <2>2, KnownKept
  <2>. QED BY <2>1, <2>2, <2>3 DEF Known
<1>9. ASSUME NEW v \in Workers, NEW d \in Clients PROVE Apart(run[v].buf, cl[d].got)'
  <2>1. cl[d].got \in Bufs /\ Known(cl[d].got) BY BufsAre DEF Once
  <2>2. Apart(run[v].buf, cl[d].got) BY DEF Once
  <2>. QED BY <1>2, <1>3, <1>5, <2>1, <2>2
<1>. QED BY <1>6, <1>7, <1>8, <1>9 DEF Once

(* Write moves units from the buffer to the client. *)
LEMMA OnceWrites ==
  ASSUME ServerInv, ServerInv', Once, NEW w \in Workers, NEW c \in Clients, NEW n \in Nat,
         Writes(w, c, n)
  PROVE  Once'
<1>1. PICK got \in Bufs, buf \in Bufs : got = cl[c].got /\ buf = run[w].buf BY BufsAre
<1>2. PICK all \in Bufs : all = cl'[c].got BY DEF ServerInv, ServerTyped, Peer
<1>3. all = got \o SubSeq(buf, 1, n) /\ n \in 0 .. Len(buf) BY <1>1, <1>2 DEF Writes
<1>4. /\ Known(got) /\ Known(buf) /\ Distinct(got) /\ Distinct(buf) /\ Apart(buf, got)
  BY <1>1 DEF Once
<1>5. /\ Distinct(all) /\ Known(all)
      /\ \A s : Apart(s, got) /\ Apart(s, buf) => Apart(s, all)
  <2>1. Grown(all, got, buf, n) BY <1>3, GotGrows
  <2>. QED BY <1>4, <2>1, WrittenOnce
<1>6. /\ run'[w].buf = <<>> /\ \A v \in Workers : v # w => run'[v].buf = run[v].buf
  BY PlacesAre DEF Writes, Moves
<1>7. /\ \A d \in Clients : d # c => cl'[d].got = cl[d].got
      /\ \A d \in Clients : cl'[d].read = cl[d].read
  BY DEF Writes, Touches
<1>8. \A d \in Clients : cl'[d].read \in Nat /\ cl[d].read <= cl'[d].read
  BY <1>7, BufsAre
<1>9. ASSUME NEW v \in Workers PROVE (Known(run[v].buf) /\ Distinct(run[v].buf))'
  <2>1. PICK s \in Bufs : s = run[v].buf BY BufsAre
  <2>2. PICK t : t = run'[v].buf OBVIOUS
  <2>3. Known(s) /\ Distinct(s) BY <2>1 DEF Once
  <2>4. Known(s)' BY <1>8, <2>3, KnownKept
  <2>5. t = s \/ t = <<>> BY <1>6, <2>1, <2>2
  <2>6. Known(t)' /\ Distinct(t) BY <2>3, <2>4, <2>5, EmptyOnce
  <2>. QED BY <2>2, <2>6 DEF Known
<1>10. ASSUME NEW v \in Workers, NEW u \in Workers, v # u
       PROVE  Apart(run[v].buf, run[u].buf)'
  <2>1. Apart(run[v].buf, run[u].buf) BY <1>10 DEF Once
  <2>. QED BY <1>6, <2>1, EmptyOnce
<1>11. ASSUME NEW d \in Clients PROVE (Known(cl[d].got) /\ Distinct(cl[d].got))'
  <2>1. CASE d = c
    <3>1. Known(all)' BY <1>5, <1>8, KnownKept
    <3>. QED BY <1>2, <1>5, <2>1, <3>1 DEF Known
  <2>2. CASE d # c
    <3>1. PICK s \in Bufs : s = cl[d].got /\ cl'[d].got = s BY <1>7, <2>2, BufsAre
    <3>2. Known(s) /\ Distinct(s) BY <3>1 DEF Once
    <3>3. Known(s)' BY <1>8, <3>2, KnownKept
    <3>. QED BY <3>1, <3>2, <3>3 DEF Known
  <2>. QED BY <2>1, <2>2
<1>12. ASSUME NEW v \in Workers, NEW d \in Clients PROVE Apart(run[v].buf, cl[d].got)'
  <2>1. CASE v = w BY <1>6, <2>1, EmptyOnce
  <2>2. CASE v # w /\ d = c
    <3>1. Apart(run[v].buf, got) /\ Apart(run[v].buf, buf) BY <1>1, <2>2 DEF Once
    <3>2. Apart(run[v].buf, all) BY <1>5, <3>1
    <3>. QED BY <1>2, <1>6, <2>2, <3>2
  <2>3. CASE v # w /\ d # c
    <3>1. Apart(run[v].buf, cl[d].got) BY DEF Once
    <3>. QED BY <1>6, <1>7, <2>3, <3>1
  <2>. QED BY <2>1, <2>2, <2>3
<1>. QED BY <1>9, <1>10, <1>11, <1>12 DEF Once
-----------------------------------------------------------------------------
(* Once remains true. *)
LEMMA OnceStep ==
  ASSUME ServerInv, ServerInv', Once, [Next]_vars
  PROVE  Once'
<1>1. CASE Exit
  <2>1. \A w \in Workers : run'[w].buf = <<>>
    BY <1>1, PlacesAre DEF Exit, AtStart, Pool!Workers, Workers
  <2>2. SameData BY <1>1, ExitEffect
  <2>. QED BY <2>1, <2>2, OnceKept DEF SameData
<1>2. CASE UNCHANGED vars
  <2>1. run' = run /\ cl' = cl BY <1>2 DEF vars, kernelVars
  <2>. QED BY <2>1, OnceKept
<1>3. CASE Calm BY <1>3, OnceKept DEF Calm
<1>. QED BY StepKinds, <1>1, <1>2, <1>3, OnceReads, OnceWrites

(* Steps that move no data keep the order. *)
LEMMA OrderedCalm == ASSUME ServerInv, Ordered, Calm PROVE Ordered'
<1>. SUFFICES ASSUME ~ shared', ~ reused'
              PROVE  /\ Alone'
                     /\ \A c \in Clients : Rising(cl[c].got)'
                     /\ \A w \in Workers, c \in Clients : NextFor(w, c)'
  BY DEF Ordered
<1>1. ~ shared /\ ~ reused BY DEF Calm
<1>2. Alone' BY <1>1 DEF Calm, Ordered
<1>3. \A c \in Clients : Rising(cl[c].got)' BY <1>1 DEF Calm, Ordered
<1>4. ASSUME NEW w \in Workers, NEW c \in Clients,
             pc'[w] = "run", run'[w].pc = "write", conn'[Serving(w)'] = c
      PROVE  Rising(run'[w].buf) /\ Below(cl'[c].got, run'[w].buf)
  <2>1. Stays(w) BY <1>4, ClientsAssumption DEF Calm
  <2>2. pc[w] = "run" /\ run'[w] = run[w] /\ conn[Serving(w)] = c BY <1>4, <2>1 DEF Stays
  <2>3. NextFor(w, c) BY <1>1 DEF Ordered
  <2>. QED BY <1>4, <2>2, <2>3 DEF NextFor, Calm
<1>. QED BY <1>2, <1>3, <1>4 DEF NextFor

(* The workers and descriptors of a step of one worker in taskRun. *)
LEMMA MovesServe ==
  ASSUME ServerInv, NEW w \in Workers, NEW place, Runs(w), Moves(w, place), Quiet,
         conn' = conn
  PROVE  /\ \A v \in Workers : pc'[v] = "run" <=> pc[v] = "run"
         /\ \A v \in Workers : pc[v] = "run" =>
              Serving(v) \in FD /\ Serving(v)' = Serving(v)
         /\ \A v \in Workers : v # w => run'[v] = run[v]
         /\ Alone => Alone'
         /\ shared' = shared /\ reused' = reused
<1>1. fdOf' = fdOf /\ alive /\ alive' = alive /\ shared' = shared /\ reused' = reused
      /\ \A v \in Workers : v # w => run'[v] = run[v]
  BY DEF Moves, Runs, ghostVars
<1>2. task' = task /\ \A v \in Workers : pc'[v] = "run" <=> pc[v] = "run" BY DEF Quiet
<1>3. \A v \in Workers : pc[v] = "run" => Serving(v) \in FD /\ Serving(v)' = Serving(v)
  BY <1>1, <1>2, ServesOn
<1>4. Alone => Alone' BY <1>1, <1>2, <1>3 DEF Alone
<1>. QED BY <1>1, <1>2, <1>3, <1>4

(* What a worker reads comes after all that its client got. *)
LEMMA OrderedReads ==
  ASSUME ServerInv, Owns, Once, Ordered, NEW w \in Workers, NEW c \in Clients,
         Reads(w, c), Quiet
  PROVE  Ordered'
<1>. SUFFICES ASSUME ~ shared', ~ reused'
              PROVE  /\ Alone'
                     /\ \A d \in Clients : Rising(cl[d].got)'
                     /\ \A v \in Workers, d \in Clients : NextFor(v, d)'
  BY DEF Ordered
<1>1. Runs(w) /\ Moves(w, [pc |-> "write", buf |-> Received(c)]) /\ conn' = conn
  BY DEF Reads
<1>2. /\ \A v \in Workers : pc'[v] = "run" <=> pc[v] = "run"
      /\ \A v \in Workers : pc[v] = "run" =>
           Serving(v) \in FD /\ Serving(v)' = Serving(v)
      /\ \A v \in Workers : v # w => run'[v] = run[v]
      /\ Alone => Alone'
      /\ shared' = shared /\ reused' = reused
  BY <1>1, MovesServe
<1>3. \A d \in Clients : cl'[d].got = cl[d].got BY DEF Reads, Touches
<1>4. /\ Alone /\ \A d \in Clients : Rising(cl[d].got)
      /\ \A v \in Workers, d \in Clients : NextFor(v, d)
  BY <1>2 DEF Ordered
<1>5. \A d \in Clients : Rising(cl[d].got)' BY <1>3, <1>4
<1>6. PICK new \in Bufs : new = Received(c) BY ReceivedIs DEF Reads
<1>7. ASSUME NEW v \in Workers, NEW d \in Clients,
             pc'[v] = "run", run'[v].pc = "write", conn'[Serving(v)'] = d
      PROVE  Rising(run'[v].buf) /\ Below(cl'[d].got, run'[v].buf)
  <2>1. pc[v] = "run" /\ conn[Serving(v)] = d BY <1>1, <1>2, <1>7
  <2>2. CASE v # w
    <3>1. NextFor(v, d) /\ run'[v] = run[v] BY <1>2, <1>4, <2>2
    <3>. QED BY <1>3, <1>7, <2>1, <3>1 DEF NextFor
  <2>3. CASE v = w
    <3>1. d = c /\ run'[v].buf = new BY <1>1, <1>6, <2>1, <2>3 DEF Reads, Moves
    <3>2. cl[c].got \in Bufs /\ Known(cl[c].got) BY BufsAre DEF Once
    <3>3. \A i \in DOMAIN cl[c].got : cl[c].got[i][1] = c
      BY <1>2 DEF Owns, ClientOwn
    <3>4. Rising(new) /\ Below(cl[c].got, new) BY <1>6, <3>2, <3>3, ReadNew
    <3>. QED BY <1>3, <3>1, <3>4
  <2>. QED BY <2>2, <2>3
<1>. QED BY <1>2, <1>4, <1>5, <1>7 DEF NextFor

(* What a worker writes comes after all that its client got, and no other *)
(* worker has anything for this client.                                   *)
LEMMA OrderedWrites ==
  ASSUME ServerInv, ServerInv', Once, Ordered, NEW w \in Workers, NEW c \in Clients,
         NEW n \in Nat, Writes(w, c, n), Quiet
  PROVE  Ordered'
<1>. SUFFICES ASSUME ~ shared', ~ reused'
              PROVE  /\ Alone'
                     /\ \A d \in Clients : Rising(cl[d].got)'
                     /\ \A v \in Workers, d \in Clients : NextFor(v, d)'
  BY DEF Ordered
<1>1. Runs(w) /\ Moves(w, NotRunning) /\ conn' = conn BY DEF Writes
<1>2. /\ \A v \in Workers : pc'[v] = "run" <=> pc[v] = "run"
      /\ \A v \in Workers : pc[v] = "run" =>
           Serving(v) \in FD /\ Serving(v)' = Serving(v)
      /\ \A v \in Workers : v # w => run'[v] = run[v]
      /\ Alone => Alone'
      /\ shared' = shared /\ reused' = reused
  BY <1>1, MovesServe
<1>3. \A d \in Clients : d # c => cl'[d].got = cl[d].got BY DEF Writes, Touches
<1>4. /\ Alone /\ \A d \in Clients : Rising(cl[d].got)
      /\ \A v \in Workers, d \in Clients : NextFor(v, d)
  BY <1>2 DEF Ordered
<1>5. PICK got \in Bufs, buf \in Bufs : got = cl[c].got /\ buf = run[w].buf BY BufsAre
<1>6. PICK all \in Bufs : all = cl'[c].got BY DEF ServerInv, ServerTyped, Peer
<1>7. Rising(all)
  <2>1. all = got \o SubSeq(buf, 1, n) /\ n \in 0 .. Len(buf) BY <1>5, <1>6 DEF Writes
  <2>2. Grown(all, got, buf, n) BY <2>1, GotGrows
  <2>3. Distinct(got) /\ Distinct(buf) /\ Apart(buf, got) BY <1>5 DEF Once
  <2>4. NextFor(w, c) BY <1>4
  <2>5. Rising(got) /\ Rising(buf) /\ Below(got, buf)
    BY <1>4, <1>5, <2>4 DEF NextFor, Writes, Runs
  <2>. QED BY <2>2, <2>3, <2>5, WrittenOnce
<1>8. \A d \in Clients : Rising(cl[d].got)' BY <1>3, <1>4, <1>6, <1>7
<1>9. ASSUME NEW v \in Workers, NEW d \in Clients,
             pc'[v] = "run", run'[v].pc = "write", conn'[Serving(v)'] = d
      PROVE  Rising(run'[v].buf) /\ Below(cl'[d].got, run'[v].buf)
  <2>1. pc[v] = "run" /\ conn[Serving(v)] = d BY <1>1, <1>2, <1>9
  <2>2. v # w BY <1>1, <1>9, PlacesAre DEF Moves
  <2>3. d # c
    <3>1. SUFFICES ASSUME d = c PROVE FALSE OBVIOUS
    <3>2. pc[w] = "run" /\ alive /\ conn[Serving(w)] = c BY <1>1 DEF Writes, Runs
    <3>3. Serving(v) \in FD /\ Serving(w) \in FD BY <1>2, <2>1, <3>2
    <3>4. Serving(v) = Serving(w)
      BY <2>1, <3>1, <3>2, <3>3, ClientsAssumption DEF ServerInv, ConnInv
    <3>. QED BY <1>4, <2>1, <2>2, <3>2, <3>4 DEF Alone
  <2>4. NextFor(v, d) /\ run'[v] = run[v] BY <1>2, <1>4, <2>2
  <2>. QED BY <1>3, <1>9, <2>1, <2>3, <2>4 DEF NextFor
<1>. QED BY <1>2, <1>4, <1>8, <1>9 DEF NextFor

(* The order remains. *)
LEMMA OrderedStep ==
  ASSUME ServerInv, ServerInv', Owns, Once, Ordered, [Next]_vars
  PROVE  Ordered'
<1>1. CASE Exit
  <2>1. \A w \in Workers : run'[w].pc = "read"
    BY <1>1, PlacesAre DEF Exit, AtStart, Pool!Workers, Workers
  <2>2. ~ alive' /\ UNCHANGED <<shared, reused>> BY <1>1 DEF Exit, ghostVars
  <2>3. SameData BY <1>1, ExitEffect
  <2>. QED BY <2>1, <2>2, <2>3 DEF Ordered, Alone, NextFor, SameData
<1>2. CASE UNCHANGED vars
  <2>1. UNCHANGED <<pc, task, fdOf, run, conn, cl, alive, shared, reused>>
    BY <1>2 DEF vars, poolVars, kernelVars, ghostVars
  <2>. QED BY <2>1 DEF Ordered, Alone, NextFor, Serving
<1>. QED BY StepKinds, <1>1, <1>2, OrderedCalm, OrderedReads, OrderedWrites

(* At the start nothing has been read. *)
LEMMA OrderInit == ASSUME Init PROVE Once /\ Ordered
<1>1. \A w \in Workers : pc[w] # "run" BY DEF Init, Pool!Init, Pool!Workers, Workers
<1>2. \A w \in Workers : run[w].buf = <<>>
  BY PlacesAre DEF Init, AtStart, Pool!Workers, Workers
<1>3. \A c \in Clients : cl[c].got = <<>> BY DEF Init, NewClient
<1>4. DOMAIN <<>> = {} OBVIOUS
<1>5. Known(<<>>) BY <1>4 DEF Known
<1>6. Once BY <1>2, <1>3, <1>5, EmptyOnce DEF Once
<1>7. Ordered BY <1>1, <1>3, EmptyOnce DEF Ordered, Alone, NextFor
<1>. QED BY <1>6, <1>7

(* taskRun sends each unit back at most once, whatever the workers do to    *)
(* each other, and in the order it came as long as no two workers have read *)
(* from one descriptor at the same time and no number was given out while   *)
(* tasks still named it.                                                    *)
THEOREM EchoesOrdered == Spec => []EchoOrder
<1>1. Init => Owns /\ Once /\ Ordered BY OwnsInit, OrderInit
<1>2. ServerInv /\ ServerInv' /\ Owns /\ Once /\ Ordered /\ [Next]_vars
        => (Owns /\ Once /\ Ordered)'
  BY OwnsStep, OnceStep, OrderedStep
<1>3. ASSUME ServerInv, Once, Ordered PROVE EchoOrder
  <2>1. ASSUME NEW c \in Clients, NEW i \in DOMAIN cl[c].got, NEW j \in DOMAIN cl[c].got, i < j
        PROVE  /\ cl[c].got[i] # cl[c].got[j]
               /\ ~ shared /\ ~ reused => cl[c].got[i][2] < cl[c].got[j][2]
    <3>1. PICK got \in Bufs : got = cl[c].got BY <1>3, BufsAre
    <3>2. i \in Nat /\ j \in Nat /\ i # j BY <2>1, <3>1 DEF Bufs
    <3>3. Distinct(got) /\ (~ shared /\ ~ reused => Rising(got)) BY <1>3, <3>1 DEF Once, Ordered
    <3>. QED BY <2>1, <3>1, <3>2, <3>3 DEF Distinct, Rising
  <2>. QED BY <2>1 DEF EchoOrder
<1>. QED BY EpollPoolSafe, <1>1, <1>2, <1>3, PTL DEF Spec
=============================================================================
