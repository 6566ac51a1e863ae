-------------------------- MODULE SimplePoolProofs --------------------------
(***************************************************************************)
(* Proofs about SimplePool, for every number of workers, size of the ring, *)
(* set of callers and INT_MAX.  PoolInv is the inductive invariant: the    *)
(* lock discipline, what was tested under the lock, the two counters of    *)
(* the ring up to the point where they leave the int range, and the place  *)
(* of every task.  WorkersCoverTasks and CallersCoverRoom are inductive    *)
(* over it.                                                                *)
(***************************************************************************)
EXTENDS SimplePool, Sequences, FiniteSetTheorems, TLAPS

Count(D, f, S) == Cardinality({y \in D : f[y] \in S})

(* A thread that has locked pool_lock and not yet unlocked it owns it. *)
LockInv ==
  /\ \A w \in Workers : pc[w] \in {"test", "wait", "check"} => pool_lock = w
  /\ \A a \in Adders : apc[a] \in {"test", "wait"} => pool_lock = a

(* What a thread has tested under the lock holds until it sleeps. *)
RoomInv ==
  /\ \A w \in Workers : pc[w] = "wait" => job_num = 0
  /\ \A a \in Adders : apc[a] = "wait" => job_num = MaxJob

(* The calls of addtask that have not yet put their task. *)
Unput == {"lock", "test", "wait", "blocked", "relock"}

BeginInv == beginnum + Count(Adders, apc, Unput) <= calls + 1

(* The int i has been incremented n times from 0, each time after it was    *)
(* used as an index into tasks: a ring of one cell never notices that i     *)
(* wraps, any other ring is used for at most one negative i, INT_MIN, and   *)
(* only if max_job_num divides it.                                          *)
Counts(i, n) ==
  \/ MaxJob = 1
  \/ i = n /\ n <= IntMax
  \/ i = -IntMax - 1 /\ n = IntMax + 1
  \/ i = -IntMax /\ n = IntMax + 2 /\ (IntMax + 1) % MaxJob = 0

(* The tasks put into the ring and those taken out. *)
Puts == beginnum - 1
Pops == beginnum - 1 - job_num

RingInv ==
  /\ Pops >= 0
  /\ Counts(job_push, Puts) /\ Counts(job_pop, Pops)
  /\ \A k \in 0 .. NTasks : Pops <= k /\ k < Puts => tasks[k % MaxJob] = k + 1

(* A worker has a task from the time it takes one out until it has run it;  *)
(* it finds no task only because of shutdown.                               *)
HandInv ==
  \A w \in Workers :
    /\ pc[w] \notin {"check", "run"} => task[w] = NoTask
    /\ pc[w] = "run" => task[w] # NoTask
    /\ pc[w] = "check" /\ task[w] = NoTask => shutdown

(* A task is held by one worker or done, after it was taken out. *)
PlaceInv ==
  /\ \A w \in Workers : task[w] <= Pops /\ task[w] \notin done
  /\ \A t \in done : t <= Pops
  /\ \A v, w \in Workers : v # w /\ task[v] = task[w] => task[v] = NoTask

PoolInv ==
  /\ TypeOK /\ LockInv /\ RoomInv /\ BeginInv
  /\ RingInv /\ HandInv /\ PlaceInv
-----------------------------------------------------------------------------
(* Two different indices less than max_job_num apart name different cells. *)
LEMMA CellsApart ==
  ASSUME NEW k \in Nat, NEW n \in Nat, k < n, n < k + MaxJob
  PROVE  k % MaxJob # n % MaxJob
<1>. USE SizesAssumption
<1>1. PICK q \in Nat, r \in 0 .. MaxJob - 1 : k = MaxJob * q + r /\ k % MaxJob = r
  <2>1. k = MaxJob * (k \div MaxJob) + (k % MaxJob) OBVIOUS
  <2>2. k \div MaxJob \in Nat /\ k % MaxJob \in 0 .. MaxJob - 1 OBVIOUS
  <2>. QED BY <2>1, <2>2
<1>2. PICK p \in Nat, s \in 0 .. MaxJob - 1 : n = MaxJob * p + s /\ n % MaxJob = s
  <2>1. n = MaxJob * (n \div MaxJob) + (n % MaxJob) OBVIOUS
  <2>2. n \div MaxJob \in Nat /\ n % MaxJob \in 0 .. MaxJob - 1 OBVIOUS
  <2>. QED BY <2>1, <2>2
<1>3. SUFFICES ASSUME r = s PROVE FALSE BY <1>1, <1>2
<1>4. 0 < MaxJob * (p - q) /\ MaxJob * (p - q) < MaxJob
  BY <1>1, <1>2, <1>3
<1>5. p - q >= 1 BY <1>4
<1>6. MaxJob * (p - q) >= MaxJob BY <1>5
<1>. QED BY <1>4, <1>6

(* The remainder of a successor. *)
LEMMA ModSucc ==
  ASSUME NEW k \in Nat, (k + 1) % MaxJob = 0, MaxJob # 1
  PROVE  k % MaxJob # 0
<1>1. MaxJob > 1 BY SizesAssumption
<1>. QED BY <1>1, CellsApart, SizesAssumption

(* Cell is the C remainder of an index, and a cell of the ring when the     *)
(* index is not negative.                                                   *)
LEMMA CellIs ==
  ASSUME NEW n \in Nat
  PROVE  Cell(n) = n % MaxJob /\ n % MaxJob \in Cells
BY SizesAssumption DEF Cell, Cells

(* The C remainder of a negative index is not positive. *)
LEMMA CellOfMinus ==
  ASSUME NEW n \in Nat \ {0}
  PROVE  Cell(-n) = -(n % MaxJob) /\ n % MaxJob \in Nat
<1>1. ~(-n >= 0) /\ -(-n) = n OBVIOUS
<1>2. n % MaxJob \in Nat BY SizesAssumption
<1>. QED BY <1>1, <1>2 DEF Cell

(* A ring of one cell has one index, whatever the sign. *)
LEMMA OneCell ==
  ASSUME MaxJob = 1, NEW i \in Int
  PROVE  Cell(i) = 0
<1>1. \A n \in Nat : n % 1 = 0 OBVIOUS
<1>2. CASE i >= 0 BY <1>1, <1>2 DEF Cell
<1>3. CASE i < 0
  <2>1. -i \in Nat BY <1>3
  <2>. QED BY <1>1, <1>3, <2>1 DEF Cell
<1>. QED BY <1>2, <1>3

(* An index that counts n increments names cell n % max_job_num if it names *)
(* a cell at all, and still counts after one more.                          *)
LEMMA CountsIncr ==
  ASSUME NEW i \in -IntMax - 1 .. IntMax, NEW n \in Nat, Counts(i, n), Cell(i) \in Cells
  PROVE  /\ Cell(i) = n % MaxJob
         /\ Counts(Incr(i), n + 1)
         /\ Incr(i) \in -IntMax - 1 .. IntMax
<1>. USE SizesAssumption
<1>1. Incr(i) \in -IntMax - 1 .. IntMax BY DEF Incr
<1>2. CASE MaxJob = 1
  <2>1. Cell(i) = 0 BY <1>2, OneCell
  <2>2. n % MaxJob = 0 BY <1>2
  <2>. QED BY <1>1, <1>2, <2>1, <2>2 DEF Counts
<1>3. CASE MaxJob # 1 /\ i = n /\ n <= IntMax
  BY <1>1, <1>3, CellIs DEF Counts, Incr
<1>4. CASE MaxJob # 1 /\ i = -IntMax - 1 /\ n = IntMax + 1
  <2>1. i = -(IntMax + 1) BY <1>4
  <2>2. Cell(i) = -((IntMax + 1) % MaxJob) /\ (IntMax + 1) % MaxJob \in Nat
    <3>1. IntMax + 1 \in Nat \ {0} OBVIOUS
    <3>. QED BY <2>1, <3>1, CellOfMinus
  <2>3. (IntMax + 1) % MaxJob = 0 BY <2>2 DEF Cells
  <2>4. Incr(i) = -IntMax BY <1>4 DEF Incr
  <2>. QED BY <1>1, <1>4, <2>2, <2>3, <2>4 DEF Counts
<1>5. CASE MaxJob # 1 /\ i = -IntMax /\ n = IntMax + 2 /\ (IntMax + 1) % MaxJob = 0
  <2>1. IntMax % MaxJob # 0 BY <1>5, ModSucc
  <2>2. Cell(i) = -(IntMax % MaxJob) /\ IntMax % MaxJob \in Nat
    BY <1>5, CellOfMinus
  <2>. QED BY <2>1, <2>2 DEF Cells
<1>. QED BY <1>2, <1>3, <1>4, <1>5 DEF Counts

(* How the number of threads in S changes when the thread x moves. *)
LEMMA CountNat ==
  ASSUME NEW D, IsFiniteSet(D), NEW f, NEW S
  PROVE  Count(D, f, S) \in Nat
BY FS_Subset, FS_CardinalityType DEF Count

(* A thread that stays on its side of S does not change the count. *)
LEMMA CountSame ==
  ASSUME NEW D, NEW f, NEW g, NEW x \in D, NEW S,
         \A y \in D : y # x => g[y] = f[y], f[x] \in S <=> g[x] \in S
  PROVE  Count(D, g, S) = Count(D, f, S)
<1>1. {y \in D : f[y] \in S} = {y \in D : g[y] \in S} OBVIOUS
<1>. QED BY <1>1 DEF Count

(* A thread that leaves S lowers it by one. *)
LEMMA CountLess ==
  ASSUME NEW D, IsFiniteSet(D), NEW f, NEW g, NEW x \in D, NEW S,
         \A y \in D : y # x => g[y] = f[y], f[x] \in S, g[x] \notin S
  PROVE  Count(D, g, S) = Count(D, f, S) - 1
<1>. DEFINE F == {y \in D : f[y] \in S}
            G == {y \in D : g[y] \in S}
<1>1. IsFiniteSet(F) BY FS_Subset
<1>2. x \in F /\ G = F \ {x} OBVIOUS
<1>3. Cardinality(G) = Cardinality(F) - 1 BY <1>1, <1>2, FS_RemoveElement
<1>. QED BY <1>3 DEF Count

(* A thread that enters S raises it by one. *)
LEMMA CountMore ==
  ASSUME NEW D, IsFiniteSet(D), NEW f, NEW g, NEW x \in D, NEW S,
         \A y \in D : y # x => g[y] = f[y], f[x] \notin S, g[x] \in S
  PROVE  Count(D, g, S) = Count(D, f, S) + 1
<1>. DEFINE F == {y \in D : f[y] \in S}
            G == {y \in D : g[y] \in S}
<1>1. IsFiniteSet(F) BY FS_Subset
<1>2. x \notin F /\ G = F \cup {x} OBVIOUS
<1>3. Cardinality(G) = Cardinality(F) + 1 BY <1>1, <1>2, FS_AddElement
<1>. QED BY <1>3 DEF Count

(* pthread_cond_signal wakes one sleeping thread if there is one. *)
LEMMA SignalledIs ==
  ASSUME NEW D, NEW S, NEW p \in [D -> S], NEW q \in Signalled(p)
  PROVE  \/ q = p /\ \A t \in D : p[t] # "blocked"
         \/ \E t \in D : p[t] = "blocked" /\ q = [p EXCEPT ![t] = "relock"]
BY DEF Signalled
-----------------------------------------------------------------------------
USE DEF Workers, Cells, Task, NoTask, NoOne, WorkerPc, AdderPc, DestroyPc,
        queueVars, workerVars, adderVars

(* A caller about to put its task has a number for it: the calls begun      *)
(* outnumber the tasks put.                                                 *)
LEMMA UnputNumber ==
  ASSUME TypeOK, BeginInv, NEW a \in Adders, apc[a] \in Unput
  PROVE  beginnum \in Task
<1>. DEFINE U == {b \in Adders : apc[b] \in Unput}
<1>1. IsFiniteSet(U) BY FS_Subset, AdderAssumption
<1>2. Cardinality(U) \in Nat /\ Cardinality(U) # 0
  BY <1>1, FS_CardinalityType, FS_EmptySet
<1>3. beginnum + Cardinality(U) <= calls + 1 BY DEF BeginInv, Count
<1>. HIDE DEF U
<1>. QED BY <1>2, <1>3, SizesAssumption DEF TypeOK

(* What AddPut does to the ring. *)
LEMMA PutFacts ==
  ASSUME PoolInv, NEW a \in Adders, AddPut(a)
  PROVE  /\ job_num \in 0 .. MaxJob - 1 /\ job_num' = job_num + 1
         /\ beginnum \in Task /\ beginnum' = beginnum + 1
         /\ Puts \in Nat /\ Puts' = Puts + 1 /\ Pops \in Nat /\ Pops' = Pops
         /\ Cell(job_push) = Puts % MaxJob
         /\ tasks' = [tasks EXCEPT ![Puts % MaxJob] = beginnum]
         /\ Counts(job_push', Puts')
         /\ job_push' \in -IntMax - 1 .. IntMax
<1>. USE SizesAssumption
<1>0. TypeOK /\ BeginInv /\ RingInv BY DEF PoolInv
<1>1. job_num \in 0 .. MaxJob - 1 /\ job_num' = job_num + 1
  BY <1>0 DEF AddPut, Full, TypeOK
<1>2. beginnum \in Task /\ beginnum' = beginnum + 1
  <2>1. apc[a] \in Unput BY DEF AddPut, Unput
  <2>. QED BY <1>0, <2>1, UnputNumber DEF AddPut
<1>3. Puts \in Nat /\ Puts' = Puts + 1 BY <1>2 DEF Puts
<1>4. Pops \in Nat /\ Pops' = Pops BY <1>0, <1>1, <1>2 DEF Pops, RingInv
<1>5. /\ Cell(job_push) = Puts % MaxJob
      /\ Counts(Incr(job_push), Puts + 1)
      /\ Incr(job_push) \in -IntMax - 1 .. IntMax
  <2>1. /\ job_push \in -IntMax - 1 .. IntMax /\ Counts(job_push, Puts)
        /\ Cell(job_push) \in Cells
    BY <1>0 DEF TypeOK, RingInv, AddPut
  <2>. QED BY <1>3, <2>1, CountsIncr
<1>6. job_push' = Incr(job_push) /\ tasks' = [tasks EXCEPT ![Cell(job_push)] = beginnum]
  BY DEF AddPut
<1>. QED BY <1>1, <1>2, <1>3, <1>4, <1>5, <1>6

(* What WorkerPop takes out: the oldest task, whose number is one more than *)
(* the tasks taken out so far.                                              *)
LEMMA PopFacts ==
  ASSUME PoolInv, NEW w \in Workers, WorkerPop(w)
  PROVE  /\ job_num \in 1 .. MaxJob /\ job_num' = job_num - 1
         /\ Pops \in Nat /\ Pops' = Pops + 1 /\ Puts' = Puts
         /\ Pops + 1 \in Task
         /\ task' = [task EXCEPT ![w] = Pops + 1]
         /\ Counts(job_pop', Pops')
         /\ job_pop' \in -IntMax - 1 .. IntMax
<1>. USE SizesAssumption
<1>0. TypeOK /\ RingInv BY DEF PoolInv
<1>1. job_num \in 1 .. MaxJob /\ job_num' = job_num - 1
  BY <1>0 DEF WorkerPop, TypeOK
<1>2. beginnum \in 1 .. NTasks + 1 /\ beginnum' = beginnum BY <1>0 DEF WorkerPop, TypeOK
<1>3. Pops \in Nat /\ Pops' = Pops + 1 /\ Puts' = Puts
  BY <1>0, <1>1, <1>2 DEF Pops, Puts, RingInv
<1>4. Pops + 1 \in Task /\ Pops < Puts /\ Pops \in 0 .. NTasks
  BY <1>1, <1>2, <1>3 DEF Pops, Puts
<1>5. /\ Cell(job_pop) = Pops % MaxJob
      /\ Counts(Incr(job_pop), Pops + 1)
      /\ Incr(job_pop) \in -IntMax - 1 .. IntMax
  <2>1. /\ job_pop \in -IntMax - 1 .. IntMax /\ Counts(job_pop, Pops)
        /\ Cell(job_pop) \in Cells
    BY <1>0 DEF TypeOK, RingInv, WorkerPop
  <2>. QED BY <1>3, <2>1, CountsIncr
<1>6. tasks[Pops % MaxJob] = Pops + 1 BY <1>0, <1>3, <1>4 DEF RingInv
<1>7. job_pop' = Incr(job_pop) /\ task' = [task EXCEPT ![w] = tasks[Cell(job_pop)]]
  BY DEF WorkerPop
<1>. QED BY <1>1, <1>3, <1>4, <1>5, <1>6, <1>7

(* A signal leaves the workers where they are, except the one it wakes. *)
LEMMA SignalWorkers ==
  ASSUME pc \in [Workers -> WorkerPc], NEW q \in Signalled(pc)
  PROVE  /\ q \in [Workers -> WorkerPc]
         /\ \A t \in Workers : q[t] = pc[t] \/ (pc[t] = "blocked" /\ q[t] = "relock")
<1>1. CASE q = pc BY <1>1
<1>2. CASE \E t \in Workers : pc[t] = "blocked" /\ q = [pc EXCEPT ![t] = "relock"]
  BY <1>2
<1>. QED BY <1>1, <1>2 DEF Signalled

(* The same for the callers. *)
LEMMA SignalAdders ==
  ASSUME apc \in [Adders -> AdderPc], NEW q \in Signalled(apc)
  PROVE  /\ q \in [Adders -> AdderPc]
         /\ \A t \in Adders : q[t] = apc[t] \/ (apc[t] = "blocked" /\ q[t] = "relock")
<1>1. CASE q = apc BY <1>1
<1>2. CASE \E t \in Adders : apc[t] = "blocked" /\ q = [apc EXCEPT ![t] = "relock"]
  BY <1>2
<1>. QED BY <1>1, <1>2 DEF Signalled

(* The variables keep their types. *)
LEMMA TypeStep ==
  ASSUME PoolInv, [Next]_vars
  PROVE  TypeOK'
<1>. USE SizesAssumption
<1>0. TypeOK BY DEF PoolInv
<1>1. ASSUME NEW a \in Adders, AddPut(a) PROVE TypeOK'
  <2>1. /\ job_num' \in 0 .. MaxJob /\ beginnum' \in 1 .. NTasks + 1
        /\ job_push' \in -IntMax - 1 .. IntMax
    BY <1>1, PutFacts
  <2>2. tasks' \in [Cells -> Task \cup {NoTask}]
    <3>1. beginnum \in Task BY <1>1, PutFacts
    <3>. QED BY <1>0, <1>1, <3>1 DEF TypeOK, AddPut
  <2>. QED BY <1>0, <1>1, <2>1, <2>2 DEF TypeOK, AddPut
<1>2. ASSUME NEW w \in Workers, WorkerPop(w) PROVE TypeOK'
  <2>1. job_num' \in 0 .. MaxJob /\ job_pop' \in -IntMax - 1 .. IntMax
    BY <1>2, PopFacts
  <2>2. task' \in [Workers -> Task \cup {NoTask}] BY <1>0, <1>2, PopFacts DEF TypeOK
  <2>3. apc' \in [Adders -> AdderPc] BY <1>0, <1>2, SignalAdders DEF TypeOK, WorkerPop
  <2>. QED BY <1>0, <1>2, <2>1, <2>2, <2>3 DEF TypeOK, WorkerPop, Goto
<1>3. ASSUME NEW w \in Workers, WorkerRun(w) PROVE TypeOK'
  <2>1. task[w] \in Task BY <1>0, <1>3 DEF PoolInv, HandInv, WorkerRun, Goto, TypeOK
  <2>. QED BY <1>0, <1>3, <2>1 DEF TypeOK, WorkerRun, Goto
<1>4. ASSUME NEW a \in Adders, AddSignal(a) PROVE TypeOK'
  <2>1. pc' \in [Workers -> WorkerPc] BY <1>0, <1>4, SignalWorkers DEF TypeOK, AddSignal
  <2>. QED BY <1>0, <1>4, <2>1 DEF TypeOK, AddSignal
<1>5. ASSUME NEW a \in Adders,
             AddCall(a) \/ AddLock(a) \/ AddTestFull(a) \/ AddWait(a)
      PROVE  TypeOK'
  <2>1. CASE AddCall(a) BY <1>0, <2>1 DEF TypeOK, AddCall
  <2>2. CASE AddLock(a) BY <1>0, <2>2 DEF TypeOK, AddLock
  <2>3. CASE AddTestFull(a) BY <1>0, <2>3 DEF TypeOK, AddTestFull
  <2>4. CASE AddWait(a) BY <1>0, <2>4 DEF TypeOK, AddWait
  <2>. QED BY <1>5, <2>1, <2>2, <2>3, <2>4
<1>6. ASSUME NEW w \in Workers,
             \/ WorkerLock(w) \/ WorkerTestEmpty(w) \/ WorkerWait(w)
             \/ WorkerNoJob(w) \/ WorkerExit(w) \/ WorkerUnlock(w)
      PROVE  TypeOK'
  BY <1>0, <1>6 DEF TypeOK, WorkerLock, WorkerTestEmpty, WorkerWait,
     WorkerNoJob, WorkerExit, WorkerUnlock, Goto
<1>7. CASE destroy_threadpool
  BY <1>0, <1>7 DEF TypeOK, destroy_threadpool, DestroyShutdown, DestroyBroadcast, DestroyFree
<1>8. CASE Wakeup
  BY <1>0, <1>8 DEF TypeOK, Wakeup, Goto
<1>9. CASE UNCHANGED vars
  BY <1>0, <1>9 DEF TypeOK, vars
<1>. QED BY <1>1, <1>2, <1>3, <1>4, <1>5, <1>6, <1>7, <1>8, <1>9
         DEF Next, addtask, thrRun
-----------------------------------------------------------------------------
(* No step enters a critical section without the lock or frees the lock of  *)
(* a thread that is in one; what was tested in it stays true.               *)
LEMMA LockStep ==
  ASSUME PoolInv, [Next]_vars
  PROVE  LockInv' /\ RoomInv'
<1>. USE SizesAssumption, AdderAssumption
<1>0. TypeOK /\ LockInv /\ RoomInv BY DEF PoolInv
<1>1. ASSUME NEW a \in Adders, addtask(a) PROVE LockInv' /\ RoomInv'
  <2>1. CASE AddCall(a) BY <1>0, <2>1 DEF TypeOK, LockInv, RoomInv, AddCall
  <2>2. CASE AddLock(a) BY <1>0, <2>2 DEF TypeOK, LockInv, RoomInv, AddLock
  <2>3. CASE AddTestFull(a)
    BY <1>0, <2>3 DEF TypeOK, LockInv, RoomInv, AddTestFull, Full
  <2>4. CASE AddWait(a) BY <1>0, <2>4 DEF TypeOK, LockInv, RoomInv, AddWait
  <2>5. CASE AddPut(a) BY <1>0, <2>5 DEF TypeOK, LockInv, RoomInv, AddPut
  <2>6. CASE AddSignal(a)
    <3>1. \A w \in Workers : pc'[w] = pc[w] \/ (pc[w] = "blocked" /\ pc'[w] = "relock")
      BY <1>0, <2>6, SignalWorkers DEF TypeOK, AddSignal
    <3>. QED BY <1>0, <2>6, <3>1 DEF TypeOK, LockInv, RoomInv, AddSignal
  <2>. QED BY <1>1, <2>1, <2>2, <2>3, <2>4, <2>5, <2>6 DEF addtask
<1>2. ASSUME NEW w \in Workers, thrRun(w) PROVE LockInv' /\ RoomInv'
  <2>1. CASE WorkerLock(w)
    BY <1>0, <2>1 DEF TypeOK, LockInv, RoomInv, WorkerLock, Goto
  <2>2. CASE WorkerTestEmpty(w)
    BY <1>0, <2>2 DEF TypeOK, LockInv, RoomInv, WorkerTestEmpty, Goto
  <2>3. CASE WorkerWait(w)
    BY <1>0, <2>3 DEF TypeOK, LockInv, RoomInv, WorkerWait, Goto
  <2>4. CASE WorkerPop(w)
    <3>1. \A a \in Adders : apc'[a] = apc[a] \/ (apc[a] = "blocked" /\ apc'[a] = "relock")
      BY <1>0, <2>4, SignalAdders DEF TypeOK, WorkerPop
    <3>. QED BY <1>0, <2>4, <3>1 DEF TypeOK, LockInv, RoomInv, WorkerPop, Goto
  <2>5. CASE WorkerNoJob(w)
    BY <1>0, <2>5 DEF TypeOK, LockInv, RoomInv, WorkerNoJob, Goto
  <2>6. CASE WorkerExit(w)
    BY <1>0, <2>6 DEF TypeOK, LockInv, RoomInv, WorkerExit, Goto
  <2>7. CASE WorkerUnlock(w)
    BY <1>0, <2>7 DEF TypeOK, LockInv, RoomInv, WorkerUnlock, Goto
  <2>8. CASE WorkerRun(w)
    BY <1>0, <2>8 DEF TypeOK, LockInv, RoomInv, WorkerRun, Goto
  <2>. QED BY <1>2, <2>1, <2>2, <2>3, <2>4, <2>5, <2>6, <2>7, <2>8 DEF thrRun
<1>3. CASE destroy_threadpool
  BY <1>0, <1>3 DEF TypeOK, LockInv, RoomInv, destroy_threadpool, DestroyShutdown,
     DestroyBroadcast, DestroyFree
<1>4. CASE Wakeup
  BY <1>0, <1>4 DEF TypeOK, LockInv, RoomInv, Wakeup, Goto
<1>5. CASE UNCHANGED vars
  BY <1>0, <1>5 DEF LockInv, RoomInv, vars
<1>. QED BY <1>1, <1>2, <1>3, <1>4, <1>5 DEF Next

(* The thread x has moved to l, no other has moved. *)
Moved(D, f, g, x, l) == g[x] = l /\ \A y \in D : y # x => g[y] = f[y]

(* The place a caller moves to decides how the counts of callers change. *)
LEMMA AdderMove ==
  ASSUME NEW a \in Adders, NEW l, Moved(Adders, apc, apc', a, l), NEW S
  PROVE  /\ Count(Adders, apc, S) \in Nat
         /\ (apc[a] \in S <=> l \in S) => Count(Adders, apc', S) = Count(Adders, apc, S)
         /\ apc[a] \in S /\ l \notin S => Count(Adders, apc', S) = Count(Adders, apc, S) - 1
         /\ apc[a] \notin S /\ l \in S => Count(Adders, apc', S) = Count(Adders, apc, S) + 1
<1>1. apc'[a] = l /\ \A y \in Adders : y # a => apc'[y] = apc[y] BY DEF Moved
<1>2. IsFiniteSet(Adders) BY AdderAssumption
<1>3. Count(Adders, apc, S) \in Nat BY <1>2, CountNat
<1>4. ASSUME apc[a] \in S <=> l \in S PROVE Count(Adders, apc', S) = Count(Adders, apc, S)
  BY <1>1, <1>4, CountSame
<1>5. ASSUME apc[a] \in S, l \notin S PROVE Count(Adders, apc', S) = Count(Adders, apc, S) - 1
  BY <1>1, <1>2, <1>5, CountLess
<1>6. ASSUME apc[a] \notin S, l \in S PROVE Count(Adders, apc', S) = Count(Adders, apc, S) + 1
  BY <1>1, <1>2, <1>6, CountMore
<1>. QED BY <1>3, <1>4, <1>5, <1>6

(* The same for the workers. *)
LEMMA WorkerMove ==
  ASSUME NEW w \in Workers, NEW l, Moved(Workers, pc, pc', w, l), NEW S
  PROVE  /\ Count(Workers, pc, S) \in Nat
         /\ (pc[w] \in S <=> l \in S) => Count(Workers, pc', S) = Count(Workers, pc, S)
         /\ pc[w] \in S /\ l \notin S => Count(Workers, pc', S) = Count(Workers, pc, S) - 1
         /\ pc[w] \notin S /\ l \in S => Count(Workers, pc', S) = Count(Workers, pc, S) + 1
<1>1. pc'[w] = l /\ \A y \in Workers : y # w => pc'[y] = pc[y] BY DEF Moved
<1>2. IsFiniteSet(Workers) BY FS_Interval, SizesAssumption
<1>. HIDE DEF Workers
<1>3. Count(Workers, pc, S) \in Nat BY <1>2, CountNat
<1>4. ASSUME pc[w] \in S <=> l \in S PROVE Count(Workers, pc', S) = Count(Workers, pc, S)
  BY <1>1, <1>4, CountSame
<1>5. ASSUME pc[w] \in S, l \notin S PROVE Count(Workers, pc', S) = Count(Workers, pc, S) - 1
  BY <1>1, <1>2, <1>5, CountLess
<1>6. ASSUME pc[w] \notin S, l \in S PROVE Count(Workers, pc', S) = Count(Workers, pc, S) + 1
  BY <1>1, <1>2, <1>6, CountMore
<1>. QED BY <1>3, <1>4, <1>5, <1>6

(* A call is counted before its task is numbered. *)
LEMMA BeginStep ==
  ASSUME PoolInv, [Next]_vars
  PROVE  BeginInv'
<1>. DEFINE n == Count(Adders, apc, Unput)
<1>0. TypeOK /\ beginnum + n <= calls + 1 BY DEF PoolInv, BeginInv
<1>1. beginnum \in Int /\ calls \in Int BY <1>0, SizesAssumption DEF TypeOK
<1>2. ASSUME NEW a \in Adders, AddCall(a) PROVE BeginInv'
  <2>0. apc[a] \notin Unput /\ "lock" \in Unput /\ Moved(Adders, apc, apc', a, "lock")
    BY <1>0, <1>2 DEF AddCall, Unput, Moved, TypeOK
  <2>1. n' = n + 1 /\ n \in Nat BY <2>0, AdderMove
  <2>2. beginnum' = beginnum /\ calls' = calls + 1 BY <1>2 DEF AddCall
  <2>. QED BY <1>0, <1>1, <2>1, <2>2 DEF BeginInv
<1>3. ASSUME NEW a \in Adders, AddPut(a) PROVE BeginInv'
  <2>0. apc[a] \in Unput /\ "signal" \notin Unput /\ Moved(Adders, apc, apc', a, "signal")
    BY <1>0, <1>3 DEF AddPut, Unput, Moved, TypeOK
  <2>1. n' = n - 1 /\ n \in Nat BY <2>0, AdderMove
  <2>2. beginnum' = beginnum + 1 /\ calls' = calls BY <1>3 DEF AddPut
  <2>. QED BY <1>0, <1>1, <2>1, <2>2 DEF BeginInv
<1>4. ASSUME UNCHANGED <<beginnum, calls>>,
             NEW a \in Adders, NEW l \in AdderPc, Moved(Adders, apc, apc', a, l),
             apc[a] \in Unput <=> l \in Unput
      PROVE  BeginInv'
  <2>1. apc[a] \in Unput <=> l \in Unput BY <1>4
  <2>2. (apc[a] \in Unput <=> l \in Unput) => n' = n BY <1>4, AdderMove
  <2>. QED BY <1>0, <1>4, <2>1, <2>2 DEF BeginInv
<1>5. ASSUME UNCHANGED <<beginnum, calls, apc>> PROVE BeginInv'
  BY <1>0, <1>5 DEF BeginInv
<1>6. ASSUME NEW a \in Adders,
             AddLock(a) \/ AddTestFull(a) \/ AddWait(a) \/ AddSignal(a)
      PROVE  BeginInv'
  <2>1. /\ UNCHANGED <<beginnum, calls>>
        /\ \E l \in AdderPc : /\ Moved(Adders, apc, apc', a, l)
                              /\ apc[a] \in Unput <=> l \in Unput
    BY <1>0, <1>6 DEF AddLock, AddTestFull, AddWait, AddSignal, Unput, Moved, TypeOK
  <2>. QED BY <1>4, <2>1
<1>7. ASSUME NEW w \in Workers, WorkerPop(w) PROVE BeginInv'
  <2>1. UNCHANGED <<beginnum, calls>> BY <1>7 DEF WorkerPop
  <2>2. \/ apc' = apc
        \/ \E a \in Adders : apc[a] = "blocked" /\ Moved(Adders, apc, apc', a, "relock")
    BY <1>0, <1>7 DEF WorkerPop, Signalled, TypeOK, Moved
  <2>3. "relock" \in AdderPc /\ "relock" \in Unput /\ "blocked" \in Unput BY DEF Unput
  <2>. QED BY <1>4, <1>5, <2>1, <2>2, <2>3
<1>8. CASE Wakeup
  <2>1. UNCHANGED <<beginnum, calls>> BY <1>8 DEF Wakeup
  <2>2. \/ apc' = apc
        \/ \E a \in Adders : apc[a] = "blocked" /\ Moved(Adders, apc, apc', a, "relock")
    BY <1>0, <1>8 DEF Wakeup, Moved, TypeOK
  <2>3. "relock" \in AdderPc /\ "relock" \in Unput /\ "blocked" \in Unput BY DEF Unput
  <2>. QED BY <1>4, <1>5, <2>1, <2>2, <2>3
<1>9. \/ \E a \in Adders : \/ AddCall(a) \/ AddLock(a) \/ AddTestFull(a) \/ AddWait(a)
                          \/ AddPut(a) \/ AddSignal(a)
      \/ \E w \in Workers : WorkerPop(w)
      \/ Wakeup
      \/ UNCHANGED <<beginnum, calls, apc>>
  BY DEF Next, vars, addtask, thrRun, WorkerLock, WorkerTestEmpty, WorkerWait, WorkerNoJob,
     WorkerExit, WorkerUnlock, WorkerRun, destroy_threadpool, DestroyShutdown,
     DestroyBroadcast, DestroyFree
<1>. QED BY <1>2, <1>3, <1>5, <1>6, <1>7, <1>8, <1>9
-----------------------------------------------------------------------------
(* The tasks in the ring are the ones put and not taken out, and neither a  *)
(* put nor a pop disturbs their cells.                                      *)
LEMMA RingStep ==
  ASSUME PoolInv, [Next]_vars
  PROVE  RingInv'
<1>. USE SizesAssumption
<1>0. TypeOK /\ RingInv BY DEF PoolInv
<1>1. ASSUME NEW a \in Adders, AddPut(a) PROVE RingInv'
  <2>1. /\ job_num \in 0 .. MaxJob - 1
        /\ Puts \in Nat /\ Puts' = Puts + 1 /\ Pops \in Nat /\ Pops' = Pops
        /\ Counts(job_push', Puts')
    BY <1>1, PutFacts
  <2>2. beginnum = Puts + 1 /\ Puts = Pops + job_num
    BY <1>0 DEF Puts, Pops, TypeOK
  <2>3. tasks' = [tasks EXCEPT ![Puts % MaxJob] = Puts + 1]
    BY <1>1, <2>2, PutFacts
  <2>4. Counts(job_pop', Pops') BY <1>0, <1>1, <2>1 DEF RingInv, AddPut
  <2>5. ASSUME NEW k \in 0 .. NTasks, Pops <= k, k < Puts + 1
        PROVE  tasks'[k % MaxJob] = k + 1
    <3>1. k % MaxJob \in Cells /\ Puts % MaxJob \in Cells /\ DOMAIN tasks = Cells
      BY <1>0, <2>1 DEF TypeOK
    <3>2. CASE k = Puts BY <2>3, <3>1, <3>2
    <3>3. CASE k < Puts
      <4>1. k \in Nat /\ Puts < k + MaxJob BY <2>1, <2>2, <2>5
      <4>2. k % MaxJob # Puts % MaxJob BY <2>1, <3>3, <4>1, CellsApart
      <4>3. tasks[k % MaxJob] = k + 1 BY <1>0, <2>5, <3>3 DEF RingInv
      <4>. QED BY <2>3, <3>1, <4>2, <4>3
    <3>. QED BY <2>1, <2>5, <3>2, <3>3
  <2>. QED BY <2>1, <2>4, <2>5 DEF RingInv
<1>2. ASSUME NEW w \in Workers, WorkerPop(w) PROVE RingInv'
  <2>1. /\ Pops \in Nat /\ Pops' = Pops + 1 /\ Puts' = Puts /\ Counts(job_pop', Pops')
    BY <1>2, PopFacts
  <2>2. job_push' = job_push /\ tasks' = tasks BY <1>2 DEF WorkerPop
  <2>3. \A k \in 0 .. NTasks : Pops + 1 <= k => Pops <= k BY <2>1
  <2>. QED BY <1>0, <2>1, <2>2, <2>3 DEF RingInv
<1>3. CASE UNCHANGED queueVars
  BY <1>0, <1>3 DEF RingInv, Puts, Pops
<1>4. \/ \E a \in Adders : AddPut(a)
      \/ \E w \in Workers : WorkerPop(w)
      \/ UNCHANGED queueVars
  BY DEF Next, vars, addtask, AddCall, AddLock, AddTestFull, AddWait, AddSignal,
     thrRun, WorkerLock, WorkerTestEmpty, WorkerWait, WorkerNoJob,
     WorkerExit, WorkerUnlock, WorkerRun, destroy_threadpool, DestroyShutdown,
     DestroyBroadcast, DestroyFree, Wakeup
<1>. QED BY <1>1, <1>2, <1>3, <1>4

(* A worker gets a task at WorkerPop and gives it up when it has run it or, *)
(* on shutdown, when it exits.                                              *)
LEMMA HandStep ==
  ASSUME PoolInv, [Next]_vars
  PROVE  HandInv'
<1>0. TypeOK /\ HandInv BY DEF PoolInv
<1>1. ASSUME NEW w \in Workers, WorkerPop(w) PROVE HandInv'
  <2>1. \A v \in Workers : task'[v] = IF v = w THEN Pops + 1 ELSE task[v]
    BY <1>0, <1>1, PopFacts DEF TypeOK
  <2>2. Pops + 1 # NoTask BY <1>1, PopFacts
  <2>3. \A v \in Workers : pc'[v] = IF v = w THEN "check" ELSE pc[v]
    BY <1>0, <1>1 DEF WorkerPop, Goto, TypeOK
  <2>4. shutdown' = shutdown BY <1>1 DEF WorkerPop
  <2>. QED BY <1>0, <2>1, <2>2, <2>3, <2>4 DEF HandInv
<1>2. ASSUME NEW a \in Adders, addtask(a) PROVE HandInv'
  <2>1. \A w \in Workers : pc'[w] = pc[w] \/ (pc[w] = "blocked" /\ pc'[w] = "relock")
    BY <1>0, <1>2, SignalWorkers DEF TypeOK, addtask, AddCall, AddLock, AddTestFull,
       AddWait, AddPut, AddSignal
  <2>2. UNCHANGED <<task, shutdown>>
    BY <1>2 DEF addtask, AddCall, AddLock, AddTestFull, AddWait, AddPut, AddSignal
  <2>. QED BY <1>0, <2>1, <2>2 DEF HandInv
<1>3. ASSUME NEW w \in Workers,
             \/ WorkerLock(w) \/ WorkerTestEmpty(w) \/ WorkerWait(w) \/ WorkerNoJob(w)
             \/ WorkerExit(w) \/ WorkerUnlock(w) \/ WorkerRun(w)
      PROVE  HandInv'
  BY <1>0, <1>3 DEF TypeOK, HandInv, WorkerLock, WorkerTestEmpty, WorkerWait, WorkerNoJob,
     WorkerExit, WorkerUnlock, WorkerRun, Goto
<1>4. CASE destroy_threadpool
  BY <1>0, <1>4 DEF TypeOK, HandInv, destroy_threadpool, DestroyShutdown, DestroyBroadcast,
     DestroyFree
<1>5. CASE Wakeup BY <1>0, <1>5 DEF TypeOK, HandInv, Wakeup, Goto
<1>6. CASE UNCHANGED vars BY <1>0, <1>6 DEF HandInv, vars
<1>. QED BY <1>1, <1>2, <1>3, <1>4, <1>5, <1>6 DEF Next, thrRun

(* A step that only puts a task leaves the tasks that were taken out alone. *)
LEMMA PlaceStep ==
  ASSUME PoolInv, [Next]_vars
  PROVE  PlaceInv'
<1>. USE SizesAssumption
<1>0. TypeOK /\ PlaceInv /\ HandInv BY DEF PoolInv
<1>T. /\ \A w \in Workers : task[w] \in Nat
      /\ \A t \in done : t \in Nat /\ t # NoTask
      /\ Pops \in Nat
  <2>1. \A w \in Workers : task[w] \in Nat BY <1>0 DEF TypeOK
  <2>2. \A t \in done : t \in Nat /\ t # NoTask BY <1>0 DEF TypeOK
  <2>3. Pops \in Int BY <1>0 DEF TypeOK, Pops
  <2>4. Pops >= 0 BY DEF PoolInv, RingInv
  <2>. QED BY <2>1, <2>2, <2>3, <2>4
<1>1. ASSUME NEW a \in Adders, AddPut(a) PROVE PlaceInv'
  <2>1. Pops' = Pops BY <1>1, PutFacts
  <2>2. UNCHANGED <<task, done>> BY <1>1 DEF AddPut
  <2>. QED BY <1>0, <2>1, <2>2 DEF PlaceInv
<1>2. ASSUME NEW w \in Workers, WorkerPop(w) PROVE PlaceInv'
  <2>1. \A v \in Workers : task'[v] = IF v = w THEN Pops + 1 ELSE task[v]
    BY <1>0, <1>2, PopFacts DEF TypeOK
  <2>2. Pops' = Pops + 1 /\ done' = done BY <1>2, PopFacts DEF WorkerPop
  <2>. QED BY <1>0, <1>T, <2>1, <2>2 DEF PlaceInv
<1>3. ASSUME NEW w \in Workers, WorkerRun(w) PROVE PlaceInv'
  <2>1. /\ \A v \in Workers : task'[v] = IF v = w THEN NoTask ELSE task[v]
        /\ done' = done \cup {task[w]} /\ task[w] # NoTask
    BY <1>0, <1>3 DEF WorkerRun, Goto, HandInv, TypeOK
  <2>2. Pops' = Pops BY <1>3 DEF WorkerRun, Pops
  <2>. QED BY <1>0, <1>T, <2>1, <2>2 DEF PlaceInv
<1>4. ASSUME NEW w \in Workers, WorkerExit(w) PROVE PlaceInv'
  <2>1. /\ \A v \in Workers : task'[v] = IF v = w THEN NoTask ELSE task[v]
        /\ done' = done
    BY <1>0, <1>4 DEF WorkerExit, TypeOK
  <2>2. Pops' = Pops BY <1>4 DEF WorkerExit, Pops
  <2>. QED BY <1>0, <1>T, <2>1, <2>2 DEF PlaceInv
<1>5. CASE UNCHANGED <<queueVars, task, done>>
  BY <1>0, <1>5 DEF PlaceInv, Pops
<1>6. \/ \E a \in Adders : AddPut(a)
      \/ \E w \in Workers : WorkerPop(w) \/ WorkerRun(w) \/ WorkerExit(w)
      \/ UNCHANGED <<queueVars, task, done>>
  BY DEF Next, vars, addtask, AddCall, AddLock, AddTestFull, AddWait, AddSignal,
     thrRun, WorkerLock, WorkerTestEmpty, WorkerWait, WorkerNoJob, WorkerUnlock,
     destroy_threadpool, DestroyShutdown, DestroyBroadcast, DestroyFree, Wakeup
<1>. QED BY <1>1, <1>2, <1>3, <1>4, <1>5, <1>6

(* The new pool is empty and idle. *)
LEMMA PoolInit == Init => PoolInv
<1>. USE SizesAssumption
<1>. SUFFICES ASSUME Init PROVE PoolInv OBVIOUS
<1>1. TypeOK
  <2>1. 0 \in -IntMax - 1 .. IntMax /\ 0 \in 0 .. MaxJob /\ 0 \in 0 .. NTasks
        /\ 1 \in 1 .. NTasks + 1
    OBVIOUS
  <2>2. /\ tasks \in [Cells -> Task \cup {NoTask}]
        /\ pc \in [Workers -> WorkerPc] /\ task \in [Workers -> Task \cup {NoTask}]
        /\ apc \in [Adders -> AdderPc]
    BY DEF Init
  <2>. QED BY <2>1, <2>2 DEF Init, TypeOK
<1>2. LockInv /\ RoomInv /\ HandInv BY DEF Init, LockInv, RoomInv, HandInv
<1>3. BeginInv
  <2>1. {a \in Adders : apc[a] \in Unput} = {} BY DEF Init, Unput
  <2>2. Count(Adders, apc, Unput) = 0 BY <2>1, FS_EmptySet DEF Count
  <2>. QED BY <2>2 DEF Init, BeginInv
<1>4. RingInv BY DEF Init, RingInv, Counts, Puts, Pops
<1>5. PlaceInv BY DEF Init, PlaceInv, Pops
<1>. QED BY <1>1, <1>2, <1>3, <1>4, <1>5 DEF PoolInv

(* The inductive invariant of the pool: it holds with any number of callers *)
(* and workers, spurious wakeups and a destroy_threadpool at any time       *)
(* included, and past INT_MAX as long as the indices stay in the ring.      *)
THEOREM SimpleSafe == Spec => []PoolInv
<1>1. PoolInv /\ [Next]_vars => PoolInv'
  BY TypeStep, LockStep, BeginStep, RingStep, HandStep, PlaceStep DEF PoolInv
<1>. QED BY PoolInit, <1>1, PTL DEF Spec

(* The variables of the pool keep their types: the counters stay ints, at   *)
(* most max_job_num tasks wait, and only tasks that addtask has put are run. *)
THEOREM SimpleTyped == Spec => []TypeOK
<1>1. PoolInv => TypeOK BY DEF PoolInv
<1>. QED BY SimpleSafe, <1>1, PTL
-----------------------------------------------------------------------------
(* The two promises about wakeups, with the counts named.  Only a thread in *)
(* Awake looks at job_num before it sleeps again; only a caller in Sending  *)
(* has still to signal a worker.                                            *)
Awake   == {"lock", "relock", "test"}
Sending == {"signal"}

WorkerCover ==
  (\E w \in Workers : pc[w] = "blocked") =>
     job_num <= Count(Workers, pc, Awake) + Count(Adders, apc, Sending)

CallerCover ==
  (\E a \in Adders : apc[a] = "blocked") =>
     MaxJob - job_num <= Count(Adders, apc, Awake)

(* They are the two covering invariants. *)
LEMMA CoversAre ==
  (WorkersCoverTasks <=> WorkerCover) /\ (CallersCoverRoom <=> CallerCover)
<1>1. {a \in Adders : apc[a] = "signal"} = {a \in Adders : apc[a] \in Sending}
  BY DEF Sending
<1>2. /\ Count(Workers, pc, Awake) = Cardinality({w \in Workers : pc[w] \in {"lock", "relock", "test"}})
      /\ Count(Adders, apc, Awake) = Cardinality({a \in Adders : apc[a] \in {"lock", "relock", "test"}})
  BY DEF Count, Awake
<1>3. Count(Adders, apc, Sending) = Cardinality({a \in Adders : apc[a] = "signal"})
  BY <1>1 DEF Count
<1>. QED BY <1>2, <1>3 DEF WorkersCoverTasks, WorkerCover, CallersCoverRoom, CallerCover

(* The counts are numbers. *)
LEMMA CountsNat ==
  /\ \A S : Count(Workers, pc, S) \in Nat /\ Count(Workers, pc', S) \in Nat
  /\ \A S : Count(Adders, apc, S) \in Nat /\ Count(Adders, apc', S) \in Nat
<1>1. IsFiniteSet(Workers) /\ IsFiniteSet(Adders)
  BY FS_Interval, SizesAssumption, AdderAssumption
<1>. HIDE DEF Workers
<1>. QED BY <1>1, CountNat

(* Every step keeps the workers' wakeups: a task put is matched by the      *)
(* signal still to come, a signal by the worker it wakes, and a worker goes *)
(* to sleep only on an empty queue.                                         *)
LEMMA WorkerCoverStep ==
  ASSUME PoolInv, WorkerCover, [Next]_vars, TypeOK'
  PROVE  WorkerCover'
<1>. DEFINE n == Count(Workers, pc, Awake)
            m == Count(Adders, apc, Sending)
            n1 == Count(Workers, pc', Awake)
            m1 == Count(Adders, apc', Sending)
<1>0. TypeOK /\ RoomInv BY DEF PoolInv
<1>N. n \in Nat /\ n1 \in Nat /\ m \in Nat /\ m1 \in Nat /\ job_num \in Nat /\ job_num' \in Nat
  BY <1>0, CountsNat, SizesAssumption DEF TypeOK
<1>C. WorkerCover <=> ((\E w \in Workers : pc[w] = "blocked") => job_num <= n + m)
  BY DEF WorkerCover
<1>D. WorkerCover' <=> ((\E w \in Workers : pc'[w] = "blocked") => job_num' <= n1 + m1)
  BY DEF WorkerCover
<1>. HIDE DEF n, m, n1, m1
<1>1. ASSUME NEW a \in Adders, AddPut(a) PROVE WorkerCover'
  <2>1. /\ apc[a] \notin Sending /\ "signal" \in Sending
        /\ Moved(Adders, apc, apc', a, "signal")
    BY <1>0, <1>1 DEF AddPut, Sending, Moved, TypeOK
  <2>2. m1 = m + 1 BY <2>1, AdderMove DEF m, m1
  <2>3. pc' = pc /\ job_num' = job_num + 1 BY <1>1 DEF AddPut
  <2>4. n1 = n BY <2>3 DEF n, n1
  <2>. QED BY <1>N, <1>C, <1>D, <2>2, <2>3, <2>4
<1>2. ASSUME NEW a \in Adders, AddSignal(a) PROVE WorkerCover'
  <2>1. /\ apc[a] \in Sending /\ "idle" \notin Sending
        /\ Moved(Adders, apc, apc', a, "idle")
    BY <1>0, <1>2 DEF AddSignal, Sending, Moved, TypeOK
  <2>2. m1 = m - 1 BY <2>1, AdderMove DEF m, m1
  <2>3. job_num' = job_num BY <1>2 DEF AddSignal
  <2>4. \/ pc' = pc /\ \A t \in Workers : pc[t] # "blocked"
        \/ \E t \in Workers : pc[t] = "blocked" /\ pc' = [pc EXCEPT ![t] = "relock"]
    BY <1>0, <1>2 DEF AddSignal, Signalled, TypeOK
  <2>5. CASE pc' = pc /\ \A t \in Workers : pc[t] # "blocked"
    BY <1>D, <2>5
  <2>6. ASSUME NEW t \in Workers, pc[t] = "blocked", pc' = [pc EXCEPT ![t] = "relock"]
        PROVE  WorkerCover'
    <3>1. /\ pc[t] \notin Awake /\ "relock" \in Awake
          /\ Moved(Workers, pc, pc', t, "relock")
      BY <1>0, <2>6 DEF Awake, Moved, TypeOK
    <3>2. n1 = n + 1 BY <3>1, WorkerMove DEF n, n1
    <3>3. job_num <= n + m BY <1>C, <2>6
    <3>. QED BY <1>N, <1>D, <2>2, <2>3, <3>2, <3>3
  <2>. QED BY <2>4, <2>5, <2>6
<1>3. ASSUME NEW a \in Adders,
             AddCall(a) \/ AddLock(a) \/ AddTestFull(a) \/ AddWait(a)
      PROVE  WorkerCover'
  <2>1. \E l \in AdderPc : /\ Moved(Adders, apc, apc', a, l)
                           /\ apc[a] \notin Sending /\ l \notin Sending
    BY <1>0, <1>3 DEF AddCall, AddLock, AddTestFull, AddWait, Sending, Moved, TypeOK
  <2>2. m1 = m BY <2>1, AdderMove DEF m, m1
  <2>3. pc' = pc /\ job_num' = job_num BY <1>3 DEF AddCall, AddLock, AddTestFull, AddWait
  <2>4. n1 = n BY <2>3 DEF n, n1
  <2>. QED BY <1>C, <1>D, <2>2, <2>3, <2>4
<1>4. ASSUME NEW w \in Workers, WorkerPop(w) PROVE WorkerCover'
  <2>1. /\ pc[w] \in Awake /\ "check" \notin Awake
        /\ Moved(Workers, pc, pc', w, "check")
    BY <1>0, <1>4 DEF WorkerPop, Goto, Awake, Moved, TypeOK
  <2>2. n1 = n - 1 BY <2>1, WorkerMove DEF n, n1
  <2>3. m1 = m
    <3>1. \/ apc' = apc
          \/ \E a \in Adders : /\ Moved(Adders, apc, apc', a, "relock")
                               /\ apc[a] \notin Sending /\ "relock" \notin Sending
      BY <1>0, <1>4 DEF WorkerPop, Signalled, Sending, Moved, TypeOK
    <3>2. CASE apc' = apc BY <3>2 DEF m, m1
    <3>. QED BY <3>1, <3>2, AdderMove DEF m, m1
  <2>4. job_num' = job_num - 1 BY <1>4 DEF WorkerPop
  <2>5. (\E t \in Workers : pc'[t] = "blocked") => job_num <= n + m
    BY <1>0, <1>4, <1>C DEF WorkerPop, Goto, TypeOK
  <2>6. job_num <= n + m => job_num' <= n1 + m1 BY <1>N, <2>2, <2>3, <2>4
  <2>. QED BY <1>D, <2>5, <2>6
<1>5. ASSUME NEW w \in Workers, WorkerTestEmpty(w) \/ WorkerWait(w) \/ WorkerNoJob(w)
      PROVE  WorkerCover'
  <2>1. job_num' = 0
    BY <1>0, <1>5, SizesAssumption
       DEF TypeOK, RoomInv, WorkerTestEmpty, WorkerWait, WorkerNoJob, Goto
  <2>2. job_num' <= n1 + m1 BY <1>N, <2>1
  <2>. QED BY <1>D, <2>2
<1>6. ASSUME NEW w \in Workers,
             WorkerLock(w) \/ WorkerExit(w) \/ WorkerUnlock(w) \/ WorkerRun(w)
      PROVE  n1 >= n
  <2>1. CASE WorkerLock(w)
    <3>1. pc[w] \in Awake /\ "test" \in Awake /\ Moved(Workers, pc, pc', w, "test")
      BY <1>0, <2>1 DEF WorkerLock, Goto, Awake, Moved, TypeOK
    <3>2. n1 = n BY <3>1, WorkerMove DEF n, n1
    <3>. QED BY <1>N, <3>2
  <2>2. CASE WorkerExit(w)
    <3>1. pc[w] \notin Awake /\ "exited" \notin Awake /\ Moved(Workers, pc, pc', w, "exited")
      BY <1>0, <2>2 DEF WorkerExit, Goto, Awake, Moved, TypeOK
    <3>2. n1 = n BY <3>1, WorkerMove DEF n, n1
    <3>. QED BY <1>N, <3>2
  <2>3. CASE WorkerUnlock(w)
    <3>1. pc[w] \notin Awake /\ "run" \notin Awake /\ Moved(Workers, pc, pc', w, "run")
      BY <1>0, <2>3 DEF WorkerUnlock, Goto, Awake, Moved, TypeOK
    <3>2. n1 = n BY <3>1, WorkerMove DEF n, n1
    <3>. QED BY <1>N, <3>2
  <2>4. CASE WorkerRun(w)
    <3>1. pc[w] \notin Awake /\ "lock" \in Awake /\ Moved(Workers, pc, pc', w, "lock")
      BY <1>0, <2>4 DEF WorkerRun, Goto, Awake, Moved, TypeOK
    <3>2. n1 = n + 1 BY <3>1, WorkerMove DEF n, n1
    <3>. QED BY <1>N, <3>2
  <2>. QED BY <1>6, <2>1, <2>2, <2>3, <2>4
<1>7. ASSUME NEW w \in Workers,
             WorkerLock(w) \/ WorkerExit(w) \/ WorkerUnlock(w) \/ WorkerRun(w)
      PROVE  WorkerCover'
  <2>0. apc' = apc BY <1>7 DEF WorkerLock, WorkerExit, WorkerUnlock, WorkerRun
  <2>1. job_num' = job_num BY <1>7 DEF WorkerLock, WorkerExit, WorkerUnlock, WorkerRun
  <2>2. n1 >= n /\ m1 = m BY <1>6, <1>7, <2>0 DEF m, m1
  <2>3. (\E t \in Workers : pc'[t] = "blocked") => job_num <= n + m
    BY <1>0, <1>7, <1>C DEF WorkerLock, WorkerExit, WorkerUnlock, WorkerRun, Goto, TypeOK
  <2>4. job_num <= n + m => job_num' <= n1 + m1 BY <1>N, <2>1, <2>2
  <2>. QED BY <1>D, <2>3, <2>4
<1>11. CASE DestroyBroadcast
  <2>1. \A t \in Workers : pc'[t] # "blocked" BY <1>0, <1>11 DEF DestroyBroadcast, TypeOK
  <2>. QED BY <1>D, <2>1
<1>8. CASE UNCHANGED <<pc, apc, job_num>>
  <2>1. n1 = n /\ m1 = m BY <1>8 DEF n, m, n1, m1
  <2>. QED BY <1>C, <1>D, <1>8, <2>1
<1>9. CASE Wakeup
  <2>1. CASE \E w \in Workers : Goto(w, "blocked", "relock") /\ UNCHANGED apc
    <3>1. PICK w \in Workers : Goto(w, "blocked", "relock") BY <2>1
    <3>2. /\ pc[w] \notin Awake /\ "relock" \in Awake
          /\ Moved(Workers, pc, pc', w, "relock") /\ pc[w] = "blocked"
      BY <1>0, <3>1 DEF Goto, Awake, Moved, TypeOK
    <3>3. n1 = n + 1 BY <3>2, WorkerMove DEF n, n1
    <3>4. apc' = apc /\ job_num' = job_num BY <1>9, <2>1 DEF Wakeup
    <3>5. m1 = m BY <3>4 DEF m, m1
    <3>. QED BY <1>N, <1>C, <1>D, <3>2, <3>3, <3>4, <3>5
  <2>2. CASE \E a \in Adders : /\ apc[a] = "blocked" /\ apc' = [apc EXCEPT ![a] = "relock"]
                               /\ UNCHANGED pc
    <3>1. \E a \in Adders : /\ Moved(Adders, apc, apc', a, "relock")
                            /\ apc[a] \notin Sending /\ "relock" \notin Sending
      BY <1>0, <2>2 DEF Sending, Moved, TypeOK
    <3>2. m1 = m BY <3>1, AdderMove DEF m, m1
    <3>3. pc' = pc /\ job_num' = job_num BY <1>9, <2>2 DEF Wakeup
    <3>4. n1 = n BY <3>3 DEF n, n1
    <3>. QED BY <1>C, <1>D, <3>2, <3>3, <3>4
  <2>. QED BY <1>9, <2>1, <2>2 DEF Wakeup
<1>10. \/ Wakeup \/ DestroyBroadcast \/ UNCHANGED <<pc, apc, job_num>>
       \/ \E a \in Adders : addtask(a)
       \/ \E w \in Workers : thrRun(w)
  BY DEF Next, vars, destroy_threadpool, DestroyShutdown, DestroyFree
<1>. QED BY <1>1, <1>2, <1>3, <1>4, <1>5, <1>6, <1>7, <1>8, <1>9, <1>10, <1>11 DEF addtask, thrRun

(* Every step keeps the callers' wakeups: a place that a worker makes is    *)
(* matched by the caller it wakes, a place taken by the caller that took    *)
(* it, and a caller goes to sleep only on a full queue.                     *)
LEMMA CallerCoverStep ==
  ASSUME PoolInv, CallerCover, [Next]_vars, TypeOK'
  PROVE  CallerCover'
<1>. DEFINE n == Count(Adders, apc, Awake)
            n1 == Count(Adders, apc', Awake)
            room == MaxJob - job_num
            room1 == MaxJob - job_num'
<1>0. TypeOK /\ RoomInv BY DEF PoolInv
<1>N. n \in Nat /\ n1 \in Nat BY CountsNat
<1>J. MaxJob \in Nat /\ job_num \in Nat /\ job_num' \in Nat BY <1>0, SizesAssumption DEF TypeOK
<1>C. CallerCover <=> ((\E a \in Adders : apc[a] = "blocked") => room <= n)
  BY DEF CallerCover
<1>D. CallerCover' <=> ((\E a \in Adders : apc'[a] = "blocked") => room1 <= n1)
  BY DEF CallerCover
<1>. HIDE DEF n, n1
<1>1. ASSUME NEW a \in Adders, AddPut(a) PROVE CallerCover'
  <2>1. /\ apc[a] \in Awake /\ "signal" \notin Awake
        /\ Moved(Adders, apc, apc', a, "signal")
    BY <1>0, <1>1 DEF AddPut, Awake, Moved, TypeOK
  <2>2. n1 = n - 1 BY <2>1, AdderMove DEF n, n1
  <2>3. job_num' = job_num + 1 BY <1>1 DEF AddPut
  <2>4. (\E b \in Adders : apc'[b] = "blocked") => room <= n BY <1>C, <2>1 DEF Moved
  <2>5. room <= n => room1 <= n1 BY <1>N, <1>J, <2>2, <2>3
  <2>. QED BY <1>D, <2>4, <2>5
<1>2. ASSUME NEW a \in Adders, AddTestFull(a) \/ AddWait(a) PROVE CallerCover'
  <2>1. job_num' = MaxJob
    BY <1>0, <1>2, SizesAssumption DEF TypeOK, RoomInv, AddTestFull, AddWait, Full
  <2>2. room1 <= n1 BY <1>N, <1>J, <2>1
  <2>. QED BY <1>D, <2>2
<1>3. ASSUME NEW a \in Adders, AddCall(a) \/ AddLock(a) \/ AddSignal(a) PROVE n1 >= n
  <2>1. CASE AddCall(a)
    <3>1. apc[a] \notin Awake /\ "lock" \in Awake /\ Moved(Adders, apc, apc', a, "lock")
      BY <1>0, <2>1 DEF AddCall, Awake, Moved, TypeOK
    <3>2. n1 = n + 1 BY <3>1, AdderMove DEF n, n1
    <3>. QED BY <1>N, <3>2
  <2>2. CASE AddLock(a)
    <3>1. apc[a] \in Awake /\ "test" \in Awake /\ Moved(Adders, apc, apc', a, "test")
      BY <1>0, <2>2 DEF AddLock, Awake, Moved, TypeOK
    <3>2. n1 = n BY <3>1, AdderMove DEF n, n1
    <3>. QED BY <1>N, <3>2
  <2>3. CASE AddSignal(a)
    <3>1. apc[a] \notin Awake /\ "idle" \notin Awake /\ Moved(Adders, apc, apc', a, "idle")
      BY <1>0, <2>3 DEF AddSignal, Awake, Moved, TypeOK
    <3>2. n1 = n BY <3>1, AdderMove DEF n, n1
    <3>. QED BY <1>N, <3>2
  <2>. QED BY <1>3, <2>1, <2>2, <2>3
<1>4. ASSUME NEW a \in Adders, AddCall(a) \/ AddLock(a) \/ AddSignal(a) PROVE CallerCover'
  <2>1. job_num' = job_num BY <1>4 DEF AddCall, AddLock, AddSignal
  <2>2. (\E b \in Adders : apc'[b] = "blocked") => room <= n
    BY <1>0, <1>4, <1>C DEF AddCall, AddLock, AddSignal, TypeOK
  <2>3. n1 >= n BY <1>3, <1>4
  <2>4. room <= n => room1 <= n1 BY <1>N, <1>J, <2>1, <2>3
  <2>. QED BY <1>D, <2>2, <2>4
<1>5. ASSUME NEW a \in Adders, apc[a] = "blocked", apc' = [apc EXCEPT ![a] = "relock"]
      PROVE  n1 = n + 1 /\ room <= n
  <2>1. apc[a] \notin Awake /\ "relock" \in Awake /\ Moved(Adders, apc, apc', a, "relock")
    BY <1>0, <1>5 DEF Awake, Moved, TypeOK
  <2>2. n1 = n + 1 BY <2>1, AdderMove DEF n, n1
  <2>. QED BY <1>C, <1>5, <2>2
<1>6. ASSUME NEW w \in Workers, WorkerPop(w) PROVE CallerCover'
  <2>1. job_num' = job_num - 1 BY <1>6 DEF WorkerPop
  <2>2. \/ apc' = apc /\ \A t \in Adders : apc[t] # "blocked"
        \/ \E t \in Adders : apc[t] = "blocked" /\ apc' = [apc EXCEPT ![t] = "relock"]
    BY <1>0, <1>6 DEF WorkerPop, Signalled, TypeOK
  <2>3. CASE apc' = apc /\ \A t \in Adders : apc[t] # "blocked" BY <1>D, <2>3
  <2>4. CASE \E t \in Adders : apc[t] = "blocked" /\ apc' = [apc EXCEPT ![t] = "relock"]
    <3>1. n1 = n + 1 /\ room <= n BY <1>5, <2>4
    <3>2. room1 <= n1 BY <1>N, <1>J, <2>1, <3>1
    <3>. QED BY <1>D, <3>2
  <2>. QED BY <2>2, <2>3, <2>4
<1>7. CASE UNCHANGED <<apc, job_num>>
  <2>1. n1 = n /\ room1 = room BY <1>7 DEF n, n1
  <2>. QED BY <1>C, <1>D, <1>7, <2>1
<1>8. ASSUME Wakeup, apc' # apc PROVE CallerCover'
  <2>1. job_num' = job_num BY <1>8 DEF Wakeup
  <2>2. \E t \in Adders : apc[t] = "blocked" /\ apc' = [apc EXCEPT ![t] = "relock"]
    BY <1>8 DEF Wakeup
  <2>3. n1 = n + 1 /\ room <= n BY <1>5, <2>2
  <2>4. room1 <= n1 BY <1>N, <1>J, <2>1, <2>3
  <2>. QED BY <1>D, <2>4
<1>9. \/ \E a \in Adders : addtask(a)
      \/ \E w \in Workers : WorkerPop(w)
      \/ Wakeup /\ apc' # apc
      \/ UNCHANGED <<apc, job_num>>
  BY DEF Next, vars, thrRun, WorkerLock, WorkerTestEmpty, WorkerWait, WorkerNoJob,
     WorkerExit, WorkerUnlock, WorkerRun, destroy_threadpool, DestroyShutdown,
     DestroyBroadcast, DestroyFree, Wakeup
<1>. QED BY <1>1, <1>2, <1>4, <1>6, <1>7, <1>8, <1>9 DEF addtask

(* No wakeup of a worker is lost: while a worker sleeps, every waiting task *)
(* has a worker that is up or a signal still to come, although addtask      *)
(* signals after it has unlocked.                                           *)
THEOREM WorkersWoken == Spec => []WorkersCoverTasks
<1>1. Init => WorkerCover BY DEF Init, WorkerCover
<1>2. PoolInv /\ WorkerCover /\ [Next]_vars /\ PoolInv' => WorkerCover'
  BY WorkerCoverStep DEF PoolInv
<1>3. WorkerCover => WorkersCoverTasks BY CoversAre
<1>. QED BY SimpleSafe, <1>1, <1>2, <1>3, PTL DEF Spec

(* No wakeup of a caller is lost: while a caller sleeps in addtask, every   *)
(* free place has a caller that is up, although a worker wakes one caller   *)
(* per task.                                                                *)
THEOREM CallersWoken == Spec => []CallersCoverRoom
<1>1. Init => CallerCover BY DEF Init, CallerCover
<1>2. PoolInv /\ CallerCover /\ [Next]_vars /\ PoolInv' => CallerCover'
  BY CallerCoverStep DEF PoolInv
<1>3. CallerCover => CallersCoverRoom BY CoversAre
<1>. QED BY SimpleSafe, <1>1, <1>2, <1>3, PTL DEF Spec
-----------------------------------------------------------------------------
(* The waiting tasks, oldest first, are the numbers after those taken out:  *)
(* the cells that Pending reads are the ones the counters stood at, also    *)
(* for a counter that has just wrapped to INT_MIN.                          *)
PendingForm == Pending = [i \in 1 .. job_num |-> Pops + i]

(* The cell that Pending reads for the i-th waiting task. *)
LEMMA PendingCells ==
  ASSUME PoolInv, NEW i \in 1 .. job_num
  PROVE  Cell(job_pop + i - 1) = (Pops + i - 1) % MaxJob
<1>. USE SizesAssumption
<1>0. TypeOK /\ RingInv BY DEF PoolInv
<1>1. /\ job_pop \in Int /\ job_num \in 1 .. MaxJob /\ Pops \in Nat /\ Puts \in Nat
      /\ Puts = Pops + job_num /\ i \in Nat
  <2>1. job_pop \in Int /\ job_num \in 1 .. MaxJob /\ beginnum \in 1 .. NTasks + 1
    BY <1>0 DEF TypeOK
  <2>. QED BY <1>0, <2>1 DEF Pops, Puts, RingInv
<1>2. Counts(job_push, Puts) /\ Counts(job_pop, Pops) BY <1>0 DEF RingInv
<1>3. CASE MaxJob = 1
  <2>1. job_pop + i - 1 \in Int /\ Pops + i - 1 \in Nat BY <1>1
  <2>2. Cell(job_pop + i - 1) = 0 BY <1>3, <2>1, OneCell
  <2>3. (Pops + i - 1) % MaxJob = 0 BY <1>3, <2>1
  <2>. QED BY <2>2, <2>3
<1>4. CASE MaxJob # 1 /\ job_pop = Pops
  <2>1. job_pop + i - 1 = Pops + i - 1 /\ Pops + i - 1 \in Nat BY <1>1, <1>4
  <2>. QED BY <2>1, CellIs
<1>5. CASE MaxJob # 1 /\ Pops >= IntMax + 1
  <2>1. /\ Puts = IntMax + 2 /\ (IntMax + 1) % MaxJob = 0 /\ i = 1
        /\ Pops = IntMax + 1 /\ job_pop = -IntMax - 1
    BY <1>1, <1>2, <1>5 DEF Counts
  <2>2. job_pop + i - 1 = -(IntMax + 1) /\ Pops + i - 1 = IntMax + 1
        /\ IntMax + 1 \in Nat \ {0}
    BY <2>1
  <2>3. Cell(-(IntMax + 1)) = -((IntMax + 1) % MaxJob) BY <2>2, CellOfMinus
  <2>4. Cell(-(IntMax + 1)) = 0 BY <2>1, <2>3
  <2>. QED BY <2>1, <2>2, <2>4
<1>. QED BY <1>1, <1>2, <1>3, <1>4, <1>5 DEF Counts

(* So Pending lists consecutive task numbers. *)
LEMMA PendingIs ==
  ASSUME PoolInv
  PROVE  PendingForm
<1>1. RingInv BY DEF PoolInv
<1>2. job_num \in Nat /\ Pops \in Nat /\ Pops + job_num <= NTasks /\ Puts = Pops + job_num
  <2>1. job_num \in Nat /\ beginnum \in 1 .. NTasks + 1
    BY SizesAssumption DEF PoolInv, TypeOK
  <2>. QED BY <1>1, <2>1, SizesAssumption DEF RingInv, Pops, Puts
<1>3. ASSUME NEW i \in 1 .. job_num PROVE tasks[Cell(job_pop + i - 1)] = Pops + i
  <2>1. /\ Pops + i - 1 \in 0 .. NTasks /\ Pops <= Pops + i - 1 /\ Pops + i - 1 < Puts
        /\ (Pops + i - 1) + 1 = Pops + i
    BY <1>2, SizesAssumption
  <2>2. tasks[(Pops + i - 1) % MaxJob] = Pops + i BY <1>1, <2>1 DEF RingInv
  <2>. QED BY <2>2, PendingCells
<1>. QED BY <1>3 DEF PendingForm, Pending

(* A function on 1 .. n is a sequence of length n. *)
LEMMA SeqOfLength ==
  ASSUME NEW S, NEW n \in Nat, NEW f \in [1 .. n -> S]
  PROVE  f \in Seq(S) /\ Len(f) = n
<1>1. f \in Seq(S) OBVIOUS
<1>2. Len(f) = n BY <1>1
<1>. QED BY <1>1, <1>2

(* The empty pool maps to the empty TaskQueue. *)
LEMMA RefinesInit == Init => Abstract!Init
<1>. SUFFICES ASSUME Init PROVE Abstract!Init OBVIOUS
<1>1. Pending = <<>> BY DEF Init, Pending
<1>2. Held = {} BY DEF Init, Held
<1>. QED BY <1>1, <1>2 DEF Init, Abstract!Init

(* Every step of the pool is a step of TaskQueue or leaves it alone: AddPut *)
(* is Submit, WorkerPop is Start, WorkerRun is Finish, and a worker that    *)
(* exits with a task in its hands is Discard.                               *)
LEMMA RefinesStep ==
  ASSUME PoolInv, PendingForm, [Next]_vars, PoolInv', PendingForm'
  PROVE  [Abstract!Next]_(Abstract!vars)
<1>0. TypeOK /\ PlaceInv /\ HandInv BY DEF PoolInv
<1>P. /\ job_num \in Nat /\ job_num' \in Nat /\ Pops \in Nat /\ Pops' \in Nat
  <2>1. /\ job_num \in Nat /\ beginnum \in Nat /\ job_num' \in Nat /\ beginnum' \in Nat
    BY SizesAssumption DEF PoolInv, TypeOK
  <2>2. Pops >= 0 /\ Pops' >= 0 BY DEF PoolInv, RingInv
  <2>3. Pops \in Int /\ Pops' \in Int BY <2>1 DEF Pops
  <2>. QED BY <2>1, <2>2, <2>3
<1>S. /\ Pending \in Seq(Nat) /\ Len(Pending) = job_num
      /\ Pending' \in Seq(Nat) /\ Len(Pending') = job_num'
      /\ \A i \in 1 .. job_num : Pending[i] = Pops + i
      /\ \A i \in 1 .. job_num' : Pending'[i] = Pops' + i
  <2>0. /\ \A i \in 1 .. job_num : Pops + i \in Nat
        /\ \A i \in 1 .. job_num' : Pops' + i \in Nat
    <3>1. \A p, n \in Nat : \A i \in 1 .. n : p + i \in Nat OBVIOUS
    <3>. QED BY <1>P, <3>1, Zenon
  <2>1. Pending \in [1 .. job_num -> Nat] /\ Pending' \in [1 .. job_num' -> Nat]
    BY <2>0, Zenon DEF PendingForm
  <2>2. /\ Pending \in Seq(Nat) /\ Len(Pending) = job_num
        /\ Pending' \in Seq(Nat) /\ Len(Pending') = job_num'
    BY <1>P, <2>1, SeqOfLength
  <2>. QED BY <2>2 DEF PendingForm
<1>1. ASSUME NEW a \in Adders, AddPut(a) PROVE \E t \in Task : Abstract!Submit(t)
  <2>1. /\ job_num < MaxJob /\ job_num' = job_num + 1 /\ Pops' = Pops
        /\ beginnum \in Task /\ beginnum = Pops + job_num + 1
    <3>1. /\ job_num \in 0 .. MaxJob - 1 /\ job_num' = job_num + 1 /\ Pops' = Pops
          /\ beginnum \in Task
      BY <1>1, PutFacts
    <3>. QED BY <3>1, SizesAssumption DEF Pops
  <2>2. Pending' = Append(Pending, beginnum) BY <1>P, <1>S, <2>1, SizesAssumption
  <2>3. beginnum \notin Abstract!Queued \cup Held \cup done
    <3>1. \A i \in 1 .. job_num : Pending[i] # beginnum
      BY <1>P, <1>S, <2>1, SizesAssumption
    <3>2. \A w \in Workers : task[w] # beginnum
      <4>1. \A w \in Workers : task[w] \in Nat /\ task[w] <= Pops
        BY <1>0 DEF PlaceInv, TypeOK
      <4>. QED BY <1>P, <2>1, <4>1
    <3>3. beginnum \notin done BY <1>0, <1>P, <2>1 DEF PlaceInv
    <3>4. DOMAIN Pending = 1 .. job_num BY <1>S
    <3>. QED BY <3>1, <3>2, <3>3, <3>4 DEF Abstract!Queued, Held
  <2>4. Held' = Held /\ done' = done BY <1>1 DEF AddPut, Held
  <2>5. Abstract!Submit(beginnum) BY <1>S, <2>1, <2>2, <2>3, <2>4 DEF Abstract!Submit
  <2>. QED BY <2>1, <2>5
<1>2. ASSUME NEW w \in Workers, WorkerPop(w) PROVE Abstract!Start
  <2>1. job_num \in 1 .. MaxJob /\ job_num' = job_num - 1 /\ Pops' = Pops + 1
    BY <1>2, PopFacts
  <2>2. /\ Pending # <<>> /\ Head(Pending) = Pops + 1 /\ Pending' = Tail(Pending)
    <3>1. \A i \in 1 .. job_num' : Pending'[i] = Pending[i + 1]
      BY <1>P, <1>S, <2>1, SizesAssumption
    <3>2. Len(Pending) # 0 /\ Pending[1] = Pops + 1 /\ Len(Pending') = Len(Pending) - 1
      BY <1>P, <1>S, <2>1, SizesAssumption
    <3>. HIDE DEF Pending, Pops
    <3>3. Pending # <<>> /\ Head(Pending) = Pops + 1 BY <1>S, <3>2
    <3>4. Pending' = Tail(Pending) BY <1>S, <3>1, <3>2
    <3>. QED BY <3>3, <3>4
  <2>3. Pops + 1 \notin Held \cup done
    <3>1. \A v \in Workers : task[v] # Pops + 1
      <4>1. \A v \in Workers : task[v] \in Nat /\ task[v] <= Pops
        BY <1>0 DEF PlaceInv, TypeOK
      <4>. QED BY <1>P, <4>1
    <3>2. Pops + 1 \notin done BY <1>0, <1>P DEF PlaceInv
    <3>. QED BY <3>1, <3>2 DEF Held
  <2>4. \A v \in Workers : task'[v] = IF v = w THEN Pops + 1 ELSE task[v]
    BY <1>0, <1>2, PopFacts DEF TypeOK
  <2>5. task[w] = NoTask /\ Pops + 1 # NoTask
    BY <1>0, <1>2, <1>P DEF WorkerPop, Goto, HandInv
  <2>6. Held' = Held \cup {Pops + 1} BY <2>4, <2>5 DEF Held
  <2>7. done' = done BY <1>2 DEF WorkerPop
  <2>. QED BY <2>2, <2>3, <2>6, <2>7 DEF Abstract!Start
<1>3. ASSUME NEW w \in Workers, WorkerRun(w) \/ WorkerExit(w), task[w] # NoTask
      PROVE  /\ task[w] \in Task /\ task[w] \in Held /\ Held' = Held \ {task[w]}
             /\ Pending' = Pending
  <2>1. task[w] \in Task BY <1>0, <1>3 DEF TypeOK
  <2>2. \A v \in Workers : task'[v] = IF v = w THEN NoTask ELSE task[v]
    BY <1>0, <1>3 DEF WorkerRun, WorkerExit, TypeOK
  <2>3. \A v \in Workers : v # w => task[v] # task[w] BY <1>0, <1>3 DEF PlaceInv
  <2>4. task[w] \in Held /\ Held' = Held \ {task[w]} BY <1>3, <2>2, <2>3 DEF Held
  <2>5. Pending' = Pending BY <1>3 DEF WorkerRun, WorkerExit, Pending
  <2>. QED BY <2>1, <2>4, <2>5
<1>4. ASSUME NEW w \in Workers, WorkerRun(w) PROVE \E t \in Task : Abstract!Finish(t)
  <2>1. task[w] # NoTask /\ done' = done \cup {task[w]}
    BY <1>0, <1>4 DEF WorkerRun, Goto, HandInv
  <2>2. /\ task[w] \in Task /\ task[w] \in Held /\ Held' = Held \ {task[w]}
        /\ Pending' = Pending
    BY <1>3, <1>4, <2>1
  <2>. QED BY <2>1, <2>2 DEF Abstract!Finish
<1>5. ASSUME NEW w \in Workers, WorkerExit(w), task[w] # NoTask
      PROVE  \E t \in Task : Abstract!Discard(t)
  <2>1. done' = done BY <1>5 DEF WorkerExit
  <2>2. /\ task[w] \in Task /\ task[w] \in Held /\ Held' = Held \ {task[w]}
        /\ Pending' = Pending
    BY <1>3, <1>5
  <2>. QED BY <2>1, <2>2 DEF Abstract!Discard
<1>6. ASSUME NEW w \in Workers, WorkerExit(w), task[w] = NoTask
      PROVE  UNCHANGED <<queueVars, task, done>>
  BY <1>0, <1>6 DEF WorkerExit, TypeOK
<1>7. CASE UNCHANGED <<queueVars, task, done>>
  BY <1>7 DEF Abstract!vars, Pending, Held
<1>8. \/ \E a \in Adders : AddPut(a)
      \/ \E w \in Workers : WorkerPop(w) \/ WorkerRun(w) \/ WorkerExit(w)
      \/ UNCHANGED <<queueVars, task, done>>
  BY DEF Next, vars, addtask, AddCall, AddLock, AddTestFull, AddWait, AddSignal,
     thrRun, WorkerLock, WorkerTestEmpty, WorkerWait, WorkerNoJob, WorkerUnlock,
     destroy_threadpool, DestroyShutdown, DestroyBroadcast, DestroyFree, Wakeup
<1>. QED BY <1>1, <1>2, <1>4, <1>5, <1>6, <1>7, <1>8 DEF Abstract!Next

(* The pool implements the bounded FIFO TaskQueue: tasks leave in the order *)
(* addtask put them, each goes to one worker, which runs it once or, on     *)
(* shutdown, drops it, and no task is overwritten in the ring.  It does so  *)
(* until an index that has passed INT_MAX leaves the ring.                  *)
THEOREM SimpleRefinement == Spec => ImplementsTaskQueue
<1>1. PoolInv => PendingForm BY PendingIs
<1>2. PoolInv /\ PendingForm /\ [Next]_vars /\ PoolInv' /\ PendingForm'
        => [Abstract!Next]_(Abstract!vars)
  BY RefinesStep
<1>. QED BY SimpleSafe, RefinesInit, <1>1, <1>2, PTL
         DEF Spec, ImplementsTaskQueue, Abstract!Spec
=============================================================================
