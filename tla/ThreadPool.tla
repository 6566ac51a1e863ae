----------------------------- MODULE ThreadPool -----------------------------
(***************************************************************************)
(* The dynamic thread pool of Csocket/epoll_反应堆/threadpool.c: a ring    *)
(* of tasks, worker threads between min_thr_num and max_thr_num, an adjust *)
(* thread that creates and retires workers, callers of threadpool_add and  *)
(* one caller of threadpool_destroy.                                       *)
(*                                                                         *)
(* A worker is identified with the element of pool->threads that holds its *)
(* tid, and a task with the call of threadpool_add that submitted it.  The *)
(* mutex `lock' is modelled by its owner; thread_counter is only ever held *)
(* for one assignment, so a critical section under it is one step.  A      *)
(* condition variable is the set of threads whose pc is "blocked".         *)
(***************************************************************************)
EXTENDS Integers, FiniteSets

CONSTANTS MinThr,         \* min_thr_num
          MaxThr,         \* max_thr_num
          QueueMax,       \* queue_max_size
          MinWait,        \* MIN_WAIT_TASK_NUM
          Vary,           \* DEFAULT_THREAD_VARY
          Adders,         \* threads that call threadpool_add
          NTasks,         \* bound on the calls of threadpool_add
          CreateMayFail,  \* whether pthread_create may fail
          MayDestroy      \* whether threadpool_destroy may be called

Slots == 0 .. MaxThr - 1
Cells == 0 .. QueueMax - 1
Task  == 1 .. NTasks
NoTask == 0

NoOne     == -1
Destroyer == -2

ASSUME SizesAssumption ==
  /\ MinThr \in Nat \ {0} /\ MaxThr \in Nat /\ MinThr <= MaxThr
  /\ QueueMax \in Nat \ {0} /\ MinWait \in Nat /\ Vary \in Nat \ {0}
  /\ NTasks \in Nat
ASSUME SwitchAssumption == CreateMayFail \in BOOLEAN /\ MayDestroy \in BOOLEAN
ASSUME AdderAssumption ==
  \A a \in Adders : a \notin Slots \cup {NoOne, Destroyer}

VARIABLES lock,                              \* owner of pool->lock
          task_queue, queue_front, queue_rear, queue_size,
          live_thr_num, busy_thr_num, wait_exit_thr_num, shutdown,
          pc,        \* per worker: where it is in threadpool_thread
          task,      \* per worker: its local copy of a task
          apc,       \* per adder: where it is in threadpool_add
          arg,       \* per adder: the task it is adding
          calls,     \* calls of threadpool_add begun
          accepted,  \* tasks whose threadpool_add returned 0
          done,      \* tasks whose function has returned
          adj,       \* adjust_thread: pc and locals
          dst        \* threadpool_destroy: pc and loop counter

queueVars == <<task_queue, queue_front, queue_rear, queue_size>>
countVars == <<live_thr_num, busy_thr_num, wait_exit_thr_num>>
adderVars == <<apc, arg, calls, accepted>>
workerVars == <<pc, task, done>>
vars == <<lock, queueVars, countVars, shutdown, workerVars, adderVars, adj, dst>>

WorkerPc == {"none", "lock", "test", "wait", "blocked", "relock", "take",
             "start", "run", "finish", "exited"}
AdderPc  == {"idle", "lock", "test", "wait", "blocked", "relock", "put"}
AdjustPc == {"loop", "sleep", "busy", "grow", "shrink", "signal", "exited"}
DestroyPc == {"idle", "bcast", "lock", "counter", "freed"}

(***************************************************************************)
(* pthread: a thread is alive until it calls pthread_exit; a signal moves  *)
(* one waiter, a broadcast all of them, to the re-acquisition of the lock. *)
(***************************************************************************)
Alive == {w \in Slots : pc[w] \notin {"none", "exited"}}
Busy  == {w \in Slots : pc[w] \in {"run", "finish"}}

(* Fault: the signal goes to a condition variable nobody waits on. *)
Signalled_Other(p) == {p}

Signalled(p) ==
  LET waiters == {w \in DOMAIN p : p[w] = "blocked"}
  IN  IF waiters = {} THEN {p}
      ELSE {[p EXCEPT ![w] = "relock"] : w \in waiters}

(* Fault: the waiters of the other condition variable are woken instead. *)
Broadcast_Other(p) == p

Broadcast(p) == [t \in DOMAIN p |-> IF p[t] = "blocked" THEN "relock" ELSE p[t]]

QueueFreed == dst.pc \in {"lock", "counter", "freed"}
PoolFreed  == dst.pc = "freed"

(* Fault: the index of the ring never wraps. *)
NextCell_NoWrap(i) == i + 1

NextCell(i) == (i + 1) % QueueMax

(* Fault: a woken worker retires however few are left. *)
MustRetire_NoMinimum == wait_exit_thr_num > 0

MustRetire == wait_exit_thr_num > 0 /\ live_thr_num > MinThr

(* The locals of adjust_thread live for one turn of its loop. *)
AdjustAtLoop == [pc |-> "loop", queue_size |-> 0, live |-> 0, busy |-> 0, i |-> 0]

-----------------------------------------------------------------------------
(* threadpool_create: a failed pthread_create goes unnoticed. *)
Init ==
  /\ lock = NoOne
  /\ task_queue = [i \in Cells |-> NoTask]
  /\ queue_front = 0 /\ queue_rear = 0 /\ queue_size = 0
  /\ live_thr_num = MinThr /\ busy_thr_num = 0 /\ wait_exit_thr_num = 0
  /\ shutdown = FALSE
  /\ \E started \in SUBSET (0 .. MinThr - 1) :
       /\ CreateMayFail \/ started = 0 .. MinThr - 1
       /\ pc = [w \in Slots |-> IF w \in started THEN "lock" ELSE "none"]
  /\ task = [w \in Slots |-> NoTask]
  /\ apc = [a \in Adders |-> "idle"]
  /\ arg = [a \in Adders |-> NoTask]
  /\ calls = 0 /\ accepted = {} /\ done = {}
  /\ adj = AdjustAtLoop
  /\ dst = [pc |-> "idle", i |-> 0]

-----------------------------------------------------------------------------
(* threadpool_add *)
AddCall(a) ==
  /\ apc[a] = "idle" /\ calls < NTasks
  /\ calls' = calls + 1
  /\ arg' = [arg EXCEPT ![a] = calls + 1]
  /\ apc' = [apc EXCEPT ![a] = "lock"]
  /\ UNCHANGED <<lock, queueVars, countVars, shutdown, workerVars, accepted, adj, dst>>

AddLock(a) ==
  /\ apc[a] \in {"lock", "relock"} /\ lock = NoOne
  /\ lock' = a
  /\ apc' = [apc EXCEPT ![a] = "test"]
  /\ UNCHANGED <<queueVars, countVars, shutdown, workerVars, arg, calls,
                 accepted, adj, dst>>

AddTestFull(a) ==
  /\ apc[a] = "test" /\ queue_size = QueueMax /\ ~shutdown
  /\ apc' = [apc EXCEPT ![a] = "wait"]
  /\ UNCHANGED <<lock, queueVars, countVars, shutdown, workerVars, arg, calls,
                 accepted, adj, dst>>

AddWait(a) ==
  /\ apc[a] = "wait"
  /\ lock' = NoOne
  /\ apc' = [apc EXCEPT ![a] = "blocked"]
  /\ UNCHANGED <<queueVars, countVars, shutdown, workerVars, arg, calls,
                 accepted, adj, dst>>

(* Fault: a caller that finds the queue full waits once and then goes on. *)
AddTestRoom_NoRetest(a) ==
  /\ apc[a] = "test" /\ ~shutdown
  /\ apc' = [apc EXCEPT ![a] = "put"]
  /\ UNCHANGED <<lock, queueVars, countVars, shutdown, workerVars, arg, calls,
                 accepted, adj, dst>>

AddTestRoom(a) ==
  /\ apc[a] = "test" /\ queue_size # QueueMax /\ ~shutdown
  /\ apc' = [apc EXCEPT ![a] = "put"]
  /\ UNCHANGED <<lock, queueVars, countVars, shutdown, workerVars, arg, calls,
                 accepted, adj, dst>>

AddReturn(a) ==
  /\ lock' = NoOne
  /\ apc' = [apc EXCEPT ![a] = "idle"]
  /\ arg' = [arg EXCEPT ![a] = NoTask]
  /\ accepted' = accepted \cup {arg[a]}

AddRefused(a) ==
  /\ apc[a] = "test" /\ shutdown
  /\ pc' = Broadcast(pc)
  /\ AddReturn(a)
  /\ UNCHANGED <<queueVars, countVars, shutdown, task, done, calls,
                 adj, dst>>

AddPut(a) ==
  /\ apc[a] = "put" /\ ~QueueFreed
  /\ task_queue' = [task_queue EXCEPT ![queue_rear] = arg[a]]
  /\ queue_rear' = NextCell(queue_rear)
  /\ queue_size' = queue_size + 1
  /\ pc' \in Signalled(pc)
  /\ AddReturn(a)
  /\ UNCHANGED <<queue_front, countVars, shutdown, task, done, calls, adj, dst>>

threadpool_add(a) ==
  \/ AddCall(a) \/ AddLock(a) \/ AddTestFull(a) \/ AddWait(a)
  \/ AddTestRoom(a) \/ AddRefused(a) \/ AddPut(a)

-----------------------------------------------------------------------------
(* threadpool_thread *)
Goto(w, from, to) == pc[w] = from /\ pc' = [pc EXCEPT ![w] = to]

WorkerLock(w) ==
  /\ Goto(w, "lock", "test") /\ lock = NoOne
  /\ lock' = w
  /\ UNCHANGED <<queueVars, countVars, shutdown, task, done, adderVars, adj, dst>>

WorkerTestEmpty(w) ==
  /\ Goto(w, "test", "wait") /\ queue_size = 0 /\ ~shutdown
  /\ UNCHANGED <<lock, queueVars, countVars, shutdown, task, done, adderVars,
                 adj, dst>>

WorkerWait(w) ==
  /\ Goto(w, "wait", "blocked")
  /\ lock' = NoOne
  /\ UNCHANGED <<queueVars, countVars, shutdown, task, done, adderVars, adj, dst>>

(* pthread_cond_wait returns holding the lock: retire, or test again. *)
WorkerRetire(w) ==
  /\ Goto(w, "relock", "exited") /\ lock = NoOne
  /\ MustRetire
  /\ wait_exit_thr_num' = wait_exit_thr_num - 1
  /\ live_thr_num' = live_thr_num - 1
  /\ UNCHANGED <<lock, queueVars, busy_thr_num, shutdown, task, done, adderVars,
                 adj, dst>>

(* Fault: `if' for `while' around pthread_cond_wait. *)
WorkerRelock_If(w) ==
  /\ Goto(w, "relock", "take") /\ lock = NoOne
  /\ ~MustRetire
  /\ lock' = w
  /\ UNCHANGED <<queueVars, countVars, shutdown, task, done, adderVars, adj, dst>>

WorkerRelock(w) ==
  /\ Goto(w, "relock", "test") /\ lock = NoOne
  /\ ~MustRetire
  /\ lock' = w
  /\ wait_exit_thr_num' = IF wait_exit_thr_num > 0 THEN wait_exit_thr_num - 1
                          ELSE wait_exit_thr_num
  /\ UNCHANGED <<queueVars, live_thr_num, busy_thr_num, shutdown, task, done,
                 adderVars, adj, dst>>

WorkerTestShutdown(w) ==
  /\ Goto(w, "test", "exited") /\ shutdown
  /\ lock' = NoOne
  /\ UNCHANGED <<queueVars, countVars, shutdown, task, done, adderVars, adj, dst>>

WorkerTestTask(w) ==
  /\ Goto(w, "test", "take") /\ queue_size # 0 /\ ~shutdown
  /\ UNCHANGED <<lock, queueVars, countVars, shutdown, task, done, adderVars,
                 adj, dst>>

WorkerTake(w) ==
  /\ Goto(w, "take", "start") /\ ~QueueFreed
  /\ task' = [task EXCEPT ![w] = task_queue[queue_front]]
  /\ queue_front' = NextCell(queue_front)
  /\ queue_size' = queue_size - 1
  /\ apc' = Broadcast(apc)
  /\ lock' = NoOne
  /\ UNCHANGED <<task_queue, queue_rear, countVars, shutdown, done, arg, calls,
                 accepted, adj, dst>>

WorkerBusy(w) ==
  /\ Goto(w, "start", "run")
  /\ busy_thr_num' = busy_thr_num + 1
  /\ UNCHANGED <<lock, queueVars, live_thr_num, wait_exit_thr_num, shutdown,
                 task, done, adderVars, adj, dst>>

WorkerRun(w) ==
  /\ Goto(w, "run", "finish")
  /\ done' = done \cup {task[w]}
  /\ task' = [task EXCEPT ![w] = NoTask]
  /\ UNCHANGED <<lock, queueVars, countVars, shutdown, adderVars, adj, dst>>

WorkerFinish(w) ==
  /\ Goto(w, "finish", "lock")
  /\ busy_thr_num' = busy_thr_num - 1
  /\ UNCHANGED <<lock, queueVars, live_thr_num, wait_exit_thr_num, shutdown,
                 task, done, adderVars, adj, dst>>

threadpool_thread(w) ==
  \/ WorkerLock(w) \/ WorkerTestEmpty(w) \/ WorkerWait(w) \/ WorkerRetire(w)
  \/ WorkerRelock(w) \/ WorkerTestShutdown(w) \/ WorkerTestTask(w)
  \/ WorkerTake(w) \/ WorkerBusy(w) \/ WorkerRun(w) \/ WorkerFinish(w)

-----------------------------------------------------------------------------
(* adjust_thread: it decides from a snapshot it took under the locks. *)
AdjustLoop ==
  /\ adj.pc = "loop"
  /\ adj' = [adj EXCEPT !.pc = IF shutdown THEN "exited" ELSE "sleep"]
  /\ UNCHANGED <<lock, queueVars, countVars, shutdown, workerVars, adderVars, dst>>

AdjustSnapshot ==
  /\ adj.pc = "sleep" /\ lock = NoOne
  /\ adj' = [adj EXCEPT !.pc = "busy", !.queue_size = queue_size,
                        !.live = live_thr_num]
  /\ UNCHANGED <<lock, queueVars, countVars, shutdown, workerVars, adderVars, dst>>

AdjustBusy ==
  /\ adj.pc = "busy"
  /\ adj' = [adj EXCEPT !.pc = "grow", !.busy = busy_thr_num]
  /\ UNCHANGED <<lock, queueVars, countVars, shutdown, workerVars, adderVars, dst>>

WantMore  == adj.queue_size >= MinWait /\ adj.live < MaxThr
WantFewer == adj.busy * 2 < adj.live /\ adj.live > MinThr

(* The loop over pool->threads: the first free elements, at most Vary of   *)
(* them and never more than max_thr_num - live_thr_num.                    *)
FirstFree(free) ==
  {s \in free : LET before == Cardinality({r \in free : r < s})
                IN  before < Vary /\ live_thr_num + before < MaxThr}

(* is_thread_alive of a thread that has exited may answer either way: the  *)
(* tid was detached, or was never joined.                                  *)
AdjustGrow ==
  /\ adj.pc = "grow" /\ WantMore /\ lock = NoOne /\ ~QueueFreed
  /\ \E gone \in SUBSET {s \in Slots : pc[s] = "exited"} :
       LET new == FirstFree(gone \cup {s \in Slots : pc[s] = "none"})
       IN  \E started \in SUBSET new :
             /\ CreateMayFail \/ started = new
             /\ pc' = [s \in Slots |-> IF s \in started THEN "lock" ELSE pc[s]]
             /\ live_thr_num' = live_thr_num + Cardinality(new)
  /\ adj' = [adj EXCEPT !.pc = "shrink"]
  /\ UNCHANGED <<lock, queueVars, busy_thr_num, wait_exit_thr_num, shutdown,
                 task, done, adderVars, dst>>

AdjustNoGrow ==
  /\ adj.pc = "grow" /\ ~WantMore
  /\ adj' = [adj EXCEPT !.pc = "shrink"]
  /\ UNCHANGED <<lock, queueVars, countVars, shutdown, workerVars, adderVars, dst>>

AdjustShrink ==
  /\ adj.pc = "shrink" /\ WantFewer /\ lock = NoOne
  /\ wait_exit_thr_num' = Vary
  /\ adj' = [adj EXCEPT !.pc = "signal", !.i = 0]
  /\ UNCHANGED <<lock, queueVars, live_thr_num, busy_thr_num, shutdown,
                 workerVars, adderVars, dst>>

AdjustNoShrink ==
  /\ adj.pc = "shrink" /\ ~WantFewer
  /\ adj' = AdjustAtLoop
  /\ UNCHANGED <<lock, queueVars, countVars, shutdown, workerVars, adderVars, dst>>

AdjustSignal ==
  /\ adj.pc = "signal" /\ adj.i < Vary
  /\ pc' \in Signalled(pc)
  /\ adj' = IF adj.i + 1 = Vary THEN AdjustAtLoop ELSE [adj EXCEPT !.i = @ + 1]
  /\ UNCHANGED <<lock, queueVars, countVars, shutdown, task, done, adderVars, dst>>

adjust_thread ==
  \/ AdjustLoop \/ AdjustSnapshot \/ AdjustBusy \/ AdjustGrow \/ AdjustNoGrow
  \/ AdjustShrink \/ AdjustNoShrink \/ AdjustSignal

-----------------------------------------------------------------------------
(* threadpool_destroy and threadpool_free: shutdown is written and the     *)
(* queue is freed without the lock; the locks are taken and never released.*)
DestroyShutdown ==
  /\ MayDestroy /\ dst.pc = "idle"
  /\ shutdown' = TRUE
  /\ dst' = [pc |-> "bcast", i |-> 0]
  /\ UNCHANGED <<lock, queueVars, countVars, workerVars, adderVars, adj>>

DestroyBroadcast ==
  /\ dst.pc = "bcast" /\ dst.i < live_thr_num
  /\ pc' = Broadcast(pc)
  /\ dst' = [dst EXCEPT !.i = @ + 1]
  /\ UNCHANGED <<lock, queueVars, countVars, shutdown, task, done, adderVars, adj>>

FreeQueue ==
  /\ dst.pc = "bcast" /\ dst.i >= live_thr_num
  /\ dst' = [dst EXCEPT !.pc = "lock"]
  /\ UNCHANGED <<lock, queueVars, countVars, shutdown, workerVars, adderVars, adj>>

FreeLock ==
  /\ dst.pc = "lock" /\ lock = NoOne
  /\ lock' = Destroyer
  /\ dst' = [dst EXCEPT !.pc = "counter"]
  /\ UNCHANGED <<queueVars, countVars, shutdown, workerVars, adderVars, adj>>

FreePool ==
  /\ dst.pc = "counter"
  /\ dst' = [dst EXCEPT !.pc = "freed"]
  /\ UNCHANGED <<lock, queueVars, countVars, shutdown, workerVars, adderVars, adj>>

threadpool_destroy ==
  DestroyShutdown \/ DestroyBroadcast \/ FreeQueue \/ FreeLock \/ FreePool

-----------------------------------------------------------------------------
(* POSIX lets pthread_cond_wait return without a signal. *)
SpuriousWakeup ==
  \/ \E w \in Slots : /\ Goto(w, "blocked", "relock")
                      /\ UNCHANGED <<apc, arg>>
  \/ \E a \in Adders : /\ apc[a] = "blocked"
                       /\ apc' = [apc EXCEPT ![a] = "relock"]
                       /\ UNCHANGED <<pc, arg>>

Wakeup == /\ SpuriousWakeup
          /\ UNCHANGED <<lock, queueVars, countVars, shutdown, task, done, calls,
                         accepted, adj, dst>>

(* Once the pool is freed nothing that touches it has a defined effect. *)
Next ==
  /\ ~PoolFreed
  /\ \/ \E a \in Adders : threadpool_add(a)
     \/ \E w \in Slots : threadpool_thread(w)
     \/ adjust_thread
     \/ threadpool_destroy
     \/ Wakeup

Spec == Init /\ [][Next]_vars
-----------------------------------------------------------------------------
TypeOK ==
  /\ lock \in Slots \cup Adders \cup {NoOne, Destroyer}
  /\ task_queue \in [Cells -> Task \cup {NoTask}]
  /\ queue_front \in Cells /\ queue_rear \in Cells /\ queue_size \in 0 .. QueueMax
  /\ live_thr_num \in Nat /\ busy_thr_num \in Int /\ wait_exit_thr_num \in 0 .. Vary
  /\ shutdown \in BOOLEAN
  /\ pc \in [Slots -> WorkerPc] /\ task \in [Slots -> Task \cup {NoTask}]
  /\ apc \in [Adders -> AdderPc] /\ arg \in [Adders -> Task \cup {NoTask}]
  /\ calls \in 0 .. NTasks
  /\ accepted \subseteq Task /\ done \subseteq Task
  /\ adj \in [pc : AdjustPc, queue_size : 0 .. QueueMax, live : Nat, busy : Int,
              i : 0 .. Vary]
  /\ dst \in [pc : DestroyPc, i : Nat]

(* The tasks waiting in the ring, oldest first, and the tasks workers hold. *)
Pending == [i \in 1 .. queue_size |-> task_queue[(queue_front + i - 1) % QueueMax]]
Queued  == {Pending[i] : i \in 1 .. queue_size}
Held    == {task[w] : w \in Slots} \ {NoTask}
-----------------------------------------------------------------------------
(* Safety.  The ring is a FIFO queue of at most queue_max_size tasks and    *)
(* every task taken out of it is run by one worker, once: no interleaving   *)
(* of threadpool_add, the workers, the adjust thread and threadpool_destroy *)
(* overwrites a waiting task, hands one out twice or out of order.          *)
Abstract == INSTANCE TaskQueue
              WITH queue <- Pending, running <- Held, Capacity <- QueueMax,
                   MayDiscard <- FALSE
ImplementsTaskQueue == Abstract!Spec

(* The counters adjust_thread steers by are exact whenever a thread can     *)
(* read them: live_thr_num is the number of workers that have not exited    *)
(* and stays between min_thr_num and max_thr_num, and busy_thr_num is the   *)
(* number of workers between their two updates of it.                       *)
LiveExact == live_thr_num = Cardinality(Alive) /\ live_thr_num \in MinThr .. MaxThr
BusyExact == busy_thr_num = Cardinality(Busy)
CountersExact == BusyExact /\ (~shutdown => LiveExact)

(* A caller sleeps in threadpool_add only while the queue is really full:   *)
(* the broadcast in threadpool_thread wakes every waiting caller before the *)
(* freed place can be seen.                                                 *)
BlockedAdderMeansFull ==
  \A a \in Adders : apc[a] \in {"wait", "blocked"} => queue_size = QueueMax

(* Until the pool is shut down, a task whose threadpool_add returned 0 is   *)
(* in the queue, held by a worker or has been run: no path of the pool      *)
(* drops it.  (After shutdown threadpool_add returns 0 and keeps nothing.)  *)
AcceptedIsKept == ~shutdown => accepted \subseteq Queued \cup Held \cup done

(* While a task waits, some worker is awake to take it: the one signal of   *)
(* threadpool_add is never spent on nobody.                                 *)
NobodySleepsOnWork ==
  queue_size > 0 /\ ~shutdown => \E w \in Alive : pc[w] # "blocked"

(* threadpool_destroy gives the queue and then the pool back to the heap    *)
(* only when no thread can still reach them.                                *)
StoppedBeforeFree ==
  /\ QueueFreed => /\ \A w \in Slots : pc[w] # "take"
                   /\ \A a \in Adders : apc[a] # "put"
  /\ PoolFreed => Alive = {} /\ adj.pc = "exited"

-----------------------------------------------------------------------------
(* Fairness: the scheduler runs every thread that can run, and a thread     *)
(* that asks for the mutex again and again gets it.  Nothing makes a caller *)
(* call threadpool_add or threadpool_destroy.                               *)
Fairness ==
  /\ \A w \in Slots : SF_vars(~PoolFreed /\ threadpool_thread(w))
  /\ \A a \in Adders : SF_vars(~PoolFreed /\ threadpool_add(a) /\ apc[a] # "idle")
  /\ SF_vars(~PoolFreed /\ adjust_thread)
  /\ WF_vars(~PoolFreed /\ threadpool_destroy /\ dst.pc # "idle")
FairSpec == Spec /\ Fairness

(* Liveness.  Every task that enters the queue is eventually run. *)
QueuedTaskRuns == \A t \in Task : t \in Queued ~> t \in done

(* A call of threadpool_add eventually returns, however full the queue.     *)
AddReturns == \A a \in Adders : apc[a] # "idle" ~> apc[a] = "idle"
-----------------------------------------------------------------------------
(* The parts of the inductive invariants behind the theorems of             *)
(* ThreadPoolProofs and ThreadPoolCounters.                                 *)

(* Whoever is inside a critical section of pool->lock owns it. *)
LockInv ==
  /\ \A w \in Slots : pc[w] \in {"test", "wait", "take"} => lock = w
  /\ \A a \in Adders : apc[a] \in {"test", "wait", "put"} => lock = a

(* What was tested under the lock still holds when it is acted on. *)
RoomInv ==
  /\ BlockedAdderMeansFull
  /\ \A a \in Adders : apc[a] = "put" => queue_size < QueueMax
  /\ \A w \in Slots : pc[w] = "take" => queue_size > 0

(* The rear index is queue_size cells after the front one, and the cells    *)
(* between them hold tasks.                                                 *)
RingInv ==
  /\ queue_rear = (queue_front + queue_size) % QueueMax
  /\ \A i \in 1 .. queue_size : Pending[i] \in Task

(* A thread has a task in its hands exactly while it is adding or running it. *)
HandInv ==
  /\ \A a \in Adders : arg[a] = NoTask <=> apc[a] = "idle"
  /\ \A w \in Slots : task[w] = NoTask <=> pc[w] \notin {"start", "run"}

(* A task is in one place: one caller's hands, one cell of the ring, one    *)
(* worker's hands, or done; only numbers already given out are anywhere.    *)
OnePlace ==
  /\ \A a, b \in Adders : a # b /\ arg[a] # NoTask => arg[a] # arg[b]
  /\ \A i, j \in 1 .. queue_size : i # j => Pending[i] # Pending[j]
  /\ \A w, v \in Slots : w # v /\ task[w] # NoTask => task[w] # task[v]
  /\ \A a \in Adders, i \in 1 .. queue_size : arg[a] # Pending[i]
  /\ \A a \in Adders, w \in Slots : arg[a] # NoTask => arg[a] # task[w]
  /\ \A i \in 1 .. queue_size, w \in Slots : Pending[i] # task[w]
  /\ \A a \in Adders : arg[a] \notin done
  /\ \A i \in 1 .. queue_size : Pending[i] \notin done
  /\ \A w \in Slots : task[w] \notin done
GivenOut ==
  /\ \A a \in Adders : arg[a] <= calls
  /\ \A i \in 1 .. queue_size : Pending[i] <= calls
  /\ \A w \in Slots : task[w] <= calls
  /\ \A t \in done : t <= calls

SafetyInv == TypeOK /\ LockInv /\ RoomInv /\ RingInv /\ HandInv
TaskInv == OnePlace /\ GivenOut
=============================================================================
