----------------------------- MODULE SimplePool -----------------------------
(***************************************************************************)
(* The simple thread pool of Csocket/epoll_反应堆/threadpoolsimple.c (and   *)
(* its annotated copy in 线程池简单版/): a fixed number of workers, a ring of *)
(* tasks addressed by two counters that only grow, callers of addtask and  *)
(* one caller of destroy_threadpool.                                       *)
(*                                                                         *)
(* The conventions are those of ThreadPool: the mutex is its owner, a      *)
(* condition variable is the set of threads whose pc is "blocked".  Here   *)
(* addtask signals after it has unlocked, a worker signals one caller per  *)
(* task, and the workers read `shutdown' twice, though it is written       *)
(* without the lock.  A task is its tasknum, numbered from beginnum.       *)
(***************************************************************************)
EXTENDS Integers, FiniteSets

CONSTANTS ThrNum,      \* thr_num
          MaxJob,      \* max_job_num
          IntMax,      \* INT_MAX
          Adders,      \* threads that call addtask
          NTasks,      \* bound on the calls of addtask
          MayDestroy   \* whether destroy_threadpool may be called

Workers == 0 .. ThrNum - 1
Cells   == 0 .. MaxJob - 1
Task    == 1 .. NTasks
NoTask  == 0
NoOne   == -1

ASSUME SizesAssumption ==
  /\ ThrNum \in Nat \ {0} /\ MaxJob \in Nat \ {0} /\ IntMax \in Nat \ {0}
  /\ NTasks \in Nat
ASSUME SwitchAssumption == MayDestroy \in BOOLEAN
ASSUME AdderAssumption ==
  IsFiniteSet(Adders) /\ \A a \in Adders : a \notin Workers \cup {NoOne}

VARIABLES pool_lock,                            \* owner of pool_lock
          tasks, job_push, job_pop, job_num, shutdown,
          beginnum,  \* the next tasknum
          pc,        \* per worker: where it is in thrRun
          task,      \* per worker: its copy of a task
          done,      \* tasks whose function has returned
          apc,       \* per adder: where it is in addtask
          calls,     \* calls of addtask begun
          dst        \* where destroy_threadpool is

queueVars == <<tasks, job_push, job_pop, job_num, beginnum>>
workerVars == <<pc, task, done>>
adderVars == <<apc, calls>>
vars == <<pool_lock, queueVars, shutdown, workerVars, adderVars, dst>>

WorkerPc  == {"lock", "test", "wait", "blocked", "relock", "check", "run", "exited"}
AdderPc   == {"idle", "lock", "test", "wait", "blocked", "relock", "signal"}
DestroyPc == {"idle", "bcast", "join", "freed"}

(***************************************************************************)
(* C arithmetic: `++' on an int that has reached INT_MAX wraps to the      *)
(* least int in the builds at hand, and `%' takes the sign of its left     *)
(* operand.                                                                *)
(***************************************************************************)
Incr(x) == IF x = IntMax THEN -IntMax - 1 ELSE x + 1

Cell(x) == IF x >= 0 THEN x % MaxJob ELSE -((-x) % MaxJob)

(* Fault: the signal goes to the other condition variable. *)
Signalled_Other(p) == {p}

Signalled(p) ==
  LET waiters == {t \in DOMAIN p : p[t] = "blocked"}
  IN  IF waiters = {} THEN {p}
      ELSE {[p EXCEPT ![t] = "relock"] : t \in waiters}

(* Fault: `<' for `<=' in the test of addtask. *)
Full_OffByOne == MaxJob < job_num

Full == MaxJob <= job_num

-----------------------------------------------------------------------------
(* create_threadpool *)
Init ==
  /\ pool_lock = NoOne
  /\ tasks = [i \in Cells |-> NoTask]
  /\ job_push = 0 /\ job_pop = 0 /\ job_num = 0
  /\ shutdown = FALSE
  /\ beginnum = 1
  /\ pc = [w \in Workers |-> "lock"]
  /\ task = [w \in Workers |-> NoTask]
  /\ done = {}
  /\ apc = [a \in Adders |-> "idle"]
  /\ calls = 0
  /\ dst = "idle"

-----------------------------------------------------------------------------
(* addtask: it never looks at shutdown. *)
AddCall(a) ==
  /\ apc[a] = "idle" /\ calls < NTasks
  /\ calls' = calls + 1
  /\ apc' = [apc EXCEPT ![a] = "lock"]
  /\ UNCHANGED <<pool_lock, queueVars, shutdown, workerVars, dst>>

AddLock(a) ==
  /\ apc[a] \in {"lock", "relock"} /\ pool_lock = NoOne
  /\ pool_lock' = a
  /\ apc' = [apc EXCEPT ![a] = "test"]
  /\ UNCHANGED <<queueVars, shutdown, workerVars, calls, dst>>

AddTestFull(a) ==
  /\ apc[a] = "test" /\ Full
  /\ apc' = [apc EXCEPT ![a] = "wait"]
  /\ UNCHANGED <<pool_lock, queueVars, shutdown, workerVars, calls, dst>>

AddWait(a) ==
  /\ apc[a] = "wait"
  /\ pool_lock' = NoOne
  /\ apc' = [apc EXCEPT ![a] = "blocked"]
  /\ UNCHANGED <<queueVars, shutdown, workerVars, calls, dst>>

(* An index outside tasks has no defined effect. *)
AddPut(a) ==
  /\ apc[a] = "test" /\ ~Full
  /\ Cell(job_push) \in Cells
  /\ tasks' = [tasks EXCEPT ![Cell(job_push)] = beginnum]
  /\ job_push' = Incr(job_push)
  /\ beginnum' = beginnum + 1
  /\ job_num' = job_num + 1
  /\ pool_lock' = NoOne
  /\ apc' = [apc EXCEPT ![a] = "signal"]
  /\ UNCHANGED <<job_pop, shutdown, workerVars, calls, dst>>

AddSignal(a) ==
  /\ apc[a] = "signal"
  /\ pc' \in Signalled(pc)
  /\ apc' = [apc EXCEPT ![a] = "idle"]
  /\ UNCHANGED <<pool_lock, queueVars, shutdown, task, done, calls, dst>>

addtask(a) ==
  \/ AddCall(a) \/ AddLock(a) \/ AddTestFull(a) \/ AddWait(a)
  \/ AddPut(a) \/ AddSignal(a)

-----------------------------------------------------------------------------
(* thrRun *)
Goto(w, from, to) == pc[w] = from /\ pc' = [pc EXCEPT ![w] = to]

WorkerLock(w) ==
  /\ Goto(w, "lock", "test") \/ Goto(w, "relock", "test")
  /\ pool_lock = NoOne /\ pool_lock' = w
  /\ UNCHANGED <<queueVars, shutdown, task, done, adderVars, dst>>

WorkerTestEmpty(w) ==
  /\ Goto(w, "test", "wait") /\ job_num <= 0 /\ ~shutdown
  /\ UNCHANGED <<pool_lock, queueVars, shutdown, task, done, adderVars, dst>>

WorkerWait(w) ==
  /\ Goto(w, "wait", "blocked")
  /\ pool_lock' = NoOne
  /\ UNCHANGED <<queueVars, shutdown, task, done, adderVars, dst>>

(* Fault: ++job_pop for job_pop++. *)
WorkerPop_Preincrement(w) ==
  /\ Goto(w, "test", "check") /\ job_num > 0
  /\ task' = [task EXCEPT ![w] = tasks[Cell(Incr(job_pop))]]
  /\ job_pop' = Incr(job_pop)
  /\ job_num' = job_num - 1
  /\ apc' \in Signalled(apc)
  /\ UNCHANGED <<pool_lock, tasks, job_push, beginnum, shutdown, done, calls, dst>>

WorkerPop(w) ==
  /\ Goto(w, "test", "check") /\ job_num > 0
  /\ Cell(job_pop) \in Cells
  /\ task' = [task EXCEPT ![w] = tasks[Cell(job_pop)]]
  /\ job_pop' = Incr(job_pop)
  /\ job_num' = job_num - 1
  /\ apc' \in Signalled(apc)
  /\ UNCHANGED <<pool_lock, tasks, job_push, beginnum, shutdown, done, calls, dst>>

WorkerNoJob(w) ==
  /\ Goto(w, "test", "check") /\ job_num = 0 /\ shutdown
  /\ UNCHANGED <<pool_lock, queueVars, shutdown, task, done, adderVars, dst>>

(* On shutdown the task just taken out is dropped. *)
WorkerExit(w) ==
  /\ Goto(w, "check", "exited") /\ shutdown
  /\ task' = [task EXCEPT ![w] = NoTask]
  /\ pool_lock' = NoOne
  /\ UNCHANGED <<queueVars, shutdown, done, adderVars, dst>>

WorkerUnlock(w) ==
  /\ Goto(w, "check", "run") /\ ~shutdown
  /\ pool_lock' = NoOne
  /\ UNCHANGED <<queueVars, shutdown, task, done, adderVars, dst>>

WorkerRun(w) ==
  /\ Goto(w, "run", "lock")
  /\ done' = done \cup {task[w]}
  /\ task' = [task EXCEPT ![w] = NoTask]
  /\ UNCHANGED <<pool_lock, queueVars, shutdown, adderVars, dst>>

thrRun(w) ==
  \/ WorkerLock(w) \/ WorkerTestEmpty(w) \/ WorkerWait(w) \/ WorkerPop(w)
  \/ WorkerNoJob(w) \/ WorkerExit(w) \/ WorkerUnlock(w) \/ WorkerRun(w)

-----------------------------------------------------------------------------
(* destroy_threadpool.  The workers are detached, so pthread_join waits for *)
(* nobody.                                                                  *)
DestroyShutdown ==
  /\ MayDestroy /\ dst = "idle"
  /\ shutdown' = TRUE
  /\ dst' = "bcast"
  /\ UNCHANGED <<pool_lock, queueVars, workerVars, adderVars>>

DestroyBroadcast ==
  /\ dst = "bcast"
  /\ pc' = [w \in Workers |-> IF pc[w] = "blocked" THEN "relock" ELSE pc[w]]
  /\ dst' = "join"
  /\ UNCHANGED <<pool_lock, queueVars, shutdown, task, done, adderVars>>

DestroyFree ==
  /\ dst = "join"
  /\ dst' = "freed"
  /\ UNCHANGED <<pool_lock, queueVars, shutdown, workerVars, adderVars>>

destroy_threadpool == DestroyShutdown \/ DestroyBroadcast \/ DestroyFree

-----------------------------------------------------------------------------
(* POSIX lets pthread_cond_wait return without a signal. *)
Wakeup ==
  /\ \/ \E w \in Workers : Goto(w, "blocked", "relock") /\ UNCHANGED apc
     \/ \E a \in Adders : /\ apc[a] = "blocked"
                          /\ apc' = [apc EXCEPT ![a] = "relock"]
                          /\ UNCHANGED pc
  /\ UNCHANGED <<pool_lock, queueVars, shutdown, task, done, calls, dst>>

(* Once the pool is freed nothing that touches it has a defined effect. *)
Next ==
  /\ dst # "freed"
  /\ \/ \E a \in Adders : addtask(a)
     \/ \E w \in Workers : thrRun(w)
     \/ destroy_threadpool
     \/ Wakeup

Spec == Init /\ [][Next]_vars

-----------------------------------------------------------------------------
TypeOK ==
  /\ pool_lock \in Workers \cup Adders \cup {NoOne}
  /\ tasks \in [Cells -> Task \cup {NoTask}]
  /\ job_push \in -IntMax - 1 .. IntMax /\ job_pop \in -IntMax - 1 .. IntMax
  /\ job_num \in 0 .. MaxJob
  /\ shutdown \in BOOLEAN
  /\ beginnum \in 1 .. NTasks + 1
  /\ pc \in [Workers -> WorkerPc]
  /\ task \in [Workers -> Task \cup {NoTask}] /\ done \subseteq Task
  /\ apc \in [Adders -> AdderPc]
  /\ calls \in 0 .. NTasks
  /\ dst \in DestroyPc

(* The tasks waiting in the ring, oldest first, and the tasks workers hold. *)
Pending == [i \in 1 .. job_num |-> tasks[Cell(job_pop + i - 1)]]
Queued  == {Pending[i] : i \in 1 .. job_num}
Held    == {task[w] : w \in Workers} \ {NoTask}

-----------------------------------------------------------------------------
(* Safety.  As long as the two counters have not passed INT_MAX, the ring   *)
(* is a FIFO queue of at most max_job_num tasks and every task taken out of *)
(* it goes to one worker, which runs it once or, on shutdown, drops it.     *)
Abstract == INSTANCE TaskQueue
              WITH queue <- Pending, running <- Held, Capacity <- MaxJob,
                   MayDiscard <- TRUE
ImplementsTaskQueue == Abstract!Spec

(* No wakeup is lost on the way to the workers: while some worker sleeps,   *)
(* each waiting task is matched by a worker that is up and will look at the *)
(* queue again, or by a call of addtask that has still to signal.           *)
WorkersCoverTasks ==
  (\E w \in Workers : pc[w] = "blocked") =>
     job_num <= Cardinality({w \in Workers : pc[w] \in {"lock", "relock", "test"}})
                + Cardinality({a \in Adders : apc[a] = "signal"})

(* No wakeup is lost on the way back: while some caller sleeps in addtask,  *)
(* each free place is matched by a caller that is up and will look at the   *)
(* queue again, though a worker signals only one of them per task.          *)
CallersCoverRoom ==
  (\E a \in Adders : apc[a] = "blocked") =>
     MaxJob - job_num <= Cardinality({a \in Adders : apc[a] \in {"lock", "relock", "test"}})

-----------------------------------------------------------------------------
(* Fairness as in ThreadPool: every thread that can run does, the mutex is  *)
(* not refused for ever, and nothing forces a call.                         *)
Fairness ==
  /\ \A w \in Workers : SF_vars(dst # "freed" /\ thrRun(w))
  /\ \A a \in Adders : SF_vars(dst # "freed" /\ addtask(a) /\ apc[a] # "idle")
FairSpec == Spec /\ Fairness

(* Liveness.  Unless the pool is shut down, every task that enters the      *)
(* queue is eventually run.                                                 *)
QueuedTaskRuns == \A t \in Task : t \in Queued ~> t \in done \/ shutdown

(* Unless the pool is shut down, a call of addtask eventually returns,      *)
(* however full the queue.                                                  *)
AddReturns == \A a \in Adders : apc[a] # "idle" ~> apc[a] = "idle" \/ shutdown
=============================================================================
