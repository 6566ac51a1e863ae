------------------------- MODULE ThreadPoolCounters -------------------------
(***************************************************************************)
(* Proof that the two counters adjust_thread decides by, live_thr_num and  *)
(* busy_thr_num, are exact: the counting argument behind CountersExact,    *)
(* and behind NobodySleepsOnWork in a pool that does not shrink.           *)
(***************************************************************************)
EXTENDS ThreadPoolProofs

(* Workers are elements of pool->threads, so there are at most max_thr_num. *)
LEMMA FiniteSlots ==
  ASSUME NEW S \in SUBSET Slots
  PROVE  IsFiniteSet(S) /\ Cardinality(S) \in Nat /\ Cardinality(S) <= MaxThr
<1>1. IsFiniteSet(0 .. MaxThr - 1) /\ Cardinality(0 .. MaxThr - 1) = MaxThr
  BY FS_Interval, SizesAssumption
<1>2. S \in SUBSET (0 .. MaxThr - 1) BY DEF Slots
<1>3. IsFiniteSet(S) /\ Cardinality(S) <= MaxThr BY <1>1, <1>2, FS_Subset
<1>4. Cardinality(S) \in Nat BY <1>3, FS_CardinalityType
<1>. QED BY <1>3, <1>4

(* A step that neither counter has to follow. *)
SameWorkers ==
  /\ Busy' = Busy /\ Alive' = Alive
  /\ UNCHANGED <<live_thr_num, busy_thr_num>>
  /\ shutdown => shutdown'

(* Only five kinds of step change who is alive or busy: taking up a task,   *)
(* finishing it, retiring, leaving on shutdown, and the adjust thread's     *)
(* creation of workers.                                                     *)
LEMMA WorkersChange ==
  ASSUME SafetyInv, [Next]_vars
  PROVE  \/ SameWorkers
         \/ \E w \in Slots : \/ WorkerBusy(w) \/ WorkerFinish(w)
                             \/ WorkerRetire(w) \/ WorkerTestShutdown(w)
         \/ AdjustGrow
<1>. USE DEF countVars, workerVars, SameWorkers
<1>0. pc \in [Slots -> WorkerPc] /\ shutdown \in BOOLEAN BY DEF SafetyInv, TypeOK
<1>1. ASSUME UNCHANGED <<pc, live_thr_num, busy_thr_num>>, shutdown => shutdown'
      PROVE  SameWorkers
  BY <1>1 DEF Busy, Alive
<1>2. ASSUME NEW w \in Slots, NEW from, NEW to, Goto(w, from, to),
             \/ {from, to} \cap {"run", "finish", "none", "exited"} = {}
             \/ from = "run" /\ to = "finish",
             UNCHANGED <<live_thr_num, busy_thr_num, shutdown>>
      PROVE  SameWorkers
  BY <1>0, <1>2 DEF Goto, Busy, Alive
<1>3. ASSUME \A w \in Slots : pc'[w] = pc[w] \/ (pc[w] = "blocked" /\ pc'[w] = "relock"),
             UNCHANGED <<live_thr_num, busy_thr_num, shutdown>>
      PROVE  SameWorkers
  BY <1>3 DEF Busy, Alive
<1>4. ASSUME NEW a \in Adders, threadpool_add(a) PROVE SameWorkers
  <2>1. CASE AddRefused(a) BY <1>0, <1>3, <2>1, BroadcastWorkers DEF AddRefused
  <2>2. CASE AddPut(a) BY <1>0, <1>3, <2>2, SignalWorkers DEF AddPut
  <2>. QED BY <1>1, <1>4, <2>1, <2>2 DEF threadpool_add, AddCall, AddLock,
           AddTestFull, AddWait, AddTestRoom
<1>5. ASSUME NEW w \in Slots, threadpool_thread(w), ~WorkerBusy(w), ~WorkerFinish(w),
             ~WorkerRetire(w), ~WorkerTestShutdown(w)
      PROVE  SameWorkers
  <2>1. CASE WorkerLock(w) BY <1>2, <2>1 DEF WorkerLock
  <2>2. CASE WorkerTestEmpty(w) BY <1>2, <2>2 DEF WorkerTestEmpty
  <2>3. CASE WorkerWait(w) BY <1>2, <2>3 DEF WorkerWait
  <2>4. CASE WorkerRelock(w) BY <1>2, <2>4 DEF WorkerRelock
  <2>5. CASE WorkerTestTask(w) BY <1>2, <2>5 DEF WorkerTestTask
  <2>6. CASE WorkerTake(w) BY <1>2, <2>6 DEF WorkerTake
  <2>7. CASE WorkerRun(w) BY <1>2, <2>7 DEF WorkerRun
  <2>. QED BY <1>5, <2>1, <2>2, <2>3, <2>4, <2>5, <2>6, <2>7 DEF threadpool_thread
<1>6. ASSUME adjust_thread, ~AdjustGrow PROVE SameWorkers
  <2>1. CASE AdjustSignal BY <1>0, <1>3, <2>1, SignalWorkers DEF AdjustSignal
  <2>. QED BY <1>1, <1>6, <2>1 DEF adjust_thread, AdjustLoop, AdjustSnapshot,
           AdjustBusy, AdjustNoGrow, AdjustShrink, AdjustNoShrink
<1>7. ASSUME threadpool_destroy PROVE SameWorkers
  <2>1. CASE DestroyBroadcast BY <1>0, <1>3, <2>1, BroadcastWorkers DEF DestroyBroadcast
  <2>. QED BY <1>1, <1>7, <2>1 DEF threadpool_destroy, DestroyShutdown, FreeQueue,
           FreeLock, FreePool
<1>8. ASSUME Wakeup PROVE SameWorkers
  BY <1>0, <1>1, <1>2, <1>8 DEF Wakeup, SpuriousWakeup
<1>9. CASE UNCHANGED vars BY <1>1, <1>9 DEF vars
<1>. QED BY <1>4, <1>5, <1>6, <1>7, <1>8, <1>9 DEF Next

(* The inductive form of CountersExact: the upper bound max_thr_num follows *)
(* from the number of elements of pool->threads.                            *)
CountInv ==
  /\ BusyExact
  /\ ~shutdown => live_thr_num = Cardinality(Alive) /\ MinThr <= live_thr_num

(* With a reliable pthread_create threadpool_create starts min_thr_num workers. *)
LEMMA CountInit == ASSUME CreateMayFail = FALSE PROVE Init => CountInv
<1>. SUFFICES ASSUME Init PROVE CountInv OBVIOUS
<1>. USE SizesAssumption
<1>1. pc = [w \in Slots |-> IF w \in 0 .. MinThr - 1 THEN "lock" ELSE "none"]
  BY DEF Init
<1>2. Busy = {} BY <1>1 DEF Busy
<1>3. Alive = 0 .. MinThr - 1
  <2>1. \A w \in Slots : pc[w] \notin {"none", "exited"} <=> w \in 0 .. MinThr - 1
    BY <1>1
  <2>2. 0 .. MinThr - 1 \subseteq Slots BY DEF Slots
  <2>. QED BY <2>1, <2>2 DEF Alive
<1>4. Cardinality(0 .. MinThr - 1) = MinThr BY FS_Interval
<1>. QED BY <1>2, <1>3, <1>4, FS_EmptySet DEF Init, CountInv, BusyExact

(* Each of those steps moves the counter by exactly what it moves the set. *)
LEMMA CountStep ==
  ASSUME CreateMayFail = FALSE, SafetyInv, CountInv, [Next]_vars
  PROVE  CountInv'
<1>. USE SizesAssumption DEF CountInv, BusyExact, countVars
<1>0. pc \in [Slots -> WorkerPc] BY DEF SafetyInv, TypeOK
<1>F. /\ Busy \in SUBSET Slots /\ IsFiniteSet(Busy) /\ Cardinality(Busy) \in Nat
      /\ Alive \in SUBSET Slots /\ IsFiniteSet(Alive) /\ Cardinality(Alive) \in Nat
  <2>1. Busy \in SUBSET Slots /\ Alive \in SUBSET Slots BY DEF Busy, Alive
  <2>. QED BY <2>1, FiniteSlots
<1>1. CASE SameWorkers BY <1>1 DEF SameWorkers
<1>2. ASSUME NEW w \in Slots, WorkerBusy(w) PROVE CountInv'
  <2>1. Busy' = Busy \cup {w} /\ w \notin Busy BY <1>0, <1>2 DEF WorkerBusy, Goto, Busy
  <2>2. Alive' = Alive BY <1>0, <1>2 DEF WorkerBusy, Goto, Alive
  <2>3. Cardinality(Busy') = Cardinality(Busy) + 1 BY <1>F, <2>1, FS_AddElement
  <2>. QED BY <1>2, <2>2, <2>3 DEF WorkerBusy
<1>3. ASSUME NEW w \in Slots, WorkerFinish(w) PROVE CountInv'
  <2>1. Busy' = Busy \ {w} /\ w \in Busy BY <1>0, <1>3 DEF WorkerFinish, Goto, Busy
  <2>2. Alive' = Alive BY <1>0, <1>3 DEF WorkerFinish, Goto, Alive
  <2>3. Cardinality(Busy') = Cardinality(Busy) - 1 BY <1>F, <2>1, FS_RemoveElement
  <2>. QED BY <1>3, <2>2, <2>3 DEF WorkerFinish
<1>4. ASSUME NEW w \in Slots, WorkerRetire(w) PROVE CountInv'
  <2>1. Alive' = Alive \ {w} /\ w \in Alive BY <1>0, <1>4 DEF WorkerRetire, Goto, Alive
  <2>2. Busy' = Busy BY <1>0, <1>4 DEF WorkerRetire, Goto, Busy
  <2>3. Cardinality(Alive') = Cardinality(Alive) - 1 BY <1>F, <2>1, FS_RemoveElement
  <2>. QED BY <1>4, <1>F, <2>2, <2>3 DEF WorkerRetire, MustRetire
<1>5. ASSUME NEW w \in Slots, WorkerTestShutdown(w) PROVE CountInv'
  <2>1. Busy' = Busy BY <1>0, <1>5 DEF WorkerTestShutdown, Goto, Busy
  <2>. QED BY <1>5, <2>1 DEF WorkerTestShutdown
<1>6. ASSUME AdjustGrow PROVE CountInv'
  <2>1. PICK gone \in SUBSET {s \in Slots : pc[s] = "exited"} :
          LET new == FirstFree(gone \cup {s \in Slots : pc[s] = "none"})
          IN  /\ pc' = [s \in Slots |-> IF s \in new THEN "lock" ELSE pc[s]]
              /\ live_thr_num' = live_thr_num + Cardinality(new)
    BY <1>6 DEF AdjustGrow
  <2>. DEFINE new == FirstFree(gone \cup {s \in Slots : pc[s] = "none"})
  <2>2. new \in SUBSET Slots /\ \A s \in new : pc[s] \in {"none", "exited"}
    BY DEF FirstFree
  <2>3. \A s \in Slots : pc'[s] = IF s \in new THEN "lock" ELSE pc[s]
    BY <2>1
  <2>4. live_thr_num' = live_thr_num + Cardinality(new) BY <2>1
  <2>. HIDE DEF new
  <2>5. Alive' = Alive \cup new /\ Alive \cap new = {} BY <2>2, <2>3 DEF Alive
  <2>6. Busy' = Busy BY <2>2, <2>3 DEF Busy
  <2>7. IsFiniteSet(new) /\ Cardinality(new) \in Nat BY <2>2, FiniteSlots
  <2>8. Cardinality(Alive') = Cardinality(Alive) + Cardinality(new)
    BY <1>F, <2>5, <2>7, FS_Union, FS_EmptySet
  <2>9. busy_thr_num' = busy_thr_num /\ shutdown' = shutdown BY <1>6 DEF AdjustGrow
  <2>. QED BY <1>F, <2>4, <2>6, <2>7, <2>8, <2>9
<1>. QED BY <1>1, <1>2, <1>3, <1>4, <1>5, <1>6, WorkersChange

(* The counters threadpool_all_threadnum and threadpool_busy_threadnum      *)
(* report, and adjust_thread steers by, are exact in every reachable state, *)
(* for every pool size, provided pthread_create never fails: live_thr_num   *)
(* up to shutdown, busy_thr_num always.                                     *)
THEOREM CountersAreExact ==
  ASSUME CreateMayFail = FALSE PROVE Spec => []CountersExact
<1>1. Init => CountInv BY CountInit
<1>2. SafetyInv /\ CountInv /\ [Next]_vars => CountInv' BY CountStep
<1>3. CountInv => CountersExact
  <2>1. Alive \in SUBSET Slots BY DEF Alive
  <2>2. Cardinality(Alive) \in Nat /\ Cardinality(Alive) <= MaxThr BY <2>1, FiniteSlots
  <2>. QED BY <2>2, SizesAssumption DEF CountInv, CountersExact, LiveExact
<1>. QED BY Safety, <1>1, <1>2, <1>3, PTL DEF Spec

(* A pool of fixed size has a worker up to shutdown, and none retires. *)
LEMMA FixedSize ==
  ASSUME MinThr = MaxThr, SafetyInv, CountInv, ~shutdown
  PROVE  Alive # {} /\ ~MustRetire
<1>. USE SizesAssumption
<1>1. Alive \in SUBSET Slots BY DEF Alive
<1>2. Cardinality(Alive) \in Nat /\ Cardinality(Alive) <= MaxThr BY <1>1, FiniteSlots
<1>3. live_thr_num = Cardinality(Alive) /\ MinThr <= live_thr_num BY DEF CountInv
<1>4. Cardinality(Alive) # 0 /\ ~(live_thr_num > MinThr) BY <1>2, <1>3
<1>. QED BY <1>4, FS_EmptySet DEF MustRetire

(* A worker that has found the queue empty goes to sleep before the lock is *)
(* free for a threadpool_add.                                               *)
StillEmpty == \A w \in Slots : pc[w] = "wait" => queue_size = 0

(* No step fills the queue under such a worker. *)
LEMMA EmptyStep ==
  ASSUME SafetyInv, StillEmpty, [Next]_vars
  PROVE  StillEmpty'
<1>. USE DEF queueVars, countVars, workerVars
<1>0. pc \in [Slots -> WorkerPc] /\ LockInv BY DEF SafetyInv, TypeOK
<1>1. ASSUME NEW a \in Adders, AddPut(a) PROVE StillEmpty'
  <2>1. \A w \in Slots : pc[w] # "wait"
    BY <1>0, <1>1, AdderAssumption DEF AddPut, LockInv
  <2>2. \A w \in Slots : pc'[w] = pc[w] \/ pc'[w] = "relock"
    BY <1>0, <1>1, SignalWorkers DEF AddPut
  <2>. QED BY <2>1, <2>2 DEF StillEmpty
<1>2. ASSUME NEW w \in Slots, WorkerTake(w) PROVE StillEmpty'
  <2>1. \A v \in Slots : pc[v] # "wait" BY <1>0, <1>2 DEF WorkerTake, Goto, LockInv
  <2>. QED BY <1>0, <1>2, <2>1 DEF WorkerTake, Goto, StillEmpty
<1>3. ASSUME NEW w \in Slots, WorkerTestEmpty(w) PROVE StillEmpty'
  BY <1>3 DEF WorkerTestEmpty, StillEmpty
<1>4. ASSUME queue_size' = queue_size,
             \A w \in Slots : pc'[w] = "wait" => pc[w] = "wait"
      PROVE  StillEmpty'
  BY <1>4 DEF StillEmpty
<1>5. ASSUME NEW a \in Adders, threadpool_add(a), ~AddPut(a) PROVE StillEmpty'
  <2>1. CASE AddRefused(a) BY <1>0, <1>4, <2>1, BroadcastWorkers DEF AddRefused
  <2>. QED BY <1>4, <1>5, <2>1 DEF threadpool_add, AddCall, AddLock, AddTestFull, AddWait,
           AddTestRoom
<1>6. ASSUME NEW w \in Slots, threadpool_thread(w), ~WorkerTake(w), ~WorkerTestEmpty(w)
      PROVE  StillEmpty'
  BY <1>0, <1>4, <1>6 DEF threadpool_thread, WorkerLock, WorkerWait, WorkerRetire,
     WorkerRelock, WorkerTestShutdown, WorkerTestTask, WorkerBusy, WorkerRun, WorkerFinish,
     Goto
<1>7. CASE AdjustGrow
  BY <1>4, <1>7 DEF AdjustGrow
<1>8. ASSUME adjust_thread, ~AdjustGrow PROVE StillEmpty'
  <2>1. CASE AdjustSignal BY <1>0, <1>4, <2>1, SignalWorkers DEF AdjustSignal
  <2>. QED BY <1>4, <1>8, <2>1 DEF adjust_thread, AdjustLoop, AdjustSnapshot,
           AdjustBusy, AdjustNoGrow, AdjustShrink, AdjustNoShrink
<1>9. ASSUME threadpool_destroy PROVE StillEmpty'
  <2>1. CASE DestroyBroadcast BY <1>0, <1>4, <2>1, BroadcastWorkers DEF DestroyBroadcast
  <2>. QED BY <1>4, <1>9, <2>1 DEF threadpool_destroy, DestroyShutdown, FreeQueue,
           FreeLock, FreePool
<1>10. ASSUME Wakeup PROVE StillEmpty'
  BY <1>0, <1>4, <1>10 DEF Wakeup, SpuriousWakeup, Goto
<1>11. CASE UNCHANGED vars BY <1>4, <1>11 DEF vars
<1>. QED BY <1>1, <1>2, <1>3, <1>5, <1>6, <1>7, <1>8, <1>9, <1>10, <1>11 DEF Next

(* A worker goes to sleep only on an empty queue, and the signal of         *)
(* threadpool_add, sent under the lock, wakes one that sleeps.              *)
LEMMA AwakeStep ==
  ASSUME MinThr = MaxThr, SafetyInv, CountInv, StillEmpty, NobodySleepsOnWork, [Next]_vars
  PROVE  NobodySleepsOnWork'
<1>. USE DEF queueVars, countVars, workerVars
<1>0. pc \in [Slots -> WorkerPc] /\ shutdown \in BOOLEAN BY DEF SafetyInv, TypeOK
<1>1. ASSUME NEW a \in Adders, AddPut(a) PROVE NobodySleepsOnWork'
  <2>1. \/ pc' = pc /\ \A w \in Slots : pc[w] # "blocked"
        \/ \E w \in Slots : pc[w] = "blocked" /\ pc' = [pc EXCEPT ![w] = "relock"]
    BY <1>0, <1>1 DEF AddPut, Signalled
  <2>2. CASE pc' = pc /\ \A w \in Slots : pc[w] # "blocked"
    <3>1. shutdown' = shutdown BY <1>1 DEF AddPut
    <3>2. ~shutdown => \E w \in Alive : pc[w] # "blocked" BY <2>2, FixedSize DEF Alive
    <3>. QED BY <2>2, <3>1, <3>2 DEF NobodySleepsOnWork, Alive
  <2>3. CASE \E w \in Slots : pc[w] = "blocked" /\ pc' = [pc EXCEPT ![w] = "relock"]
    BY <1>0, <2>3 DEF NobodySleepsOnWork, Alive
  <2>. QED BY <2>1, <2>2, <2>3
<1>2. ASSUME \A w \in Slots : pc'[w] = pc[w] \/ (pc[w] = "blocked" /\ pc'[w] = "relock"),
             queue_size' = queue_size, shutdown => shutdown'
      PROVE  NobodySleepsOnWork'
  BY <1>2 DEF NobodySleepsOnWork, Alive
<1>3. ASSUME NEW a \in Adders, threadpool_add(a), ~AddPut(a) PROVE NobodySleepsOnWork'
  <2>1. CASE AddRefused(a) BY <1>0, <1>2, <2>1, BroadcastWorkers DEF AddRefused
  <2>. QED BY <1>2, <1>3, <2>1 DEF threadpool_add, AddCall, AddLock, AddTestFull, AddWait,
           AddTestRoom
<1>4. ASSUME NEW w \in Slots, threadpool_thread(w) PROVE NobodySleepsOnWork'
  <2>1. CASE WorkerWait(w) \/ WorkerTestEmpty(w)
    <3>1. queue_size' = 0 BY <2>1 DEF WorkerWait, WorkerTestEmpty, Goto, StillEmpty
    <3>. QED BY <3>1 DEF NobodySleepsOnWork
  <2>2. CASE WorkerTestShutdown(w) BY <2>2 DEF WorkerTestShutdown, NobodySleepsOnWork
  <2>3. CASE WorkerRetire(w)
    <3>1. MustRetire /\ shutdown' = shutdown BY <2>3 DEF WorkerRetire
    <3>. QED BY <3>1, FixedSize DEF NobodySleepsOnWork
  <2>4. CASE \/ WorkerLock(w) \/ WorkerRelock(w) \/ WorkerTestTask(w) \/ WorkerTake(w)
             \/ WorkerBusy(w) \/ WorkerRun(w) \/ WorkerFinish(w)
    <3>1. pc'[w] \notin {"none", "exited", "blocked"}
      BY <1>0, <2>4 DEF WorkerLock, WorkerRelock, WorkerTestTask, WorkerTake, WorkerBusy,
         WorkerRun, WorkerFinish, Goto
    <3>. QED BY <3>1 DEF NobodySleepsOnWork, Alive
  <2>. QED BY <1>4, <2>1, <2>2, <2>3, <2>4 DEF threadpool_thread
<1>5. CASE AdjustGrow
  <2>1. \A w \in Alive : pc'[w] = pc[w]
    BY <1>5 DEF AdjustGrow, FirstFree, Alive
  <2>2. UNCHANGED <<queue_size, shutdown>> BY <1>5 DEF AdjustGrow
  <2>. QED BY <2>1, <2>2 DEF NobodySleepsOnWork, Alive
<1>6. ASSUME adjust_thread, ~AdjustGrow PROVE NobodySleepsOnWork'
  <2>1. CASE AdjustSignal BY <1>0, <1>2, <2>1, SignalWorkers DEF AdjustSignal
  <2>. QED BY <1>2, <1>6, <2>1 DEF adjust_thread, AdjustLoop, AdjustSnapshot,
           AdjustBusy, AdjustNoGrow, AdjustShrink, AdjustNoShrink
<1>7. ASSUME threadpool_destroy PROVE NobodySleepsOnWork'
  <2>1. CASE DestroyBroadcast BY <1>0, <1>2, <2>1, BroadcastWorkers DEF DestroyBroadcast
  <2>. QED BY <1>2, <1>7, <2>1 DEF threadpool_destroy, DestroyShutdown, FreeQueue,
           FreeLock, FreePool
<1>8. ASSUME Wakeup PROVE NobodySleepsOnWork'
  BY <1>0, <1>2, <1>8 DEF Wakeup, SpuriousWakeup, Goto
<1>9. CASE UNCHANGED vars BY <1>2, <1>9 DEF vars
<1>. QED BY <1>1, <1>3, <1>4, <1>5, <1>6, <1>7, <1>8, <1>9 DEF Next

(* In a pool of fixed size whose workers could all be created, the one      *)
(* signal of threadpool_add is never spent on nobody.  (In a pool that      *)
(* shrinks it can be: the worker it wakes may retire.)                      *)
THEOREM SignalNotWasted ==
  ASSUME CreateMayFail = FALSE, MinThr = MaxThr PROVE Spec => []NobodySleepsOnWork
<1>1. Init => CountInv BY CountInit
<1>2. SafetyInv /\ CountInv /\ [Next]_vars => CountInv' BY CountStep
<1>3. Init => NobodySleepsOnWork BY DEF Init, NobodySleepsOnWork
<1>4. Init => StillEmpty BY DEF Init, StillEmpty
<1>5. SafetyInv /\ StillEmpty /\ [Next]_vars => StillEmpty' BY EmptyStep
<1>6. SafetyInv /\ CountInv /\ StillEmpty /\ NobodySleepsOnWork /\ [Next]_vars
        => NobodySleepsOnWork'
  BY AwakeStep
<1>. QED BY Safety, <1>1, <1>2, <1>3, <1>4, <1>5, <1>6, PTL DEF Spec
=============================================================================
