-------------------------- MODULE ThreadPoolProofs --------------------------
(***************************************************************************)
(* Proofs about ThreadPool, for every pool size, queue size and number of  *)
(* callers.  SafetyInv is the inductive invariant of the control: the type *)
(* invariant holds only together with the lock discipline (a thread inside *)
(* a critical section owns the mutex), with what was tested under the lock *)
(* still holding when it is used, and with the shape of the ring.  TaskInv *)
(* adds that a task is in one place, which the refinement needs.           *)
(***************************************************************************)
EXTENDS ThreadPool, Sequences, FiniteSetTheorems, TLAPS

(* The ring indices never exceed twice queue_max_size, where % is a         *)
(* subtraction.                                                             *)
LEMMA ModUp ==
  \A x \in 0 .. 2 * QueueMax - 1 :
     x % QueueMax = IF x < QueueMax THEN x ELSE x - QueueMax
BY SizesAssumption

(* (i + 1) % queue_max_size stays inside task_queue. *)
LEMMA NextCellIs ==
  ASSUME NEW i \in 0 .. QueueMax - 1
  PROVE  /\ NextCell(i) = IF i + 1 < QueueMax THEN i + 1 ELSE 0
         /\ NextCell(i) \in 0 .. QueueMax - 1
BY ModUp, SizesAssumption DEF NextCell

USE DEF Slots, Cells, NoTask, Task, NoOne, Destroyer, WorkerPc, AdderPc, AdjustPc, DestroyPc

(* pthread_cond_broadcast moves every waiting worker and nobody else. *)
LEMMA BroadcastWorkers ==
  ASSUME pc \in [Slots -> WorkerPc]
  PROVE  /\ Broadcast(pc) \in [Slots -> WorkerPc]
         /\ \A w \in Slots : Broadcast(pc)[w] = IF pc[w] = "blocked" THEN "relock" ELSE pc[w]
BY DEF Broadcast

(* The same for the callers waiting for room. *)
LEMMA BroadcastAdders ==
  ASSUME apc \in [Adders -> AdderPc]
  PROVE  /\ Broadcast(apc) \in [Adders -> AdderPc]
         /\ \A a \in Adders : Broadcast(apc)[a] = IF apc[a] = "blocked" THEN "relock" ELSE apc[a]
BY DEF Broadcast

(* pthread_cond_signal moves at most one waiting worker. *)
LEMMA SignalWorkers ==
  ASSUME pc \in [Slots -> WorkerPc], NEW q \in Signalled(pc)
  PROVE  /\ q \in [Slots -> WorkerPc]
         /\ \A w \in Slots : q[w] = pc[w] \/ (pc[w] = "blocked" /\ q[w] = "relock")
<1>1. CASE q = pc BY <1>1
<1>2. CASE \E y \in Slots : pc[y] = "blocked" /\ q = [pc EXCEPT ![y] = "relock"] BY <1>2
<1>. QED BY <1>1, <1>2 DEF Signalled

(* Putting a task at the rear. *)
LEMMA RingPut ==
  ASSUME NEW f \in Cells, NEW n \in 0 .. QueueMax - 1
  PROVE  /\ NextCell((f + n) % QueueMax) = (f + (n + 1)) % QueueMax
         /\ (f + n) % QueueMax \in Cells
         /\ \A i \in 1 .. n : /\ (f + i - 1) % QueueMax \in Cells
                             /\ (f + i - 1) % QueueMax # (f + n) % QueueMax
<1>. USE SizesAssumption
<1>1. f + n \in 0 .. 2 * QueueMax - 1 OBVIOUS
<1>2. (f + n) % QueueMax = IF f + n < QueueMax THEN f + n ELSE f + n - QueueMax
  BY ModUp, <1>1
<1>3. f + (n + 1) \in 0 .. 2 * QueueMax - 1 OBVIOUS
<1>4. (f + (n + 1)) % QueueMax
        = IF f + (n + 1) < QueueMax THEN f + (n + 1) ELSE f + (n + 1) - QueueMax
  BY ModUp, <1>3
<1>5. ASSUME NEW i \in 1 .. n
      PROVE  /\ (f + i - 1) % QueueMax \in Cells
             /\ (f + i - 1) % QueueMax # (f + n) % QueueMax
  <2>1. f + i - 1 \in 0 .. 2 * QueueMax - 1 OBVIOUS
  <2>2. (f + i - 1) % QueueMax
          = IF f + i - 1 < QueueMax THEN f + i - 1 ELSE f + i - 1 - QueueMax
    BY ModUp, <2>1
  <2>. QED BY <1>2, <2>2
<1>6. (f + n) % QueueMax \in Cells BY <1>2
<1>7. NextCell((f + n) % QueueMax) = (f + (n + 1)) % QueueMax
  BY <1>2, <1>4, <1>6, NextCellIs
<1>. QED BY <1>5, <1>6, <1>7

(* Taking a task from the front. *)
LEMMA RingTake ==
  ASSUME NEW f \in Cells, NEW n \in 1 .. QueueMax
  PROVE  /\ (NextCell(f) + (n - 1)) % QueueMax = (f + n) % QueueMax
         /\ \A i \in 1 .. n - 1 : (NextCell(f) + i - 1) % QueueMax
                                  = (f + (i + 1) - 1) % QueueMax
<1>. USE SizesAssumption
<1>1. ASSUME NEW k \in 0 .. QueueMax - 1
      PROVE  (NextCell(f) + k) % QueueMax = (f + (k + 1)) % QueueMax
  <2>. DEFINE g == NextCell(f)
  <2>1. g = (IF f + 1 < QueueMax THEN f + 1 ELSE 0) /\ g \in Cells
    BY NextCellIs
  <2>. HIDE DEF g
  <2>2. /\ g + k \in 0 .. 2 * QueueMax - 1
        /\ f + (k + 1) \in 0 .. 2 * QueueMax - 1
    BY <2>1
  <2>3. (g + k) % QueueMax = IF g + k < QueueMax THEN g + k ELSE g + k - QueueMax
    BY ModUp, <2>1, <2>2
  <2>4. (f + (k + 1)) % QueueMax
          = IF f + (k + 1) < QueueMax THEN f + (k + 1) ELSE f + (k + 1) - QueueMax
    BY ModUp, <2>2
  <2>. QED BY <2>1, <2>3, <2>4 DEF g
<1>2. (NextCell(f) + (n - 1)) % QueueMax = (f + n) % QueueMax
  <2>1. n - 1 \in 0 .. QueueMax - 1 /\ (n - 1) + 1 = n OBVIOUS
  <2>. QED BY <1>1, <2>1
<1>3. ASSUME NEW i \in 1 .. n - 1
      PROVE  (NextCell(f) + i - 1) % QueueMax = (f + (i + 1) - 1) % QueueMax
  <2>1. /\ i - 1 \in 0 .. QueueMax - 1 /\ f + ((i - 1) + 1) = f + (i + 1) - 1
        /\ NextCell(f) + (i - 1) = NextCell(f) + i - 1
    BY NextCellIs
  <2>. QED BY <1>1, <2>1
<1>. QED BY <1>2, <1>3

(* What AddPut does to the queue seen as a sequence: it appends. *)
LEMMA PutPending ==
  ASSUME SafetyInv, NEW a \in Adders, AddPut(a)
  PROVE  /\ queue_size < QueueMax /\ queue_size' = queue_size + 1
         /\ arg[a] \in Task
         /\ \A i \in 1 .. queue_size : Pending'[i] = Pending[i]
         /\ Pending'[queue_size + 1] = arg[a]
<1>. USE SizesAssumption DEF queueVars
<1>0. TypeOK /\ RoomInv /\ RingInv /\ HandInv BY DEF SafetyInv
<1>1. queue_front \in Cells /\ queue_size \in 0 .. QueueMax - 1
  BY <1>0 DEF AddPut, RoomInv, TypeOK
<1>2. ASSUME NEW i \in 1 .. queue_size PROVE Pending'[i] = Pending[i]
  <2>1. (queue_front + i - 1) % QueueMax \in Cells \ {queue_rear}
    BY <1>0, <1>1, RingPut DEF RingInv
  <2>2. task_queue'[(queue_front + i - 1) % QueueMax]
          = task_queue[(queue_front + i - 1) % QueueMax]
    BY <1>0, <2>1 DEF AddPut, TypeOK
  <2>. QED BY <1>1, <2>2 DEF AddPut, Pending
<1>3. Pending'[queue_size + 1] = arg[a]
  BY <1>0, <1>1, RingPut DEF AddPut, Pending, RingInv, TypeOK
<1>4. arg[a] \in Task BY <1>0 DEF AddPut, HandInv, TypeOK
<1>. QED BY <1>1, <1>2, <1>3, <1>4 DEF AddPut

(* What WorkerTake does to the queue seen as a sequence: it removes the head. *)
LEMMA TakePending ==
  ASSUME SafetyInv, NEW w \in Slots, WorkerTake(w)
  PROVE  /\ queue_size \in 1 .. QueueMax /\ queue_size' = queue_size - 1
         /\ task_queue[queue_front] = Pending[1]
         /\ Pending[1] \in Task
         /\ \A i \in 1 .. queue_size' : Pending'[i] = Pending[i + 1]
<1>. USE SizesAssumption DEF queueVars
<1>0. TypeOK /\ RoomInv /\ RingInv BY DEF SafetyInv
<1>1. queue_front \in Cells /\ queue_size \in 1 .. QueueMax
  BY <1>0 DEF WorkerTake, Goto, RoomInv, TypeOK
<1>2. queue_size' = queue_size - 1 BY DEF WorkerTake
<1>3. ASSUME NEW i \in 1 .. queue_size' PROVE Pending'[i] = Pending[i + 1]
  BY <1>1, <1>2, RingTake DEF WorkerTake, Pending
<1>4. task_queue[queue_front] = Pending[1]
  <2>1. queue_front + 1 - 1 = queue_front /\ queue_front \in 0 .. QueueMax - 1
    BY <1>1
  <2>2. (queue_front + 1 - 1) % QueueMax = queue_front BY <2>1, ModUp
  <2>. QED BY <1>1, <2>2 DEF Pending
<1>5. Pending[1] \in Task BY <1>0, <1>1 DEF RingInv
<1>. QED BY <1>1, <1>2, <1>3, <1>4, <1>5

(* Every step of every thread preserves SafetyInv, one step per action. *)
LEMMA SafetyStep == ASSUME SafetyInv, [Next]_vars PROVE SafetyInv'
<1>. USE SizesAssumption, SwitchAssumption, AdderAssumption
     DEF queueVars, countVars, adderVars, workerVars
<1>0. TypeOK /\ LockInv /\ RoomInv /\ RingInv /\ HandInv BY DEF SafetyInv
<1>1. ASSUME NEW a \in Adders, AddCall(a) PROVE SafetyInv'
  <2>0. calls' \in 0 .. NTasks /\ calls + 1 \in Task
    BY <1>0, <1>1 DEF AddCall, TypeOK
  <2>1. TypeOK'
    BY <1>0, <1>1, <2>0 DEF AddCall, TypeOK
  <2>2. LockInv'
    BY <1>0, <1>1 DEF AddCall, TypeOK, LockInv
  <2>3. RoomInv'
    BY <1>0, <1>1 DEF AddCall, TypeOK, LockInv, RoomInv, BlockedAdderMeansFull
  <2>4. RingInv'
    BY <1>0, <1>1 DEF AddCall, TypeOK, RingInv, Pending
  <2>5. HandInv'
    BY <1>0, <1>1 DEF AddCall, TypeOK, HandInv
  <2>. QED BY <2>1, <2>2, <2>3, <2>4, <2>5 DEF SafetyInv
<1>2. ASSUME NEW a \in Adders, AddLock(a) PROVE SafetyInv'
  BY <1>2 DEF AddLock, SafetyInv, TypeOK, LockInv, RoomInv, RingInv, HandInv,
     BlockedAdderMeansFull, Pending
<1>3. ASSUME NEW a \in Adders, AddTestFull(a) PROVE SafetyInv'
  BY <1>3 DEF AddTestFull, SafetyInv, TypeOK, LockInv, RoomInv, RingInv, HandInv,
     BlockedAdderMeansFull, Pending
<1>4. ASSUME NEW a \in Adders, AddWait(a) PROVE SafetyInv'
  BY <1>4 DEF AddWait, SafetyInv, TypeOK, LockInv, RoomInv, RingInv, HandInv,
     BlockedAdderMeansFull, Pending
<1>5. ASSUME NEW a \in Adders, AddTestRoom(a) PROVE SafetyInv'
  <2>1. TypeOK'
    BY <1>0, <1>5 DEF AddTestRoom, TypeOK, HandInv
  <2>2. LockInv'
    BY <1>0, <1>5 DEF AddTestRoom, TypeOK, LockInv
  <2>3. RoomInv'
    BY <1>0, <1>5 DEF AddTestRoom, TypeOK, LockInv, RoomInv, BlockedAdderMeansFull
  <2>4. RingInv'
    BY <1>0, <1>5 DEF AddTestRoom, TypeOK, RingInv, Pending
  <2>5. HandInv'
    BY <1>0, <1>5 DEF AddTestRoom, TypeOK, HandInv
  <2>. QED BY <2>1, <2>2, <2>3, <2>4, <2>5 DEF SafetyInv
<1>6. ASSUME NEW a \in Adders, AddRefused(a) PROVE SafetyInv'
  <2>0. /\ pc' \in [Slots -> WorkerPc]
        /\ \A w \in Slots : pc'[w] = IF pc[w] = "blocked" THEN "relock" ELSE pc[w]
    BY <1>0, <1>6, BroadcastWorkers DEF AddRefused, TypeOK
  <2>1. TypeOK'
    <3>1. arg[a] \in Task BY <1>0, <1>6 DEF AddRefused, HandInv, TypeOK
    <3>. QED BY <2>0, <3>1, <1>0, <1>6 DEF AddRefused, AddReturn, TypeOK
  <2>2. LockInv'
    BY <1>0, <1>6 DEF AddRefused, AddReturn, Broadcast, TypeOK, LockInv
  <2>3. RoomInv'
    BY <1>0, <1>6 DEF AddRefused, AddReturn, Broadcast, TypeOK, LockInv, RoomInv,
       BlockedAdderMeansFull
  <2>4. RingInv'
    BY <1>0, <1>6 DEF AddRefused, AddReturn, Broadcast, TypeOK, RingInv, Pending
  <2>5. HandInv'
    BY <1>0, <1>6 DEF AddRefused, AddReturn, Broadcast, TypeOK, HandInv
  <2>. QED BY <2>1, <2>2, <2>3, <2>4, <2>5 DEF SafetyInv
<1>7. ASSUME NEW a \in Adders, AddPut(a) PROVE SafetyInv'
  <2>0. /\ pc' \in [Slots -> WorkerPc]
        /\ \A w \in Slots : pc'[w] = pc[w] \/ (pc[w] = "blocked" /\ pc'[w] = "relock")
    BY <1>0, <1>7, SignalWorkers DEF AddPut, TypeOK
  <2>1. TypeOK'
    <3>1. queue_rear' \in Cells BY <1>0, <1>7, NextCellIs DEF AddPut, TypeOK
    <3>2. queue_size' \in 0 .. QueueMax BY <1>0, <1>7 DEF AddPut, RoomInv, TypeOK
    <3>3. arg[a] \in Task BY <1>0, <1>7 DEF AddPut, HandInv, TypeOK
    <3>4. task_queue' \in [Cells -> Task \cup {NoTask}] BY <3>3, <1>0, <1>7 DEF AddPut, TypeOK
    <3>. QED BY <2>0, <3>1, <3>2, <3>3, <3>4, <1>0, <1>7 DEF AddPut, AddReturn, TypeOK
  <2>2. LockInv'
    BY <2>0, <1>0, <1>7 DEF AddPut, AddReturn, TypeOK, LockInv
  <2>3. RoomInv'
    BY <1>0, <1>7 DEF AddPut, AddReturn, Signalled, NextCell, TypeOK, LockInv,
       RoomInv, BlockedAdderMeansFull
  <2>4. RingInv'
    <3>1. queue_front \in Cells /\ queue_size \in 0 .. QueueMax - 1
      BY <1>0, <1>7, PutPending DEF TypeOK
    <3>2. queue_rear' = (queue_front' + queue_size') % QueueMax
      BY <3>1, RingPut, <1>0, <1>7 DEF AddPut, RingInv
    <3>. QED BY <3>1, <3>2, <1>0, <1>7, PutPending DEF RingInv
  <2>5. HandInv'
    BY <2>0, <1>0, <1>7 DEF AddPut, AddReturn, TypeOK, HandInv
  <2>. QED BY <2>1, <2>2, <2>3, <2>4, <2>5 DEF SafetyInv
<1>8. ASSUME NEW w \in Slots, WorkerLock(w) PROVE SafetyInv'
  BY <1>8 DEF WorkerLock, Goto, SafetyInv, TypeOK, LockInv, RoomInv, RingInv, HandInv,
     BlockedAdderMeansFull, Pending
<1>9. ASSUME NEW w \in Slots, WorkerTestEmpty(w) PROVE SafetyInv'
  BY <1>9 DEF WorkerTestEmpty, Goto, SafetyInv, TypeOK, LockInv, RoomInv, RingInv,
     HandInv, BlockedAdderMeansFull, Pending
<1>10. ASSUME NEW w \in Slots, WorkerWait(w) PROVE SafetyInv'
  BY <1>10 DEF WorkerWait, Goto, SafetyInv, TypeOK, LockInv, RoomInv, RingInv,
     HandInv, BlockedAdderMeansFull, Pending
<1>11. ASSUME NEW w \in Slots, WorkerRetire(w) PROVE SafetyInv'
  <2>1. TypeOK'
    BY <1>0, <1>11 DEF WorkerRetire, Goto, MustRetire, TypeOK, HandInv
  <2>2. LockInv'
    BY <1>0, <1>11 DEF WorkerRetire, Goto, MustRetire, TypeOK, LockInv
  <2>3. RoomInv'
    BY <1>0, <1>11 DEF WorkerRetire, Goto, MustRetire, TypeOK, LockInv, RoomInv,
       BlockedAdderMeansFull
  <2>4. RingInv'
    BY <1>0, <1>11 DEF WorkerRetire, Goto, MustRetire, TypeOK, RingInv, Pending
  <2>5. HandInv'
    BY <1>0, <1>11 DEF WorkerRetire, Goto, MustRetire, TypeOK, HandInv
  <2>. QED BY <2>1, <2>2, <2>3, <2>4, <2>5 DEF SafetyInv
<1>12. ASSUME NEW w \in Slots, WorkerRelock(w) PROVE SafetyInv'
  <2>1. TypeOK'
    BY <1>0, <1>12 DEF WorkerRelock, Goto, MustRetire, TypeOK, HandInv
  <2>2. LockInv'
    BY <1>0, <1>12 DEF WorkerRelock, Goto, MustRetire, TypeOK, LockInv
  <2>3. RoomInv'
    BY <1>0, <1>12 DEF WorkerRelock, Goto, MustRetire, TypeOK, LockInv, RoomInv,
       BlockedAdderMeansFull
  <2>4. RingInv'
    BY <1>0, <1>12 DEF WorkerRelock, Goto, MustRetire, TypeOK, RingInv, Pending
  <2>5. HandInv'
    BY <1>0, <1>12 DEF WorkerRelock, Goto, MustRetire, TypeOK, HandInv
  <2>. QED BY <2>1, <2>2, <2>3, <2>4, <2>5 DEF SafetyInv
<1>13. ASSUME NEW w \in Slots, WorkerTestShutdown(w) PROVE SafetyInv'
  BY <1>13 DEF WorkerTestShutdown, Goto, SafetyInv, TypeOK, LockInv, RoomInv, RingInv,
     HandInv, BlockedAdderMeansFull, Pending
<1>14. ASSUME NEW w \in Slots, WorkerTestTask(w) PROVE SafetyInv'
  BY <1>14 DEF WorkerTestTask, Goto, SafetyInv, TypeOK, LockInv, RoomInv, RingInv,
     HandInv, BlockedAdderMeansFull, Pending
<1>15. ASSUME NEW w \in Slots, WorkerTake(w) PROVE SafetyInv'
  <2>0. /\ apc' \in [Adders -> AdderPc]
        /\ \A a \in Adders : apc'[a] = IF apc[a] = "blocked" THEN "relock" ELSE apc[a]
    BY <1>0, <1>15, BroadcastAdders DEF WorkerTake, TypeOK
  <2>1. TypeOK'
    <3>1. queue_front' \in Cells BY <1>0, <1>15, NextCellIs DEF WorkerTake, TypeOK
    <3>2. queue_size' \in 0 .. QueueMax BY <1>0, <1>15 DEF WorkerTake, Goto, RoomInv, TypeOK
    <3>3. task' \in [Slots -> Task \cup {NoTask}] BY <1>0, <1>15 DEF WorkerTake, TypeOK
    <3>. QED BY <2>0, <3>1, <3>2, <3>3, <1>0, <1>15 DEF WorkerTake, Goto, TypeOK
  <2>2. LockInv'
    BY <1>0, <1>15 DEF WorkerTake, Goto, Broadcast, NextCell, TypeOK, LockInv
  <2>3. RoomInv'
    BY <1>0, <1>15 DEF WorkerTake, Goto, Broadcast, NextCell, TypeOK, LockInv,
       RoomInv, BlockedAdderMeansFull
  <2>4. RingInv'
    <3>1. queue_front \in Cells /\ queue_size \in 1 .. QueueMax
      BY <1>0, <1>15, TakePending DEF TypeOK
    <3>2. queue_rear' = (queue_front' + queue_size') % QueueMax
      BY <3>1, RingTake, <1>0, <1>15 DEF WorkerTake, RingInv
    <3>. QED BY <3>1, <3>2, <1>0, <1>15, TakePending DEF RingInv
  <2>5. HandInv'
    <3>1. task_queue[queue_front] \in Task BY <1>15, TakePending
    <3>. QED BY <2>0, <3>1, <1>0, <1>15 DEF WorkerTake, Goto, TypeOK, HandInv
  <2>. QED BY <2>1, <2>2, <2>3, <2>4, <2>5 DEF SafetyInv
<1>16. ASSUME NEW w \in Slots, WorkerBusy(w) PROVE SafetyInv'
  BY <1>16 DEF WorkerBusy, Goto, SafetyInv, TypeOK, LockInv, RoomInv, RingInv,
     HandInv, BlockedAdderMeansFull, Pending
<1>17. ASSUME NEW w \in Slots, WorkerRun(w) PROVE SafetyInv'
  <2>1. TypeOK'
    BY <1>0, <1>17 DEF WorkerRun, Goto, TypeOK, HandInv
  <2>2. LockInv'
    BY <1>0, <1>17 DEF WorkerRun, Goto, TypeOK, LockInv
  <2>3. RoomInv'
    BY <1>0, <1>17 DEF WorkerRun, Goto, TypeOK, LockInv, RoomInv, BlockedAdderMeansFull
  <2>4. RingInv'
    BY <1>0, <1>17 DEF WorkerRun, Goto, TypeOK, RingInv, Pending
  <2>5. HandInv'
    BY <1>0, <1>17 DEF WorkerRun, Goto, TypeOK, HandInv
  <2>. QED BY <2>1, <2>2, <2>3, <2>4, <2>5 DEF SafetyInv
<1>18. ASSUME NEW w \in Slots, WorkerFinish(w) PROVE SafetyInv'
  <2>1. TypeOK'
    BY <1>0, <1>18 DEF WorkerFinish, Goto, TypeOK, HandInv
  <2>2. LockInv'
    BY <1>0, <1>18 DEF WorkerFinish, Goto, TypeOK, LockInv
  <2>3. RoomInv'
    BY <1>0, <1>18 DEF WorkerFinish, Goto, TypeOK, LockInv, RoomInv, BlockedAdderMeansFull
  <2>4. RingInv'
    BY <1>0, <1>18 DEF WorkerFinish, Goto, TypeOK, RingInv, Pending
  <2>5. HandInv'
    BY <1>0, <1>18 DEF WorkerFinish, Goto, TypeOK, HandInv
  <2>. QED BY <2>1, <2>2, <2>3, <2>4, <2>5 DEF SafetyInv
<1>19. ASSUME AdjustLoop PROVE SafetyInv'
  BY <1>19 DEF AdjustLoop, SafetyInv, TypeOK, LockInv, RoomInv, RingInv, HandInv,
     BlockedAdderMeansFull, Pending
<1>20. ASSUME AdjustSnapshot PROVE SafetyInv'
  BY <1>20 DEF AdjustSnapshot, SafetyInv, TypeOK, LockInv, RoomInv, RingInv, HandInv,
     BlockedAdderMeansFull, Pending
<1>21. ASSUME AdjustBusy PROVE SafetyInv'
  BY <1>21 DEF AdjustBusy, SafetyInv, TypeOK, LockInv, RoomInv, RingInv, HandInv,
     BlockedAdderMeansFull, Pending
<1>22. ASSUME AdjustGrow PROVE SafetyInv'
  <2>1. TypeOK'
    <3>1. PICK gone \in SUBSET Slots, started \in SUBSET Slots :
            LET new == FirstFree(gone \cup {s \in Slots : pc[s] = "none"})
            IN  /\ pc' = [s \in Slots |-> IF s \in started THEN "lock" ELSE pc[s]]
                /\ live_thr_num' = live_thr_num + Cardinality(new)
      BY <1>0, <1>22 DEF AdjustGrow, FirstFree
    <3>2. FirstFree(gone \cup {s \in Slots : pc[s] = "none"}) \subseteq 0 .. MaxThr - 1
      BY DEF FirstFree
    <3>3. live_thr_num' \in Nat
      <4>1. IsFiniteSet(0 .. MaxThr - 1) BY FS_Interval
      <4>2. Cardinality(FirstFree(gone \cup {s \in Slots : pc[s] = "none"})) \in Nat
        BY <3>2, <4>1, FS_Subset, FS_CardinalityType
      <4>. QED BY <3>1, <4>2, <1>0, <1>22 DEF TypeOK
    <3>4. pc' \in [Slots -> WorkerPc]
      BY <3>1, <1>0, <1>22 DEF TypeOK
    <3>. QED BY <3>3, <3>4, <1>0, <1>22 DEF AdjustGrow, TypeOK
  <2>2. LockInv'
    BY <1>0, <1>22 DEF AdjustGrow, FirstFree, TypeOK, LockInv
  <2>3. RoomInv'
    BY <1>0, <1>22 DEF AdjustGrow, FirstFree, TypeOK, LockInv, RoomInv,
       BlockedAdderMeansFull
  <2>4. RingInv'
    BY <1>0, <1>22 DEF AdjustGrow, FirstFree, TypeOK, RingInv, Pending
  <2>5. HandInv'
    BY <1>0, <1>22 DEF AdjustGrow, FirstFree, TypeOK, HandInv
  <2>. QED BY <2>1, <2>2, <2>3, <2>4, <2>5 DEF SafetyInv
<1>23. ASSUME AdjustNoGrow PROVE SafetyInv'
  BY <1>23 DEF AdjustNoGrow, SafetyInv, TypeOK, LockInv, RoomInv, RingInv, HandInv,
     BlockedAdderMeansFull, Pending
<1>24. ASSUME AdjustShrink PROVE SafetyInv'
  <2>1. TypeOK'
    <3>. DEFINE Locals == [pc : AdjustPc, queue_size : 0 .. QueueMax, live : Nat, busy : Int,
                           i : 0 .. Vary]
    <3>1. adj \in Locals /\ 0 \in 0 .. Vary /\ Vary \in 0 .. Vary BY <1>0, <1>24 DEF TypeOK
    <3>2. adj' \in Locals BY <3>1, <1>0, <1>24 DEF AdjustShrink
    <3>. QED BY <3>1, <3>2, <1>0, <1>24 DEF AdjustShrink, TypeOK
  <2>2. LockInv'
    BY <1>0, <1>24 DEF AdjustShrink, TypeOK, LockInv
  <2>3. RoomInv'
    BY <1>0, <1>24 DEF AdjustShrink, TypeOK, LockInv, RoomInv, BlockedAdderMeansFull
  <2>4. RingInv'
    BY <1>0, <1>24 DEF AdjustShrink, TypeOK, RingInv, Pending
  <2>5. HandInv'
    BY <1>0, <1>24 DEF AdjustShrink, TypeOK, HandInv
  <2>. QED BY <2>1, <2>2, <2>3, <2>4, <2>5 DEF SafetyInv
<1>25. ASSUME AdjustNoShrink PROVE SafetyInv'
  BY <1>25 DEF AdjustNoShrink, AdjustAtLoop, SafetyInv, TypeOK, LockInv, RoomInv,
     RingInv, HandInv, BlockedAdderMeansFull, Pending
<1>26. ASSUME AdjustSignal PROVE SafetyInv'
  <2>0. /\ pc' \in [Slots -> WorkerPc]
        /\ \A w \in Slots : pc'[w] = pc[w] \/ (pc[w] = "blocked" /\ pc'[w] = "relock")
    BY <1>0, <1>26, SignalWorkers DEF AdjustSignal, TypeOK
  <2>1. TypeOK'
    <3>. DEFINE Locals == [pc : AdjustPc, queue_size : 0 .. QueueMax, live : Nat, busy : Int,
                           i : 0 .. Vary]
    <3>1. adj \in Locals /\ AdjustAtLoop \in Locals BY <1>0, <1>26 DEF AdjustAtLoop, TypeOK
    <3>2. adj.i + 1 \in 0 .. Vary BY <3>1, <1>0, <1>26 DEF AdjustSignal
    <3>3. adj' \in Locals BY <3>1, <3>2, <1>0, <1>26 DEF AdjustSignal
    <3>. QED BY <2>0, <3>3, <1>0, <1>26 DEF AdjustSignal, TypeOK
  <2>2. LockInv'
    BY <2>0, <1>0, <1>26 DEF AdjustSignal, TypeOK, LockInv
  <2>3. RoomInv'
    BY <2>0, <1>0, <1>26 DEF AdjustSignal, TypeOK, LockInv, RoomInv, BlockedAdderMeansFull
  <2>4. RingInv'
    BY <1>0, <1>26 DEF AdjustSignal, AdjustAtLoop, Signalled, TypeOK, RingInv, Pending
  <2>5. HandInv'
    BY <2>0, <1>0, <1>26 DEF AdjustSignal, TypeOK, HandInv
  <2>. QED BY <2>1, <2>2, <2>3, <2>4, <2>5 DEF SafetyInv
<1>27. ASSUME DestroyShutdown PROVE SafetyInv'
  BY <1>27 DEF DestroyShutdown, SafetyInv, TypeOK, LockInv, RoomInv, RingInv, HandInv,
     BlockedAdderMeansFull, Pending
<1>28. ASSUME DestroyBroadcast PROVE SafetyInv'
  <2>0. /\ pc' \in [Slots -> WorkerPc]
        /\ \A w \in Slots : pc'[w] = IF pc[w] = "blocked" THEN "relock" ELSE pc[w]
    BY <1>0, <1>28, BroadcastWorkers DEF DestroyBroadcast, TypeOK
  <2>1. TypeOK'
    <3>1. dst' \in [pc : DestroyPc, i : Nat]
      <4>1. dst \in [pc : DestroyPc, i : Nat] /\ dst.i + 1 \in Nat BY <1>0, <1>28 DEF TypeOK
      <4>2. dst' = [dst EXCEPT !.i = dst.i + 1] BY <1>0, <1>28 DEF DestroyBroadcast
      <4>. QED BY <4>1, <4>2
    <3>. QED BY <2>0, <3>1, <1>0, <1>28 DEF DestroyBroadcast, TypeOK
  <2>2. LockInv'
    BY <1>0, <1>28 DEF DestroyBroadcast, Broadcast, TypeOK, LockInv
  <2>3. RoomInv'
    BY <1>0, <1>28 DEF DestroyBroadcast, Broadcast, TypeOK, LockInv, RoomInv,
       BlockedAdderMeansFull
  <2>4. RingInv'
    BY <1>0, <1>28 DEF DestroyBroadcast, Broadcast, TypeOK, RingInv, Pending
  <2>5. HandInv'
    BY <1>0, <1>28 DEF DestroyBroadcast, Broadcast, TypeOK, HandInv
  <2>. QED BY <2>1, <2>2, <2>3, <2>4, <2>5 DEF SafetyInv
<1>29. ASSUME FreeQueue PROVE SafetyInv'
  BY <1>29 DEF FreeQueue, SafetyInv, TypeOK, LockInv, RoomInv, RingInv, HandInv,
     BlockedAdderMeansFull, Pending
<1>30. ASSUME FreeLock PROVE SafetyInv'
  <2>1. TypeOK'
    BY <1>0, <1>30 DEF FreeLock, TypeOK, HandInv
  <2>2. LockInv'
    <3>1. \A w \in Slots : pc[w] \notin {"test", "wait", "take"}
      BY <1>0, <1>30 DEF FreeLock, LockInv
    <3>2. \A a \in Adders : apc[a] \notin {"test", "wait", "put"}
      BY <1>0, <1>30 DEF FreeLock, LockInv
    <3>. QED BY <3>1, <3>2, <1>0, <1>30 DEF FreeLock, LockInv
  <2>3. RoomInv'
    BY <1>0, <1>30 DEF FreeLock, TypeOK, LockInv, RoomInv, BlockedAdderMeansFull
  <2>4. RingInv'
    BY <1>0, <1>30 DEF FreeLock, TypeOK, RingInv, Pending
  <2>5. HandInv'
    BY <1>0, <1>30 DEF FreeLock, TypeOK, HandInv
  <2>. QED BY <2>1, <2>2, <2>3, <2>4, <2>5 DEF SafetyInv
<1>31. ASSUME FreePool PROVE SafetyInv'
  BY <1>31 DEF FreePool, SafetyInv, TypeOK, LockInv, RoomInv, RingInv, HandInv,
     BlockedAdderMeansFull, Pending
<1>32. ASSUME Wakeup PROVE SafetyInv'
  <2>1. TypeOK'
    <3>1. pc' \in [Slots -> WorkerPc] /\ apc' \in [Adders -> AdderPc] /\ arg' = arg
      BY <1>0, <1>32 DEF Wakeup, SpuriousWakeup, Goto, TypeOK
    <3>. QED BY <3>1, <1>0, <1>32 DEF Wakeup, TypeOK
  <2>2. LockInv'
    BY <1>0, <1>32 DEF Wakeup, SpuriousWakeup, Goto, TypeOK, LockInv
  <2>3. RoomInv'
    BY <1>0, <1>32 DEF Wakeup, SpuriousWakeup, Goto, TypeOK, LockInv, RoomInv,
       BlockedAdderMeansFull
  <2>4. RingInv'
    BY <1>0, <1>32 DEF Wakeup, SpuriousWakeup, Goto, TypeOK, RingInv, Pending
  <2>5. HandInv'
    BY <1>0, <1>32 DEF Wakeup, SpuriousWakeup, Goto, TypeOK, HandInv
  <2>. QED BY <2>1, <2>2, <2>3, <2>4, <2>5 DEF SafetyInv
<1>33. CASE UNCHANGED vars
  BY <1>33 DEF vars, SafetyInv, TypeOK, LockInv, RoomInv, RingInv, HandInv,
     BlockedAdderMeansFull, Pending
<1>. QED
  BY <1>1, <1>2, <1>3, <1>4, <1>5, <1>6, <1>7, <1>8, <1>9, <1>10, <1>11, <1>12, <1>13,
     <1>14, <1>15, <1>16, <1>17, <1>18, <1>19, <1>20, <1>21, <1>22, <1>23, <1>24, <1>25,
     <1>26, <1>27, <1>28, <1>29, <1>30, <1>31, <1>32, <1>33
  DEF Next, threadpool_add, threadpool_thread, adjust_thread, threadpool_destroy

(* threadpool_create establishes SafetyInv, even when pthread_create fails. *)
LEMMA SafetyInit == Init => SafetyInv
<1>. SUFFICES ASSUME Init PROVE SafetyInv OBVIOUS
<1>. USE SizesAssumption, SwitchAssumption, AdderAssumption
<1>1. PICK started \in SUBSET (0 .. MinThr - 1) :
        pc = [w \in Slots |-> IF w \in started THEN "lock" ELSE "none"]
  BY DEF Init
<1>2. TypeOK
  <2>1. pc \in [Slots -> WorkerPc] BY <1>1
  <2>2. adj \in [pc : AdjustPc, queue_size : 0 .. QueueMax, live : Nat, busy : Int,
                 i : 0 .. Vary]
    BY DEF Init, AdjustAtLoop
  <2>3. dst \in [pc : DestroyPc, i : Nat] BY DEF Init
  <2>4. lock \in Slots \cup Adders \cup {NoOne, Destroyer} BY DEF Init
  <2>5. task_queue \in [Cells -> Task \cup {NoTask}] BY DEF Init
  <2>6. task \in [Slots -> Task \cup {NoTask}] /\ arg \in [Adders -> Task \cup {NoTask}]
    BY DEF Init
  <2>7. apc \in [Adders -> AdderPc] /\ accepted \subseteq Task /\ done \subseteq Task
    BY DEF Init
  <2>8. /\ queue_front \in Cells /\ queue_rear \in Cells /\ queue_size \in 0 .. QueueMax
        /\ live_thr_num \in Nat /\ busy_thr_num \in Int /\ wait_exit_thr_num \in 0 .. Vary
        /\ calls \in 0 .. NTasks
    BY DEF Init
  <2>9. shutdown \in BOOLEAN BY DEF Init
  <2>. QED BY <2>1, <2>2, <2>3, <2>4, <2>5, <2>6, <2>7, <2>8, <2>9 DEF TypeOK
<1>3. LockInv BY <1>1 DEF Init, LockInv
<1>4. RoomInv BY <1>1 DEF Init, RoomInv, BlockedAdderMeansFull
<1>5. RingInv BY ModUp DEF Init, RingInv
<1>6. HandInv BY <1>1 DEF Init, HandInv
<1>. QED BY <1>2, <1>3, <1>4, <1>5, <1>6 DEF SafetyInv

(* SafetyInv is an invariant of the pool. *)
THEOREM Safety == Spec => []SafetyInv
<1>1. SafetyInv /\ [Next]_vars => SafetyInv' BY SafetyStep
<1>. QED BY SafetyInit, <1>1, PTL DEF Spec

(* Type correctness: the indices of threadpool_add and threadpool_thread    *)
(* stay inside task_queue, queue_size stays between 0 and queue_max_size,   *)
(* and only tasks that callers submitted are ever run.                      *)
THEOREM TypeCorrect == Spec => []TypeOK
<1>1. SafetyInv => TypeOK BY DEF SafetyInv
<1>. QED BY Safety, <1>1, PTL

(* No caller of threadpool_add sleeps while the queue has room, for any     *)
(* number of callers and workers: the broadcast after every take wakes them *)
(* all.                                                                     *)
THEOREM BlockedOnlyWhenFull == Spec => []BlockedAdderMeansFull
<1>1. SafetyInv => BlockedAdderMeansFull BY DEF SafetyInv, RoomInv
<1>. QED BY Safety, <1>1, PTL

-----------------------------------------------------------------------------
(* No task is anywhere at first. *)
LEMMA TaskInit == Init => TaskInv
BY DEF Init, TaskInv, OnePlace, GivenOut, Pending

(* A task moves from a caller to the ring, to a worker, to done, and is     *)
(* never in two of these places.  Five actions move tasks; all others leave *)
(* them where they are.                                                     *)
LEMMA TaskStep == ASSUME SafetyInv, TaskInv, [Next]_vars PROVE TaskInv'
<1>. USE DEF queueVars
<1>0. TypeOK /\ RingInv /\ HandInv /\ OnePlace /\ GivenOut BY DEF SafetyInv, TaskInv
<1>T. /\ calls \in Nat /\ queue_size \in Nat
      /\ \A a \in Adders : arg[a] \in Nat
      /\ \A i \in 1 .. queue_size : Pending[i] \in Nat \ {0}
      /\ \A w \in Slots : task[w] \in Nat
      /\ done \subseteq Nat \ {0}
  BY <1>0, SizesAssumption DEF TypeOK, RingInv
<1>1. ASSUME NEW a \in Adders, AddCall(a) PROVE TaskInv'
  <2>0. /\ calls \in Nat /\ calls' = calls + 1
        /\ \A b \in Adders : arg'[b] = IF b = a THEN calls + 1 ELSE arg[b]
        /\ arg[a] = NoTask
        /\ Pending' = Pending /\ UNCHANGED <<queue_size, task, done>>
    BY <1>0, <1>1, SizesAssumption DEF AddCall, TypeOK, HandInv, Pending, workerVars
  <2>1. GivenOut' BY <1>0, <1>T, <2>0 DEF GivenOut
  <2>2. OnePlace' BY <1>0, <1>T, <2>0 DEF OnePlace, GivenOut
  <2>. QED BY <2>1, <2>2 DEF TaskInv
<1>2. ASSUME NEW a \in Adders, AddRefused(a) PROVE TaskInv'
  <2>0. /\ \A b \in Adders : arg'[b] = IF b = a THEN NoTask ELSE arg[b]
        /\ Pending' = Pending /\ UNCHANGED <<queue_size, task, done, calls>>
    BY <1>0, <1>2 DEF AddRefused, AddReturn, TypeOK, Pending
  <2>1. GivenOut' BY <1>0, <1>T, <2>0 DEF GivenOut
  <2>2. OnePlace' BY <1>0, <1>T, <2>0 DEF OnePlace
  <2>. QED BY <2>1, <2>2 DEF TaskInv
<1>3. ASSUME NEW a \in Adders, AddPut(a) PROVE TaskInv'
  <2>1. /\ queue_size \in Nat /\ queue_size' = queue_size + 1 /\ arg[a] \in Task
        /\ \A i \in 1 .. queue_size : Pending'[i] = Pending[i]
        /\ Pending'[queue_size + 1] = arg[a]
    BY <1>0, <1>3, PutPending, SizesAssumption DEF TypeOK
  <2>2. /\ \A b \in Adders : arg'[b] = IF b = a THEN NoTask ELSE arg[b]
        /\ UNCHANGED <<task, done, calls>>
    BY <1>0, <1>3 DEF AddPut, AddReturn, TypeOK
  <2>3. \A i \in 1 .. queue_size' : i \in 1 .. queue_size \/ i = queue_size + 1
    BY <2>1
  <2>4. GivenOut' BY <1>0, <1>T, <2>1, <2>2, <2>3 DEF GivenOut
  <2>5. OnePlace' BY <1>0, <1>T, <2>1, <2>2, <2>3 DEF OnePlace
  <2>. QED BY <2>4, <2>5 DEF TaskInv
<1>4. ASSUME NEW w \in Slots, WorkerTake(w) PROVE TaskInv'
  <2>1. /\ queue_size \in Nat \ {0} /\ queue_size' = queue_size - 1
        /\ task_queue[queue_front] = Pending[1] /\ Pending[1] \in Task
        /\ \A i \in 1 .. queue_size' : Pending'[i] = Pending[i + 1]
    BY <1>0, <1>4, TakePending, SizesAssumption DEF TypeOK
  <2>2. /\ \A v \in Slots : task'[v] = IF v = w THEN Pending[1] ELSE task[v]
        /\ UNCHANGED <<arg, done, calls>>
    BY <1>0, <1>4, <2>1 DEF WorkerTake, TypeOK
  <2>3. 1 \in 1 .. queue_size /\ \A i \in 1 .. queue_size' : i + 1 \in 1 .. queue_size /\ i + 1 # 1
    BY <2>1
  <2>4. GivenOut' BY <1>0, <1>T, <2>1, <2>2, <2>3 DEF GivenOut
  <2>5. OnePlace' BY <1>0, <1>T, <2>1, <2>2, <2>3 DEF OnePlace
  <2>. QED BY <2>4, <2>5 DEF TaskInv
<1>5. ASSUME NEW w \in Slots, WorkerRun(w) PROVE TaskInv'
  <2>0. /\ task[w] \in Task
        /\ \A v \in Slots : task'[v] = IF v = w THEN NoTask ELSE task[v]
        /\ done' = done \cup {task[w]}
        /\ Pending' = Pending /\ UNCHANGED <<queue_size, arg, calls>>
    BY <1>0, <1>5 DEF WorkerRun, Goto, HandInv, adderVars, TypeOK, Pending
  <2>1. GivenOut' BY <1>0, <1>T, <2>0 DEF GivenOut
  <2>2. OnePlace' BY <1>0, <1>T, <2>0 DEF OnePlace
  <2>. QED BY <2>1, <2>2 DEF TaskInv
<1>6. CASE UNCHANGED <<queueVars, task, done, arg, calls>>
  BY <1>0, <1>6 DEF TaskInv, OnePlace, GivenOut, Pending
<1>7. \/ \E a \in Adders : AddCall(a) \/ AddRefused(a) \/ AddPut(a)
      \/ \E w \in Slots : WorkerTake(w) \/ WorkerRun(w)
      \/ UNCHANGED <<queueVars, task, done, arg, calls>>
  BY DEF Next, vars, adderVars, workerVars,
     threadpool_add, AddLock, AddTestFull, AddWait, AddTestRoom,
     threadpool_thread, WorkerLock, WorkerTestEmpty, WorkerWait, WorkerRetire,
     WorkerRelock, WorkerTestShutdown, WorkerTestTask, WorkerBusy, WorkerFinish,
     adjust_thread, AdjustLoop, AdjustSnapshot, AdjustBusy, AdjustGrow, AdjustNoGrow,
     AdjustShrink, AdjustNoShrink, AdjustSignal,
     threadpool_destroy, DestroyShutdown, DestroyBroadcast, FreeQueue, FreeLock,
     FreePool, Wakeup, SpuriousWakeup
<1>. QED BY <1>1, <1>2, <1>3, <1>4, <1>5, <1>6, <1>7

-----------------------------------------------------------------------------
(* A function on 1 .. n is a sequence of length n. *)
LEMMA SeqOfLength ==
  ASSUME NEW S, NEW n \in Nat, NEW f \in [1 .. n -> S]
  PROVE  f \in Seq(S) /\ Len(f) = n
<1>1. f \in Seq(S) OBVIOUS
<1>2. Len(f) = n BY <1>1
<1>. QED BY <1>1, <1>2

(* The waiting tasks form a sequence of queue_size tasks. *)
LEMMA PendingSeq ==
  ASSUME SafetyInv
  PROVE  Pending \in Seq(Task) /\ Len(Pending) = queue_size
<1>1. queue_size \in Nat /\ \A i \in 1 .. queue_size : Pending[i] \in Task
  BY SizesAssumption DEF SafetyInv, TypeOK, RingInv
<1>2. Pending \in [1 .. queue_size -> Task] BY <1>1 DEF Pending
<1>. QED BY <1>1, <1>2, SeqOfLength

(* The same in the next state. *)
LEMMA PendingSeqNext ==
  ASSUME SafetyInv'
  PROVE  Pending' \in Seq(Task) /\ Len(Pending') = queue_size'
<1>1. queue_size' \in Nat /\ \A i \in 1 .. queue_size' : Pending'[i] \in Task
  BY SizesAssumption DEF SafetyInv, TypeOK, RingInv
<1>2. Pending' \in [1 .. queue_size' -> Task] BY <1>1 DEF Pending
<1>. QED BY <1>1, <1>2, SeqOfLength

(* The new pool maps to the empty TaskQueue. *)
LEMMA RefinesInit == Init => Abstract!Init
<1>. SUFFICES ASSUME Init PROVE Abstract!Init OBVIOUS
<1>1. Pending = <<>> BY DEF Init, Pending
<1>2. Held = {} BY DEF Init, Held
<1>. QED BY <1>1, <1>2 DEF Init, Abstract!Init

(* Every step of the pool is a step of TaskQueue or leaves it alone: AddPut *)
(* is Submit, WorkerTake is Start, WorkerRun is Finish.                     *)
LEMMA RefinesStep ==
  ASSUME SafetyInv, TaskInv, [Next]_vars, SafetyInv'
  PROVE  [Abstract!Next]_(Abstract!vars)
<1>. USE DEF queueVars
<1>0. TypeOK /\ RingInv /\ HandInv /\ OnePlace BY DEF SafetyInv, TaskInv
<1>1. ASSUME NEW a \in Adders, AddPut(a) PROVE \E t \in Task : Abstract!Submit(t)
  <2>1. /\ queue_size < QueueMax /\ queue_size' = queue_size + 1 /\ arg[a] \in Task
        /\ \A i \in 1 .. queue_size : Pending'[i] = Pending[i]
        /\ Pending'[queue_size + 1] = arg[a]
    BY <1>1, PutPending
  <2>2. /\ Pending \in Seq(Task) /\ Len(Pending) = queue_size
        /\ Pending' \in Seq(Task) /\ Len(Pending') = queue_size'
    BY PendingSeq, PendingSeqNext
  <2>3. Pending' = Append(Pending, arg[a]) BY <2>1, <2>2
  <2>4. arg[a] \notin Abstract!Queued \cup Held \cup done
    BY <1>0, <2>1, <2>2 DEF OnePlace, Abstract!Queued, Held
  <2>5. Held' = Held /\ done' = done BY <1>1 DEF AddPut, Held
  <2>6. Abstract!Submit(arg[a]) BY <2>1, <2>2, <2>3, <2>4, <2>5 DEF Abstract!Submit
  <2>. QED BY <2>1, <2>6
<1>2. ASSUME NEW w \in Slots, WorkerTake(w) PROVE Abstract!Start
  <2>1. /\ queue_size \in 1 .. QueueMax /\ queue_size' = queue_size - 1
        /\ task_queue[queue_front] = Pending[1] /\ Pending[1] \in Task
        /\ \A i \in 1 .. queue_size' : Pending'[i] = Pending[i + 1]
    BY <1>2, TakePending
  <2>2. /\ Pending \in Seq(Task) /\ Len(Pending) = queue_size
        /\ Pending' \in Seq(Task) /\ Len(Pending') = queue_size'
    BY PendingSeq, PendingSeqNext
  <2>3. Pending # <<>> /\ Head(Pending) = Pending[1] /\ Pending' = Tail(Pending)
    BY <2>1, <2>2, SizesAssumption
  <2>4. Pending[1] \notin Held \cup done
    BY <1>0, <2>1, SizesAssumption DEF OnePlace, Held
  <2>5. \A v \in Slots : task'[v] = IF v = w THEN Pending[1] ELSE task[v]
    BY <1>0, <1>2, <2>1 DEF WorkerTake, TypeOK
  <2>6. task[w] = NoTask BY <1>0, <1>2 DEF WorkerTake, Goto, HandInv
  <2>7. Held' = Held \cup {Pending[1]} BY <2>1, <2>5, <2>6 DEF Held
  <2>8. done' = done BY <1>2 DEF WorkerTake
  <2>. QED BY <2>3, <2>4, <2>7, <2>8 DEF Abstract!Start
<1>3. ASSUME NEW w \in Slots, WorkerRun(w) PROVE \E t \in Task : Abstract!Finish(t)
  <2>1. task[w] \in Task BY <1>0, <1>3 DEF WorkerRun, Goto, HandInv, TypeOK
  <2>2. \A v \in Slots : task'[v] = IF v = w THEN NoTask ELSE task[v]
    BY <1>0, <1>3 DEF WorkerRun, TypeOK
  <2>3. \A v \in Slots : v # w => task[v] # task[w] BY <1>0, <2>1 DEF OnePlace
  <2>4. task[w] \in Held /\ Held' = Held \ {task[w]} BY <2>1, <2>2, <2>3 DEF Held
  <2>5. Pending' = Pending /\ done' = done \cup {task[w]} BY <1>3 DEF WorkerRun, Pending
  <2>6. Abstract!Finish(task[w]) BY <2>4, <2>5 DEF Abstract!Finish
  <2>. QED BY <2>1, <2>6
<1>4. CASE UNCHANGED <<queueVars, task, done>>
  BY <1>4 DEF Abstract!vars, Pending, Held
<1>5. \/ \E a \in Adders : AddPut(a)
      \/ \E w \in Slots : WorkerTake(w) \/ WorkerRun(w)
      \/ UNCHANGED <<queueVars, task, done>>
  BY DEF Next, vars, adderVars, workerVars,
     threadpool_add, AddCall, AddLock, AddTestFull, AddWait, AddTestRoom, AddRefused,
     threadpool_thread, WorkerLock, WorkerTestEmpty, WorkerWait, WorkerRetire,
     WorkerRelock, WorkerTestShutdown, WorkerTestTask, WorkerBusy, WorkerFinish,
     adjust_thread, AdjustLoop, AdjustSnapshot, AdjustBusy, AdjustGrow, AdjustNoGrow,
     AdjustShrink, AdjustNoShrink, AdjustSignal,
     threadpool_destroy, DestroyShutdown, DestroyBroadcast, FreeQueue, FreeLock,
     FreePool, Wakeup, SpuriousWakeup
<1>. QED BY <1>1, <1>2, <1>3, <1>4, <1>5 DEF Abstract!Next

(* The pool implements the bounded FIFO TaskQueue, through shutdown and     *)
(* with spurious wakeups and failing pthread_create included: tasks leave   *)
(* in the order they came, each goes to one worker and is run at most once, *)
(* and none is overwritten in the ring.                                     *)
THEOREM Refinement == Spec => ImplementsTaskQueue
<1>1. SafetyInv /\ TaskInv /\ [Next]_vars => TaskInv' BY TaskStep
<1>2. SafetyInv /\ TaskInv /\ [Next]_vars /\ SafetyInv' => [Abstract!Next]_(Abstract!vars)
  BY RefinesStep
<1>. QED BY Safety, TaskInit, RefinesInit, <1>1, <1>2, PTL
         DEF Spec, ImplementsTaskQueue, Abstract!Spec

-----------------------------------------------------------------------------
(* No step that ends before the shutdown loses an accepted task. *)
LEMMA KeptStep ==
  ASSUME SafetyInv, AcceptedIsKept, [Next]_vars
  PROVE  AcceptedIsKept'
<1>. USE DEF queueVars
<1>0. TypeOK /\ HandInv BY DEF SafetyInv
<1>1. ASSUME NEW a \in Adders, AddPut(a) PROVE AcceptedIsKept'
  <2>1. /\ queue_size \in Nat /\ queue_size' = queue_size + 1
        /\ \A i \in 1 .. queue_size : Pending'[i] = Pending[i]
        /\ Pending'[queue_size + 1] = arg[a]
    BY <1>0, <1>1, PutPending, SizesAssumption DEF TypeOK
  <2>2. Queued \cup {arg[a]} \subseteq Queued'
    <3>1. ASSUME NEW i \in 1 .. queue_size PROVE Pending[i] \in Queued'
      BY <2>1 DEF Queued
    <3>2. arg[a] \in Queued' BY <2>1 DEF Queued
    <3>. QED BY <3>1, <3>2 DEF Queued
  <2>3. /\ accepted' = accepted \cup {arg[a]} /\ Held' = Held /\ done' = done
        /\ shutdown' = shutdown
    BY <1>1 DEF AddPut, AddReturn, Held
  <2>. QED BY <2>2, <2>3 DEF AcceptedIsKept
<1>2. ASSUME NEW w \in Slots, WorkerTake(w) PROVE AcceptedIsKept'
  <2>1. /\ queue_size \in Nat \ {0} /\ queue_size' = queue_size - 1
        /\ task_queue[queue_front] = Pending[1] /\ Pending[1] \in Task
        /\ \A i \in 1 .. queue_size' : Pending'[i] = Pending[i + 1]
    BY <1>0, <1>2, TakePending, SizesAssumption DEF TypeOK
  <2>2. Queued \subseteq Queued' \cup {Pending[1]}
    <3>1. ASSUME NEW i \in 1 .. queue_size, i # 1 PROVE Pending[i] \in Queued'
      <4>1. i - 1 \in 1 .. queue_size' /\ (i - 1) + 1 = i BY <2>1, <3>1
      <4>2. Pending'[i - 1] = Pending[i] BY <2>1, <4>1
      <4>. QED BY <4>1, <4>2 DEF Queued
    <3>. QED BY <3>1 DEF Queued
  <2>3. \A v \in Slots : task'[v] = IF v = w THEN Pending[1] ELSE task[v]
    BY <1>0, <1>2, <2>1 DEF WorkerTake, TypeOK
  <2>4. task[w] = NoTask BY <1>0, <1>2 DEF WorkerTake, Goto, HandInv
  <2>5. Held' = Held \cup {Pending[1]} BY <2>1, <2>3, <2>4 DEF Held
  <2>6. UNCHANGED <<accepted, done, shutdown>> BY <1>2 DEF WorkerTake
  <2>. QED BY <2>2, <2>5, <2>6 DEF AcceptedIsKept
<1>3. ASSUME NEW w \in Slots, WorkerRun(w) PROVE AcceptedIsKept'
  <2>1. \A v \in Slots : task'[v] = IF v = w THEN NoTask ELSE task[v]
    BY <1>0, <1>3 DEF WorkerRun, TypeOK
  <2>2. Held \subseteq Held' \cup {task[w]} BY <2>1 DEF Held
  <2>3. /\ done' = done \cup {task[w]} /\ Queued' = Queued
        /\ UNCHANGED <<accepted, shutdown>>
    BY <1>3 DEF WorkerRun, Queued, Pending, adderVars
  <2>. QED BY <2>2, <2>3 DEF AcceptedIsKept
<1>4. CASE UNCHANGED <<queueVars, task, done, accepted, shutdown>>
  BY <1>4 DEF AcceptedIsKept, Queued, Held, Pending
<1>5. CASE shutdown' BY <1>5 DEF AcceptedIsKept
<1>6. \/ shutdown'
      \/ \E a \in Adders : AddPut(a)
      \/ \E w \in Slots : WorkerTake(w) \/ WorkerRun(w)
      \/ UNCHANGED <<queueVars, task, done, accepted, shutdown>>
  <2>1. DestroyShutdown => shutdown' BY DEF DestroyShutdown
  <2>2. \A a \in Adders : AddRefused(a) => shutdown' BY DEF AddRefused
  <2>. QED
    BY <2>1, <2>2 DEF Next, vars, adderVars, workerVars,
       threadpool_add, AddCall, AddLock, AddTestFull, AddWait, AddTestRoom,
       threadpool_thread, WorkerLock, WorkerTestEmpty, WorkerWait, WorkerRetire,
       WorkerRelock, WorkerTestShutdown, WorkerTestTask, WorkerBusy, WorkerFinish,
       adjust_thread, AdjustLoop, AdjustSnapshot, AdjustBusy, AdjustGrow, AdjustNoGrow,
       AdjustShrink, AdjustNoShrink, AdjustSignal,
       threadpool_destroy, DestroyBroadcast, FreeQueue, FreeLock, FreePool,
       Wakeup, SpuriousWakeup
<1>. QED BY <1>1, <1>2, <1>3, <1>4, <1>5, <1>6

(* Until threadpool_destroy has set shutdown, a task for which              *)
(* threadpool_add returned 0 is in the queue, held by a worker or done,     *)
(* with spurious wakeups, retiring workers and failing pthread_create.      *)
THEOREM NothingDropped == Spec => []AcceptedIsKept
<1>1. Init => AcceptedIsKept BY DEF Init, AcceptedIsKept
<1>2. SafetyInv /\ AcceptedIsKept /\ [Next]_vars => AcceptedIsKept' BY KeptStep
<1>. QED BY Safety, <1>1, <1>2, PTL DEF Spec
=============================================================================
