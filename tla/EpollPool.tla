------------------------------ MODULE EpollPool -----------------------------
(***************************************************************************)
(* The echo server of Csocket/epoll_反应堆/线程池加epoll/threadpoolsimple.c: *)
(* main waits on an edge-triggered epoll tree and hands every event to the *)
(* thread pool of SimplePool as a task; a worker reads its descriptor      *)
(* until it is empty, writes back what it reads, and closes the descriptor *)
(* at end of file.  The module composes SimplePool, with main as the only  *)
(* caller of addtask, and a kernel with descriptors, the tree and clients. *)
(* (destroy_threadpool comes after an endless loop and is never called.)   *)
(*                                                                         *)
(* A task names its connection by the number of the descriptor.  Nothing   *)
(* keeps a second task for it from being queued while the first one runs,  *)
(* nor the number from being closed and given to the next client.          *)
(***************************************************************************)
EXTENDS Integers, Sequences, FiniteSets, FiniteSetsExt

CONSTANTS ThrNum, MaxJob, IntMax, NTasks,  \* as in SimplePool
          Main,        \* the thread of main
          NFd,         \* descriptors left for connections
          Clients,     \* connections made to the server
          NUnits,      \* bound on the units all clients send
          BufLen,      \* units that fit into buf
          MaxFaults,   \* bound on short writes and resets
          MayInterrupt,\* whether a signal interrupts epoll_wait
          MayHitTree   \* whether the uninitialised task->epfd may be the tree

FD   == 1 .. NFd
Lfd  == 0
None == "none"
Unit == Clients \X (1 .. NUnits)

ASSUME SizesAssumption ==
  /\ ThrNum \in Nat \ {0} /\ MaxJob \in Nat \ {0} /\ IntMax \in Nat \ {0}
  /\ NTasks \in Nat
  /\ NFd \in Nat /\ NUnits \in Nat /\ BufLen \in Nat \ {0} /\ MaxFaults \in Nat
ASSUME SwitchAssumption == {MayInterrupt, MayHitTree} \subseteq BOOLEAN
ASSUME MainAssumption == Main \notin (0 .. ThrNum - 1) \cup {-1}
ASSUME ClientsAssumption == None \notin Clients

VARIABLES pool_lock, tasks, job_push, job_pop, job_num, shutdown, beginnum,
          pc, task, done, apc, calls, dst,     \* the pool: see SimplePool
          fdOf,    \* per task: its fd
          run,     \* per worker: where it is in taskRun, and buf
          batch,   \* main: events of evs not handled yet
          conn,    \* kernel: whose connection each descriptor is
          tree,    \* kernel: descriptors registered for EPOLLIN | EPOLLET
          edge,    \* kernel: descriptors of the tree with news
          cl,      \* per client: the connection seen from outside
          faults,  \* short writes and resets so far
          alive,   \* FALSE once the process has ended
          shared,  \* two workers have served one descriptor at the same time
          reused   \* a number was given out while events or tasks still named it

poolVars   == <<pool_lock, tasks, job_push, job_pop, job_num, shutdown, beginnum,
                pc, task, done, apc, calls, dst>>
kernelVars == <<conn, tree, edge, cl, faults>>
ghostVars  == <<shared, reused>>
vars == <<poolVars, fdOf, run, batch, kernelVars, alive, ghostVars>>

Pool == INSTANCE SimplePool WITH Adders <- {Main}, MayDestroy <- FALSE

NotRunning == [pc |-> "read", buf |-> <<>>]
NewClient  == [st |-> "new", sent |-> 0, read |-> 0, got |-> <<>>, fin |-> FALSE,
               rst |-> FALSE]

NoConn  == [fd \in FD |-> None]
AtStart == [w \in Pool!Workers |-> NotRunning]
NoFds   == [t \in Pool!Task |-> Lfd]

(* exit, or a signal: the threads stop, and the kernel closes the listening *)
(* socket and every connection.                                             *)
Gone(c) == IF cl[c].st \in {"backlog", "up"} THEN [cl[c] EXCEPT !.st = "down"] ELSE cl[c]

Exit ==
  /\ alive' = FALSE
  /\ fdOf' = NoFds /\ run' = AtStart /\ batch' = {}
  /\ conn' = NoConn /\ tree' = {} /\ edge' = {}
  /\ cl' = [c \in Clients |-> Gone(c)]
  /\ UNCHANGED <<poolVars, faults, ghostVars>>

Init ==
  /\ Pool!Init
  /\ fdOf = NoFds /\ run = AtStart /\ batch = {}
  /\ conn = NoConn /\ tree = {} /\ edge = {}
  /\ cl = [c \in Clients |-> NewClient] /\ faults = 0
  /\ alive = TRUE /\ shared = FALSE /\ reused = FALSE

-----------------------------------------------------------------------------
Unread(c)   == cl[c].read < cl[c].sent
Ended(c)    == cl[c].fin \/ cl[c].rst
Readable(c) == Unread(c) \/ Ended(c)
Backlog     == {c \in Clients : cl[c].st = "backlog"}
ClosedFds   == {fd \in FD : conn[fd] = None}
Lowest(fds) == CHOOSE fd \in fds : \A other \in fds : fd <= other

(* The descriptors named by tasks in the queue, and by those workers have. *)
Serving(w) == fdOf[task[w]]
Running    == {w \in Pool!Workers : pc[w] = "run"}
HeldFds    == {Serving(w) : w \in {v \in Pool!Workers : task[v] # Pool!NoTask}}
QueuedFds  == {fdOf[t] : t \in Pool!Queued}
AddingFds  == IF apc[Main] \in {"idle", "signal"} THEN {} ELSE {fdOf[calls]}

-----------------------------------------------------------------------------
(* main *)
Ready == {fd \in edge : Readable(conn[fd])} \cup (IF Backlog # {} THEN {Lfd} ELSE {})

AtLoopHead == alive /\ batch = {} /\ apc[Main] = "idle"

EpollWait ==
  /\ AtLoopHead /\ Ready # {}
  /\ batch' = Ready /\ edge' = {}
  /\ UNCHANGED <<poolVars, fdOf, run, conn, tree, cl, faults, alive, ghostVars>>

(* nready < 0: perr_exit *)
EpollWaitFails == AtLoopHead /\ MayInterrupt /\ Exit

Handling(fd) == alive /\ fd \in batch /\ apc[Main] = "idle"

(* Accept, fcntl and epoll_ctl.  A descriptor put on the tree when there is *)
(* something to read is reported at once.                                   *)
AcceptConn ==
  /\ Handling(Lfd) /\ batch' = batch \ {Lfd} /\ ClosedFds # {}
  /\ \E c \in Backlog :
       LET cfd == Lowest(ClosedFds)
       IN  /\ conn' = [conn EXCEPT ![cfd] = c]
           /\ cl' = [cl EXCEPT ![c].st = "up"]
           /\ tree' = tree \cup {cfd}
           /\ edge' = IF Readable(c) THEN edge \cup {cfd} ELSE edge
           /\ reused' = (reused \/ cfd \in batch \cup QueuedFds \cup HeldFds)
  /\ UNCHANGED <<poolVars, fdOf, run, faults, alive, shared>>

(* No descriptor is left: Accept ends the process. *)
AcceptFails == Handling(Lfd) /\ ClosedFds = {} /\ Exit

(* addtask(thrPool, evs[i].data.fd, e), and its way through the pool. *)
HandleEvent(fd) ==
  /\ Handling(fd) /\ batch' = batch \ {fd} /\ fd # Lfd
  /\ Pool!AddCall(Main)
  /\ fdOf' = [fdOf EXCEPT ![calls + 1] = fd]
  /\ UNCHANGED <<run, kernelVars, alive, ghostVars>>

AddTask ==
  /\ alive
  /\ \/ Pool!AddLock(Main) \/ Pool!AddTestFull(Main) \/ Pool!AddWait(Main)
     \/ Pool!AddPut(Main) \/ Pool!AddSignal(Main)
  /\ UNCHANGED <<fdOf, run, batch, kernelVars, alive, ghostVars>>

-----------------------------------------------------------------------------
(* thrRun, but for the task *)
TakeTask(w) ==
  /\ alive
  /\ \/ Pool!WorkerLock(w) \/ Pool!WorkerTestEmpty(w) \/ Pool!WorkerWait(w)
     \/ Pool!WorkerPop(w)
  /\ UNCHANGED <<fdOf, run, batch, kernelVars, alive, ghostVars>>

(* pthread_cond_wait may return without a signal. *)
Wakeup ==
  /\ alive /\ Pool!Wakeup
  /\ UNCHANGED <<fdOf, run, batch, kernelVars, alive, ghostVars>>

StartTask(w) ==
  /\ alive /\ Pool!WorkerUnlock(w)
  /\ shared' = (shared \/ \E v \in Running : Serving(v) = Serving(w))
  /\ UNCHANGED <<fdOf, run, batch, kernelVars, alive, reused>>

-----------------------------------------------------------------------------
(* taskRun *)
At(w, p) == alive /\ pc[w] = "run" /\ run[w].pc = p

Received(c) ==
  LET n == IF cl[c].sent - cl[c].read < BufLen THEN cl[c].sent - cl[c].read ELSE BufLen
  IN  [i \in 1 .. n |-> <<c, cl[c].read + i>>]

ReadData(w) ==
  /\ At(w, "read") /\ conn[Serving(w)] # None /\ Unread(conn[Serving(w)])
  /\ LET c == conn[Serving(w)]
     IN  /\ run' = [run EXCEPT ![w] = [pc |-> "write", buf |-> Received(c)]]
         /\ cl' = [cl EXCEPT ![c].read = @ + Len(Received(c))]
  /\ UNCHANGED <<poolVars, fdOf, batch, conn, tree, edge, faults, alive, ghostVars>>

(* Fault: an event is taken to stand for one read. *)
WriteBack_OneRead(w) ==
  /\ At(w, "write") /\ conn[Serving(w)] # None /\ ~ cl[conn[Serving(w)]].rst
  /\ Pool!WorkerRun(w)
  /\ run' = [run EXCEPT ![w] = NotRunning]
  /\ cl' = [cl EXCEPT ![conn[Serving(w)]].got = @ \o run[w].buf]
  /\ UNCHANGED <<fdOf, batch, conn, tree, edge, faults, alive, ghostVars>>

(* Fault: a short write is repeated from the beginning of buf. *)
WriteBack_Repeat(w) ==
  /\ At(w, "write") /\ conn[Serving(w)] # None /\ ~ cl[conn[Serving(w)]].rst
  /\ \E n \in 0 .. Len(run[w].buf) :
       /\ faults' = faults + (IF n < Len(run[w].buf) THEN 1 ELSE 0)
       /\ cl' = [cl EXCEPT ![conn[Serving(w)]].got = @ \o SubSeq(run[w].buf, 1, n)]
       /\ run' = [run EXCEPT ![w] = IF n < Len(run[w].buf) THEN @ ELSE NotRunning]
  /\ faults' <= MaxFaults
  /\ UNCHANGED <<poolVars, fdOf, batch, conn, tree, edge, alive, ghostVars>>

(* The result of Write is not looked at: what does not fit is lost. *)
WriteBack(w) ==
  /\ At(w, "write") /\ conn[Serving(w)] # None /\ ~ cl[conn[Serving(w)]].rst
  /\ \E n \in 0 .. Len(run[w].buf) :
       /\ faults' = faults + (IF n < Len(run[w].buf) THEN 1 ELSE 0)
       /\ cl' = [cl EXCEPT ![conn[Serving(w)]].got = @ \o SubSeq(run[w].buf, 1, n)]
  /\ faults' <= MaxFaults
  /\ run' = [run EXCEPT ![w] = NotRunning]
  /\ UNCHANGED <<poolVars, fdOf, batch, conn, tree, edge, alive, ghostVars>>

(* The descriptor is closed by now, or the connection was reset. *)
WriteFails(w) ==
  /\ At(w, "write")
  /\ conn[Serving(w)] # None => cl[conn[Serving(w)]].rst /\ ~ cl[conn[Serving(w)]].fin
  /\ run' = [run EXCEPT ![w] = NotRunning]
  /\ UNCHANGED <<poolVars, fdOf, batch, kernelVars, alive, ghostVars>>

(* EPIPE: SIGPIPE ends the process. *)
WriteKilled(w) ==
  /\ At(w, "write") /\ conn[Serving(w)] # None /\ cl[conn[Serving(w)]].rst
  /\ Exit

(* EAGAIN: everything is read. *)
ReadAgain(w) ==
  /\ At(w, "read") /\ conn[Serving(w)] # None /\ ~ Readable(conn[Serving(w)])
  /\ Pool!WorkerRun(w)
  /\ UNCHANGED <<fdOf, run, batch, kernelVars, alive, ghostVars>>

(* Fault: errno is not tested for EAGAIN. *)
ReadEnds_AnyError(w) ==
  /\ At(w, "read")
  /\ conn[Serving(w)] # None => ~ Unread(conn[Serving(w)])
  /\ run' = [run EXCEPT ![w].pc = "close"]
  /\ UNCHANGED <<poolVars, fdOf, batch, kernelVars, alive, ghostVars>>

(* End of file, or an error: reset, or a descriptor that is not open. *)
ReadEnds(w) ==
  /\ At(w, "read")
  /\ conn[Serving(w)] # None => ~ Unread(conn[Serving(w)]) /\ Ended(conn[Serving(w)])
  /\ run' = [run EXCEPT ![w].pc = "close"]
  /\ UNCHANGED <<poolVars, fdOf, batch, kernelVars, alive, ghostVars>>

(* close(task->fd), whatever the number stands for by now.  The kernel      *)
(* takes it out of the tree.                                                *)
CloseFd(w) ==
  /\ At(w, "close")
  /\ conn' = [conn EXCEPT ![Serving(w)] = None]
  /\ cl' = [c \in Clients |-> IF conn[Serving(w)] = c THEN [cl[c] EXCEPT !.st = "down"]
                              ELSE cl[c]]
  /\ tree' = tree \ {Serving(w)} /\ edge' = edge \ {Serving(w)}
  /\ run' = [run EXCEPT ![w].pc = "del"]
  /\ UNCHANGED <<poolVars, fdOf, batch, faults, alive, ghostVars>>

(* epoll_ctl(task->epfd, EPOLL_CTL_DEL, ...) with an epfd nobody has set *)
DelFd(w) ==
  /\ At(w, "del") /\ Pool!WorkerRun(w)
  /\ \E gone \in {{}} \cup (IF MayHitTree THEN {{Serving(w)}} ELSE {}) :
       tree' = tree \ gone /\ edge' = edge \ gone
  /\ run' = [run EXCEPT ![w] = NotRunning]
  /\ UNCHANGED <<fdOf, batch, conn, cl, faults, alive, ghostVars>>

taskRun(w) ==
  \/ ReadData(w) \/ WriteBack(w) \/ WriteFails(w) \/ WriteKilled(w)
  \/ ReadAgain(w) \/ ReadEnds(w) \/ CloseFd(w) \/ DelFd(w)

-----------------------------------------------------------------------------
(* The clients, while the server runs.  News on a descriptor of the tree    *)
(* makes an edge.                                                           *)
Arrives(c) == edge' = edge \cup {fd \in tree : conn[fd] = c}

Connect(c) ==
  /\ alive /\ cl[c].st = "new"
  /\ cl' = [cl EXCEPT ![c].st = "backlog"]
  /\ UNCHANGED <<poolVars, fdOf, run, batch, conn, tree, edge, faults, alive, ghostVars>>

Send(c) ==
  /\ alive /\ cl[c].st \in {"backlog", "up"} /\ ~ Ended(c)
  /\ MapThenSumSet(LAMBDA d : cl[d].sent, Clients) < NUnits
  /\ cl' = [cl EXCEPT ![c].sent = @ + 1]
  /\ Arrives(c)
  /\ UNCHANGED <<poolVars, fdOf, run, batch, conn, tree, faults, alive, ghostVars>>

Close(c) ==
  /\ alive /\ cl[c].st \in {"backlog", "up"} /\ ~ Ended(c)
  /\ cl' = [cl EXCEPT ![c].fin = TRUE]
  /\ Arrives(c)
  /\ UNCHANGED <<poolVars, fdOf, run, batch, conn, tree, faults, alive, ghostVars>>

Reset(c) ==
  /\ alive /\ cl[c].st = "up" /\ ~ cl[c].rst /\ faults < MaxFaults
  /\ cl' = [cl EXCEPT ![c].rst = TRUE] /\ faults' = faults + 1
  /\ Arrives(c)
  /\ UNCHANGED <<poolVars, fdOf, run, batch, conn, tree, alive, ghostVars>>

-----------------------------------------------------------------------------
Next ==
  \/ EpollWait \/ EpollWaitFails \/ AcceptConn \/ AcceptFails \/ AddTask \/ Wakeup
  \/ \E fd \in FD : HandleEvent(fd)
  \/ \E w \in Pool!Workers : TakeTask(w) \/ StartTask(w) \/ taskRun(w)
  \/ \E c \in Clients : Connect(c) \/ Send(c) \/ Close(c) \/ Reset(c)

Spec == Init /\ [][Next]_vars

-----------------------------------------------------------------------------
TypeOK ==
  /\ Pool!TypeOK
  /\ fdOf \in [Pool!Task -> FD \cup {Lfd}]
  /\ run \in [Pool!Workers -> [pc : {"read", "write", "close", "del"}, buf : Seq(Unit)]]
  /\ batch \subseteq FD \cup {Lfd}
  /\ conn \in [FD -> Clients \cup {None}] /\ edge \subseteq tree /\ tree \subseteq FD
  /\ cl \in [Clients -> [st : {"new", "backlog", "up", "down"}, sent : 0 .. NUnits,
                         read : 0 .. NUnits, got : Seq(Unit), fin : BOOLEAN,
                         rst : BOOLEAN]]
  /\ faults \in 0 .. MaxFaults /\ alive \in BOOLEAN /\ shared \in BOOLEAN /\ reused \in BOOLEAN

(* No edge is lost, though it is reported once: whenever a descriptor of    *)
(* the tree has something to read, the kernel, main, the queue or a worker  *)
(* that has not read it empty still knows about it, also when the news came *)
(* between the last read and the end of a task.                             *)
EdgeNotLost ==
  \A fd \in tree : Readable(conn[fd]) =>
    \/ fd \in edge \cup batch \cup AddingFds \cup QueuedFds
    \/ \E w \in Pool!Workers : /\ task[w] # Pool!NoTask /\ Serving(w) = fd
                               /\ run[w].pc # "del"

(* Connections are not mixed up, as long as no number is given out while    *)
(* events or tasks from its earlier life are about: a client gets back only *)
(* what it sent itself, its connection is closed only when it has ended and *)
(* everything it sent was read, and it stays on the tree until then.  (The  *)
(* end of the process closes them all.)                                     *)
OwnConnection ==
  ~ reused => \A c \in Clients :
    /\ \A i \in DOMAIN cl[c].got : cl[c].got[i][1] = c
    /\ alive /\ cl[c].st = "down" => Ended(c) /\ ~ Unread(c)
    /\ \A fd \in FD : conn[fd] = c => fd \in tree

(* Each unit is sent back at most once, and in the order it came as long as *)
(* no two workers have read from one descriptor at the same time.           *)
EchoOrder ==
  \A c \in Clients : \A i, j \in DOMAIN cl[c].got :
    i < j => /\ cl[c].got[i] # cl[c].got[j]
             /\ ~ shared /\ ~ reused => cl[c].got[i][2] < cl[c].got[j][2]
=============================================================================
