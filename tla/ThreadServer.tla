---------------------------- MODULE ThreadServer ----------------------------
(* Csocket/epoll_反应堆/pthread_tcp_server.c: a detached thread for every     *)
(* connection.                                                              *)
EXTENDS EchoKernel

threadUnchanged == UNCHANGED <<rigid, tableVars, treeVars, ready, myevents>>

IsThreads == server = "pthread" /\ alive

(* main.  The result of pthread_create is not looked at. *)
ThreadAccept ==
  /\ IsThreads
  /\ \E c \in Backlog : Accept(c)
  /\ thr' = thr \cup {AcceptedFd}
  /\ UNCHANGED <<out, alive, overrun>> /\ threadUnchanged

ThreadCreateFails ==
  /\ IsThreads /\ MayFail
  /\ \E c \in Backlog : Accept(c)
  /\ thr' = thr
  /\ UNCHANGED <<out, alive, overrun>> /\ threadUnchanged

ThreadAcceptExits == IsThreads /\ AcceptExits

(* client_fun *)
Reading(fd) == IsThreads /\ fd \in thr \ Writing

ThreadRead(fd) ==
  /\ Reading(fd) /\ Read(fd)
  /\ UNCHANGED thr /\ threadUnchanged

(* An error, or the end and a second of sleep; then close. *)
ThreadClose(fd) ==
  /\ Reading(fd) /\ (ReadsEof(conn[fd]) \/ ReadsErr(conn[fd]))
  /\ Close(fd) /\ thr' = thr \ {fd}
  /\ threadUnchanged

ThreadWrite(fd) ==
  /\ IsThreads /\ fd \in thr /\ Write(fd)
  /\ UNCHANGED thr /\ threadUnchanged

ThreadKilled(fd) == IsThreads /\ WriteKilled(fd)

AcceptThread == ThreadAccept \/ ThreadAcceptExits
client_fun(fd) == ThreadRead(fd) \/ ThreadClose(fd) \/ ThreadWrite(fd) \/ ThreadKilled(fd)
=============================================================================
