----------------------------- MODULE EpollServer ----------------------------
(* Csocket/epoll_反应堆/epoll.c, level triggered with blocking descriptors,  *)
(* and epoll_et.c, edge triggered with non-blocking ones.  Closing a        *)
(* descriptor takes it out of the tree, so the EPOLL_CTL_DEL that follows   *)
(* every close finds nothing.                                               *)
EXTENDS EchoKernel

IsEt == server = "epoll_et"

epollUnchanged == UNCHANGED <<rigid, tableVars, myevents, thr>>

InEpoll == server \in {"epoll", "epoll_et"} /\ alive /\ Writing = {} /\ cur = NoFd

Ready_Epoll ==
  {fd \in (IF IsEt THEN edge ELSE watch) : Readable(conn[fd])}
    \cup (IF Backlog # {} THEN {Lfd} ELSE {})

Epoll ==
  /\ InEpoll /\ ready = {} /\ Ready_Epoll # {}
  /\ ready' = Ready_Epoll /\ edge' = {}
  /\ UNCHANGED <<kernelVars, watch, cur>> /\ epollUnchanged

EpollFails == InEpoll /\ ready = {} /\ MayInterrupt /\ Exit

(* A descriptor with something to read is reported as soon as it is put on  *)
(* the tree.                                                                *)
EpollAccept ==
  /\ InEpoll /\ Lfd \in ready
  /\ \E c \in Backlog :
       /\ Accept(c)
       /\ edge' = IF IsEt /\ Readable(c) THEN edge \cup {AcceptedFd} ELSE edge
  /\ watch' = watch \cup {AcceptedFd}
  /\ ready' = ready \ {Lfd}
  /\ UNCHANGED <<out, alive, overrun, cur>> /\ epollUnchanged

EpollAcceptExits == InEpoll /\ Lfd \in ready /\ AcceptExits

(* epoll.c: one Read for an event *)
EpollRead(fd) ==
  /\ InEpoll /\ ~ IsEt /\ fd \in ready /\ Read(fd)
  /\ ready' = ready \ {fd}
  /\ UNCHANGED treeVars /\ epollUnchanged

EpollClose(fd) ==
  /\ InEpoll /\ ~ IsEt /\ fd \in ready /\ (ReadsEof(conn[fd]) \/ ReadsErr(conn[fd]))
  /\ Close(fd) /\ watch' = watch \ {fd}
  /\ ready' = ready \ {fd}
  /\ UNCHANGED <<edge, cur>> /\ epollUnchanged

EpollWrite(fd) ==
  /\ server = "epoll" /\ alive /\ Write(fd)
  /\ UNCHANGED <<treeVars, ready>> /\ epollUnchanged

(* epoll_et.c: Read until EAGAIN *)
EtStart(fd) ==
  /\ InEpoll /\ IsEt /\ fd \in ready \ {Lfd}
  /\ cur' = fd /\ ready' = ready \ {fd}
  /\ UNCHANGED <<kernelVars, watch, edge>> /\ epollUnchanged

AtEt(fd) == IsEt /\ alive /\ Writing = {} /\ fd = cur

EtRead(fd) ==
  /\ AtEt(fd) /\ Read(fd)
  /\ UNCHANGED <<treeVars, ready>> /\ epollUnchanged

EtAgain(fd) ==
  /\ AtEt(fd) /\ ~ Readable(conn[fd])
  /\ cur' = NoFd
  /\ UNCHANGED <<kernelVars, watch, edge, ready>> /\ epollUnchanged

EtClose(fd) ==
  /\ AtEt(fd) /\ (ReadsEof(conn[fd]) \/ ReadsErr(conn[fd]))
  /\ Close(fd) /\ watch' = watch \ {fd} /\ edge' = edge \ {fd}
  /\ cur' = NoFd
  /\ UNCHANGED ready /\ epollUnchanged

(* Fault: only one Read for an event. *)
EtWrite_Done(fd) ==
  /\ IsEt /\ alive /\ Write(fd)
  /\ cur' = NoFd
  /\ UNCHANGED <<watch, edge, ready>> /\ epollUnchanged

(* Write does not wait: what does not fit is lost. *)
EtWrite(fd) ==
  /\ IsEt /\ alive
  /\ \/ Write(fd)
     \/ /\ fd \in Writing /\ ~ cl[conn[fd]].reads /\ ~ cl[conn[fd]].rst
        /\ \E n \in 0 .. Len(out[fd]) - 1 :
             cl' = [cl EXCEPT ![conn[fd]].got = @ \o SubSeq(out[fd], 1, n)]
        /\ out' = [out EXCEPT ![fd] = <<>>]
        /\ UNCHANGED <<conn, alive, overrun>>
  /\ UNCHANGED <<treeVars, ready>> /\ epollUnchanged

EpollKilled(fd) == server \in {"epoll", "epoll_et"} /\ alive /\ WriteKilled(fd)

EpollStep ==
  \/ Epoll \/ EpollAccept \/ EpollAcceptExits
  \/ \E fd \in FD :
       \/ EpollRead(fd) \/ EpollClose(fd) \/ EpollWrite(fd) \/ EpollKilled(fd)
       \/ EtStart(fd) \/ EtRead(fd) \/ EtAgain(fd) \/ EtClose(fd) \/ EtWrite(fd)
=============================================================================
