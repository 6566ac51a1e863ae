---------------------------- MODULE XEventServer ----------------------------
(* Csocket/epoll_反应堆/reactor_1.c, the first version of the reactor: the    *)
(* tree holds pointers to the places of myevents, the last of which is the  *)
(* listener's, and a place knows the callback for the events it expects.    *)
(* (A free place, fd 0 in the code, has NoFd here.)                         *)
EXTENDS EchoKernel

Places   == 0 .. size
Listener == size
FreePlace == [fd |-> NoFd, events |-> "none", call_back |-> "none", buf |-> <<>>]
ListenerPlace == [fd |-> Lfd, events |-> "in", call_back |-> "initAccept", buf |-> <<>>]

Node(fd, s, events) == [fd |-> fd, place |-> s, events |-> events]

xUnchanged == UNCHANGED <<rigid, tableVars, edge, thr>>

eventadd(fd, events, call_back, s) ==
  /\ myevents' = [myevents EXCEPT ![s] = [@ EXCEPT !.fd = fd, !.events = events,
                                                   !.call_back = call_back]]
  /\ watch' = watch \cup {Node(fd, s, events)}

(* Fault: the tree keeps the old events. *)
eventset_NoMod(fd, events, call_back, s, buf) ==
  /\ myevents' = [myevents EXCEPT ![s] = [fd |-> fd, events |-> events,
                                          call_back |-> call_back, buf |-> buf]]
  /\ watch' = watch

eventset(fd, events, call_back, s, buf) ==
  /\ myevents' = [myevents EXCEPT ![s] = [fd |-> fd, events |-> events,
                                          call_back |-> call_back, buf |-> buf]]
  /\ watch' = {n \in watch : n.fd # fd} \cup {Node(fd, s, events)}

(* The descriptor is closed before: it is out of the tree. *)
eventdel(s, fd) ==
  /\ myevents' = [myevents EXCEPT ![s] = FreePlace]
  /\ watch' = {n \in watch : n.fd # fd}

-----------------------------------------------------------------------------
InLoop == server = "reactor_1" /\ alive /\ Writing = {} /\ cur = NoFd

NodeReady(n) ==
  IF n.fd = Lfd THEN Backlog # {}
  ELSE IF n.events = "in" THEN Readable(conn[n.fd])
  ELSE cl[conn[n.fd]].reads \/ cl[conn[n.fd]].rst

XWait ==
  /\ InLoop /\ ready = {}
  /\ ready' = {n \in watch : NodeReady(n)} /\ ready' # {}
  /\ UNCHANGED <<kernelVars, watch, cur, myevents>> /\ xUnchanged

XWaitFails == InLoop /\ ready = {} /\ MayInterrupt /\ Exit

(* The event is not one the place expects: nothing is called. *)
XSkip ==
  /\ InLoop
  /\ \E n \in ready : n.events # myevents[n.place].events /\ ready' = ready \ {n}
  /\ UNCHANGED <<kernelVars, watch, cur, myevents>> /\ xUnchanged

Calls(s, call_back) ==
  /\ server = "reactor_1" /\ alive /\ Writing = {} /\ myevents[s].call_back = call_back
  /\ \/ cur = s /\ UNCHANGED ready
     \/ /\ cur = NoFd
        /\ \E n \in ready : /\ n.place = s /\ n.events = myevents[s].events
                            /\ ready' = ready \ {n}

-----------------------------------------------------------------------------
(* initAccept does not test whether it has found a free place: the one it   *)
(* then takes is the listener's.                                            *)
FreePlaces == {s \in Places \ {Listener} : myevents[s].fd = NoFd}

initAccept(s) ==
  /\ Calls(s, "initAccept")
  /\ LET i == IF FreePlaces = {} THEN Listener ELSE Min(FreePlaces)
     IN  /\ \E c \in Backlog : Accept(c)
         /\ eventadd(AcceptedFd, "in", "readData", i)
         /\ overrun' = (overrun \/ i = Listener)
  /\ UNCHANGED <<out, alive, cur>> /\ xUnchanged

XAcceptExits(s) == Calls(s, "initAccept") /\ AcceptExits

(* readData was called for an event of another descriptor: Read waits. *)
XReadWaits(s) ==
  /\ cur = NoFd /\ Calls(s, "readData") /\ ~ Readable(conn[myevents[s].fd])
  /\ cur' = s
  /\ UNCHANGED <<kernelVars, watch, myevents>> /\ xUnchanged

readData(s) ==
  LET fd == myevents[s].fd
      c  == conn[fd]
  IN  /\ Calls(s, "readData") /\ Unread(c)
      /\ cl' = [cl EXCEPT ![c].read = @ + Len(Received(c))]
      /\ eventset(fd, "out", "senddata", s, Received(c))
      /\ cur' = NoFd
      /\ UNCHANGED <<conn, out, alive, overrun>> /\ xUnchanged

(* An error is left for the next Read to find the end of the connection. *)
XReadFails(s) ==
  /\ Calls(s, "readData") /\ ReadFails(myevents[s].fd)
  /\ cur' = NoFd
  /\ UNCHANGED <<watch, myevents>> /\ xUnchanged

XClose(s) ==
  /\ Calls(s, "readData") /\ ReadsEof(conn[myevents[s].fd])
  /\ Close(myevents[s].fd) /\ eventdel(s, myevents[s].fd)
  /\ cur' = NoFd
  /\ xUnchanged

(* senddata: Write, and then eventset *)
senddata(s) ==
  /\ Calls(s, "senddata")
  /\ out' = [out EXCEPT ![myevents[s].fd] = myevents[s].buf]
  /\ UNCHANGED <<conn, cl, alive, overrun, watch, cur, myevents>> /\ xUnchanged

XWrite(s) ==
  /\ server = "reactor_1" /\ alive /\ myevents[s].fd \in Writing
  /\ Write(myevents[s].fd)
  /\ eventset(myevents[s].fd, "in", "readData", s, myevents[s].buf)
  /\ UNCHANGED <<cur, ready>> /\ xUnchanged

XKilled(fd) == server = "reactor_1" /\ alive /\ WriteKilled(fd)

XStep ==
  \/ XWait \/ XSkip
  \/ \E s \in Places :
       \/ initAccept(s) \/ XAcceptExits(s) \/ XReadWaits(s) \/ readData(s)
       \/ XReadFails(s) \/ XClose(s) \/ senddata(s) \/ XWrite(s)
  \/ \E fd \in FD : XKilled(fd)
=============================================================================
