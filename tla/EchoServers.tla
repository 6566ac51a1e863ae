---------------------------- MODULE EchoServers -----------------------------
(* The echo servers side by side, and what they owe their clients. *)
EXTENDS SelectServer, PollServer, EpollServer, XEventServer, ThreadServer

(* main of each server, up to its loop *)
Init ==
  /\ server \in Kinds
  /\ size \in IF server \in {"select", "poll", "reactor_1"} THEN Sizes ELSE {1}
  /\ limit \in Limits
  /\ conn = NoConn /\ cl = [c \in Clients |-> NewClient]
  /\ out = NoOut /\ alive = TRUE /\ overrun = FALSE
  /\ client = [i \in Slots |-> NoFd] /\ maxi = -1 /\ maxfd = Lfd
  /\ watch = (IF server = "reactor_1" THEN {Node(Lfd, Listener, "in")} ELSE {})
  /\ edge = {} /\ ready = {} /\ nready = 0 /\ pos = NoFd /\ cur = NoFd
  /\ myevents = (IF server = "reactor_1"
                   THEN [s \in Places |-> IF s = Listener THEN ListenerPlace ELSE FreePlace]
                   ELSE <<>>)
  /\ thr = {}

Loop == SelectStep \/ PollStep \/ EpollStep \/ XStep

Next ==
  \/ Loop \/ SelectFails \/ EpollFails \/ XWaitFails
  \/ AcceptThread \/ ThreadCreateFails \/ \E fd \in FD : client_fun(fd)
  \/ \E c \in Clients : Connect(c) \/ Send(c) \/ Finish(c) \/ Reset(c) \/ StopReading(c)

Spec == Init /\ [][Next]_vars

(* Every thread of a server runs; no signal has to come, no call to fail.   *)
FairSpec ==
  /\ Spec /\ WF_vars(Loop) /\ WF_vars(AcceptThread)
  /\ \A fd \in FD : WF_vars(client_fun(fd))

-----------------------------------------------------------------------------
(* What a server remembers is what is open: every connection is in exactly  *)
(* one place that its server will look at (the table below maxi and the set *)
(* below maxfd, the tree, a node of myevents with the callback for the      *)
(* event it waits for, a thread), and nothing else is, whatever was closed  *)
(* and accepted in between and whichever numbers were used again.  client[] *)
(* of select always has a free place: its set is exceeded before it is full.*)
InTable ==
  /\ {client[i] : i \in Slots \ FreeSlots} = OpenFds
  /\ \A i, j \in Slots \ FreeSlots : i # j => client[i] # client[j]
  /\ \A i \in Slots \ FreeSlots : i <= maxi

InMyevents ==
  /\ {n.fd : n \in watch} = OpenFds \cup {Lfd}
  /\ {s \in Places : myevents[s].fd # NoFd} = {n.place : n \in watch}
  /\ \A n \in watch :
       /\ myevents[n.place].fd = n.fd /\ myevents[n.place].events = n.events
       /\ myevents[n.place].call_back = IF n.place = Listener THEN "initAccept"
                                        ELSE IF n.events = "in" THEN "readData"
                                        ELSE "senddata"

TableIsWatched ==
  alive /\ ~ overrun =>
    CASE server = "select" ->
           /\ InTable /\ FreeSlots # {}
           /\ watch = OpenFds /\ \A fd \in OpenFds : fd <= maxfd /\ fd < size
      [] server = "poll" -> InTable
      [] server \in {"epoll", "epoll_et"} -> watch = OpenFds
      [] server = "reactor_1" -> InMyevents
      [] server = "pthread" -> Writing \subseteq thr /\ thr \subseteq OpenFds

(* While the reports of one wait are worked off, connections come and go:   *)
(* what is left of them still stands for something to read or write, the    *)
(* countdown of select and poll is at what is left (so that a pass never    *)
(* stops before a connection that was reported), and an edge reported once  *)
(* is known to somebody until the descriptor has been read empty.           *)
ReportIsFresh ==
  alive /\ ~ overrun =>
    CASE server = "select" ->
           pos # NoFd => nready = Cardinality(Reported) + Cardinality(ready \cap {Lfd})
      [] server = "poll" ->
           pos # NoFd => nready \in 1 .. Cardinality(Reported) + Cardinality(ready \cap {Lfd})
      [] server = "epoll" -> \A fd \in ready \ {Lfd} : fd \in watch /\ Readable(conn[fd])
      [] server = "epoll_et" ->
           /\ ready \subseteq watch \cup {Lfd}
           /\ \A fd \in OpenFds : Readable(conn[fd]) => fd \in edge \cup ready \cup {cur}
      [] server = "reactor_1" -> ready \subseteq watch
      [] server = "pthread" -> TRUE

(* Every server is an echo server as long as it runs: each client gets its  *)
(* own data back, in order, once and without gaps (epoll_et may leave out   *)
(* what a client did not read in time), and is disconnected only after it   *)
(* has ended and all it sent was read, or with everybody else when the      *)
(* process ends (exit, SIGPIPE).  Of select this is said until FD_SET has   *)
(* written outside its set; reactor_1, which stays inside its array when it *)
(* takes the listener's place, is an echo server behind that, too.          *)
Numbers(c) == [i \in DOMAIN cl[c].got |->
                 IF cl[c].got[i][1] = c THEN cl[c].got[i][2] ELSE 0]
Echo == INSTANCE EchoService
          WITH mode  <- IF server = "select" /\ overrun THEN "undefined"
                        ELSE IF alive THEN "runs" ELSE "stopped",
               st    <- [c \in Clients |-> cl[c].st],
               sent  <- [c \in Clients |-> cl[c].sent],
               over  <- [c \in Clients |-> Ended(c)],
               taken <- [c \in Clients |-> cl[c].read],
               given <- [c \in Clients |-> Numbers(c)],
               lossy <- server = "epoll_et"
ImplementsEcho == Echo!Spec

(* What keeps a server from a client: it has ended, it has written beyond a *)
(* table, it waits for somebody who does not read (a thread waits only for  *)
(* its own client), it waits in a Read that was not due, or the client's    *)
(* thread was not created.                                                  *)
Excused(c) ==
  \/ ~ alive \/ overrun \/ ~ cl[c].reads
  \/ server \notin {"pthread", "epoll_et"} /\ \E d \in Clients : ~ cl[d].reads
  \/ PollHung
  \/ server = "pthread" /\ \E fd \in OpenFds \ thr : conn[fd] = c

(* A client waits for something to be read, or for its connection to be     *)
(* closed.                                                                  *)
Owed(c) == Unread(c) \/ (Ended(c) /\ cl[c].st # "down")

(* Nobody is forgotten: what a client sends is read, and a client that has  *)
(* ended is disconnected, in whatever order connections, data and ends come *)
(* in, whichever places and numbers were used before, while others are      *)
(* connected in places below and above, and across clients that are reset.  *)
Served == \A c \in Clients : Owed(c) ~> ~ Owed(c) \/ Excused(c)
=============================================================================
