----------------------------- MODULE EchoKernel -----------------------------
(***************************************************************************)
(* What the small echo servers of Csocket share: the kernel's descriptors, *)
(* the calls Accept, Read, Write and Close of wrap.c, and the clients.     *)
(* SelectServer, PollServer, EpollServer, XEventServer and ThreadServer    *)
(* extend this module with one server each, EchoServers puts them side by  *)
(* side; `server' says which one a behaviour runs.                         *)
(*                                                                         *)
(* Client c sends the units <<c, 1>>, <<c, 2>>, ... and should get them    *)
(* back.  (toupper, which two of the servers apply, is left out.)          *)
(***************************************************************************)
EXTENDS Integers, Sequences, FiniteSets, FiniteSetsExt

CONSTANTS Kinds,         \* the servers to run
          Clients,       \* connections made to the server
          Late,          \* those of them made when TableUsed holds, which send nothing
          Limits,        \* numbers of descriptors left for connections
          Sizes,         \* sizes of the servers' tables
          NUnits,        \* bound on the units all clients send
          BufLen,        \* units that fit into buf
          Resets,        \* those of them that may be reset
          Stoppers,      \* those whose client may stop reading
          MayInterrupt,  \* whether signals interrupt select and epoll_wait
          MayFail        \* whether pthread_create fails

AllKinds == {"select", "poll", "epoll", "epoll_et", "reactor_1", "pthread"}

ASSUME KindsAssumption == Kinds \subseteq AllKinds
ASSUME SizesAssumption ==
  /\ {NUnits} \cup Limits \subseteq Nat
  /\ BufLen \in Nat \ {0} /\ Sizes \subseteq Nat \ {0}
  /\ \E m \in Limits : Limits \subseteq 0 .. m
ASSUME SwitchAssumption == {MayInterrupt, MayFail} \subseteq BOOLEAN

FD   == 1 .. Max(Limits)
Lfd  == 0          \* the listening socket
NoFd == -1
None == "none"

ASSUME ClientsAssumption == None \notin Clients

VARIABLES server, size, limit,   \* chosen once
          conn,     \* kernel: whose connection each descriptor is
          cl,       \* per client: the connection seen from outside
          out,      \* per descriptor: what a call of Write on it still holds
          alive,    \* FALSE once the process has ended
          overrun,  \* a table has been written to out of its bounds
          \* Memory of main, as far as a server has it:
          client, maxi, maxfd,  \* select and poll: the table, bounds on what it holds
          watch,    \* select: allset; epoll: the tree
          edge,     \* epoll_et, in the kernel: descriptors with news
          ready,    \* what the last select, poll or epoll_wait has reported
          nready, pos,  \* select and poll: reports left, next place to look at
          cur,      \* epoll_et: the descriptor being read
          myevents, \* reactor_1
          thr       \* pthread: the descriptors that have a thread

kernelVars == <<conn, cl, out, alive, overrun>>
tableVars  == <<client, maxi, maxfd, nready, pos>>
treeVars   == <<watch, edge, cur>>
rigid == <<server, size, limit>>
vars  == <<rigid, kernelVars, tableVars, treeVars, ready, myevents, thr>>

-----------------------------------------------------------------------------
(* The kernel.  Data are read before the end of the connection; after a     *)
(* reset, one call reports it (err), unless the client had closed before.   *)
Unread(c)   == cl[c].read < cl[c].sent
Ended(c)    == cl[c].fin \/ cl[c].rst
Readable(c) == Unread(c) \/ Ended(c)
ReadsErr(c) == ~ Unread(c) /\ cl[c].err /\ ~ cl[c].fin
ReadsEof(c) == ~ Unread(c) /\ Ended(c) /\ ~ ReadsErr(c)

Backlog     == {c \in Clients : cl[c].st = "backlog"}
OpenFds     == {fd \in FD : conn[fd] # None}
ClosedFds   == (1 .. limit) \ OpenFds
Writing     == {fd \in FD : out[fd] # <<>>}

NoConn == [fd \in FD |-> None]
NoOut  == [fd \in FD |-> <<>>]

(* exit, or a signal: the kernel closes the listening socket and every      *)
(* connection.                                                              *)
Gone(c) == IF cl[c].st \in {"backlog", "up"} THEN [cl[c] EXCEPT !.st = "down"] ELSE cl[c]

Exit ==
  /\ alive' = FALSE /\ conn' = NoConn /\ out' = NoOut /\ ready' = {}
  /\ cl' = [c \in Clients |-> Gone(c)]
  /\ UNCHANGED <<rigid, overrun, tableVars, treeVars, myevents, thr>>

-----------------------------------------------------------------------------
(* wrap.c.  Accept tries again when a client has gone or a signal came, and *)
(* ends the process when no descriptor is left, which the kernel finds out  *)
(* before it looks for a connection.                                        *)
AcceptedFd == Min(ClosedFds)

Accept(c) ==
  /\ c \in Backlog /\ ClosedFds # {}
  /\ conn' = [conn EXCEPT ![AcceptedFd] = c]
  /\ cl' = [cl EXCEPT ![c].st = "up"]

AcceptExits == ClosedFds = {} /\ Exit

Received(c) ==
  [i \in 1 .. Min({BufLen, cl[c].sent - cl[c].read}) |-> <<c, cl[c].read + i>>]

(* Read: some data, which every server writes back next, an error, or the   *)
(* end.  Without any of them the call waits.                                *)
Read(fd) ==
  LET c == conn[fd]
  IN  /\ Unread(c)
      /\ out' = [out EXCEPT ![fd] = Received(c)]
      /\ cl' = [cl EXCEPT ![c].read = @ + Len(Received(c))]
      /\ UNCHANGED <<conn, alive, overrun>>

ReadFails(fd) ==
  /\ ReadsErr(conn[fd])
  /\ cl' = [cl EXCEPT ![conn[fd]].err = FALSE]
  /\ UNCHANGED <<conn, out, alive, overrun>>

Close(fd) ==
  /\ conn' = [conn EXCEPT ![fd] = None]
  /\ cl' = [cl EXCEPT ![conn[fd]].st = "down", ![conn[fd]].err = FALSE]
  /\ UNCHANGED <<out, alive, overrun>>

(* Fault: everything is written again when the call was interrupted. *)
Write_Again(fd) ==
  LET c == conn[fd]
  IN  /\ fd \in Writing
      /\ \/ /\ ~ cl[c].rst /\ cl[c].reads
            /\ \E twice \in BOOLEAN :
                 cl' = [cl EXCEPT ![c].got = @ \o out[fd] \o (IF twice THEN out[fd] ELSE <<>>)]
         \/ cl[c].err /\ ~ cl[c].fin /\ cl' = [cl EXCEPT ![c].err = FALSE]
      /\ out' = [out EXCEPT ![fd] = <<>>]
      /\ UNCHANGED <<conn, alive, overrun>>

(* Write on a blocking descriptor waits until everything is taken, or the   *)
(* connection is reset.                                                     *)
Write(fd) ==
  LET c == conn[fd]
  IN  /\ fd \in Writing
      /\ \/ ~ cl[c].rst /\ cl[c].reads /\ cl' = [cl EXCEPT ![c].got = @ \o out[fd]]
         \/ cl[c].err /\ ~ cl[c].fin /\ cl' = [cl EXCEPT ![c].err = FALSE]
      /\ out' = [out EXCEPT ![fd] = <<>>]
      /\ UNCHANGED <<conn, alive, overrun>>

(* EPIPE: SIGPIPE ends the process. *)
WriteKilled(fd) ==
  /\ fd \in Writing /\ cl[conn[fd]].rst /\ (cl[conn[fd]].fin \/ ~ cl[conn[fd]].err)
  /\ Exit

-----------------------------------------------------------------------------
(* The pass of select and poll over their table: Reported are the places    *)
(* still to come whose descriptor was reported; the pass ends when nready   *)
(* reaches 0, or with the table.                                            *)
Slots     == 0 .. size - 1
FreeSlots == {i \in Slots : client[i] = NoFd}
Reported  == {i \in Slots : i >= pos /\ i <= maxi /\ client[i] # NoFd /\ client[i] \in ready}

CountDown(next, handled) ==
  /\ nready' = nready - 1
  /\ pos' = IF nready <= 1 \/ Reported \subseteq handled THEN NoFd ELSE next

-----------------------------------------------------------------------------
(* The clients, while the server runs.  News on a descriptor that is on the *)
(* tree of epoll_et makes an edge.                                          *)
NewClient == [st |-> "new", sent |-> 0, read |-> 0, got |-> <<>>, reads |-> TRUE,
              fin |-> FALSE, rst |-> FALSE, err |-> FALSE]

ClientStep(c, new) ==
  /\ alive /\ cl' = [cl EXCEPT ![c] = new]
  /\ edge' = IF server = "epoll_et" THEN edge \cup {fd \in watch : conn[fd] = c} ELSE edge
  /\ UNCHANGED <<rigid, conn, out, alive, overrun, tableVars, watch, cur, ready, myevents,
                 thr>>

(* The bound on clients in Late: they come when a connection has ended and  *)
(* another goes on, so that a place and a descriptor are used again, and to *)
(* reactor_1 when its table has overflowed.                                 *)
TableUsed ==
  IF server = "reactor_1" THEN overrun
  ELSE ~ overrun /\ {"up", "down"} \subseteq {cl[c].st : c \in Clients}

Connect(c) ==
  /\ cl[c].st = "new" /\ (c \in Late => TableUsed)
  /\ ClientStep(c, [cl[c] EXCEPT !.st = "backlog"])

Talking(c) == cl[c].st \in {"backlog", "up"} /\ ~ Ended(c)

Send(c) ==
  /\ c \notin Late /\ Talking(c) /\ MapThenSumSet(LAMBDA d : cl[d].sent, Clients) < NUnits
  /\ ClientStep(c, [cl[c] EXCEPT !.sent = @ + 1])

Finish(c) ==
  /\ Talking(c) /\ ~ (c \in Late /\ overrun)
  /\ ClientStep(c, [cl[c] EXCEPT !.fin = TRUE])

Reset(c) ==
  /\ c \in Resets /\ cl[c].st = "up" /\ ~ cl[c].rst
  /\ ClientStep(c, [cl[c] EXCEPT !.rst = TRUE, !.err = TRUE])

(* A client that does not read: its window fills up. *)
StopReading(c) ==
  /\ c \in Stoppers /\ cl[c].st = "up" /\ cl[c].reads
  /\ alive /\ cl' = [cl EXCEPT ![c].reads = FALSE]
  /\ UNCHANGED <<rigid, conn, out, alive, overrun, tableVars, treeVars, ready, myevents, thr>>
=============================================================================
