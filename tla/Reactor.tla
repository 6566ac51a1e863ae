------------------------------ MODULE Reactor -------------------------------
(***************************************************************************)
(* The epoll reactor of Csocket/epoll_反应堆/epoll_loop.c: an echo server   *)
(* in one thread.  g_events is a table of MAX_EVENTS connection slots and, *)
(* in the last place, the listener's.  A slot is registered with epoll for *)
(* reading, its callback moves the data into the slot's buffer and         *)
(* registers it for writing, and so on in turn.  One pass of the loop      *)
(* closes idle connections among the next 100 slots, waits, and calls the  *)
(* callbacks of the events it was given, one by one, while the clients and *)
(* the clock go on.                                                        *)
(*                                                                         *)
(* Data are units: client c sends <<c, 1>>, <<c, 2>>, ...  A time() value  *)
(* is kept as its distance from now, capped at the timeout.                *)
(***************************************************************************)
EXTENDS Integers, Sequences, FiniteSets

CONSTANTS MaxEvents,    \* MAX_EVENTS
          ScanStep,     \* slots tested for inactivity in one pass (100)
          Timeout,      \* clock ticks of inactivity allowed (60)
          BufLen,       \* BUFLEN, in units
          MinFd, NFd,   \* the least and the most descriptors left for connections
          Clients,      \* connections made to the server
          Late,         \* those made when the table is full
          Closers,      \* those that may be closed by the client
          Stoppers,     \* those whose client may stop reading
          NUnits,       \* bound on the units a client sends
          MayShort,     \* whether send may write a part of the buffer
          MayReset,     \* whether clients close while data is on its way
          MayInterrupt  \* whether a signal may interrupt epoll_wait or accept

ASSUME SizesAssumption ==
  /\ MaxEvents \in Nat \ {0} /\ ScanStep \in Nat \ {0} /\ Timeout \in Nat \ {0}
  /\ BufLen \in Nat \ {0} /\ {MinFd, NFd, NUnits} \subseteq Nat
ASSUME SwitchAssumption == {MayShort, MayReset, MayInterrupt} \subseteq BOOLEAN

Slots == 0 .. MaxEvents - 1
Listener == MaxEvents
FD    == 1 .. NFd
Free  == [slot |-> Listener, events |-> "none"]
NoClient == 0
Unit  == Clients \X (1 .. NUnits)

ASSUME ClientsAssumption == NoClient \notin Clients

VARIABLES limit,     \* descriptors left for connections, chosen once
          g_events,  \* the slots of connections
          epoll,     \* kernel: what each descriptor is registered for
          conn,      \* kernel: whose connection each descriptor is
          cl,        \* per client: the connection seen from outside
          loop,      \* where main is: "scan", "wait", "handle"
          checkpos,
          batch,     \* events reported by epoll_wait and not handled yet
          alive      \* FALSE once the process has ended

vars == <<limit, g_events, epoll, conn, cl, loop, checkpos, batch, alive>>

Callback == {"none", "recvdata", "senddata"}
Events   == {"none", "in", "out"}
ClientState == {"new", "backlog", "up", "down"}

NewSlot == [fd |-> 0, events |-> "none", call_back |-> "none", status |-> 0,
            buf |-> <<>>, age |-> 0]
NewClient == [st |-> "new", sent |-> 0, read |-> 0, got |-> <<>>, dropped |-> {},
              reads |-> TRUE, fin |-> FALSE, rst |-> FALSE]

Init ==
  /\ limit \in MinFd .. NFd
  /\ g_events = [s \in Slots |-> NewSlot]
  /\ epoll = [fd \in FD |-> Free] /\ conn = [fd \in FD |-> NoClient]
  /\ cl = [c \in Clients |-> NewClient]
  /\ loop = "scan" /\ checkpos = 0 /\ batch = {} /\ alive = TRUE

-----------------------------------------------------------------------------
eventdel(st, s) ==
  IF st.ev[s].status # 1 THEN st
  ELSE [ev |-> [st.ev EXCEPT ![s].status = 0],
        ep |-> [st.ep EXCEPT ![st.ev[s].fd] = Free]]

eventset(st, s, fd, call_back) ==
  [st EXCEPT !.ev[s] = [@ EXCEPT !.fd = fd, !.call_back = call_back,
                                 !.events = "none", !.status = 0, !.age = 0]]

(* EPOLL_CTL_MOD fails on a descriptor that is not in the tree, and         *)
(* EPOLL_CTL_ADD on one that is; the node is marked in either case.         *)
eventadd(st, s, events) ==
  LET ev == st.ev[s]
      inTree == st.ep[ev.fd] # Free
  IN  [ev |-> [st.ev EXCEPT ![s].events = events, ![s].status = 1],
       ep |-> IF (ev.status = 1) = inTree
                THEN [st.ep EXCEPT ![ev.fd] = [slot |-> s, events |-> events]]
                ELSE st.ep]

(* close takes a descriptor out of the tree as well. *)
close(st, fd) == [st EXCEPT !.ep[fd] = Free]

Tree == [ev |-> g_events, ep |-> epoll]
Becomes(st) == g_events' = st.ev /\ epoll' = st.ep

(* Fault: a node that has been idle for long enough counts as free. *)
Unregistered_Idle == {s \in Slots : g_events[s].status = 0 \/ g_events[s].age >= Timeout}

Unregistered == {s \in Slots : g_events[s].status = 0}
Smallest(set) == CHOOSE x \in set : \A y \in set : x <= y

-----------------------------------------------------------------------------
(* main: the inactivity test *)
(* Fault: every pass begins with the first slot. *)
Tested_FromStart == {i % MaxEvents : i \in 0 .. ScanStep - 1}

(* Fault: checkpos does not start again at the beginning of the table. *)
Tested_NoWrap == {s \in Slots : s >= checkpos /\ s < checkpos + ScanStep}

Tested == {(checkpos + i) % MaxEvents : i \in 0 .. ScanStep - 1}

Expired == {s \in Tested : g_events[s].status = 1 /\ g_events[s].age >= Timeout}

(* Fault: as above, seen from the value kept for the next pass. *)
NextCheckpos_NoWrap == checkpos + ScanStep

NextCheckpos == ((checkpos + ScanStep - 1) % MaxEvents) + 1

Scan ==
  /\ alive /\ loop = "scan"
  /\ LET fds == {g_events[s].fd : s \in Expired}
     IN  /\ conn' = [fd \in FD |-> IF fd \in fds THEN NoClient ELSE conn[fd]]
         /\ epoll' = [fd \in FD |-> IF fd \in fds THEN Free ELSE epoll[fd]]
         /\ cl' = [c \in Clients |->
                     IF \E fd \in fds : conn[fd] = c THEN [cl[c] EXCEPT !.st = "down"]
                     ELSE cl[c]]
  /\ g_events' = [s \in Slots |-> IF s \in Expired THEN [g_events[s] EXCEPT !.status = 0]
                                  ELSE g_events[s]]
  /\ checkpos' = NextCheckpos
  /\ loop' = "wait"
  /\ UNCHANGED <<limit, batch, alive>>

-----------------------------------------------------------------------------
(* main: epoll_wait.  Level triggered: it reports every descriptor that is  *)
(* ready, and nothing after one second without any.                         *)
Readable(c) == cl[c].read < cl[c].sent \/ cl[c].fin \/ cl[c].rst
Writable(c) == cl[c].reads \/ cl[c].rst

Backlog == {c \in Clients : cl[c].st = "backlog"}

Ready ==
  {[slot |-> epoll[fd].slot, events |-> epoll[fd].events, client |-> conn[fd]] :
     fd \in {f \in FD : \/ epoll[f].events = "in" /\ Readable(conn[f])
                        \/ epoll[f].events = "out" /\ Writable(conn[f])}}
  \cup (IF Backlog # {} THEN {[slot |-> Listener, events |-> "in", client |-> NoClient]}
        ELSE {})

EpollWait ==
  /\ alive /\ loop = "wait"
  /\ batch' = Ready
  /\ loop' = IF Ready = {} THEN "scan" ELSE "handle"
  /\ UNCHANGED <<limit, g_events, epoll, conn, cl, checkpos, alive>>

EpollWaitFails ==
  /\ alive /\ loop = "wait" /\ MayInterrupt
  /\ alive' = FALSE
  /\ UNCHANGED <<limit, g_events, epoll, conn, cl, loop, checkpos, batch>>

(* The event is one the node still asks for. *)
Matches(e) == e.events = g_events[e.slot].events

Handled(e) ==
  /\ alive /\ loop = "handle" /\ e \in batch
  /\ batch' = batch \ {e}
  /\ loop' = IF batch = {e} THEN "scan" ELSE "handle"
  /\ UNCHANGED <<limit, checkpos>>

-----------------------------------------------------------------------------
(* acceptconn *)
ClosedFds == {fd \in FD : fd <= limit /\ conn[fd] = NoClient}

(* No descriptor is left, or accept is interrupted: the error is not handled. *)
AcceptFails(e) ==
  /\ e.slot = Listener /\ Handled(e) /\ (ClosedFds = {} \/ MayInterrupt)
  /\ UNCHANGED <<g_events, epoll, conn, cl, alive>>

(* The table is full: cfd stays open, out of the tree.  (So it would if     *)
(* fcntl failed, which it does not on a descriptor just accepted.)          *)
AcceptLimit(e) ==
  /\ e.slot = Listener /\ Handled(e) /\ ClosedFds # {} /\ Unregistered = {}
  /\ \E c \in Backlog :
       /\ conn' = [conn EXCEPT ![Smallest(ClosedFds)] = c]
       /\ cl' = [cl EXCEPT ![c].st = "up"]
  /\ UNCHANGED <<g_events, epoll, alive>>

acceptconn(e) ==
  /\ e.slot = Listener /\ Handled(e) /\ ClosedFds # {} /\ Unregistered # {}
  /\ \E c \in Backlog :
       LET cfd == Smallest(ClosedFds)
           i   == Smallest(Unregistered)
       IN  /\ conn' = [conn EXCEPT ![cfd] = c]
           /\ cl' = [cl EXCEPT ![c].st = "up"]
           /\ Becomes(eventadd(eventset(Tree, i, cfd, "recvdata"), i, "in"))
  /\ UNCHANGED alive

-----------------------------------------------------------------------------
(* recvdata and senddata *)
Called(e, call_back) ==
  e.slot # Listener /\ Handled(e) /\ Matches(e) /\ g_events[e.slot].call_back = call_back

Owner(e) == conn[g_events[e.slot].fd]

Received(c) ==
  LET n == IF cl[c].sent - cl[c].read < BufLen THEN cl[c].sent - cl[c].read ELSE BufLen
  IN  [i \in 1 .. n |-> <<c, cl[c].read + i>>]

recvdata(e) ==
  /\ Called(e, "recvdata") /\ cl[Owner(e)].read < cl[Owner(e)].sent
  /\ LET s == e.slot
         c == Owner(e)
         st == eventset(eventdel(Tree, s), s, g_events[s].fd, "senddata")
     IN  /\ Becomes(eventadd([st EXCEPT !.ev[s].buf = Received(c)], s, "out"))
         /\ cl' = [cl EXCEPT ![c].read = @ + Len(Received(c))]
  /\ UNCHANGED <<conn, alive>>

Drop(e, st) ==
  /\ Becomes(st)
  /\ conn' = [conn EXCEPT ![g_events[e.slot].fd] = NoClient]
  /\ cl' = [cl EXCEPT ![Owner(e)].st = "down"]
  /\ UNCHANGED alive

(* End of file, or an error. *)
RecvClosed(e) ==
  /\ Called(e, "recvdata") /\ cl[Owner(e)].read = cl[Owner(e)].sent
  /\ Drop(e, close(eventdel(Tree, e.slot), g_events[e.slot].fd))

Written(buf) == IF MayShort THEN 1 .. Len(buf) ELSE {Len(buf)}

UnitsOf(seq) == {seq[i][2] : i \in DOMAIN seq}

(* What does not fit is not sent again. *)
senddata(e) ==
  /\ Called(e, "senddata") /\ ~ cl[Owner(e)].rst
  /\ LET s == e.slot
         c == Owner(e)
         buf == g_events[s].buf
         st == eventset(eventdel(Tree, s), s, g_events[s].fd, "recvdata")
     IN  /\ Becomes(eventadd(st, s, "in"))
         /\ \E n \in Written(buf) :
              cl' = [cl EXCEPT ![c].got = @ \o SubSeq(buf, 1, n),
                               ![c].dropped = @ \cup UnitsOf(SubSeq(buf, n + 1, Len(buf)))]
  /\ UNCHANGED <<conn, alive>>

(* Fault: the connection is closed and its node forgotten. *)
SendFails_NoDel(e) ==
  /\ Called(e, "senddata") /\ cl[Owner(e)].rst
  /\ Drop(e, close(Tree, g_events[e.slot].fd))

SendFails(e) ==
  /\ Called(e, "senddata") /\ cl[Owner(e)].rst
  /\ Drop(e, eventdel(close(Tree, g_events[e.slot].fd), e.slot))

(* EPIPE: SIGPIPE is neither blocked nor ignored. *)
SendKilled(e) ==
  /\ Called(e, "senddata") /\ cl[Owner(e)].rst /\ cl[Owner(e)].fin
  /\ alive' = FALSE
  /\ UNCHANGED <<g_events, epoll, conn, cl>>

Event == [slot : 0 .. MaxEvents, events : Events, client : Clients \cup {NoClient}]

Dispatch ==
  \E e \in batch :
    \/ AcceptFails(e) \/ AcceptLimit(e) \/ acceptconn(e)
    \/ recvdata(e) \/ RecvClosed(e) \/ senddata(e) \/ SendFails(e) \/ SendKilled(e)

-----------------------------------------------------------------------------
(* The clients and the clock. *)
Connect(c) ==
  /\ cl[c].st = "new" /\ (c \in Late => Unregistered = {})
  /\ cl' = [cl EXCEPT ![c].st = "backlog"]
  /\ UNCHANGED <<limit, g_events, epoll, conn, loop, checkpos, batch, alive>>

Send(c) ==
  /\ cl[c].st \in {"backlog", "up"} /\ ~ cl[c].fin /\ ~ cl[c].rst
  /\ cl[c].sent < NUnits
  /\ cl' = [cl EXCEPT ![c].sent = @ + 1]
  /\ UNCHANGED <<limit, g_events, epoll, conn, loop, checkpos, batch, alive>>

(* The window of a client that does not read fills up. *)
StopReading(c) ==
  /\ c \in Stoppers /\ cl[c].st = "up" /\ cl[c].reads
  /\ cl' = [cl EXCEPT ![c].reads = FALSE]
  /\ UNCHANGED <<limit, g_events, epoll, conn, loop, checkpos, batch, alive>>

Close(c) ==
  /\ c \in Closers /\ cl[c].st \in {"backlog", "up"} /\ ~ cl[c].fin
  /\ cl' = [cl EXCEPT ![c].fin = TRUE]
  /\ UNCHANGED <<limit, g_events, epoll, conn, loop, checkpos, batch, alive>>

(* The client's side answers data that comes after its close with a reset. *)
Reset(c) ==
  /\ MayReset /\ cl[c].st = "up" /\ ~ cl[c].rst
  /\ cl' = [cl EXCEPT ![c].rst = TRUE]
  /\ UNCHANGED <<limit, g_events, epoll, conn, loop, checkpos, batch, alive>>

Older(age) == IF age < Timeout THEN age + 1 ELSE age

Tick ==
  /\ g_events' = [s \in Slots |-> [g_events[s] EXCEPT !.age = Older(@)]]
  /\ UNCHANGED <<limit, epoll, conn, cl, loop, checkpos, batch, alive>>

Next ==
  \/ Scan \/ EpollWait \/ EpollWaitFails \/ Dispatch
  \/ \E c \in Clients : Connect(c) \/ Send(c) \/ StopReading(c) \/ Close(c) \/ Reset(c)
  \/ Tick

Spec == Init /\ [][Next]_vars

(* The thread runs, epoll_wait returns after a second, and time passes. *)
FairSpec == Spec /\ WF_vars(Scan) /\ WF_vars(EpollWait) /\ WF_vars(Dispatch) /\ WF_vars(Tick)

-----------------------------------------------------------------------------
TypeOK ==
  /\ g_events \in [Slots -> [fd : 0 .. NFd, events : Events, call_back : Callback,
                             status : {0, 1}, buf : Seq(Unit), age : 0 .. Timeout]]
  /\ epoll \in [FD -> [slot : 0 .. MaxEvents, events : Events]]
  /\ conn \in [FD -> Clients \cup {NoClient}]
  /\ cl \in [Clients -> [st : ClientState, sent : 0 .. NUnits, read : 0 .. NUnits,
                         got : Seq(Unit), dropped : SUBSET (1 .. NUnits),
                         reads : BOOLEAN, fin : BOOLEAN, rst : BOOLEAN]]
  /\ loop \in {"scan", "wait", "handle"} /\ checkpos \in 0 .. MaxEvents
  /\ batch \subseteq Event /\ alive \in BOOLEAN

(* status says whether a node is in epoll's tree: a marked node is the one  *)
(* registered for its own open descriptor, for the events it expects with   *)
(* the callback for them, and nothing else is registered.  So no node is    *)
(* reused while it serves a connection, and none waits for an event that    *)
(* will not be reported.                                                    *)
StatusIsInTree ==
  /\ \A s \in Slots : g_events[s].status = 1 =>
       /\ epoll[g_events[s].fd] = [slot |-> s, events |-> g_events[s].events]
       /\ conn[g_events[s].fd] # NoClient
       /\ g_events[s].call_back = IF g_events[s].events = "in" THEN "recvdata" ELSE "senddata"
  /\ \A fd \in FD : epoll[fd] # Free =>
       /\ epoll[fd].slot \in Slots
       /\ g_events[epoll[fd].slot].fd = fd /\ g_events[epoll[fd].slot].status = 1

(* An event that waits in the array of epoll_wait while other callbacks run, *)
(* close descriptors and take new connections still stands for the           *)
(* connection it was reported for, and its callback will run.                *)
BatchIsFresh ==
  \A e \in batch : e.slot # Listener =>
    /\ g_events[e.slot].status = 1 /\ Matches(e)
    /\ conn[g_events[e.slot].fd] = e.client

(* The answer being prepared for a client, and the bytes of its slot. *)
InHand(c) ==
  UNION {UnitsOf(g_events[s].buf) : s \in {t \in Slots :
           /\ g_events[t].status = 1 /\ g_events[t].call_back = "senddata"
           /\ conn[g_events[t].fd] = c}}

(* Echo: a client is sent its own data, in order and once; while it is      *)
(* connected, what was read from it has been sent back, cut off by a short  *)
(* send, or waits in the buffer of its slot.                                *)
EchoInOrder ==
  \A c \in Clients :
    /\ \A i \in DOMAIN cl[c].got :
         /\ cl[c].got[i][1] = c
         /\ \A j \in 1 .. i - 1 : cl[c].got[j][2] < cl[c].got[i][2]
    /\ cl[c].st = "up" =>
         /\ UnitsOf(cl[c].got) \cup cl[c].dropped \cup InHand(c) = 1 .. cl[c].read
         /\ InHand(c) \cap (UnitsOf(cl[c].got) \cup cl[c].dropped) = {}

(* Accepted, but by a server whose table was full: no node serves it. *)
Stranded(c) ==
  \E fd \in FD : conn[fd] = c /\ epoll[fd] = Free

(* A connection does not stay open for ever: clients send finitely much in  *)
(* this model, so each one ends or is closed for inactivity, wherever its   *)
(* slot is in a table that takes several passes to test, unless it was      *)
(* accepted into a full table.                                              *)
SilentIsClosed ==
  \A c \in Clients : cl[c].st = "up" ~> cl[c].st = "down" \/ Stranded(c) \/ ~ alive

(* A client that has sent something, even one that waits in the backlog for *)
(* a descriptor to become free, is answered unless its connection ends or   *)
(* was accepted into a full table.                                          *)
Answered ==
  \A c \in Clients, n \in 1 .. NUnits :
    cl[c].sent >= n /\ cl[c].st # "new"
      ~> n \in UnitsOf(cl[c].got) \/ cl[c].st = "down" \/ Stranded(c) \/ ~ alive
=============================================================================
