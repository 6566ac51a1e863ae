---------------------------- MODULE ReactorProofs ---------------------------
(***************************************************************************)
(* Proofs about Reactor, for every size of the table and of the buffer,    *)
(* number of descriptors and set of clients, with short sends, resets and  *)
(* interrupted calls.  ReactorInv is the inductive invariant: beside what  *)
(* StatusIsInTree and BatchIsFresh say it needs that a connection has one  *)
(* descriptor, and that the array of epoll_wait is empty while main looks  *)
(* for idle connections.                                                   *)
(***************************************************************************)
EXTENDS Reactor, WellFoundedInduction, TLAPS

(* A descriptor is open for one client, whose connection is up. *)
ConnInv ==
  /\ \A f, g \in FD : conn[f] = conn[g] /\ conn[f] # NoClient => f = g
  /\ \A f \in FD : conn[f] # NoClient => cl[conn[f]].st = "up"

(* StatusIsInTree, field by field: and a node in the tree has a descriptor. *)
InTree ==
  /\ \A s \in Slots : g_events[s].status = 1 =>
       /\ g_events[s].fd \in FD
       /\ epoll[g_events[s].fd].slot = s
       /\ epoll[g_events[s].fd].events = g_events[s].events
       /\ conn[g_events[s].fd] # NoClient
       /\ g_events[s].call_back = IF g_events[s].events = "in" THEN "recvdata" ELSE "senddata"
  /\ \A fd \in FD : epoll[fd].slot # Listener \/ epoll[fd].events # "none" =>
       /\ epoll[fd].slot \in Slots
       /\ g_events[epoll[fd].slot].fd = fd /\ g_events[epoll[fd].slot].status = 1

LoopInv == loop # "handle" => batch = {}

ReadInv == \A c \in Clients : cl[c].read <= cl[c].sent

ReactorInv ==
  TypeOK /\ ConnInv /\ InTree /\ LoopInv /\ ReadInv /\ BatchIsFresh

(* The node that answers client c, if one does. *)
Answering(c) ==
  {s \in Slots : /\ g_events[s].status = 1 /\ g_events[s].call_back = "senddata"
                 /\ conn[g_events[s].fd] = c}

(* What client c has got is its own, in order, and has been read. *)
InOrder(c, got, read) ==
  \A i \in DOMAIN got :
    /\ got[i][1] = c /\ got[i][2] <= read
    /\ \A j \in 1 .. i - 1 : got[j][2] < got[i][2]

(* The units in a buffer are the last that were read, those before them     *)
(* have been sent or dropped.                                               *)
Buffered(c, buf, got, dropped, read) ==
  LET old == read - Len(buf)
  IN  /\ 0 < Len(buf) /\ 0 <= old
      /\ \A i \in 1 .. Len(buf) : buf[i] = <<c, old + i>>
      /\ \A i \in DOMAIN got : got[i][2] <= old
      /\ UnitsOf(got) \cup dropped = 1 .. old

EchoOf(c) ==
  /\ InOrder(c, cl[c].got, cl[c].read)
  /\ cl[c].st \in {"new", "backlog"} => cl[c].read = 0 /\ cl[c].got = <<>> /\ cl[c].dropped = {}
  /\ cl[c].st = "up" /\ Answering(c) = {} =>
       UnitsOf(cl[c].got) \cup cl[c].dropped = 1 .. cl[c].read
  /\ \A s \in Answering(c) :
       Buffered(c, g_events[s].buf, cl[c].got, cl[c].dropped, cl[c].read)

EchoInv == \A c \in Clients : EchoOf(c)
-----------------------------------------------------------------------------
(* The records of the table, of the tree and of the clients, with a name    *)
(* for the values of each field.                                            *)
Fds    == 0 .. NFd
Bits   == {0, 1}
Bufs   == Seq(Unit)
Ages   == 0 .. Timeout
Places == 0 .. MaxEvents
Counts == 0 .. NUnits
Lost   == SUBSET (1 .. NUnits)

Node == [fd : Fds, events : Events, call_back : Callback,
         status : Bits, buf : Bufs, age : Ages]
Reg  == [slot : Places, events : Events]
Peer == [st : ClientState, sent : Counts, read : Counts, got : Bufs, dropped : Lost,
         reads : BOOLEAN, fin : BOOLEAN, rst : BOOLEAN]

Table == [Slots -> Node]
Kernel == [FD -> Reg]

(* The node s is in the tree for these events, nothing else has changed. *)
Registers(E, P, st, s, fd, events, call_back, buf) ==
  /\ st.ev \in Table /\ \A t \in Slots : t # s => st.ev[t] = E[t]
  /\ st.ev[s].fd = fd /\ st.ev[s].events = events /\ st.ev[s].call_back = call_back
  /\ st.ev[s].status = 1 /\ st.ev[s].buf = buf
  /\ st.ep \in Kernel /\ \A f \in FD : f # fd => st.ep[f] = P[f]
  /\ st.ep[fd].slot = s /\ st.ep[fd].events = events

(* The node s and the descriptor fd are out of the tree, nothing else has   *)
(* changed.                                                                 *)
Removes(E, P, st, s, fd) ==
  /\ st.ev \in Table /\ \A t \in Slots : t # s => st.ev[t] = E[t]
  /\ st.ev[s].status = 0 /\ st.ev[s].fd = E[s].fd
  /\ st.ep \in Kernel /\ \A f \in FD : f # fd => st.ep[f] = P[f]
  /\ st.ep[fd] = Free

Tables(E, P) == [ev |-> E, ep |-> P]

(* The fields of the pair that the functions of the reactor pass around. *)
LEMMA TablesAre ==
  ASSUME NEW E, NEW P
  PROVE  Tables(E, P).ev = E /\ Tables(E, P).ep = P
BY DEF Tables

(* Unregistered descriptors are a value of the tree. *)
LEMMA FreeIsReg == Free \in Reg
BY SizesAssumption DEF Free, Reg, Places, Events, Listener

(* eventset changes a node and not the tree. *)
LEMMA SetIs ==
  ASSUME NEW E \in Table, NEW P \in Kernel, NEW s \in Slots,
         NEW fd \in Fds, NEW call_back \in Callback
  PROVE  \E F \in Table :
           /\ eventset(Tables(E, P), s, fd, call_back) = Tables(F, P)
           /\ \A t \in Slots : t # s => F[t] = E[t]
           /\ F[s].fd = fd /\ F[s].call_back = call_back /\ F[s].status = 0
           /\ F[s].buf = E[s].buf
<1>. DEFINE r == [E[s] EXCEPT !.fd = fd, !.call_back = call_back,
                              !.events = "none", !.status = 0, !.age = 0]
            F == [E EXCEPT ![s] = r]
<1>0. "none" \in Events /\ 0 \in Bits /\ 0 \in Ages /\ E[s] \in Node
  BY SizesAssumption DEF Events, Bits, Ages, Table
<1>1. r \in Node BY <1>0 DEF Node
<1>2. r.fd = fd /\ r.call_back = call_back /\ r.status = 0 /\ r.buf = E[s].buf
  BY <1>0 DEF Node
<1>3. eventset(Tables(E, P), s, fd, call_back) = Tables(F, P)
  BY DEF eventset, Tables
<1>. HIDE DEF r
<1>4. F \in Table BY <1>1 DEF Table
<1>5. F[s] = r /\ \A t \in Slots : t # s => F[t] = E[t] BY DEF Table
<1>. HIDE DEF F
<1>. WITNESS F \in Table
<1>. QED BY <1>2, <1>3, <1>5

(* eventadd, of a node that is not marked to a tree without its descriptor. *)
LEMMA AddIs ==
  ASSUME NEW E \in Table, NEW P \in Kernel, NEW s \in Slots,
         NEW events \in Events, E[s].fd \in FD, E[s].status = 0, P[E[s].fd] = Free
  PROVE  Registers(E, P, eventadd(Tables(E, P), s, events),
                   s, E[s].fd, events, E[s].call_back, E[s].buf)
<1>. DEFINE F == [E EXCEPT ![s].events = events, ![s].status = 1]
            Q == [P EXCEPT ![E[s].fd] = [slot |-> s, events |-> events]]
            st == eventadd(Tables(E, P), s, events)
<1>0. 1 \in Bits /\ E[s] \in Node /\ s \in Places
  BY SizesAssumption DEF Bits, Table, Places, Slots
<1>1. F \in Table BY <1>0 DEF Node, Table
<1>2. /\ F[s].fd = E[s].fd /\ F[s].events = events /\ F[s].call_back = E[s].call_back
      /\ F[s].status = 1 /\ F[s].buf = E[s].buf
  BY <1>0 DEF Node, Table
<1>3. \A t \in Slots : t # s => F[t] = E[t] BY DEF Table
<1>4. Q \in Kernel BY <1>0 DEF Kernel, Reg
<1>5. \A f \in FD : f # E[s].fd => Q[f] = P[f] BY DEF Kernel
<1>6. Q[E[s].fd].slot = s /\ Q[E[s].fd].events = events BY DEF Kernel
<1>7. st.ev = F BY TablesAre DEF eventadd
<1>8. st.ep = Q BY TablesAre DEF eventadd
<1>. HIDE DEF F, Q
<1>. QED BY <1>1, <1>2, <1>3, <1>4, <1>5, <1>6, <1>7, <1>8 DEF Registers

(* eventdel of a marked node. *)
LEMMA DelIs ==
  ASSUME NEW E \in Table, NEW P \in Kernel, NEW s \in Slots,
         E[s].fd \in FD, E[s].status = 1
  PROVE  \E F \in Table, Q \in Kernel :
           /\ eventdel(Tables(E, P), s) = Tables(F, Q)
           /\ \A t \in Slots : t # s => F[t] = E[t]
           /\ F[s].status = 0 /\ F[s].fd = E[s].fd /\ F[s].buf = E[s].buf
           /\ Q[E[s].fd] = Free /\ \A f \in FD : f # E[s].fd => Q[f] = P[f]
<1>. DEFINE F == [E EXCEPT ![s].status = 0]
            Q == [P EXCEPT ![E[s].fd] = Free]
<1>0. 0 \in Bits /\ E[s] \in Node
  BY SizesAssumption DEF Bits, Table
<1>1. F \in Table BY <1>0 DEF Node, Table
<1>2. F[s].status = 0 /\ F[s].fd = E[s].fd /\ F[s].buf = E[s].buf
  BY <1>0 DEF Node, Table
<1>3. \A t \in Slots : t # s => F[t] = E[t] BY DEF Table
<1>4. Q \in Kernel BY FreeIsReg DEF Kernel
<1>5. Q[E[s].fd] = Free /\ \A f \in FD : f # E[s].fd => Q[f] = P[f] BY DEF Kernel
<1>6. eventdel(Tables(E, P), s) = Tables(F, Q) BY DEF eventdel, Tables
<1>. HIDE DEF F, Q
<1>. WITNESS F \in Table, Q \in Kernel
<1>. QED BY <1>2, <1>3, <1>5, <1>6
(* close takes a descriptor out of the tree. *)
LEMMA CloseIs ==
  ASSUME NEW E \in Table, NEW P \in Kernel, NEW fd \in FD
  PROVE  \E Q \in Kernel :
           /\ close(Tables(E, P), fd) = Tables(E, Q)
           /\ Q[fd] = Free /\ \A f \in FD : f # fd => Q[f] = P[f]
<1>. DEFINE Q == [P EXCEPT ![fd] = Free]
<1>1. Q \in Kernel BY FreeIsReg DEF Kernel
<1>2. Q[fd] = Free /\ \A f \in FD : f # fd => Q[f] = P[f] BY DEF Kernel
<1>3. close(Tables(E, P), fd) = Tables(E, Q) BY DEF close, Tables
<1>. HIDE DEF Q
<1>. WITNESS Q \in Kernel
<1>. QED BY <1>2, <1>3

(* recvdata's read into the buffer of a node. *)
Filled(st, s, b) == [st EXCEPT !.ev[s].buf = b]

(* What recvdata writes to a buffer changes nothing else. *)
LEMMA FillIs ==
  ASSUME NEW E \in Table, NEW P \in Kernel, NEW s \in Slots, NEW b \in Bufs
  PROVE  \E F \in Table :
           /\ Filled(Tables(E, P), s, b) = Tables(F, P)
           /\ \A t \in Slots : t # s => F[t] = E[t]
           /\ F[s].fd = E[s].fd /\ F[s].call_back = E[s].call_back
           /\ F[s].status = E[s].status /\ F[s].buf = b
<1>. DEFINE F == [E EXCEPT ![s].buf = b]
<1>0. E[s] \in Node BY DEF Table
<1>1. F \in Table BY <1>0 DEF Node, Table
<1>2. /\ F[s].fd = E[s].fd /\ F[s].call_back = E[s].call_back
      /\ F[s].status = E[s].status /\ F[s].buf = b
  BY <1>0 DEF Node, Table
<1>3. \A t \in Slots : t # s => F[t] = E[t] BY DEF Table
<1>4. Filled(Tables(E, P), s, b) = Tables(F, P) BY DEF Filled, Tables
<1>. HIDE DEF F
<1>. WITNESS F \in Table
<1>. QED BY <1>2, <1>3, <1>4

(* acceptconn: a free node is set and added. *)
LEMMA AcceptIs ==
  ASSUME NEW E \in Table, NEW P \in Kernel, NEW s \in Slots, NEW fd \in FD,
         NEW events \in Events, NEW call_back \in Callback, P[fd] = Free
  PROVE  Registers(E, P, eventadd(eventset(Tables(E, P), s, fd, call_back), s, events),
                   s, fd, events, call_back, E[s].buf)
<1>0. fd \in Fds BY SizesAssumption DEF Fds, FD
<1>1. PICK F \in Table :
        /\ eventset(Tables(E, P), s, fd, call_back) = Tables(F, P)
        /\ \A t \in Slots : t # s => F[t] = E[t]
        /\ F[s].fd = fd /\ F[s].call_back = call_back /\ F[s].status = 0
        /\ F[s].buf = E[s].buf
  BY <1>0, SetIs
<1>. DEFINE st == eventadd(Tables(F, P), s, events)
<1>2. Registers(F, P, st, s, F[s].fd, events, F[s].call_back, F[s].buf)
  BY <1>1, AddIs
<1>. HIDE DEF st
<1>3. Registers(E, P, st, s, fd, events, call_back, E[s].buf)
  BY <1>1, <1>2 DEF Registers
<1>. QED BY <1>1, <1>3 DEF st

(* senddata: the node is taken out, set and added again. *)
LEMMA SendIs ==
  ASSUME NEW E \in Table, NEW P \in Kernel, NEW s \in Slots,
         NEW events \in Events, NEW call_back \in Callback,
         E[s].fd \in FD, E[s].status = 1
  PROVE  Registers(E, P, eventadd(eventset(eventdel(Tables(E, P), s), s, E[s].fd, call_back),
                                  s, events),
                   s, E[s].fd, events, call_back, E[s].buf)
<1>1. PICK F \in Table, Q \in Kernel :
        /\ eventdel(Tables(E, P), s) = Tables(F, Q)
        /\ \A t \in Slots : t # s => F[t] = E[t]
        /\ F[s].status = 0 /\ F[s].fd = E[s].fd /\ F[s].buf = E[s].buf
        /\ Q[E[s].fd] = Free /\ \A f \in FD : f # E[s].fd => Q[f] = P[f]
  BY DelIs
<1>. DEFINE st == eventadd(eventset(Tables(F, Q), s, E[s].fd, call_back), s, events)
<1>2. Registers(F, Q, st, s, E[s].fd, events, call_back, F[s].buf)
  BY <1>1, AcceptIs
<1>. HIDE DEF st
<1>3. Registers(E, P, st, s, E[s].fd, events, call_back, E[s].buf)
  BY <1>1, <1>2 DEF Registers
<1>. QED BY <1>1, <1>3 DEF st

(* recvdata: the same, with what was read in the buffer. *)
LEMMA RecvIs ==
  ASSUME NEW E \in Table, NEW P \in Kernel, NEW s \in Slots,
         NEW events \in Events, NEW call_back \in Callback, NEW b \in Bufs,
         E[s].fd \in FD, E[s].status = 1
  PROVE  Registers(E, P, eventadd(Filled(eventset(eventdel(Tables(E, P), s), s, E[s].fd, call_back),
                                         s, b), s, events),
                   s, E[s].fd, events, call_back, b)
<1>1. PICK F \in Table, Q \in Kernel :
        /\ eventdel(Tables(E, P), s) = Tables(F, Q)
        /\ \A t \in Slots : t # s => F[t] = E[t]
        /\ F[s].status = 0 /\ F[s].fd = E[s].fd /\ F[s].buf = E[s].buf
        /\ Q[E[s].fd] = Free /\ \A f \in FD : f # E[s].fd => Q[f] = P[f]
  BY DelIs
<1>0. E[s].fd \in Fds BY SizesAssumption DEF Fds, FD
<1>2. PICK G \in Table :
        /\ eventset(Tables(F, Q), s, E[s].fd, call_back) = Tables(G, Q)
        /\ \A t \in Slots : t # s => G[t] = F[t]
        /\ G[s].fd = E[s].fd /\ G[s].call_back = call_back /\ G[s].status = 0
        /\ G[s].buf = F[s].buf
  BY <1>0, SetIs
<1>3. PICK H \in Table :
        /\ Filled(Tables(G, Q), s, b) = Tables(H, Q)
        /\ \A t \in Slots : t # s => H[t] = G[t]
        /\ H[s].fd = G[s].fd /\ H[s].call_back = G[s].call_back
        /\ H[s].status = G[s].status /\ H[s].buf = b
  BY FillIs
<1>. DEFINE st == eventadd(Tables(H, Q), s, events)
<1>4. Registers(H, Q, st, s, H[s].fd, events, H[s].call_back, H[s].buf)
  BY <1>1, <1>2, <1>3, AddIs
<1>. HIDE DEF st
<1>5. Registers(E, P, st, s, E[s].fd, events, call_back, b)
  BY <1>1, <1>2, <1>3, <1>4 DEF Registers
<1>6. st = eventadd(Filled(eventset(eventdel(Tables(E, P), s), s, E[s].fd, call_back),
                           s, b), s, events)
  BY <1>1, <1>2, <1>3 DEF st
<1>. QED BY <1>5, <1>6

(* The end of a connection in recvdata: the node is taken out and the       *)
(* descriptor closed.                                                       *)
LEMMA DelCloseIs ==
  ASSUME NEW E \in Table, NEW P \in Kernel, NEW s \in Slots,
         E[s].fd \in FD, E[s].status = 1
  PROVE  Removes(E, P, close(eventdel(Tables(E, P), s), E[s].fd), s, E[s].fd)
<1>1. PICK F \in Table, Q \in Kernel :
        /\ eventdel(Tables(E, P), s) = Tables(F, Q)
        /\ \A t \in Slots : t # s => F[t] = E[t]
        /\ F[s].status = 0 /\ F[s].fd = E[s].fd /\ F[s].buf = E[s].buf
        /\ Q[E[s].fd] = Free /\ \A f \in FD : f # E[s].fd => Q[f] = P[f]
  BY DelIs
<1>2. PICK R \in Kernel :
        /\ close(Tables(F, Q), E[s].fd) = Tables(F, R)
        /\ R[E[s].fd] = Free /\ \A f \in FD : f # E[s].fd => R[f] = Q[f]
  BY CloseIs
<1>. QED BY <1>1, <1>2, TablesAre DEF Removes

(* The end of a connection in senddata: the other order. *)
LEMMA CloseDelIs ==
  ASSUME NEW E \in Table, NEW P \in Kernel, NEW s \in Slots,
         E[s].fd \in FD, E[s].status = 1
  PROVE  Removes(E, P, eventdel(close(Tables(E, P), E[s].fd), s), s, E[s].fd)
<1>1. PICK R \in Kernel :
        /\ close(Tables(E, P), E[s].fd) = Tables(E, R)
        /\ R[E[s].fd] = Free /\ \A f \in FD : f # E[s].fd => R[f] = P[f]
  BY CloseIs
<1>2. PICK F \in Table, Q \in Kernel :
        /\ eventdel(Tables(E, R), s) = Tables(F, Q)
        /\ \A t \in Slots : t # s => F[t] = E[t]
        /\ F[s].status = 0 /\ F[s].fd = E[s].fd /\ F[s].buf = E[s].buf
        /\ Q[E[s].fd] = Free /\ \A f \in FD : f # E[s].fd => Q[f] = R[f]
  BY DelIs
<1>. QED BY <1>1, <1>2, TablesAre DEF Removes
-----------------------------------------------------------------------------
(* The type invariant in the names used here. *)
Typed ==
  /\ g_events \in Table /\ epoll \in Kernel
  /\ conn \in [FD -> Clients \cup {NoClient}] /\ cl \in [Clients -> Peer]
  /\ loop \in {"scan", "wait", "handle"} /\ checkpos \in Places
  /\ batch \subseteq Event /\ alive \in BOOLEAN

(* It is the type invariant. *)
LEMMA TypedIs == TypeOK <=> Typed
BY DEF TypeOK, Typed, Table, Kernel, Node, Reg, Peer, Fds, Bits, Bufs, Ages, Places,
       Counts, Lost

(* After a step as well. *)
LEMMA TypedIsNext == TypeOK' <=> Typed'
BY DEF TypeOK, Typed, Table, Kernel, Node, Reg, Peer, Fds, Bits, Bufs, Ages, Places,
       Counts, Lost, Slots, FD, Listener, Unit, NoClient, Event, Events, Callback, ClientState

(* A smallest member of a set of numbers. *)
LEMMA SmallestIs ==
  ASSUME NEW S, S \subseteq Nat, S # {}
  PROVE  Smallest(S) \in S
<1>. DEFINE Less == {pair \in Nat \X Nat : pair[1] < pair[2]}
<1>1. IsWellFoundedOn(Less, Nat) BY NatLessThanWellFounded DEF OpToRel
<1>. HIDE DEF Less
<1>2. PICK x \in S : \A y \in S : ~ (<<y, x>> \in Less) BY <1>1, WFMin
<1>3. ASSUME NEW y \in S PROVE x <= y
  <2>1. <<y, x>> \notin Less /\ x \in Nat /\ y \in Nat BY <1>2
  <2>2. ~ (y < x) BY <2>1 DEF Less
  <2>. QED BY <2>1, <2>2
<1>. QED BY <1>3 DEF Smallest

(* The step leaves node s registered, and nothing else has changed. *)
NodeSet(s, fd, events, call_back, buf) ==
  /\ g_events' \in Table /\ \A t \in Slots : t # s => g_events'[t] = g_events[t]
  /\ g_events'[s].fd = fd /\ g_events'[s].events = events
  /\ g_events'[s].call_back = call_back
  /\ g_events'[s].status = 1 /\ g_events'[s].buf = buf
  /\ epoll' \in Kernel /\ \A f \in FD : f # fd => epoll'[f] = epoll[f]
  /\ epoll'[fd].slot = s /\ epoll'[fd].events = events

(* The step leaves node s and descriptor fd out of the tree. *)
NodeOut(s, fd) ==
  /\ g_events' \in Table /\ \A t \in Slots : t # s => g_events'[t] = g_events[t]
  /\ g_events'[s].status = 0
  /\ epoll' \in Kernel /\ \A f \in FD : f # fd => epoll'[f] = epoll[f]
  /\ epoll'[fd].slot = Listener /\ epoll'[fd].events = "none"

(* What a callback finds: the event is for a node that is registered for a  *)
(* connection that is up.                                                   *)
LEMMA CalledIs ==
  ASSUME ReactorInv, NEW e, NEW call_back, Called(e, call_back)
  PROVE  /\ e \in batch /\ e \in Event /\ e.slot \in Slots /\ e.slot # Listener
         /\ g_events[e.slot].status = 1 /\ g_events[e.slot].fd \in FD
         /\ g_events[e.slot].call_back = call_back
         /\ e.events = g_events[e.slot].events /\ e.client = Owner(e)
         /\ Owner(e) \in Clients /\ cl[Owner(e)].st = "up"
<1>1. e \in batch /\ e \in Event /\ e.slot # Listener
  BY DEF Called, Handled, ReactorInv, TypeOK
<1>2. e.slot \in Slots BY <1>1, SizesAssumption DEF Event, Slots, Listener
<1>3. /\ g_events[e.slot].status = 1 /\ e.events = g_events[e.slot].events
      /\ e.client = Owner(e)
  BY <1>1 DEF ReactorInv, BatchIsFresh, Matches, Owner
<1>4. g_events[e.slot].fd \in FD /\ Owner(e) # NoClient
  BY <1>2, <1>3 DEF ReactorInv, InTree, Owner
<1>5. Owner(e) \in Clients BY <1>4 DEF ReactorInv, TypeOK, Owner
<1>6. cl[Owner(e)].st = "up" BY <1>4 DEF ReactorInv, ConnInv, Owner
<1>. QED BY <1>1, <1>2, <1>3, <1>4, <1>5, <1>6 DEF Called

(* Events of one node in the array of epoll_wait are the same event, so     *)
(* that a callback which has run leaves none of its node's.                 *)
LEMMA OneEvent ==
  ASSUME ReactorInv, NEW e \in batch, NEW d \in batch, e.slot # Listener, d.slot = e.slot
  PROVE  d = e
<1>1. d \in Event /\ e \in Event BY DEF ReactorInv, TypeOK
<1>2. d.events = e.events /\ d.client = e.client
  BY DEF ReactorInv, BatchIsFresh, Matches
<1>. QED BY <1>1, <1>2 DEF Event

(* A callback that arms its node again keeps the tree right and the other   *)
(* events fresh.                                                            *)
LEMMA RearmKeeps ==
  ASSUME ReactorInv, NEW e, NEW call_back, Called(e, call_back),
         NEW events, NEW next, NEW buf,
         next = IF events = "in" THEN "recvdata" ELSE "senddata", events # "none",
         NodeSet(e.slot, g_events[e.slot].fd, events, next, buf), conn' = conn
  PROVE  InTree' /\ BatchIsFresh'
<1>. DEFINE s == e.slot  fd == g_events[s].fd
<1>0. e \in batch /\ s \in Slots /\ s # Listener /\ g_events[s].status = 1 /\ fd \in FD
  BY CalledIs
<1>1. epoll[fd].slot = s /\ conn[fd] # NoClient BY <1>0 DEF ReactorInv, InTree
<1>2. ASSUME NEW t \in Slots, t # s, g_events[t].status = 1
      PROVE  g_events[t].fd \in FD /\ g_events[t].fd # fd
  BY <1>1, <1>2 DEF ReactorInv, InTree
<1>4. InTree'
  <2>1. ASSUME NEW t \in Slots, g_events'[t].status = 1
        PROVE  /\ g_events'[t].fd \in FD
               /\ epoll'[g_events'[t].fd].slot = t
               /\ epoll'[g_events'[t].fd].events = g_events'[t].events
               /\ conn'[g_events'[t].fd] # NoClient
               /\ g_events'[t].call_back
                    = IF g_events'[t].events = "in" THEN "recvdata" ELSE "senddata"
    <3>1. CASE t = s BY <1>0, <1>1, <3>1 DEF NodeSet
    <3>2. CASE t # s
      <4>1. g_events'[t] = g_events[t] BY <3>2 DEF NodeSet
      <4>2. g_events[t].fd \in FD /\ g_events[t].fd # fd BY <1>2, <2>1, <3>2, <4>1
      <4>3. epoll'[g_events[t].fd] = epoll[g_events[t].fd] BY <4>2 DEF NodeSet
      <4>. QED BY <2>1, <4>1, <4>2, <4>3 DEF ReactorInv, InTree
    <3>. QED BY <3>1, <3>2
  <2>2. ASSUME NEW f \in FD, epoll'[f].slot # Listener \/ epoll'[f].events # "none"
        PROVE  /\ epoll'[f].slot \in Slots
               /\ g_events'[epoll'[f].slot].fd = f /\ g_events'[epoll'[f].slot].status = 1
    <3>1. CASE f = fd BY <1>0, <3>1 DEF NodeSet
    <3>2. CASE f # fd
      <4>1. epoll'[f] = epoll[f] BY <3>2 DEF NodeSet
      <4>2. /\ epoll[f].slot \in Slots
            /\ g_events[epoll[f].slot].fd = f /\ g_events[epoll[f].slot].status = 1
        BY <2>2, <4>1 DEF ReactorInv, InTree
      <4>3. g_events'[epoll[f].slot] = g_events[epoll[f].slot] BY <3>2, <4>2 DEF NodeSet
      <4>. QED BY <4>1, <4>2, <4>3
    <3>. QED BY <3>1, <3>2
  <2>. QED BY <2>1, <2>2 DEF InTree, Slots, FD, Listener, NoClient
<1>5. BatchIsFresh'
  <2>1. ASSUME NEW d \in batch', d.slot # Listener
        PROVE  /\ g_events'[d.slot].status = 1 /\ d.events = g_events'[d.slot].events
               /\ conn'[g_events'[d.slot].fd] = d.client
    <3>1. d \in batch /\ d # e BY DEF Called, Handled
    <3>2. d.slot # s BY <1>0, <2>1, <3>1, OneEvent
    <3>3. d.slot \in Slots BY <2>1, <3>1, SizesAssumption
            DEF ReactorInv, TypeOK, Event, Slots, Listener
    <3>4. g_events'[d.slot] = g_events[d.slot] BY <3>2, <3>3 DEF NodeSet
    <3>. QED BY <2>1, <3>1, <3>4 DEF ReactorInv, BatchIsFresh, Matches
  <2>. QED BY <2>1 DEF BatchIsFresh, Matches, Listener
<1>. QED BY <1>4, <1>5

(* So does one that ends its connection. *)
LEMMA DropKeeps ==
  ASSUME ReactorInv, NEW e, NEW call_back, Called(e, call_back),
         NodeOut(e.slot, g_events[e.slot].fd),
         conn' = [conn EXCEPT ![g_events[e.slot].fd] = NoClient],
         cl' = [cl EXCEPT ![Owner(e)].st = "down"]
  PROVE  InTree' /\ BatchIsFresh' /\ ConnInv'
<1>. DEFINE s == e.slot  fd == g_events[s].fd  c == Owner(e)
<1>0. /\ e \in batch /\ s \in Slots /\ s # Listener /\ g_events[s].status = 1 /\ fd \in FD
      /\ c \in Clients /\ c = conn[fd]
  BY CalledIs DEF Owner
<1>1. epoll[fd].slot = s /\ conn[fd] # NoClient BY <1>0 DEF ReactorInv, InTree
<1>2. ASSUME NEW t \in Slots, t # s, g_events[t].status = 1
      PROVE  g_events[t].fd \in FD /\ g_events[t].fd # fd
  BY <1>1, <1>2 DEF ReactorInv, InTree
<1>3. conn'[fd] = NoClient /\ \A f \in FD : f # fd => conn'[f] = conn[f]
  BY <1>0 DEF ReactorInv, TypeOK
<1>4. InTree'
  <2>1. ASSUME NEW t \in Slots, g_events'[t].status = 1
        PROVE  /\ g_events'[t].fd \in FD
               /\ epoll'[g_events'[t].fd].slot = t
               /\ epoll'[g_events'[t].fd].events = g_events'[t].events
               /\ conn'[g_events'[t].fd] # NoClient
               /\ g_events'[t].call_back
                    = IF g_events'[t].events = "in" THEN "recvdata" ELSE "senddata"
    <3>1. t # s BY <2>1 DEF NodeOut
    <3>2. g_events'[t] = g_events[t] BY <3>1 DEF NodeOut
    <3>3. g_events[t].fd \in FD /\ g_events[t].fd # fd BY <1>2, <2>1, <3>1, <3>2
    <3>4. epoll'[g_events[t].fd] = epoll[g_events[t].fd] BY <3>3 DEF NodeOut
    <3>5. conn'[g_events[t].fd] = conn[g_events[t].fd] BY <1>3, <3>3
    <3>. QED BY <2>1, <3>2, <3>3, <3>4, <3>5 DEF ReactorInv, InTree
  <2>2. ASSUME NEW f \in FD, epoll'[f].slot # Listener \/ epoll'[f].events # "none"
        PROVE  /\ epoll'[f].slot \in Slots
               /\ g_events'[epoll'[f].slot].fd = f /\ g_events'[epoll'[f].slot].status = 1
    <3>1. f # fd BY <2>2 DEF NodeOut
    <3>2. epoll'[f] = epoll[f] BY <3>1 DEF NodeOut
    <3>3. /\ epoll[f].slot \in Slots
          /\ g_events[epoll[f].slot].fd = f /\ g_events[epoll[f].slot].status = 1
      BY <2>2, <3>2 DEF ReactorInv, InTree
    <3>4. g_events'[epoll[f].slot] = g_events[epoll[f].slot] BY <3>1, <3>3 DEF NodeOut
    <3>. QED BY <3>2, <3>3, <3>4
  <2>. QED BY <2>1, <2>2 DEF InTree, Slots, FD, Listener, NoClient
<1>5. BatchIsFresh'
  <2>1. ASSUME NEW d \in batch', d.slot # Listener
        PROVE  /\ g_events'[d.slot].status = 1 /\ d.events = g_events'[d.slot].events
               /\ conn'[g_events'[d.slot].fd] = d.client
    <3>1. d \in batch /\ d # e BY DEF Called, Handled
    <3>2. d.slot # s BY <1>0, <2>1, <3>1, OneEvent
    <3>3. d.slot \in Slots BY <2>1, <3>1, SizesAssumption
            DEF ReactorInv, TypeOK, Event, Slots, Listener
    <3>4. g_events'[d.slot] = g_events[d.slot] BY <3>2, <3>3 DEF NodeOut
    <3>5. /\ g_events[d.slot].status = 1 /\ d.events = g_events[d.slot].events
          /\ conn[g_events[d.slot].fd] = d.client
      BY <2>1, <3>1 DEF ReactorInv, BatchIsFresh, Matches
    <3>6. g_events[d.slot].fd \in FD /\ g_events[d.slot].fd # fd
      BY <1>2, <3>2, <3>3, <3>5
    <3>. QED BY <1>3, <3>4, <3>5, <3>6
  <2>. QED BY <2>1 DEF BatchIsFresh, Matches, Listener
<1>6. ConnInv'
  <2>1. ASSUME NEW f \in FD, conn'[f] # NoClient PROVE cl'[conn'[f]].st = "up"
    <3>1. f # fd /\ conn'[f] = conn[f] BY <1>3, <2>1
    <3>2. conn[f] # c /\ cl[conn[f]].st = "up"
      BY <1>0, <1>1, <2>1, <3>1 DEF ReactorInv, ConnInv
    <3>3. conn[f] \in Clients BY <2>1, <3>1 DEF ReactorInv, TypeOK
    <3>4. cl'[conn[f]] = cl[conn[f]] BY <3>2, <3>3 DEF ReactorInv, TypeOK
    <3>. QED BY <3>1, <3>2, <3>4
  <2>2. ASSUME NEW f \in FD, NEW g \in FD, conn'[f] = conn'[g], conn'[f] # NoClient
        PROVE  f = g
    BY <1>3, <2>2 DEF ReactorInv, ConnInv
  <2>. QED BY <2>1, <2>2 DEF ConnInv, FD, NoClient
<1>. QED BY <1>4, <1>5, <1>6

(* A new connection gets a closed descriptor, which no node has in the tree. *)
LEMMA AcceptConns ==
  ASSUME ReactorInv, NEW c \in Backlog, NEW fd \in FD, conn[fd] = NoClient,
         conn' = [conn EXCEPT ![fd] = c], cl' = [cl EXCEPT ![c].st = "up"]
  PROVE  /\ ConnInv' /\ epoll[fd] = Free
         /\ conn'[fd] # NoClient /\ \A f \in FD : f # fd => conn'[f] = conn[f]
         /\ \A t \in Slots : g_events[t].status = 1 => g_events[t].fd # fd
<1>0. c \in Clients /\ cl[c].st = "backlog" BY DEF Backlog
<1>1. conn'[fd] = c /\ \A f \in FD : f # fd => conn'[f] = conn[f]
  BY DEF ReactorInv, TypeOK
<1>2. \A t \in Slots : g_events[t].status = 1 => g_events[t].fd # fd
  BY DEF ReactorInv, InTree
<1>3. epoll[fd].slot = Listener /\ epoll[fd].events = "none"
  BY <1>2 DEF ReactorInv, InTree
<1>4. epoll[fd] \in Reg BY TypedIs DEF ReactorInv, Typed, Kernel
<1>5. epoll[fd] = Free BY <1>3, <1>4 DEF Free, Reg
<1>6. \A f \in FD : conn[f] # c BY <1>0, ClientsAssumption DEF ReactorInv, ConnInv
<1>7. cl'[c].st = "up" /\ \A d \in Clients : d # c => cl'[d] = cl[d]
  BY <1>0, TypedIs DEF ReactorInv, Typed, Peer
<1>8. \A f \in FD : conn[f] # NoClient => conn[f] \in Clients
  BY DEF ReactorInv, TypeOK
<1>9. ConnInv'
  <2>1. ASSUME NEW f \in FD, conn'[f] # NoClient PROVE cl'[conn'[f]].st = "up"
    BY <1>1, <1>6, <1>7, <1>8, <2>1 DEF ReactorInv, ConnInv
  <2>2. ASSUME NEW f \in FD, NEW g \in FD, conn'[f] = conn'[g], conn'[f] # NoClient
        PROVE  f = g
    BY <1>1, <1>6, <2>2 DEF ReactorInv, ConnInv
  <2>. QED BY <2>1, <2>2 DEF ConnInv, FD, NoClient
<1>. QED BY <1>0, <1>1, <1>2, <1>5, <1>9, ClientsAssumption

(* acceptconn, when the table is full. *)
LEMMA LimitKeeps ==
  ASSUME ReactorInv, NEW e, Handled(e), NEW c \in Backlog, NEW fd \in FD, conn[fd] = NoClient,
         conn' = [conn EXCEPT ![fd] = c], cl' = [cl EXCEPT ![c].st = "up"],
         UNCHANGED <<g_events, epoll>>
  PROVE  InTree' /\ BatchIsFresh' /\ ConnInv'
<1>0. /\ ConnInv' /\ \A f \in FD : f # fd => conn'[f] = conn[f]
      /\ \A t \in Slots : g_events[t].status = 1 => g_events[t].fd # fd
  BY AcceptConns
<1>1. \A t \in Slots : g_events[t].status = 1 =>
        g_events[t].fd \in FD /\ conn'[g_events[t].fd] = conn[g_events[t].fd]
  BY <1>0 DEF ReactorInv, InTree
<1>2. g_events' = g_events /\ epoll' = epoll OBVIOUS
<1>3. InTree'
  <2>1. InTree BY DEF ReactorInv
  <2>. QED BY <1>1, <1>2, <2>1 DEF InTree, Slots, FD, Listener, NoClient
<1>4. BatchIsFresh'
  <2>1. ASSUME NEW d \in batch', d.slot # Listener
        PROVE  /\ g_events'[d.slot].status = 1 /\ d.events = g_events'[d.slot].events
               /\ conn'[g_events'[d.slot].fd] = d.client
    <3>1. d \in batch BY DEF Handled
    <3>2. d.slot \in Slots
      <4>1. d \in Event BY <3>1 DEF ReactorInv, TypeOK
      <4>. QED BY <2>1, <4>1, SizesAssumption DEF Event, Slots, Listener
    <3>3. /\ g_events[d.slot].status = 1 /\ d.events = g_events[d.slot].events
          /\ conn[g_events[d.slot].fd] = d.client
      BY <2>1, <3>1 DEF ReactorInv, BatchIsFresh, Matches
    <3>. QED BY <1>1, <1>2, <3>2, <3>3
  <2>. QED BY <2>1 DEF BatchIsFresh, Matches, Listener
<1>. QED BY <1>0, <1>3, <1>4

(* acceptconn, when it finds a free node. *)
LEMMA AcceptKeeps ==
  ASSUME ReactorInv, NEW e, Handled(e), NEW c \in Backlog, NEW fd \in FD, conn[fd] = NoClient,
         conn' = [conn EXCEPT ![fd] = c], cl' = [cl EXCEPT ![c].st = "up"],
         NEW s \in Slots, g_events[s].status = 0, NEW buf,
         NodeSet(s, fd, "in", "recvdata", buf)
  PROVE  InTree' /\ BatchIsFresh' /\ ConnInv'
<1>0. /\ ConnInv' /\ conn'[fd] # NoClient /\ \A f \in FD : f # fd => conn'[f] = conn[f]
      /\ \A t \in Slots : g_events[t].status = 1 => g_events[t].fd # fd
  BY AcceptConns
<1>1. ASSUME NEW t \in Slots, g_events[t].status = 1
      PROVE  /\ t # s /\ g_events[t].fd \in FD /\ g_events[t].fd # fd
             /\ g_events'[t] = g_events[t] /\ epoll'[g_events[t].fd] = epoll[g_events[t].fd]
             /\ conn'[g_events[t].fd] = conn[g_events[t].fd]
  <2>1. t # s BY <1>1
  <2>2. g_events[t].fd \in FD BY <1>1 DEF ReactorInv, InTree
  <2>3. g_events[t].fd # fd BY <1>0, <1>1
  <2>4. g_events'[t] = g_events[t] BY <2>1 DEF NodeSet
  <2>5. epoll'[g_events[t].fd] = epoll[g_events[t].fd] BY <2>2, <2>3 DEF NodeSet
  <2>6. conn'[g_events[t].fd] = conn[g_events[t].fd] BY <1>0, <2>2, <2>3
  <2>. QED BY <2>1, <2>2, <2>3, <2>4, <2>5, <2>6
<1>2. s # Listener BY SizesAssumption DEF Slots, Listener
<1>3. InTree'
  <2>1. ASSUME NEW t \in Slots, g_events'[t].status = 1
        PROVE  /\ g_events'[t].fd \in FD
               /\ epoll'[g_events'[t].fd].slot = t
               /\ epoll'[g_events'[t].fd].events = g_events'[t].events
               /\ conn'[g_events'[t].fd] # NoClient
               /\ g_events'[t].call_back
                    = IF g_events'[t].events = "in" THEN "recvdata" ELSE "senddata"
    <3>1. CASE t = s BY <1>0, <3>1 DEF NodeSet
    <3>2. CASE t # s
      <4>1. g_events'[t] = g_events[t] BY <3>2 DEF NodeSet
      <4>2. g_events[t].status = 1 BY <2>1, <4>1
      <4>3. /\ g_events[t].fd \in FD
            /\ epoll'[g_events[t].fd] = epoll[g_events[t].fd]
            /\ conn'[g_events[t].fd] = conn[g_events[t].fd]
        BY <1>1, <4>2
      <4>. QED BY <4>1, <4>2, <4>3 DEF ReactorInv, InTree
    <3>. QED BY <3>1, <3>2
  <2>2. ASSUME NEW f \in FD, epoll'[f].slot # Listener \/ epoll'[f].events # "none"
        PROVE  /\ epoll'[f].slot \in Slots
               /\ g_events'[epoll'[f].slot].fd = f /\ g_events'[epoll'[f].slot].status = 1
    <3>1. CASE f = fd BY <3>1 DEF NodeSet
    <3>2. CASE f # fd
      <4>1. epoll'[f] = epoll[f] BY <3>2 DEF NodeSet
      <4>2. /\ epoll[f].slot \in Slots
            /\ g_events[epoll[f].slot].fd = f /\ g_events[epoll[f].slot].status = 1
        BY <2>2, <4>1 DEF ReactorInv, InTree
      <4>3. g_events'[epoll[f].slot] = g_events[epoll[f].slot] BY <1>1, <4>2
      <4>. QED BY <4>1, <4>2, <4>3
    <3>. QED BY <3>1, <3>2
  <2>. QED BY <2>1, <2>2 DEF InTree, Slots, FD, Listener, NoClient
<1>4. BatchIsFresh'
  <2>1. ASSUME NEW d \in batch', d.slot # Listener
        PROVE  /\ g_events'[d.slot].status = 1 /\ d.events = g_events'[d.slot].events
               /\ conn'[g_events'[d.slot].fd] = d.client
    <3>1. d \in batch BY DEF Handled
    <3>2. d.slot \in Slots BY <2>1, <3>1, SizesAssumption
            DEF ReactorInv, TypeOK, Event, Slots, Listener
    <3>3. /\ g_events[d.slot].status = 1 /\ d.events = g_events[d.slot].events
          /\ conn[g_events[d.slot].fd] = d.client
      BY <2>1, <3>1 DEF ReactorInv, BatchIsFresh, Matches
    <3>. QED BY <1>1, <3>2, <3>3
  <2>. QED BY <2>1 DEF BatchIsFresh, Matches, Listener
<1>. QED BY <1>0, <1>3, <1>4

(* The inactivity test runs while no event waits to be handled. *)
LEMMA ScanKeeps ==
  ASSUME ReactorInv, Scan
  PROVE  InTree' /\ BatchIsFresh' /\ ConnInv'
<1>. DEFINE fds == {g_events[s].fd : s \in Expired}
<1>0. Expired \subseteq Slots /\ \A s \in Expired : g_events[s].status = 1
  <2>1. Tested \subseteq Slots BY SizesAssumption, TypedIs
          DEF Tested, Slots, ReactorInv, Typed, Places
  <2>. QED BY <2>1 DEF Expired
<1>1. /\ conn' = [fd \in FD |-> IF fd \in fds THEN NoClient ELSE conn[fd]]
      /\ epoll' = [fd \in FD |-> IF fd \in fds THEN Free ELSE epoll[fd]]
      /\ cl' = [c \in Clients |->
                  IF \E fd \in fds : conn[fd] = c THEN [cl[c] EXCEPT !.st = "down"]
                  ELSE cl[c]]
      /\ g_events' = [s \in Slots |-> IF s \in Expired THEN [g_events[s] EXCEPT !.status = 0]
                                       ELSE g_events[s]]
      /\ batch' = batch /\ loop = "scan"
  BY DEF Scan
<1>2. batch' = {} BY <1>1 DEF ReactorInv, LoopInv
<1>3. ASSUME NEW t \in Slots, g_events[t].status = 1
      PROVE  g_events[t].fd \in FD /\ (g_events[t].fd \in fds => t \in Expired)
  <2>1. g_events[t].fd \in FD BY <1>3 DEF ReactorInv, InTree
  <2>2. ASSUME NEW u \in Expired, g_events[u].fd = g_events[t].fd PROVE u = t
    BY <1>0, <1>3, <2>2 DEF ReactorInv, InTree
  <2>. QED BY <2>1, <2>2
<1>4. ASSUME NEW t \in Slots, g_events'[t].status = 1
      PROVE  g_events'[t] = g_events[t] /\ t \notin Expired
  <2>1. g_events[t] \in Node BY TypedIs DEF ReactorInv, Typed, Table
  <2>2. [g_events[t] EXCEPT !.status = 0].status = 0 BY <2>1 DEF Node
  <2>. QED BY <1>1, <1>4, <2>2
<1>. HIDE DEF fds
<1>5. ASSUME NEW f \in FD, f \notin fds PROVE conn'[f] = conn[f] /\ epoll'[f] = epoll[f]
  BY <1>1, <1>5
<1>6. InTree'
  <2>1. ASSUME NEW t \in Slots, g_events'[t].status = 1
        PROVE  /\ g_events'[t].fd \in FD
               /\ epoll'[g_events'[t].fd].slot = t
               /\ epoll'[g_events'[t].fd].events = g_events'[t].events
               /\ conn'[g_events'[t].fd] # NoClient
               /\ g_events'[t].call_back
                    = IF g_events'[t].events = "in" THEN "recvdata" ELSE "senddata"
    <3>1. g_events'[t] = g_events[t] /\ t \notin Expired BY <1>4, <2>1
    <3>2. g_events[t].fd \in FD /\ g_events[t].fd \notin fds BY <1>3, <2>1, <3>1
    <3>3. /\ epoll'[g_events[t].fd] = epoll[g_events[t].fd]
          /\ conn'[g_events[t].fd] = conn[g_events[t].fd]
      BY <1>5, <3>2
    <3>. QED BY <2>1, <3>1, <3>2, <3>3 DEF ReactorInv, InTree
  <2>2. ASSUME NEW f \in FD, epoll'[f].slot # Listener \/ epoll'[f].events # "none"
        PROVE  /\ epoll'[f].slot \in Slots
               /\ g_events'[epoll'[f].slot].fd = f /\ g_events'[epoll'[f].slot].status = 1
    <3>1. f \notin fds BY <1>1, <2>2 DEF Free
    <3>2. epoll'[f] = epoll[f] BY <1>5, <3>1
    <3>3. /\ epoll[f].slot \in Slots
          /\ g_events[epoll[f].slot].fd = f /\ g_events[epoll[f].slot].status = 1
      BY <2>2, <3>2 DEF ReactorInv, InTree
    <3>4. epoll[f].slot \notin Expired BY <3>1, <3>3 DEF fds
    <3>5. g_events'[epoll[f].slot] = g_events[epoll[f].slot] BY <1>1, <3>3, <3>4
    <3>. QED BY <3>2, <3>3, <3>5
  <2>. QED BY <2>1, <2>2 DEF InTree, Slots, FD, Listener, NoClient
<1>7. BatchIsFresh' BY <1>2 DEF BatchIsFresh
<1>8. ConnInv'
  <2>1. ASSUME NEW f \in FD, conn'[f] # NoClient PROVE cl'[conn'[f]].st = "up"
    <3>1. f \notin fds /\ conn'[f] = conn[f] BY <1>1, <2>1
    <3>2. conn[f] \in Clients BY <2>1, <3>1 DEF ReactorInv, TypeOK
    <3>3. \A g \in fds : g \in FD BY <1>0, <1>3 DEF fds
    <3>4. \A g \in fds : conn[g] # conn[f]
      BY <2>1, <3>1, <3>3 DEF ReactorInv, ConnInv
    <3>5. cl'[conn[f]] = cl[conn[f]] BY <1>1, <3>2, <3>4
    <3>. QED BY <2>1, <3>1, <3>5 DEF ReactorInv, ConnInv
  <2>2. ASSUME NEW f \in FD, NEW g \in FD, conn'[f] = conn'[g], conn'[f] # NoClient
        PROVE  f = g
    BY <1>1, <2>2 DEF ReactorInv, ConnInv
  <2>. QED BY <2>1, <2>2 DEF ConnInv, FD, NoClient
<1>. QED BY <1>6, <1>7, <1>8

(* The array that epoll_wait fills names the nodes in the tree. *)
LEMMA WaitKeeps ==
  ASSUME ReactorInv, EpollWait
  PROVE  batch' \subseteq Event /\ BatchIsFresh'
<1>1. batch' = Ready /\ g_events' = g_events /\ conn' = conn BY DEF EpollWait
<1>2. ASSUME NEW d \in Ready
      PROVE  \/ d = [slot |-> Listener, events |-> "in", client |-> NoClient]
             \/ \E f \in FD : /\ epoll[f].events # "none"
                               /\ d = [slot |-> epoll[f].slot, events |-> epoll[f].events,
                                       client |-> conn[f]]
  BY DEF Ready
<1>3. ASSUME NEW d \in Ready PROVE d \in Event
  <2>1. CASE d = [slot |-> Listener, events |-> "in", client |-> NoClient]
    BY <2>1, SizesAssumption DEF Event, Events, Listener
  <2>2. ASSUME NEW f \in FD,
               d = [slot |-> epoll[f].slot, events |-> epoll[f].events, client |-> conn[f]]
        PROVE  d \in Event
    <3>1. epoll[f].slot \in 0 .. MaxEvents /\ epoll[f].events \in Events
          /\ conn[f] \in Clients \cup {NoClient}
      BY DEF ReactorInv, TypeOK
    <3>. QED BY <2>2, <3>1 DEF Event
  <2>. QED BY <1>2, <2>1, <2>2
<1>4. ASSUME NEW d \in Ready, d.slot # Listener
      PROVE  /\ g_events[d.slot].status = 1 /\ d.events = g_events[d.slot].events
             /\ conn[g_events[d.slot].fd] = d.client
  <2>1. PICK f \in FD : /\ epoll[f].events # "none"
                        /\ d = [slot |-> epoll[f].slot, events |-> epoll[f].events,
                                client |-> conn[f]]
    BY <1>2, <1>4
  <2>2. d.slot = epoll[f].slot /\ d.events = epoll[f].events /\ d.client = conn[f]
    BY <2>1
  <2>3. /\ epoll[f].slot \in Slots
        /\ g_events[epoll[f].slot].fd = f /\ g_events[epoll[f].slot].status = 1
    BY <2>1 DEF ReactorInv, InTree
  <2>4. epoll[f].events = g_events[epoll[f].slot].events
    BY <2>3 DEF ReactorInv, InTree
  <2>. QED BY <2>2, <2>3, <2>4
<1>5. BatchIsFresh' BY <1>1, <1>4 DEF BatchIsFresh, Matches, Listener
<1>. QED BY <1>1, <1>3, <1>5

(* What recv returns is the data the client has sent and the server has not *)
(* read, as much of it as the buffer holds.                                 *)
LEMMA ReceivedIs ==
  ASSUME ReactorInv, NEW c \in Clients
  PROVE  /\ Received(c) \in Bufs /\ Len(Received(c)) \in Nat
         /\ cl[c].read + Len(Received(c)) <= cl[c].sent
         /\ cl[c].read < cl[c].sent => 0 < Len(Received(c))
         /\ \A i \in 1 .. Len(Received(c)) : Received(c)[i] = <<c, cl[c].read + i>>
<1>. DEFINE r == cl[c].read
            m == cl[c].sent
            n == IF m - r < BufLen THEN m - r ELSE BufLen
<1>1. r \in Nat /\ m \in Nat /\ m <= NUnits /\ r <= m /\ NUnits \in Nat
  <2>1. cl[c] \in Peer BY TypedIs DEF ReactorInv, Typed
  <2>2. r \in Counts /\ m \in Counts BY <2>1 DEF Peer
  <2>. QED BY <2>2, SizesAssumption DEF Counts, ReactorInv, ReadInv
<1>2. Received(c) = [i \in 1 .. n |-> <<c, r + i>>] BY DEF Received
<1>. HIDE DEF r, m
<1>3. n \in Nat /\ r + n <= m /\ (r < m => 0 < n) BY <1>1, SizesAssumption
<1>. HIDE DEF n
<1>4. \A i \in 1 .. n : <<c, r + i>> \in Unit BY <1>1, <1>3 DEF Unit
<1>5. Received(c) \in Seq(Unit) /\ Len(Received(c)) = n BY <1>2, <1>3, <1>4
<1>6. \A i \in 1 .. n : Received(c)[i] = <<c, r + i>> BY <1>2
<1>. QED BY <1>3, <1>5, <1>6 DEF Bufs, r, m

(* The steps of the clients change only the client's own record, and end no *)
(* connection.                                                              *)
LEMMA ClientKeeps ==
  ASSUME ReactorInv, NEW c \in Clients,
         Connect(c) \/ Send(c) \/ StopReading(c) \/ Close(c) \/ Reset(c)
  PROVE  ReactorInv'
<1>0. /\ g_events' = g_events /\ epoll' = epoll /\ conn' = conn /\ loop' = loop
      /\ checkpos' = checkpos /\ batch' = batch /\ alive' = alive
  BY DEF Connect, Send, StopReading, Close, Reset
<1>1. cl \in [Clients -> Peer] /\ cl[c] \in Peer BY TypedIs DEF ReactorInv, Typed
<1>2. /\ cl' \in [Clients -> Peer] /\ \A d \in Clients : d # c => cl'[d] = cl[d]
      /\ cl'[c].read <= cl'[c].sent
      /\ cl'[c].st = cl[c].st \/ cl[c].st = "new"
  <2>0. cl[c].read <= cl[c].sent BY DEF ReactorInv, ReadInv
  <2>1. CASE Connect(c)
    <3>1. "backlog" \in ClientState BY DEF ClientState
    <3>. QED BY <1>1, <2>0, <2>1, <3>1 DEF Connect, Peer
  <2>2. CASE Send(c)
    <3>0. /\ cl[c].sent \in Nat /\ cl[c].read \in Nat
          /\ cl[c].sent + 1 \in Counts
      <4>1. cl[c].sent \in Counts /\ cl[c].read \in Counts BY <1>1 DEF Peer
      <4>. QED BY <2>2, <4>1, SizesAssumption DEF Send, Counts
    <3>1. cl' = [cl EXCEPT ![c].sent = @ + 1] BY <2>2 DEF Send
    <3>2. cl' \in [Clients -> Peer] BY <1>1, <3>0, <3>1 DEF Peer
    <3>3. /\ cl'[c].sent = cl[c].sent + 1 /\ cl'[c].read = cl[c].read
          /\ cl'[c].st = cl[c].st
      BY <1>1, <3>1 DEF Peer
    <3>4. \A d \in Clients : d # c => cl'[d] = cl[d] BY <1>1, <3>1
    <3>5. cl'[c].read <= cl'[c].sent
      <4>. DEFINE x == cl[c].read  y == cl[c].sent
      <4>1. x \in Nat /\ y \in Nat /\ x <= y BY <2>0, <3>0
      <4>. HIDE DEF x, y
      <4>2. x <= y + 1 BY <4>1
      <4>. QED BY <3>3, <4>2 DEF x, y
    <3>. QED BY <3>2, <3>3, <3>4, <3>5
  <2>3. CASE StopReading(c) BY <1>1, <2>0, <2>3 DEF StopReading, Peer
  <2>4. CASE Close(c) BY <1>1, <2>0, <2>4 DEF Close, Peer
  <2>5. CASE Reset(c) BY <1>1, <2>0, <2>5 DEF Reset, Peer
  <2>. QED BY <2>1, <2>2, <2>3, <2>4, <2>5
<1>3. TypeOK' BY <1>0, <1>2, TypedIs, TypedIsNext DEF ReactorInv, Typed, Event
<1>4. ReadInv' BY <1>2 DEF ReactorInv, ReadInv
<1>5. ConnInv'
  <2>1. ASSUME NEW f \in FD, conn[f] # NoClient PROVE cl'[conn[f]].st = "up"
    <3>1. cl[conn[f]].st = "up" /\ conn[f] \in Clients
      BY <2>1 DEF ReactorInv, ConnInv, TypeOK
    <3>. QED BY <1>2, <3>1
  <2>. QED BY <1>0, <2>1 DEF ReactorInv, ConnInv, FD, NoClient
<1>6. InTree' /\ BatchIsFresh' /\ LoopInv'
  BY <1>0 DEF ReactorInv, InTree, BatchIsFresh, LoopInv, Matches, Slots, FD, Listener, NoClient
<1>. QED BY <1>3, <1>4, <1>5, <1>6 DEF ReactorInv

(* So does the clock, which changes ages only. *)
LEMMA TickKeeps ==
  ASSUME ReactorInv, Tick
  PROVE  ReactorInv'
<1>0. /\ epoll' = epoll /\ conn' = conn /\ loop' = loop
      /\ checkpos' = checkpos /\ batch' = batch /\ alive' = alive
      /\ g_events' = [s \in Slots |-> [g_events[s] EXCEPT !.age = Older(@)]]
      /\ cl' = cl
  BY DEF Tick
<1>1. ASSUME NEW a \in Ages PROVE Older(a) \in Ages
  BY SizesAssumption DEF Ages, Older
<1>2. ASSUME NEW s \in Slots
      PROVE  /\ g_events'[s] \in Node /\ g_events'[s].fd = g_events[s].fd
             /\ g_events'[s].events = g_events[s].events
             /\ g_events'[s].call_back = g_events[s].call_back
             /\ g_events'[s].status = g_events[s].status
  <2>1. g_events[s] \in Node BY TypedIs DEF ReactorInv, Typed, Table
  <2>2. Older(g_events[s].age) \in Ages BY <1>1, <2>1 DEF Node
  <2>3. g_events'[s] = [g_events[s] EXCEPT !.age = Older(g_events[s].age)] BY <1>0
  <2>. QED BY <2>1, <2>2, <2>3 DEF Node
<1>3. cl \in [Clients -> Peer] BY TypedIs DEF ReactorInv, Typed
<1>4. g_events' \in Table /\ cl' \in [Clients -> Peer] BY <1>0, <1>2, <1>3 DEF Table
<1>5. TypeOK' BY <1>0, <1>4, TypedIs, TypedIsNext DEF ReactorInv, Typed, Event
<1>6. ReadInv' BY <1>0 DEF ReactorInv, ReadInv
<1>7. ConnInv' BY <1>0 DEF ReactorInv, ConnInv
<1>8. InTree'
  <2>1. ASSUME NEW t \in Slots, g_events'[t].status = 1
        PROVE  /\ g_events'[t].fd \in FD
               /\ epoll'[g_events'[t].fd].slot = t
               /\ epoll'[g_events'[t].fd].events = g_events'[t].events
               /\ conn'[g_events'[t].fd] # NoClient
               /\ g_events'[t].call_back
                    = IF g_events'[t].events = "in" THEN "recvdata" ELSE "senddata"
    BY <1>0, <1>2, <2>1 DEF ReactorInv, InTree
  <2>2. ASSUME NEW f \in FD, epoll'[f].slot # Listener \/ epoll'[f].events # "none"
        PROVE  /\ epoll'[f].slot \in Slots
               /\ g_events'[epoll'[f].slot].fd = f /\ g_events'[epoll'[f].slot].status = 1
    BY <1>0, <1>2, <2>2 DEF ReactorInv, InTree
  <2>. QED BY <2>1, <2>2 DEF InTree, Slots, FD, Listener, NoClient
<1>9. BatchIsFresh'
  <2>1. ASSUME NEW d \in batch', d.slot # Listener
        PROVE  /\ g_events'[d.slot].status = 1 /\ d.events = g_events'[d.slot].events
               /\ conn'[g_events'[d.slot].fd] = d.client
    <3>1. d \in batch BY <1>0
    <3>2. d.slot \in Slots BY <2>1, <3>1, SizesAssumption
            DEF ReactorInv, TypeOK, Event, Slots, Listener
    <3>3. /\ g_events[d.slot].status = 1 /\ d.events = g_events[d.slot].events
          /\ conn[g_events[d.slot].fd] = d.client
      BY <2>1, <3>1 DEF ReactorInv, BatchIsFresh, Matches
    <3>. QED BY <1>0, <1>2, <3>2, <3>3
  <2>. QED BY <2>1 DEF BatchIsFresh, Matches, Listener
<1>10. LoopInv' BY <1>0 DEF ReactorInv, LoopInv
<1>. QED BY <1>5, <1>6, <1>7, <1>8, <1>9, <1>10 DEF ReactorInv

(* The loop's own variables after an event has been handled. *)
LEMMA HandledIs ==
  ASSUME ReactorInv, NEW e, Handled(e)
  PROVE  /\ batch' \subseteq batch /\ batch' \subseteq Event
         /\ loop' \in {"scan", "wait", "handle"} /\ checkpos' = checkpos /\ LoopInv'
         /\ e \in Event
<1>1. batch' = batch \ {e} /\ checkpos' = checkpos /\ e \in batch
      /\ loop' = IF batch = {e} THEN "scan" ELSE "handle"
  BY DEF Handled
<1>2. batch \subseteq Event BY DEF ReactorInv, TypeOK
<1>. QED BY <1>1, <1>2 DEF LoopInv

(* The tables after acceptconn has found a free node. *)
LEMMA AcceptNode ==
  ASSUME ReactorInv, NEW c \in Backlog, NEW fd \in FD, conn[fd] = NoClient,
         conn' = [conn EXCEPT ![fd] = c], cl' = [cl EXCEPT ![c].st = "up"],
         NEW i \in Slots, g_events[i].status = 0,
         Becomes(eventadd(eventset(Tree, i, fd, "recvdata"), i, "in"))
  PROVE  NodeSet(i, fd, "in", "recvdata", g_events[i].buf)
<1>. DEFINE st == eventadd(eventset(Tables(g_events, epoll), i, fd, "recvdata"), i, "in")
<1>0. epoll[fd] = Free BY AcceptConns
<1>1. g_events \in Table /\ epoll \in Kernel BY TypedIs DEF ReactorInv, Typed
<1>2. "in" \in Events /\ "recvdata" \in Callback BY DEF Events, Callback
<1>3. Registers(g_events, epoll, st, i, fd, "in", "recvdata", g_events[i].buf)
  BY <1>0, <1>1, <1>2, AcceptIs
<1>4. g_events' = st.ev /\ epoll' = st.ep BY DEF Becomes, Tree, Tables
<1>. HIDE DEF st
<1>. QED BY <1>3, <1>4 DEF Registers, NodeSet

(* acceptconn in its three outcomes. *)
LEMMA AcceptSafe ==
  ASSUME ReactorInv, NEW e, AcceptFails(e) \/ AcceptLimit(e) \/ acceptconn(e)
  PROVE  ReactorInv'
<1>. DEFINE fd == Smallest(ClosedFds)
<1>0. Handled(e) /\ alive' = alive BY DEF AcceptFails, AcceptLimit, acceptconn
<1>1. /\ batch' \subseteq batch /\ batch' \subseteq Event /\ LoopInv'
      /\ loop' \in {"scan", "wait", "handle"} /\ checkpos' = checkpos
  BY <1>0, HandledIs
<1>2. Typed BY TypedIs DEF ReactorInv
<1>3. CASE AcceptFails(e)
  <2>1. g_events' = g_events /\ epoll' = epoll /\ conn' = conn /\ cl' = cl
    BY <1>3 DEF AcceptFails
  <2>2. TypeOK' BY <1>0, <1>1, <1>2, <2>1, TypedIsNext DEF Typed, Event
  <2>3. InTree' /\ ConnInv' /\ ReadInv'
    BY <2>1 DEF ReactorInv, InTree, ConnInv, ReadInv, Slots, FD, Listener, NoClient
  <2>4. BatchIsFresh' BY <1>1, <2>1 DEF ReactorInv, BatchIsFresh, Matches, Listener
  <2>. QED BY <1>1, <2>2, <2>3, <2>4 DEF ReactorInv
<1>4. ASSUME NEW c \in Backlog, fd \in FD,
             conn' = [conn EXCEPT ![fd] = c], cl' = [cl EXCEPT ![c].st = "up"]
      PROVE  /\ conn' \in [FD -> Clients \cup {NoClient}] /\ cl' \in [Clients -> Peer]
             /\ ReadInv'
  <2>0. c \in Clients BY DEF Backlog
  <2>1. conn' \in [FD -> Clients \cup {NoClient}] BY <1>2, <1>4, <2>0 DEF Typed
  <2>2. "up" \in ClientState BY DEF ClientState
  <2>3. cl' \in [Clients -> Peer] BY <1>2, <1>4, <2>0, <2>2 DEF Typed, Peer
  <2>4. \A d \in Clients : cl'[d].read = cl[d].read /\ cl'[d].sent = cl[d].sent
    BY <1>2, <1>4, <2>0 DEF Typed, Peer
  <2>5. ReadInv' BY <2>4 DEF ReactorInv, ReadInv
  <2>. QED BY <2>1, <2>3, <2>5
<1>5. ASSUME ClosedFds # {} PROVE fd \in FD /\ conn[fd] = NoClient
  <2>1. ClosedFds \subseteq Nat /\ ClosedFds \subseteq FD
    BY SizesAssumption DEF ClosedFds, FD
  <2>2. fd \in ClosedFds BY <1>5, <2>1, SmallestIs
  <2>. QED BY <2>2 DEF ClosedFds
<1>6. CASE AcceptLimit(e)
  <2>0. ClosedFds # {} /\ g_events' = g_events /\ epoll' = epoll BY <1>6 DEF AcceptLimit
  <2>1. PICK c \in Backlog : /\ conn' = [conn EXCEPT ![fd] = c]
                             /\ cl' = [cl EXCEPT ![c].st = "up"]
    BY <1>6 DEF AcceptLimit
  <2>2. fd \in FD /\ conn[fd] = NoClient BY <1>5, <2>0
  <2>. HIDE DEF fd
  <2>3. /\ conn' \in [FD -> Clients \cup {NoClient}] /\ cl' \in [Clients -> Peer] /\ ReadInv'
    BY <1>4, <2>1, <2>2
  <2>4. TypeOK' BY <1>0, <1>1, <1>2, <2>0, <2>3, TypedIsNext DEF Typed, Event
  <2>5. InTree' /\ BatchIsFresh' /\ ConnInv' BY <1>0, <2>0, <2>1, <2>2, LimitKeeps
  <2>. QED BY <1>1, <2>3, <2>4, <2>5 DEF ReactorInv
<1>7. CASE acceptconn(e)
  <2>. DEFINE i == Smallest(Unregistered)
  <2>0. ClosedFds # {} /\ Unregistered # {} BY <1>7 DEF acceptconn
  <2>1. PICK c \in Backlog :
          /\ conn' = [conn EXCEPT ![fd] = c] /\ cl' = [cl EXCEPT ![c].st = "up"]
          /\ Becomes(eventadd(eventset(Tree, i, fd, "recvdata"), i, "in"))
    BY <1>7 DEF acceptconn
  <2>2. fd \in FD /\ conn[fd] = NoClient BY <1>5, <2>0
  <2>3. i \in Slots /\ g_events[i].status = 0
    <3>1. Unregistered \subseteq Nat BY SizesAssumption DEF Unregistered, Slots
    <3>2. i \in Unregistered BY <2>0, <3>1, SmallestIs
    <3>. QED BY <3>2 DEF Unregistered
  <2>. HIDE DEF fd, i
  <2>5. NodeSet(i, fd, "in", "recvdata", g_events[i].buf)
    BY <2>1, <2>2, <2>3, AcceptNode
  <2>6. /\ conn' \in [FD -> Clients \cup {NoClient}] /\ cl' \in [Clients -> Peer] /\ ReadInv'
    BY <1>4, <2>1, <2>2
  <2>7. TypeOK' BY <1>0, <1>1, <1>2, <2>5, <2>6, TypedIsNext DEF Typed, Event, NodeSet
  <2>8. InTree' /\ BatchIsFresh' /\ ConnInv'
    BY <1>0, <2>1, <2>2, <2>3, <2>5, AcceptKeeps
  <2>. QED BY <1>1, <2>6, <2>7, <2>8 DEF ReactorInv
<1>. QED BY <1>3, <1>6, <1>7

(* The tables after recvdata. *)
LEMMA RecvNode ==
  ASSUME ReactorInv, NEW e, recvdata(e)
  PROVE  NodeSet(e.slot, g_events[e.slot].fd, "out", "senddata", Received(Owner(e)))
<1>. DEFINE s == e.slot  c == Owner(e)
            st == eventadd(Filled(eventset(eventdel(Tables(g_events, epoll), s), s,
                                           g_events[s].fd, "senddata"),
                                  s, Received(c)), s, "out")
<1>0. s \in Slots /\ g_events[s].status = 1 /\ g_events[s].fd \in FD /\ c \in Clients
  BY CalledIs DEF recvdata
<1>1. g_events \in Table /\ epoll \in Kernel BY TypedIs DEF ReactorInv, Typed
<1>2. "out" \in Events /\ "senddata" \in Callback BY DEF Events, Callback
<1>3. Received(c) \in Bufs BY <1>0, ReceivedIs
<1>4. Registers(g_events, epoll, st, s, g_events[s].fd, "out", "senddata", Received(c))
  BY <1>0, <1>1, <1>2, <1>3, RecvIs
<1>5. Becomes(st) BY DEF recvdata, Filled, Tree, Tables
<1>. HIDE DEF st
<1>. QED BY <1>4, <1>5 DEF Becomes, Registers, NodeSet

(* The tables after senddata. *)
LEMMA SendNode ==
  ASSUME ReactorInv, NEW e, senddata(e)
  PROVE  NodeSet(e.slot, g_events[e.slot].fd, "in", "recvdata", g_events[e.slot].buf)
<1>. DEFINE s == e.slot
            st == eventadd(eventset(eventdel(Tables(g_events, epoll), s), s,
                                    g_events[s].fd, "recvdata"), s, "in")
<1>0. s \in Slots /\ g_events[s].status = 1 /\ g_events[s].fd \in FD
  BY CalledIs DEF senddata
<1>1. g_events \in Table /\ epoll \in Kernel BY TypedIs DEF ReactorInv, Typed
<1>2. "in" \in Events /\ "recvdata" \in Callback BY DEF Events, Callback
<1>3. Registers(g_events, epoll, st, s, g_events[s].fd, "in", "recvdata", g_events[s].buf)
  BY <1>0, <1>1, <1>2, SendIs
<1>4. Becomes(st) BY DEF senddata, Tree, Tables
<1>. HIDE DEF st
<1>. QED BY <1>3, <1>4 DEF Becomes, Registers, NodeSet

(* The tables after either callback has ended its connection. *)
LEMMA DropNode ==
  ASSUME ReactorInv, NEW e, RecvClosed(e) \/ SendFails(e)
  PROVE  NodeOut(e.slot, g_events[e.slot].fd)
<1>. DEFINE s == e.slot  fd == g_events[s].fd
            st1 == close(eventdel(Tables(g_events, epoll), s), fd)
            st2 == eventdel(close(Tables(g_events, epoll), fd), s)
<1>0. s \in Slots /\ g_events[s].status = 1 /\ fd \in FD
  BY CalledIs DEF RecvClosed, SendFails
<1>1. g_events \in Table /\ epoll \in Kernel BY TypedIs DEF ReactorInv, Typed
<1>2. Removes(g_events, epoll, st1, s, fd) BY <1>0, <1>1, DelCloseIs
<1>3. Removes(g_events, epoll, st2, s, fd) BY <1>0, <1>1, CloseDelIs
<1>4. Becomes(st1) \/ Becomes(st2) BY DEF RecvClosed, SendFails, Drop, Tree, Tables
<1>. HIDE DEF st1, st2
<1>. QED BY <1>2, <1>3, <1>4 DEF Becomes, Removes, NodeOut, Free

(* recvdata when there is data. *)
LEMMA RecvSafe ==
  ASSUME ReactorInv, NEW e, recvdata(e)
  PROVE  ReactorInv'
<1>. DEFINE s == e.slot  c == Owner(e)  n == Len(Received(c))
<1>0. Called(e, "recvdata") /\ Handled(e) /\ conn' = conn /\ alive' = alive
  BY DEF recvdata, Called
<1>1. /\ batch' \subseteq batch /\ batch' \subseteq Event /\ LoopInv'
      /\ loop' \in {"scan", "wait", "handle"} /\ checkpos' = checkpos
  BY <1>0, HandledIs
<1>2. c \in Clients /\ cl[c].st = "up" BY <1>0, CalledIs
<1>3. NodeSet(s, g_events[s].fd, "out", "senddata", Received(c)) BY RecvNode
<1>4. cl' = [cl EXCEPT ![c].read = @ + n] BY DEF recvdata
<1>5. n \in Nat /\ cl[c].read + n <= cl[c].sent BY <1>2, ReceivedIs
<1>6. cl \in [Clients -> Peer] BY TypedIs DEF ReactorInv, Typed
<1>. HIDE DEF n, c
<1>7. cl[c].read + n \in Counts
  <2>1. cl[c].read \in Counts /\ cl[c].sent \in Counts BY <1>2, <1>6 DEF Peer
  <2>. QED BY <1>5, <2>1, SizesAssumption DEF Counts
<1>8. cl' \in [Clients -> Peer] BY <1>2, <1>4, <1>6, <1>7 DEF Peer
<1>9. /\ \A d \in Clients : cl'[d].st = cl[d].st /\ cl'[d].sent = cl[d].sent
      /\ \A d \in Clients : d # c => cl'[d] = cl[d]
      /\ cl'[c].read = cl[c].read + n
  BY <1>2, <1>4, <1>6 DEF Peer
<1>10. ReadInv' BY <1>2, <1>5, <1>9 DEF ReactorInv, ReadInv
<1>11. ConnInv'
  <2>1. \A f \in FD : conn[f] # NoClient => conn[f] \in Clients BY DEF ReactorInv, TypeOK
  <2>. QED BY <1>0, <1>9, <2>1 DEF ReactorInv, ConnInv, FD, NoClient
<1>12. TypeOK'
  <2>1. Typed BY TypedIs DEF ReactorInv
  <2>. QED BY <1>0, <1>1, <1>3, <1>8, <2>1, TypedIsNext DEF Typed, Event, NodeSet
<1>13. InTree' /\ BatchIsFresh' BY <1>0, <1>3, RearmKeeps
<1>. QED BY <1>1, <1>10, <1>11, <1>12, <1>13 DEF ReactorInv

(* The data that a send takes from the buffer, and what it leaves. *)
LEMMA SentIs ==
  ASSUME NEW buf \in Bufs, NEW got \in Bufs, NEW n \in Written(buf)
  PROVE  /\ got \o SubSeq(buf, 1, n) \in Bufs
         /\ UnitsOf(SubSeq(buf, n + 1, Len(buf))) \in Lost
         /\ n \in 0 .. Len(buf)
<1>1. n \in 0 .. Len(buf) BY DEF Written, Bufs
<1>2. SubSeq(buf, 1, n) \in Seq(Unit) /\ SubSeq(buf, n + 1, Len(buf)) \in Seq(Unit)
  BY <1>1 DEF Bufs
<1>. DEFINE rest == SubSeq(buf, n + 1, Len(buf))
<1>3. rest \in Seq(Unit) BY <1>2
<1>. HIDE DEF rest
<1>4. \A i \in DOMAIN rest : rest[i] \in Unit BY <1>3
<1>5. UnitsOf(rest) \in Lost BY <1>4 DEF UnitsOf, Lost, Unit
<1>6. UnitsOf(SubSeq(buf, n + 1, Len(buf))) \in Lost BY <1>5 DEF rest
<1>. QED BY <1>1, <1>2, <1>6 DEF Bufs

(* senddata when the connection takes the data. *)
LEMMA SendSafe ==
  ASSUME ReactorInv, NEW e, senddata(e)
  PROVE  ReactorInv'
<1>. DEFINE s == e.slot  c == Owner(e)  buf == g_events[s].buf
<1>0. Called(e, "senddata") /\ Handled(e) /\ conn' = conn /\ alive' = alive
  BY DEF senddata, Called
<1>1. /\ batch' \subseteq batch /\ batch' \subseteq Event /\ LoopInv'
      /\ loop' \in {"scan", "wait", "handle"} /\ checkpos' = checkpos
  BY <1>0, HandledIs
<1>2. c \in Clients /\ s \in Slots BY <1>0, CalledIs
<1>3. NodeSet(s, g_events[s].fd, "in", "recvdata", buf) BY SendNode
<1>4. PICK n \in Written(buf) :
        cl' = [cl EXCEPT ![c].got = @ \o SubSeq(buf, 1, n),
                         ![c].dropped = @ \cup UnitsOf(SubSeq(buf, n + 1, Len(buf)))]
  BY DEF senddata
<1>5. Typed BY TypedIs DEF ReactorInv
<1>6. buf \in Bufs /\ cl \in [Clients -> Peer] BY <1>2, <1>5 DEF Typed, Table, Node
<1>. DEFINE sent == cl[c].got \o SubSeq(buf, 1, n)
            lost == cl[c].dropped \cup UnitsOf(SubSeq(buf, n + 1, Len(buf)))
<1>7. sent \in Bufs /\ lost \in Lost
  <2>1. cl[c].got \in Bufs /\ cl[c].dropped \in Lost BY <1>2, <1>6 DEF Peer
  <2>2. sent \in Bufs /\ UnitsOf(SubSeq(buf, n + 1, Len(buf))) \in Lost
    BY <1>6, <2>1, SentIs
  <2>. QED BY <2>1, <2>2 DEF Lost
<1>8. cl' = [cl EXCEPT ![c].got = sent, ![c].dropped = lost] BY <1>4
<1>. HIDE DEF sent, lost, c
<1>9. cl' \in [Clients -> Peer] BY <1>2, <1>6, <1>7, <1>8 DEF Peer
<1>10. \A d \in Clients : /\ cl'[d].st = cl[d].st /\ cl'[d].sent = cl[d].sent
                           /\ cl'[d].read = cl[d].read
  BY <1>2, <1>6, <1>8 DEF Peer
<1>11. ReadInv' BY <1>10 DEF ReactorInv, ReadInv
<1>12. ConnInv'
  <2>1. \A f \in FD : conn[f] # NoClient => conn[f] \in Clients BY DEF ReactorInv, TypeOK
  <2>. QED BY <1>0, <1>10, <2>1 DEF ReactorInv, ConnInv, FD, NoClient
<1>13. TypeOK'
  BY <1>0, <1>1, <1>3, <1>5, <1>9, TypedIsNext DEF Typed, Event, NodeSet
<1>14. InTree' /\ BatchIsFresh' BY <1>0, <1>3, RearmKeeps
<1>. QED BY <1>1, <1>11, <1>12, <1>13, <1>14 DEF ReactorInv

(* The callbacks that end their connection. *)
LEMMA DropSafe ==
  ASSUME ReactorInv, NEW e, RecvClosed(e) \/ SendFails(e)
  PROVE  ReactorInv'
<1>. DEFINE s == e.slot  c == Owner(e)  fd == g_events[s].fd
<1>0. (Called(e, "recvdata") \/ Called(e, "senddata")) /\ Handled(e) /\ alive' = alive
  BY DEF RecvClosed, SendFails, Called, Drop
<1>1. /\ batch' \subseteq batch /\ batch' \subseteq Event /\ LoopInv'
      /\ loop' \in {"scan", "wait", "handle"} /\ checkpos' = checkpos
  BY <1>0, HandledIs
<1>2. c \in Clients /\ s \in Slots /\ fd \in FD BY <1>0, CalledIs
<1>3. NodeOut(s, fd) BY DropNode
<1>4. conn' = [conn EXCEPT ![fd] = NoClient] /\ cl' = [cl EXCEPT ![c].st = "down"]
  BY DEF RecvClosed, SendFails, Drop
<1>5. Typed BY TypedIs DEF ReactorInv
<1>6. InTree' /\ BatchIsFresh' /\ ConnInv' BY <1>0, <1>3, <1>4, DropKeeps
<1>. HIDE DEF c, fd
<1>7. conn' \in [FD -> Clients \cup {NoClient}] BY <1>2, <1>4, <1>5 DEF Typed
<1>8. "down" \in ClientState BY DEF ClientState
<1>9. cl' \in [Clients -> Peer] BY <1>2, <1>4, <1>5, <1>8 DEF Typed, Peer
<1>10. \A d \in Clients : cl'[d].sent = cl[d].sent /\ cl'[d].read = cl[d].read
  BY <1>2, <1>4, <1>5 DEF Typed, Peer
<1>11. ReadInv' BY <1>10 DEF ReactorInv, ReadInv
<1>12. TypeOK'
  BY <1>0, <1>1, <1>3, <1>5, <1>7, <1>9, TypedIsNext DEF Typed, Event, NodeOut
<1>. QED BY <1>1, <1>6, <1>11, <1>12 DEF ReactorInv

(* SIGPIPE ends the process in the middle of the array. *)
LEMMA KilledSafe ==
  ASSUME ReactorInv, NEW e, SendKilled(e)
  PROVE  ReactorInv'
<1>0. /\ Handled(e) /\ alive' = FALSE /\ g_events' = g_events /\ epoll' = epoll
      /\ conn' = conn /\ cl' = cl
  BY DEF SendKilled, Called
<1>1. /\ batch' \subseteq batch /\ batch' \subseteq Event /\ LoopInv'
      /\ loop' \in {"scan", "wait", "handle"} /\ checkpos' = checkpos
  BY <1>0, HandledIs
<1>2. Typed BY TypedIs DEF ReactorInv
<1>3. TypeOK' BY <1>0, <1>1, <1>2, TypedIsNext DEF Typed, Event
<1>4. InTree' /\ ConnInv' /\ ReadInv'
  BY <1>0 DEF ReactorInv, InTree, ConnInv, ReadInv, Slots, FD, Listener, NoClient
<1>5. BatchIsFresh' BY <1>0, <1>1 DEF ReactorInv, BatchIsFresh, Matches, Listener
<1>. QED BY <1>1, <1>3, <1>4, <1>5 DEF ReactorInv

(* main's own steps: the inactivity test and epoll_wait. *)
LEMMA MainSafe ==
  ASSUME ReactorInv, Scan \/ EpollWait \/ EpollWaitFails
  PROVE  ReactorInv'
<1>0. Typed BY TypedIs DEF ReactorInv
<1>1. CASE Scan
  <2>. DEFINE fds == {g_events[s].fd : s \in Expired}
  <2>1. /\ conn' = [fd \in FD |-> IF fd \in fds THEN NoClient ELSE conn[fd]]
        /\ epoll' = [fd \in FD |-> IF fd \in fds THEN Free ELSE epoll[fd]]
        /\ cl' = [c \in Clients |->
                    IF \E fd \in fds : conn[fd] = c THEN [cl[c] EXCEPT !.st = "down"]
                    ELSE cl[c]]
        /\ g_events' = [s \in Slots |-> IF s \in Expired THEN [g_events[s] EXCEPT !.status = 0]
                                         ELSE g_events[s]]
        /\ batch' = batch /\ loop = "scan" /\ loop' = "wait" /\ alive' = alive
        /\ checkpos' = NextCheckpos
    BY <1>1 DEF Scan
  <2>. HIDE DEF fds
  <2>2. InTree' /\ BatchIsFresh' /\ ConnInv' BY <1>1, ScanKeeps
  <2>3. conn' \in [FD -> Clients \cup {NoClient}] /\ epoll' \in Kernel
    BY <1>0, <2>1, FreeIsReg DEF Typed, Kernel
  <2>4. ASSUME NEW c \in Clients
        PROVE  cl'[c] \in Peer /\ cl'[c].sent = cl[c].sent /\ cl'[c].read = cl[c].read
    <3>1. cl[c] \in Peer /\ "down" \in ClientState BY <1>0 DEF Typed, ClientState
    <3>2. cl'[c] = [cl[c] EXCEPT !.st = "down"] \/ cl'[c] = cl[c] BY <2>1
    <3>. QED BY <3>1, <3>2 DEF Peer
  <2>5. ASSUME NEW s \in Slots PROVE g_events'[s] \in Node
    <3>1. g_events[s] \in Node /\ 0 \in Bits BY <1>0 DEF Typed, Table, Bits
    <3>2. g_events'[s] = [g_events[s] EXCEPT !.status = 0] \/ g_events'[s] = g_events[s]
      BY <2>1
    <3>. QED BY <3>1, <3>2 DEF Node
  <2>6. g_events' \in Table /\ cl' \in [Clients -> Peer] BY <2>1, <2>4, <2>5 DEF Table
  <2>7. checkpos' \in Places
    <3>1. checkpos + ScanStep - 1 \in Int /\ MaxEvents \in Nat \ {0}
      BY <1>0, SizesAssumption DEF Typed, Places
    <3>2. (checkpos + ScanStep - 1) % MaxEvents \in 0 .. MaxEvents - 1 BY <3>1
    <3>. QED BY <2>1, <3>1, <3>2 DEF NextCheckpos, Places
  <2>8. ReadInv' BY <2>4 DEF ReactorInv, ReadInv
  <2>9. LoopInv' BY <2>1 DEF ReactorInv, LoopInv
  <2>10. TypeOK' BY <1>0, <2>1, <2>3, <2>6, <2>7, TypedIsNext DEF Typed, Event
  <2>. QED BY <2>2, <2>8, <2>9, <2>10 DEF ReactorInv
<1>2. CASE EpollWait
  <2>1. /\ batch' = Ready /\ loop' = (IF Ready = {} THEN "scan" ELSE "handle")
        /\ g_events' = g_events /\ epoll' = epoll /\ conn' = conn /\ cl' = cl
        /\ checkpos' = checkpos /\ alive' = alive
    BY <1>2 DEF EpollWait
  <2>2. batch' \subseteq Event /\ BatchIsFresh' BY <1>2, WaitKeeps
  <2>3. LoopInv' BY <2>1 DEF LoopInv
  <2>4. TypeOK' BY <1>0, <2>1, <2>2, TypedIsNext DEF Typed, Event
  <2>5. InTree' /\ ConnInv' /\ ReadInv'
    BY <2>1 DEF ReactorInv, InTree, ConnInv, ReadInv, Slots, FD, Listener, NoClient
  <2>. QED BY <2>2, <2>3, <2>4, <2>5 DEF ReactorInv
<1>3. CASE EpollWaitFails
  <2>1. /\ batch' = batch /\ loop' = loop
        /\ g_events' = g_events /\ epoll' = epoll /\ conn' = conn /\ cl' = cl
        /\ checkpos' = checkpos /\ alive' = FALSE
    BY <1>3 DEF EpollWaitFails
  <2>2. TypeOK' BY <1>0, <2>1, TypedIsNext DEF Typed, Event
  <2>3. InTree' /\ ConnInv' /\ ReadInv' /\ LoopInv' /\ BatchIsFresh'
    BY <2>1 DEF ReactorInv, InTree, ConnInv, ReadInv, LoopInv, BatchIsFresh, Matches,
                Slots, FD, Listener, NoClient
  <2>. QED BY <2>2, <2>3 DEF ReactorInv
<1>. QED BY <1>1, <1>2, <1>3

(* The invariant holds when main has filled its tables. *)
LEMMA ReactorInit == Init => ReactorInv
<1>. SUFFICES ASSUME Init PROVE ReactorInv OBVIOUS
<1>1. NewSlot \in Node /\ NewClient \in Peer
  <2>1. /\ 0 \in Fds /\ "none" \in Events /\ "none" \in Callback /\ 0 \in Bits
        /\ <<>> \in Bufs /\ 0 \in Ages
    BY SizesAssumption DEF Fds, Events, Callback, Bits, Bufs, Ages
  <2>2. "new" \in ClientState /\ 0 \in Counts /\ {} \in Lost
    BY SizesAssumption DEF ClientState, Counts, Lost
  <2>. QED BY <2>1, <2>2 DEF NewSlot, NewClient, Node, Peer
<1>2. /\ g_events = [s \in Slots |-> NewSlot] /\ epoll = [fd \in FD |-> Free]
      /\ conn = [fd \in FD |-> NoClient] /\ cl = [c \in Clients |-> NewClient]
      /\ loop = "scan" /\ checkpos = 0 /\ batch = {} /\ alive = TRUE
  BY DEF Init
<1>3. TypeOK
  <2>1. checkpos \in Places BY <1>2, SizesAssumption DEF Places
  <2>2. /\ g_events \in Table /\ epoll \in Kernel /\ cl \in [Clients -> Peer]
        /\ conn \in [FD -> Clients \cup {NoClient}]
    BY <1>1, <1>2, FreeIsReg DEF Table, Kernel
  <2>. QED BY <1>2, <2>1, <2>2, TypedIs DEF Typed
<1>4. ConnInv /\ LoopInv /\ BatchIsFresh BY <1>2 DEF ConnInv, LoopInv, BatchIsFresh
<1>5. InTree BY <1>2 DEF InTree, NewSlot, Free
<1>6. ReadInv BY <1>2 DEF ReadInv, NewClient
<1>. QED BY <1>3, <1>4, <1>5, <1>6 DEF ReactorInv

(* And no step disturbs it. *)
LEMMA ReactorStep == ReactorInv /\ [Next]_vars => ReactorInv'
<1>. SUFFICES ASSUME ReactorInv, [Next]_vars PROVE ReactorInv' OBVIOUS
<1>1. CASE Scan \/ EpollWait \/ EpollWaitFails BY <1>1, MainSafe
<1>2. CASE Dispatch
  <2>1. PICK e \in batch :
          \/ AcceptFails(e) \/ AcceptLimit(e) \/ acceptconn(e)
          \/ recvdata(e) \/ RecvClosed(e) \/ senddata(e) \/ SendFails(e) \/ SendKilled(e)
    BY <1>2 DEF Dispatch
  <2>. QED BY <2>1, AcceptSafe, RecvSafe, SendSafe, DropSafe, KilledSafe
<1>3. CASE \E c \in Clients : Connect(c) \/ Send(c) \/ StopReading(c) \/ Close(c) \/ Reset(c)
  BY <1>3, ClientKeeps
<1>4. CASE Tick BY <1>4, TickKeeps
<1>5. CASE UNCHANGED vars
  <2>1. TypeOK' BY <1>5, TypedIs, TypedIsNext DEF vars, Typed, ReactorInv, Event
  <2>2. InTree' /\ ConnInv' /\ ReadInv' /\ LoopInv' /\ BatchIsFresh'
    BY <1>5 DEF vars, ReactorInv, InTree, ConnInv, ReadInv, LoopInv, BatchIsFresh, Matches,
                Slots, FD, Listener, NoClient
  <2>. QED BY <2>1, <2>2 DEF ReactorInv
<1>. QED BY <1>1, <1>2, <1>3, <1>4, <1>5 DEF Next

(* The reactor's tables, tree, connections and array of events agree in     *)
(* every state of epoll_loop.c's main.                                      *)
THEOREM ReactorSafe == Spec => []ReactorInv
BY ReactorInit, ReactorStep, PTL DEF Spec

(* Every variable keeps its type. *)
THEOREM ReactorTyped == Spec => []TypeOK
<1>1. ReactorInv => TypeOK BY DEF ReactorInv
<1>. QED BY <1>1, ReactorSafe, PTL

(* A node's status says whether its descriptor is in epoll's tree, for that *)
(* node and the events and callback it has; nothing else is in the tree.    *)
THEOREM ReactorTree == Spec => []StatusIsInTree
<1>1. ReactorInv => StatusIsInTree
  <2>. SUFFICES ASSUME ReactorInv PROVE StatusIsInTree OBVIOUS
  <2>0. epoll \in Kernel /\ InTree BY TypedIs DEF ReactorInv, Typed
  <2>1. ASSUME NEW s \in Slots, g_events[s].status = 1
        PROVE  epoll[g_events[s].fd] = [slot |-> s, events |-> g_events[s].events]
    <3>1. /\ g_events[s].fd \in FD /\ epoll[g_events[s].fd].slot = s
          /\ epoll[g_events[s].fd].events = g_events[s].events
      BY <2>0, <2>1 DEF InTree
    <3>2. epoll[g_events[s].fd] \in Reg BY <2>0, <3>1 DEF Kernel
    <3>. QED BY <3>1, <3>2 DEF Reg
  <2>2. ASSUME NEW fd \in FD, epoll[fd] # Free
        PROVE  epoll[fd].slot # Listener \/ epoll[fd].events # "none"
    <3>1. epoll[fd] \in Reg BY <2>0 DEF Kernel
    <3>. QED BY <2>2, <3>1 DEF Reg, Free
  <2>. QED BY <2>0, <2>1, <2>2 DEF StatusIsInTree, InTree
<1>. QED BY <1>1, ReactorSafe, PTL

(* An event kept in the array while earlier ones are handled is still one   *)
(* its node waits for, from the connection it was reported for.             *)
THEOREM ReactorFresh == Spec => []BatchIsFresh
<1>1. ReactorInv => BatchIsFresh BY DEF ReactorInv
<1>. QED BY <1>1, ReactorSafe, PTL
-----------------------------------------------------------------------------
-----------------------------------------------------------------------------
(* The echo.  EchoInv is inductive together with ReactorInv. *)

(* A connection has one node. *)
LEMMA OneNode ==
  ASSUME ReactorInv, NEW s \in Slots, NEW t \in Slots,
         g_events[s].status = 1, g_events[t].status = 1,
         conn[g_events[s].fd] = conn[g_events[t].fd]
  PROVE  s = t
<1>1. /\ g_events[s].fd \in FD /\ epoll[g_events[s].fd].slot = s
      /\ g_events[t].fd \in FD /\ epoll[g_events[t].fd].slot = t
      /\ conn[g_events[s].fd] # NoClient
  BY DEF ReactorInv, InTree
<1>2. g_events[s].fd = g_events[t].fd BY <1>1 DEF ReactorInv, ConnInv
<1>. QED BY <1>1, <1>2

(* A step that leaves a client's data and the buffer that answers it alone. *)
LEMMA EchoFrame ==
  ASSUME NEW c \in Clients, EchoOf(c),
         cl'[c].got = cl[c].got, cl'[c].dropped = cl[c].dropped, cl'[c].read = cl[c].read,
         \/ cl'[c].st = cl[c].st \/ cl'[c].st = "down"
         \/ cl[c].st \in {"new", "backlog"} /\ cl'[c].st \in {"backlog", "up"},
         \A s \in Answering(c)' : s \in Answering(c) /\ g_events'[s].buf = g_events[s].buf,
         cl'[c].st = "up" => Answering(c) \subseteq Answering(c)'
  PROVE  EchoOf(c)'
<1>1. cl'[c].st \in {"new", "backlog"} => cl[c].st \in {"new", "backlog"} OBVIOUS
<1>2. ASSUME cl'[c].st = "up", Answering(c)' = {}
      PROVE  UnitsOf(cl[c].got) \cup cl[c].dropped = 1 .. cl[c].read
  <2>1. Answering(c) = {} BY <1>2
  <2>2. CASE cl[c].st = "up" BY <2>1, <2>2 DEF EchoOf
  <2>3. CASE cl[c].st # "up"
    <3>1. cl[c].read = 0 /\ cl[c].got = <<>> /\ cl[c].dropped = {}
      BY <1>2, <2>3 DEF EchoOf
    <3>. QED BY <3>1 DEF UnitsOf
  <2>. QED BY <2>2, <2>3
<1>3. cl'[c].st \in {"new", "backlog"} =>
        cl[c].read = 0 /\ cl[c].got = <<>> /\ cl[c].dropped = {}
  BY <1>1 DEF EchoOf
<1>. QED BY <1>2, <1>3 DEF EchoOf, UnitsOf

(* A client whose record keeps its data and its state, and whose node is    *)
(* not touched.                                                             *)
LEMMA EchoSame ==
  ASSUME NEW c \in Clients, EchoOf(c),
         cl'[c].got = cl[c].got, cl'[c].dropped = cl[c].dropped, cl'[c].read = cl[c].read,
         \/ cl'[c].st = cl[c].st
         \/ cl[c].st \in {"new", "backlog"} /\ cl'[c].st \in {"backlog", "up"},
         \A s \in Slots : s \in Answering(c)' <=> s \in Answering(c),
         \A s \in Answering(c) : g_events'[s].buf = g_events[s].buf
  PROVE  EchoOf(c)'
<1>1. Answering(c)' = Answering(c) BY DEF Answering, Slots
<1>. QED BY <1>1, EchoFrame

(* The clients' and the clock's steps. *)
LEMMA EchoOutside ==
  ASSUME ReactorInv, EchoInv,
         \/ \E c \in Clients : Connect(c) \/ Send(c) \/ StopReading(c) \/ Close(c) \/ Reset(c)
         \/ Tick
  PROVE  EchoInv'
<1>0. Typed BY TypedIs DEF ReactorInv
<1>1. ASSUME NEW d \in Clients
      PROVE  /\ cl'[d].got = cl[d].got /\ cl'[d].dropped = cl[d].dropped
             /\ cl'[d].read = cl[d].read
             /\ \/ cl'[d].st = cl[d].st
                \/ cl[d].st \in {"new", "backlog"} /\ cl'[d].st \in {"backlog", "up"}
  <2>0. cl \in [Clients -> Peer] /\ cl[d] \in Peer BY <1>0 DEF Typed
  <2>1. CASE Tick BY <2>0, <2>1 DEF Tick, Peer
  <2>2. ASSUME NEW c \in Clients,
               Connect(c) \/ Send(c) \/ StopReading(c) \/ Close(c) \/ Reset(c)
        PROVE  /\ cl'[d].got = cl[d].got /\ cl'[d].dropped = cl[d].dropped
               /\ cl'[d].read = cl[d].read
               /\ \/ cl'[d].st = cl[d].st
                  \/ cl[d].st \in {"new", "backlog"} /\ cl'[d].st \in {"backlog", "up"}
    <3>1. CASE Connect(c) BY <2>0, <3>1 DEF Connect, Peer
    <3>2. CASE Send(c) BY <2>0, <3>2 DEF Send, Peer
    <3>3. CASE StopReading(c) BY <2>0, <3>3 DEF StopReading, Peer
    <3>4. CASE Close(c) BY <2>0, <3>4 DEF Close, Peer
    <3>5. CASE Reset(c) BY <2>0, <3>5 DEF Reset, Peer
    <3>. QED BY <2>2, <3>1, <3>2, <3>3, <3>4, <3>5
  <2>. QED BY <2>1, <2>2
<1>2. conn' = conn BY DEF Connect, Send, StopReading, Close, Reset, Tick
<1>3. ASSUME NEW s \in Slots
      PROVE  /\ g_events'[s].status = g_events[s].status /\ g_events'[s].fd = g_events[s].fd
             /\ g_events'[s].call_back = g_events[s].call_back
             /\ g_events'[s].buf = g_events[s].buf
  <2>1. g_events[s] \in Node BY <1>0 DEF Typed, Table
  <2>2. CASE Tick BY <2>1, <2>2 DEF Tick, Node
  <2>3. CASE g_events' = g_events BY <2>3
  <2>. QED BY <2>2, <2>3 DEF Connect, Send, StopReading, Close, Reset
<1>4. ASSUME NEW d \in Clients PROVE EchoOf(d)'
  <2>1. \A s \in Slots : s \in Answering(d)' <=> s \in Answering(d)
    BY <1>2, <1>3 DEF Answering, Slots
  <2>2. \A s \in Answering(d) : g_events'[s].buf = g_events[s].buf
    BY <1>3 DEF Answering
  <2>3. EchoOf(d) BY DEF EchoInv
  <2>. QED BY <1>1, <2>1, <2>2, <2>3, EchoSame
<1>. QED BY <1>4 DEF EchoInv

(* Accepting a connection, into a node or not: it answers no one yet. *)
LEMMA EchoAccept ==
  ASSUME ReactorInv, EchoInv, NEW c \in Backlog, NEW fd \in FD, conn[fd] = NoClient,
         conn' = [conn EXCEPT ![fd] = c], cl' = [cl EXCEPT ![c].st = "up"],
         NEW i \in Slots, NEW buf,
         \/ g_events' = g_events /\ epoll' = epoll
         \/ g_events[i].status = 0 /\ NodeSet(i, fd, "in", "recvdata", buf)
  PROVE  EchoInv'
<1>0. Typed /\ c \in Clients /\ cl[c].st = "backlog" BY TypedIs DEF ReactorInv, Backlog
<1>1. /\ \A f \in FD : f # fd => conn'[f] = conn[f]
      /\ \A t \in Slots : g_events[t].status = 1 => g_events[t].fd # fd
  BY AcceptConns
<1>2. ASSUME NEW d \in Clients
      PROVE  /\ cl'[d].got = cl[d].got /\ cl'[d].dropped = cl[d].dropped
             /\ cl'[d].read = cl[d].read
             /\ \/ cl'[d].st = cl[d].st
                \/ cl[d].st \in {"new", "backlog"} /\ cl'[d].st \in {"backlog", "up"}
  <2>0. cl \in [Clients -> Peer] BY <1>0 DEF Typed
  <2>. QED BY <1>0, <2>0 DEF Peer
<1>3. ASSUME NEW t \in Slots, g_events[t].status = 1
      PROVE  /\ g_events'[t] = g_events[t]
             /\ conn'[g_events[t].fd] = conn[g_events[t].fd]
  <2>1. g_events[t].fd \in FD BY <1>3 DEF ReactorInv, InTree
  <2>2. g_events'[t] = g_events[t] BY <1>3 DEF NodeSet
  <2>. QED BY <1>1, <1>3, <2>1, <2>2
<1>4. ASSUME NEW t \in Slots, g_events'[t].status = 1, g_events'[t].call_back = "senddata"
      PROVE  g_events[t].status = 1
  BY <1>4 DEF NodeSet
<1>5. ASSUME NEW d \in Clients PROVE EchoOf(d)'
  <2>1. ASSUME NEW t \in Slots PROVE t \in Answering(d)' <=> t \in Answering(d)
    <3>1. CASE g_events[t].status = 1 BY <1>3, <3>1 DEF Answering, Slots
    <3>2. CASE g_events[t].status # 1 BY <1>4, <3>2 DEF Answering, Slots
    <3>. QED BY <3>1, <3>2
  <2>2. \A t \in Answering(d) : g_events'[t].buf = g_events[t].buf
    BY <1>3 DEF Answering
  <2>3. EchoOf(d) BY DEF EchoInv
  <2>. QED BY <1>2, <2>1, <2>2, <2>3, EchoSame
<1>. QED BY <1>5 DEF EchoInv

(* acceptconn, whether the table has a free node or not. *)
LEMMA EchoAccepted ==
  ASSUME ReactorInv, EchoInv, NEW e, AcceptLimit(e) \/ acceptconn(e)
  PROVE  EchoInv'
<1>. DEFINE fd == Smallest(ClosedFds)
<1>0. Typed BY TypedIs DEF ReactorInv
<1>1. fd \in FD /\ conn[fd] = NoClient
  <2>1. ClosedFds \subseteq Nat /\ ClosedFds \subseteq FD
    BY SizesAssumption DEF ClosedFds, FD
  <2>2. fd \in ClosedFds BY <2>1, SmallestIs DEF AcceptLimit, acceptconn
  <2>. QED BY <2>2 DEF ClosedFds
<1>2. CASE AcceptLimit(e)
  <2>1. PICK c \in Backlog : /\ conn' = [conn EXCEPT ![fd] = c]
                             /\ cl' = [cl EXCEPT ![c].st = "up"]
    BY <1>2 DEF AcceptLimit
  <2>2. g_events' = g_events /\ epoll' = epoll BY <1>2 DEF AcceptLimit
  <2>3. 0 \in Slots BY SizesAssumption DEF Slots
  <2>. HIDE DEF fd
  <2>. QED BY <1>1, <2>1, <2>2, <2>3, EchoAccept
<1>3. CASE acceptconn(e)
  <2>. DEFINE i == Smallest(Unregistered)
  <2>1. PICK c \in Backlog :
          /\ conn' = [conn EXCEPT ![fd] = c] /\ cl' = [cl EXCEPT ![c].st = "up"]
          /\ Becomes(eventadd(eventset(Tree, i, fd, "recvdata"), i, "in"))
    BY <1>3 DEF acceptconn
  <2>2. i \in Slots /\ g_events[i].status = 0
    <3>1. Unregistered \subseteq Nat BY SizesAssumption DEF Unregistered, Slots
    <3>2. i \in Unregistered BY <1>3, <3>1, SmallestIs DEF acceptconn
    <3>. QED BY <3>2 DEF Unregistered
  <2>. HIDE DEF fd, i
  <2>3. NodeSet(i, fd, "in", "recvdata", g_events[i].buf)
    BY <1>1, <2>1, <2>2, AcceptNode
  <2>. QED BY <1>1, <2>1, <2>2, <2>3, EchoAccept
<1>. QED BY <1>2, <1>3

(* A step that changes nothing the echo is about. *)
LEMMA EchoIdle ==
  ASSUME EchoInv, g_events' = g_events, conn' = conn, cl' = cl
  PROVE  EchoInv'
<1>1. ASSUME NEW d \in Clients PROVE EchoOf(d)'
  <2>1. Answering(d)' = Answering(d) BY DEF Answering, Slots
  <2>2. EchoOf(d) BY DEF EchoInv
  <2>. QED BY <2>1, <2>2, EchoFrame
<1>. QED BY <1>1 DEF EchoInv

(* A connection that ends: its node answers no longer, the others go on. *)
LEMMA EchoDrop ==
  ASSUME ReactorInv, EchoInv, NEW e, RecvClosed(e) \/ SendFails(e)
  PROVE  EchoInv'
<1>. DEFINE s == e.slot  c == Owner(e)  fd == g_events[s].fd
<1>0. Called(e, "recvdata") \/ Called(e, "senddata") BY DEF RecvClosed, SendFails
<1>1. /\ c \in Clients /\ s \in Slots /\ fd \in FD /\ g_events[s].status = 1 /\ c = conn[fd]
  BY <1>0, CalledIs DEF Owner
<1>2. NodeOut(s, fd) BY DropNode
<1>3. conn' = [conn EXCEPT ![fd] = NoClient] /\ cl' = [cl EXCEPT ![c].st = "down"]
  BY DEF RecvClosed, SendFails, Drop
<1>4. Typed BY TypedIs DEF ReactorInv
<1>. HIDE DEF s, c, fd
<1>5. ASSUME NEW d \in Clients
      PROVE  /\ cl'[d].got = cl[d].got /\ cl'[d].dropped = cl[d].dropped
             /\ cl'[d].read = cl[d].read
             /\ cl'[d].st = IF d = c THEN "down" ELSE cl[d].st
  BY <1>1, <1>3, <1>4 DEF Typed, Peer
<1>6. ASSUME NEW t \in Slots, t # s, g_events[t].status = 1
      PROVE  /\ g_events'[t] = g_events[t]
             /\ conn'[g_events[t].fd] = conn[g_events[t].fd]
  <2>1. g_events[t].fd \in FD BY <1>6 DEF ReactorInv, InTree
  <2>2. g_events[t].fd # fd BY <1>1, <1>6, OneNode DEF fd
  <2>3. g_events'[t] = g_events[t] BY <1>2, <1>6 DEF NodeOut
  <2>. QED BY <1>3, <1>4, <2>1, <2>2, <2>3 DEF Typed
<1>7. ASSUME NEW t \in Slots, g_events'[t].status = 1
      PROVE  t # s /\ g_events[t].status = 1
  BY <1>2, <1>7 DEF NodeOut
<1>8. ASSUME NEW d \in Clients PROVE EchoOf(d)'
  <2>1. ASSUME NEW t \in Answering(d)'
        PROVE  t \in Answering(d) /\ g_events'[t].buf = g_events[t].buf
    <3>1. t \in Slots /\ g_events'[t].status = 1 BY DEF Answering, Slots
    <3>2. t # s /\ g_events[t].status = 1 BY <1>7, <3>1
    <3>3. /\ g_events'[t] = g_events[t] /\ conn'[g_events[t].fd] = conn[g_events[t].fd]
      BY <1>6, <3>1, <3>2
    <3>. QED BY <3>1, <3>2, <3>3 DEF Answering, Slots
  <2>2. ASSUME cl'[d].st = "up", NEW t \in Answering(d) PROVE t \in Answering(d)'
    <3>1. d # c BY <1>5, <2>2
    <3>2. t \in Slots /\ g_events[t].status = 1 BY DEF Answering
    <3>3. t # s BY <1>1, <3>1 DEF Answering, fd
    <3>4. /\ g_events'[t] = g_events[t] /\ conn'[g_events[t].fd] = conn[g_events[t].fd]
      BY <1>6, <3>2, <3>3
    <3>. QED BY <3>2, <3>4 DEF Answering, Slots
  <2>3. EchoOf(d) BY DEF EchoInv
  <2>4. cl'[d].st = cl[d].st \/ cl'[d].st = "down" BY <1>5
  <2>5. /\ cl'[d].got = cl[d].got /\ cl'[d].dropped = cl[d].dropped
        /\ cl'[d].read = cl[d].read
    BY <1>5
  <2>. QED BY <2>1, <2>2, <2>3, <2>4, <2>5, EchoFrame
<1>. QED BY <1>8 DEF EchoInv

(* The connections that the inactivity test closes. *)
LEMMA EchoScan ==
  ASSUME ReactorInv, EchoInv, Scan
  PROVE  EchoInv'
<1>. DEFINE fds == {g_events[s].fd : s \in Expired}
<1>0. Typed BY TypedIs DEF ReactorInv
<1>1. /\ conn' = [fd \in FD |-> IF fd \in fds THEN NoClient ELSE conn[fd]]
      /\ cl' = [c \in Clients |->
                  IF \E fd \in fds : conn[fd] = c THEN [cl[c] EXCEPT !.st = "down"]
                  ELSE cl[c]]
      /\ g_events' = [s \in Slots |-> IF s \in Expired THEN [g_events[s] EXCEPT !.status = 0]
                                       ELSE g_events[s]]
  BY DEF Scan
<1>2. ASSUME NEW t \in Slots, g_events'[t].status = 1
      PROVE  g_events'[t] = g_events[t] /\ t \notin Expired
  <2>1. g_events[t] \in Node BY <1>0 DEF Typed, Table
  <2>2. [g_events[t] EXCEPT !.status = 0].status = 0 BY <2>1 DEF Node
  <2>. QED BY <1>1, <1>2, <2>2
<1>3. ASSUME NEW d \in Clients PROVE EchoOf(d)'
  <2>0. cl[d] \in Peer BY <1>0 DEF Typed
  <2>1. /\ cl'[d].got = cl[d].got /\ cl'[d].dropped = cl[d].dropped
        /\ cl'[d].read = cl[d].read /\ (cl'[d].st = cl[d].st \/ cl'[d].st = "down")
    <3>1. cl'[d] = [cl[d] EXCEPT !.st = "down"] \/ cl'[d] = cl[d] BY <1>1
    <3>. QED BY <2>0, <3>1 DEF Peer
  <2>2. ASSUME cl'[d].st = "up" PROVE \A fd \in fds : conn[fd] # d
    <3>1. [cl[d] EXCEPT !.st = "down"].st = "down" BY <2>0 DEF Peer
    <3>. HIDE DEF fds
    <3>. QED BY <1>1, <2>2, <3>1
  <2>3. ASSUME NEW t \in Answering(d)'
        PROVE  t \in Answering(d) /\ g_events'[t].buf = g_events[t].buf
    <3>1. /\ t \in Slots /\ g_events'[t].status = 1 /\ g_events'[t].call_back = "senddata"
          /\ conn'[g_events'[t].fd] = d
      BY DEF Answering, Slots
    <3>2. g_events'[t] = g_events[t] BY <1>2, <3>1
    <3>3. g_events[t].fd \in FD BY <3>1, <3>2 DEF ReactorInv, InTree
    <3>4. conn[g_events[t].fd] = d
      <4>. HIDE DEF fds
      <4>. QED BY <1>1, <3>1, <3>2, <3>3, ClientsAssumption
    <3>. QED BY <3>1, <3>2, <3>4 DEF Answering
  <2>4. ASSUME cl'[d].st = "up", NEW t \in Answering(d) PROVE t \in Answering(d)'
    <3>1. /\ t \in Slots /\ g_events[t].status = 1 /\ g_events[t].call_back = "senddata"
          /\ conn[g_events[t].fd] = d
      BY DEF Answering
    <3>2. g_events[t].fd \notin fds BY <2>2, <2>4, <3>1
    <3>3. t \notin Expired BY <3>2
    <3>4. g_events[t].fd \in FD BY <3>1 DEF ReactorInv, InTree
    <3>. HIDE DEF fds
    <3>5. g_events'[t] = g_events[t] BY <1>1, <3>1, <3>3
    <3>6. conn'[g_events[t].fd] = d BY <1>1, <3>1, <3>2, <3>4
    <3>. QED BY <3>1, <3>5, <3>6 DEF Answering, Slots
  <2>5. EchoOf(d) BY DEF EchoInv
  <2>. QED BY <2>1, <2>3, <2>4, <2>5, EchoFrame
<1>. QED BY <1>3 DEF EchoInv

(* What a callback does to one node leaves the other clients' answers.      *)
LEMMA EchoOthers ==
  ASSUME ReactorInv, EchoInv, NEW e, NEW call_back, Called(e, call_back),
         NEW events, NEW next, NEW buf,
         NodeSet(e.slot, g_events[e.slot].fd, events, next, buf), conn' = conn,
         NEW d \in Clients, d # Owner(e), cl'[d] = cl[d]
  PROVE  EchoOf(d)'
<1>. DEFINE s == e.slot
<1>0. s \in Slots /\ g_events'[s].fd = g_events[s].fd /\ conn[g_events[s].fd] # d
  BY CalledIs DEF Owner, NodeSet
<1>1. ASSUME NEW t \in Slots, t # s PROVE g_events'[t] = g_events[t]
  BY <1>1 DEF NodeSet
<1>2. \A t \in Slots : t \in Answering(d)' <=> t \in Answering(d)
  BY <1>0, <1>1 DEF Answering, Slots
<1>3. \A t \in Answering(d) : g_events'[t].buf = g_events[t].buf
  BY <1>0, <1>1 DEF Answering
<1>4. EchoOf(d) BY DEF EchoInv
<1>. QED BY <1>2, <1>3, <1>4, EchoSame

(* recvdata: the new data follow all that has been answered. *)
LEMMA EchoRecv ==
  ASSUME ReactorInv, EchoInv, NEW e, recvdata(e)
  PROVE  EchoInv'
<1>0. Called(e, "recvdata") /\ conn' = conn BY DEF recvdata
<1>. PICK c \in Clients : c = Owner(e) BY <1>0, CalledIs
<1>. DEFINE s == e.slot  buf == Received(c)  n == Len(buf)
<1>1. /\ c \in Clients /\ s \in Slots /\ g_events[s].status = 1 /\ cl[c].st = "up"
      /\ g_events[s].call_back = "recvdata" /\ conn[g_events[s].fd] = c
  BY <1>0, CalledIs DEF Owner
<1>2. NodeSet(s, g_events[s].fd, "out", "senddata", buf) BY RecvNode
<1>3. cl' = [cl EXCEPT ![c].read = @ + n] BY DEF recvdata
<1>4. /\ n \in Nat /\ 0 < n
      /\ \A i \in 1 .. n : buf[i] = <<c, cl[c].read + i>>
  BY <1>1, ReceivedIs DEF recvdata
<1>5. Typed BY TypedIs DEF ReactorInv
<1>6. cl[c].read \in Nat
  <2>1. cl[c].read \in Counts BY <1>1, <1>5 DEF Typed, Peer
  <2>. QED BY <2>1, SizesAssumption DEF Counts
<1>. DEFINE got == cl[c].got  dropped == cl[c].dropped  read == cl[c].read
<1>7. Answering(c) = {}
  <2>1. \A t \in Slots : g_events[t].status = 1 /\ conn[g_events[t].fd] = c => t = s
    BY <1>1, OneNode
  <2>. QED BY <1>1, <2>1 DEF Answering
<1>8. EchoOf(c) BY <1>1 DEF EchoInv
<1>9. /\ UnitsOf(got) \cup dropped = 1 .. read
      /\ InOrder(c, got, read)
  BY <1>1, <1>7, <1>8 DEF EchoOf
<1>10. Answering(c)' = {s}
  <2>1. ASSUME NEW t \in Slots, t # s PROVE g_events'[t] = g_events[t]
    BY <1>2, <2>1 DEF NodeSet
  <2>2. s \in Answering(c)' BY <1>0, <1>1, <1>2 DEF Answering, NodeSet, Slots
  <2>3. ASSUME NEW t \in Answering(c)', t # s PROVE FALSE
    BY <1>0, <1>7, <2>1, <2>3 DEF Answering, Slots
  <2>. QED BY <2>2, <2>3
<1>11. g_events'[s].buf = buf BY <1>2 DEF NodeSet
<1>12. /\ cl'[c].got = got /\ cl'[c].dropped = dropped /\ cl'[c].read = read + n
       /\ cl'[c].st = "up"
  <2>. HIDE DEF n
  <2>1. cl \in [Clients -> Peer] /\ cl[c] \in Peer BY <1>1, <1>5 DEF Typed
  <2>. QED BY <1>1, <1>3, <2>1 DEF Peer
<1>13. \A d \in Clients : d # c => cl'[d] = cl[d] BY <1>3, <1>5 DEF Typed
<1>14. EchoOf(c)'
  <2>1. \A i \in DOMAIN got : got[i][2] \in Nat
    <3>1. got \in Seq(Unit) BY <1>1, <1>5 DEF Typed, Peer, Bufs
    <3>2. \A i \in DOMAIN got : got[i] \in Unit BY <3>1
    <3>. QED BY <3>2 DEF Unit
  <2>. HIDE DEF got, dropped, read, buf, s
  <2>2. read \in Nat /\ n \in Nat /\ 0 < n BY <1>4, <1>6 DEF read
  <2>. HIDE DEF n
  <2>3. read + n - n = read BY <2>2
  <2>4. \A i \in DOMAIN got : got[i][2] <= read + n
    <3>1. ASSUME NEW x \in Nat, x <= read PROVE x <= read + n BY <2>2, <3>1
    <3>. QED BY <1>9, <2>1, <3>1 DEF InOrder
  <2>5. \A i \in 1 .. n : buf[i] = <<c, read + i>> BY <1>4 DEF read
  <2>6. Len(buf) = n BY DEF n
  <2>7. Buffered(c, buf, got, dropped, read + n)
    BY <1>9, <2>2, <2>3, <2>5, <2>6 DEF Buffered, InOrder
  <2>8. InOrder(c, got, read + n) BY <1>9, <2>4 DEF InOrder
  <2>. QED BY <1>10, <1>11, <1>12, <2>7, <2>8 DEF EchoOf
<1>15. ASSUME NEW d \in Clients, d # c PROVE EchoOf(d)'
  BY <1>0, <1>2, <1>13, <1>15, EchoOthers
<1>. QED BY <1>14, <1>15 DEF EchoInv

(* A run of consecutive units. *)
Run(c, seq, lo) == \A i \in 1 .. Len(seq) : seq[i] = <<c, lo + i>>

(* The numbers in it. *)
LEMMA RunIs ==
  ASSUME NEW c, NEW seq \in Bufs, NEW lo \in Nat, Run(c, seq, lo)
  PROVE  UnitsOf(seq) = lo + 1 .. lo + Len(seq)
<1>1. DOMAIN seq = 1 .. Len(seq) /\ Len(seq) \in Nat BY DEF Bufs
<1>2. \A i \in 1 .. Len(seq) : seq[i][2] = lo + i BY DEF Run
<1>3. ASSUME NEW x \in UnitsOf(seq) PROVE x \in lo + 1 .. lo + Len(seq)
  BY <1>1, <1>2 DEF UnitsOf
<1>4. ASSUME NEW x \in lo + 1 .. lo + Len(seq) PROVE x \in UnitsOf(seq)
  <2>1. x - lo \in 1 .. Len(seq) /\ x = lo + (x - lo) BY <1>1
  <2>2. seq[x - lo][2] = x BY <1>2, <2>1
  <2>. QED BY <1>1, <2>1, <2>2 DEF UnitsOf
<1>. QED BY <1>3, <1>4

(* The part of a run that a send takes, and the part that it leaves. *)
LEMMA RunSplit ==
  ASSUME NEW c, NEW seq \in Bufs, NEW lo \in Nat, Run(c, seq, lo), NEW n \in 0 .. Len(seq)
  PROVE  /\ SubSeq(seq, 1, n) \in Bufs /\ Len(SubSeq(seq, 1, n)) = n
         /\ Run(c, SubSeq(seq, 1, n), lo)
         /\ SubSeq(seq, n + 1, Len(seq)) \in Bufs
         /\ Len(SubSeq(seq, n + 1, Len(seq))) = Len(seq) - n
         /\ Run(c, SubSeq(seq, n + 1, Len(seq)), lo + n)
<1>. DEFINE L == Len(seq)
            first == SubSeq(seq, 1, n)
            rest == SubSeq(seq, n + 1, L)
<1>0. L \in Nat /\ n \in Nat /\ n <= L BY DEF Bufs
<1>1. first \in Bufs /\ rest \in Bufs BY <1>0 DEF Bufs
<1>2. Len(first) = n /\ \A i \in 1 .. n : first[i] = seq[i] BY <1>0 DEF Bufs
<1>3. Len(rest) = L - n /\ \A i \in 1 .. L - n : rest[i] = seq[n + i]
  BY <1>0 DEF Bufs
<1>4. \A i \in 1 .. L : seq[i] = <<c, lo + i>> BY DEF Run
<1>. HIDE DEF L, first, rest
<1>5. Run(c, first, lo)
  <2>1. \A i \in 1 .. n : i \in 1 .. L BY <1>0
  <2>. QED BY <1>2, <1>4, <2>1 DEF Run
<1>6. Run(c, rest, lo + n)
  <2>1. \A i \in 1 .. L - n : n + i \in 1 .. L /\ lo + (n + i) = (lo + n) + i BY <1>0
  <2>. QED BY <1>3, <1>4, <2>1 DEF Run
<1>. QED BY <1>1, <1>2, <1>3, <1>5, <1>6 DEF L, first, rest

(* The numbers in two sequences, one after the other. *)
LEMMA UnitsAppend ==
  ASSUME NEW got \in Bufs, NEW seq \in Bufs
  PROVE  UnitsOf(got \o seq) = UnitsOf(got) \cup UnitsOf(seq)
<1>. DEFINE all == got \o seq  G == Len(got)  L == Len(seq)
<1>0. G \in Nat /\ L \in Nat /\ DOMAIN got = 1 .. G /\ DOMAIN seq = 1 .. L BY DEF Bufs
<1>1. DOMAIN all = 1 .. G + L BY DEF Bufs
<1>2. \A i \in 1 .. G : all[i] = got[i] BY DEF Bufs
<1>3. \A i \in 1 .. L : all[G + i] = seq[i] BY DEF Bufs
<1>. HIDE DEF all, G, L
<1>4. ASSUME NEW i \in 1 .. G + L PROVE i \in 1 .. G \/ \E k \in 1 .. L : i = G + k
  <2>1. i \in 1 .. G \/ (i - G \in 1 .. L /\ i = G + (i - G)) BY <1>0
  <2>. QED BY <2>1
<1>5. UnitsOf(all) = UnitsOf(got) \cup UnitsOf(seq)
  <2>1. ASSUME NEW i \in DOMAIN all PROVE all[i][2] \in UnitsOf(got) \cup UnitsOf(seq)
    <3>1. CASE i \in 1 .. G BY <1>0, <1>2, <3>1 DEF UnitsOf
    <3>2. ASSUME NEW k \in 1 .. L, i = G + k
          PROVE  all[i][2] \in UnitsOf(got) \cup UnitsOf(seq)
      BY <1>0, <1>3, <3>2 DEF UnitsOf
    <3>. QED BY <1>1, <1>4, <3>1, <3>2
  <2>2. ASSUME NEW i \in DOMAIN got PROVE got[i][2] \in UnitsOf(all)
    <3>1. i \in DOMAIN all BY <1>0, <1>1
    <3>. QED BY <1>0, <1>2, <3>1 DEF UnitsOf
  <2>3. ASSUME NEW k \in DOMAIN seq PROVE seq[k][2] \in UnitsOf(all)
    <3>1. G + k \in DOMAIN all BY <1>0, <1>1
    <3>. QED BY <1>0, <1>3, <3>1 DEF UnitsOf
  <2>. QED BY <2>1, <2>2, <2>3 DEF UnitsOf
<1>. QED BY <1>5 DEF all

(* What a client has got, with a run appended that follows it. *)
LEMMA RunAppend ==
  ASSUME NEW c, NEW got \in Bufs, NEW seq \in Bufs, NEW lo \in Nat, Run(c, seq, lo),
         InOrder(c, got, lo)
  PROVE  InOrder(c, got \o seq, lo + Len(seq))
<1>. DEFINE all == got \o seq  G == Len(got)  L == Len(seq)
<1>0. G \in Nat /\ L \in Nat /\ DOMAIN got = 1 .. G /\ DOMAIN seq = 1 .. L BY DEF Bufs
<1>1. DOMAIN all = 1 .. G + L BY DEF Bufs
<1>2. \A i \in 1 .. G : all[i] = got[i] BY DEF Bufs
<1>3. \A i \in 1 .. L : all[G + i] = seq[i] BY DEF Bufs
<1>4. \A i \in 1 .. L : seq[i][1] = c /\ seq[i][2] = lo + i BY DEF Run
<1>5. \A i \in 1 .. G : got[i][2] \in Nat
  <2>1. \A i \in 1 .. G : got[i] \in Unit BY DEF Bufs
  <2>. QED BY <2>1 DEF Unit
<1>. HIDE DEF all, G, L
<1>6. ASSUME NEW i \in 1 .. G + L PROVE i \in 1 .. G \/ \E k \in 1 .. L : i = G + k
  <2>1. i \in 1 .. G \/ (i - G \in 1 .. L /\ i = G + (i - G)) BY <1>0
  <2>. QED BY <2>1
<1>7. \A i \in 1 .. G : /\ got[i][1] = c /\ got[i][2] <= lo
                        /\ \A j \in 1 .. i - 1 : got[j][2] < got[i][2]
  BY <1>0 DEF InOrder
<1>8. ASSUME NEW i \in 1 .. G + L
      PROVE  /\ all[i][1] = c /\ all[i][2] <= lo + L
             /\ \A j \in 1 .. i - 1 : all[j][2] < all[i][2]
  <2>1. CASE i \in 1 .. G
    <3>1. all[i][1] = c /\ all[i][2] <= lo + L
      <4>1. ASSUME NEW x \in Nat, x <= lo PROVE x <= lo + L BY <1>0, <4>1
      <4>. QED BY <1>2, <1>5, <1>7, <2>1, <4>1
    <3>2. ASSUME NEW j \in 1 .. i - 1 PROVE all[j][2] < all[i][2]
      <4>1. j \in 1 .. G BY <1>0, <2>1
      <4>. QED BY <1>2, <1>7, <2>1, <4>1
    <3>. QED BY <3>1, <3>2
  <2>2. ASSUME NEW k \in 1 .. L, i = G + k
        PROVE  /\ all[i][1] = c /\ all[i][2] <= lo + L
               /\ \A j \in 1 .. i - 1 : all[j][2] < all[i][2]
    <3>1. all[i][1] = c /\ all[i][2] = lo + k BY <1>3, <1>4, <2>2
    <3>2. lo + k <= lo + L BY <1>0
    <3>3. ASSUME NEW j \in 1 .. i - 1 PROVE all[j][2] < lo + k
      <4>0. j \in 1 .. G + L BY <1>0
      <4>1. CASE j \in 1 .. G
        <5>1. ASSUME NEW x \in Nat, x <= lo PROVE x < lo + k BY <1>0, <5>1
        <5>. QED BY <1>2, <1>5, <1>7, <4>1, <5>1
      <4>2. ASSUME NEW m \in 1 .. L, j = G + m PROVE all[j][2] < lo + k
        <5>1. all[j][2] = lo + m BY <1>3, <1>4, <4>2
        <5>2. m < k BY <1>0, <2>2, <4>2
        <5>3. lo + m < lo + k BY <1>0, <5>2
        <5>. QED BY <5>1, <5>3
      <4>. QED BY <1>6, <4>0, <4>1, <4>2
    <3>. QED BY <3>1, <3>2, <3>3
  <2>. QED BY <1>6, <2>1, <2>2
<1>9. InOrder(c, all, lo + L) BY <1>1, <1>8 DEF InOrder
<1>. QED BY <1>9 DEF all, L

(* InOrder for a larger bound. *)
LEMMA OrderWiden ==
  ASSUME NEW c, NEW got \in Bufs, NEW lo \in Nat, NEW hi \in Nat, lo <= hi,
         InOrder(c, got, lo)
  PROVE  InOrder(c, got, hi)
<1>1. \A i \in DOMAIN got : got[i] \in Unit BY DEF Bufs
<1>2. \A i \in DOMAIN got : got[i][2] \in Nat BY <1>1 DEF Unit
<1>3. ASSUME NEW x \in Nat, x <= lo PROVE x <= hi BY <1>3
<1>. QED BY <1>2, <1>3 DEF InOrder

(* senddata: the buffer follows what the client has got. *)
LEMMA EchoSend ==
  ASSUME ReactorInv, EchoInv, NEW e, senddata(e)
  PROVE  EchoInv'
<1>0. Called(e, "senddata") /\ conn' = conn BY DEF senddata
<1>. PICK c \in Clients : c = Owner(e) BY <1>0, CalledIs
<1>. DEFINE s == e.slot  buf == g_events[s].buf
<1>1. /\ s \in Slots /\ g_events[s].status = 1 /\ cl[c].st = "up"
      /\ g_events[s].call_back = "senddata" /\ conn[g_events[s].fd] = c
  BY <1>0, CalledIs DEF Owner
<1>2. NodeSet(s, g_events[s].fd, "in", "recvdata", buf) BY SendNode
<1>3. PICK n \in Written(buf) :
        cl' = [cl EXCEPT ![c].got = @ \o SubSeq(buf, 1, n),
                         ![c].dropped = @ \cup UnitsOf(SubSeq(buf, n + 1, Len(buf)))]
  BY DEF senddata
<1>4. Typed BY TypedIs DEF ReactorInv
<1>. DEFINE got == cl[c].got  dropped == cl[c].dropped  read == cl[c].read
            L == Len(buf)
            old == read - L
            first == SubSeq(buf, 1, n)
            rest == SubSeq(buf, n + 1, L)
<1>5. buf \in Bufs /\ got \in Bufs /\ read \in Nat
  <2>1. buf \in Bufs BY <1>1, <1>4 DEF Typed, Table, Node
  <2>2. got \in Bufs /\ read \in Counts BY <1>4 DEF Typed, Peer
  <2>. QED BY <2>1, <2>2, SizesAssumption DEF Counts
<1>6. Buffered(c, buf, got, dropped, read) /\ InOrder(c, got, read)
  <2>1. s \in Answering(c) BY <1>1 DEF Answering
  <2>2. EchoOf(c) BY DEF EchoInv
  <2>. QED BY <2>1, <2>2 DEF EchoOf
<1>7. n \in 0 .. L BY <1>3, <1>5, SentIs
<1>8. L \in Nat BY <1>5 DEF Bufs
<1>9. old \in Nat /\ Run(c, buf, old) /\ InOrder(c, got, old)
      /\ UnitsOf(got) \cup dropped = 1 .. old
  BY <1>5, <1>6, <1>8 DEF Buffered, Run, InOrder
<1>10. Answering(c)' = {}
  <2>1. \A t \in Slots : g_events[t].status = 1 /\ conn[g_events[t].fd] = c => t = s
    BY <1>1, OneNode
  <2>2. ASSUME NEW t \in Slots, t # s PROVE g_events'[t] = g_events[t]
    BY <1>2, <2>2 DEF NodeSet
  <2>3. g_events'[s].call_back # "senddata" BY <1>2 DEF NodeSet
  <2>. QED BY <1>0, <2>1, <2>2, <2>3 DEF Answering, Slots
<1>11. /\ cl'[c].got = got \o first /\ cl'[c].dropped = dropped \cup UnitsOf(rest)
       /\ cl'[c].read = read /\ cl'[c].st = "up"
  <2>1. cl \in [Clients -> Peer] BY <1>4 DEF Typed
  <2>2. cl' = [cl EXCEPT ![c].got = got \o first, ![c].dropped = dropped \cup UnitsOf(rest)]
    BY <1>3
  <2>. HIDE DEF first, rest
  <2>. QED BY <1>1, <2>1, <2>2 DEF Peer
<1>12. \A d \in Clients : d # c => cl'[d] = cl[d] BY <1>3, <1>4 DEF Typed
<1>13. /\ first \in Bufs /\ Len(first) = n /\ Run(c, first, old)
       /\ rest \in Bufs /\ Len(rest) = L - n /\ Run(c, rest, old + n)
  BY <1>5, <1>7, <1>9, RunSplit
<1>14. EchoOf(c)'
  <2>. HIDE DEF buf, got, dropped, read, old, first, rest, L, s
  <2>0. n \in Nat /\ n <= L /\ old + n \in Nat /\ old + n <= read /\ old + L = read
        /\ (old + n) + (L - n) = read
    BY <1>5, <1>7, <1>8, <1>9 DEF old
  <2>1. /\ InOrder(c, got \o first, old + n)
        /\ UnitsOf(got \o first) = UnitsOf(got) \cup UnitsOf(first)
    <3>1. got \in Bufs /\ InOrder(c, got, old) BY <1>5, <1>9
    <3>2. first \in Bufs /\ Run(c, first, old) BY <1>13
    <3>3. old \in Nat BY <1>9
    <3>4. InOrder(c, got \o first, old + Len(first)) BY <3>1, <3>2, <3>3, RunAppend
    <3>5. UnitsOf(got \o first) = UnitsOf(got) \cup UnitsOf(first)
      BY <3>1, <3>2, UnitsAppend
    <3>. QED BY <1>13, <3>4, <3>5
  <2>2. got \o first \in Bufs BY <1>5, <1>13 DEF Bufs
  <2>3. InOrder(c, got \o first, read) BY <1>5, <2>0, <2>1, <2>2, OrderWiden
  <2>4. UnitsOf(first) = old + 1 .. old + n
    <3>1. UnitsOf(first) = old + 1 .. old + Len(first) BY <1>9, <1>13, RunIs
    <3>. QED BY <1>13, <3>1
  <2>5. UnitsOf(rest) = (old + n) + 1 .. read
    <3>1. UnitsOf(rest) = (old + n) + 1 .. (old + n) + Len(rest) BY <1>13, <2>0, RunIs
    <3>. QED BY <1>13, <2>0, <3>1
  <2>6. UnitsOf(got \o first) \cup (dropped \cup UnitsOf(rest)) = 1 .. read
    <3>1. UnitsOf(got \o first) \cup (dropped \cup UnitsOf(rest))
            = (1 .. old) \cup ((old + 1 .. old + n) \cup ((old + n) + 1 .. read))
      BY <1>9, <2>1, <2>4, <2>5
    <3>2. (1 .. old) \cup ((old + 1 .. old + n) \cup ((old + n) + 1 .. read)) = 1 .. read
      BY <1>5, <1>9, <2>0
    <3>. QED BY <3>1, <3>2
  <2>. QED BY <1>10, <1>11, <2>3, <2>6 DEF EchoOf, UnitsOf
<1>15. ASSUME NEW d \in Clients, d # c PROVE EchoOf(d)'
  BY <1>0, <1>2, <1>12, <1>15, EchoOthers
<1>. QED BY <1>14, <1>15 DEF EchoInv

(* The echo starts right. *)
LEMMA EchoInit == Init => EchoInv
<1>. SUFFICES ASSUME Init, NEW c \in Clients PROVE EchoOf(c) BY DEF EchoInv
<1>1. cl[c] = NewClient BY DEF Init
<1>2. Answering(c) = {} BY DEF Init, Answering, NewSlot
<1>3. cl[c].got = <<>> /\ cl[c].read = 0 /\ cl[c].dropped = {} /\ cl[c].st = "new"
  BY <1>1 DEF NewClient
<1>. QED BY <1>2, <1>3 DEF EchoOf, InOrder

(* And no step disturbs it. *)
LEMMA EchoStep == ReactorInv /\ EchoInv /\ [Next]_vars => EchoInv'
<1>. SUFFICES ASSUME ReactorInv, EchoInv, [Next]_vars PROVE EchoInv' OBVIOUS
<1>1. CASE Scan BY <1>1, EchoScan
<1>2. CASE EpollWait \/ EpollWaitFails \/ UNCHANGED vars
  BY <1>2, EchoIdle DEF EpollWait, EpollWaitFails, vars
<1>3. CASE Dispatch
  <2>1. PICK e \in batch :
          \/ AcceptFails(e) \/ AcceptLimit(e) \/ acceptconn(e)
          \/ recvdata(e) \/ RecvClosed(e) \/ senddata(e) \/ SendFails(e) \/ SendKilled(e)
    BY <1>3 DEF Dispatch
  <2>2. CASE AcceptFails(e) \/ SendKilled(e) BY <2>2, EchoIdle DEF AcceptFails, SendKilled
  <2>3. CASE AcceptLimit(e) \/ acceptconn(e) BY <2>3, EchoAccepted
  <2>4. CASE recvdata(e) BY <2>4, EchoRecv
  <2>5. CASE senddata(e) BY <2>5, EchoSend
  <2>6. CASE RecvClosed(e) \/ SendFails(e) BY <2>6, EchoDrop
  <2>. QED BY <2>1, <2>2, <2>3, <2>4, <2>5, <2>6
<1>4. CASE \/ \E c \in Clients : Connect(c) \/ Send(c) \/ StopReading(c) \/ Close(c) \/ Reset(c)
           \/ Tick
  BY <1>4, EchoOutside
<1>. QED BY <1>1, <1>2, <1>3, <1>4 DEF Next

(* Every client gets its own data back, in order and once; what has been    *)
(* read from a connected client was sent back, cut off by a short send, or  *)
(* waits in the buffer of its node.                                         *)
THEOREM ReactorEchoes == Spec => []EchoInOrder
<1>1. ReactorInv /\ EchoInv => EchoInOrder
  <2>. SUFFICES ASSUME ReactorInv, EchoInv, NEW c \in Clients
                PROVE  /\ \A i \in DOMAIN cl[c].got :
                             /\ cl[c].got[i][1] = c
                             /\ \A j \in 1 .. i - 1 : cl[c].got[j][2] < cl[c].got[i][2]
                       /\ cl[c].st = "up" =>
                             /\ UnitsOf(cl[c].got) \cup cl[c].dropped \cup InHand(c)
                                   = 1 .. cl[c].read
                             /\ InHand(c) \cap (UnitsOf(cl[c].got) \cup cl[c].dropped) = {}
    BY DEF EchoInOrder
  <2>. DEFINE got == cl[c].got  dropped == cl[c].dropped  read == cl[c].read
  <2>0. EchoOf(c) BY DEF EchoInv
  <2>1. InOrder(c, got, read) BY <2>0 DEF EchoOf
  <2>2. InHand(c) = UNION {UnitsOf(g_events[s].buf) : s \in Answering(c)}
    BY DEF InHand, Answering
  <2>3. ASSUME cl[c].st = "up", Answering(c) = {}
        PROVE  /\ UnitsOf(got) \cup dropped \cup InHand(c) = 1 .. read
               /\ InHand(c) \cap (UnitsOf(got) \cup dropped) = {}
    <3>1. InHand(c) = {} BY <2>2, <2>3
    <3>2. UnitsOf(got) \cup dropped = 1 .. read BY <2>0, <2>3 DEF EchoOf
    <3>. QED BY <3>1, <3>2
  <2>4. ASSUME NEW s \in Answering(c)
        PROVE  /\ UnitsOf(got) \cup dropped \cup InHand(c) = 1 .. read
               /\ InHand(c) \cap (UnitsOf(got) \cup dropped) = {}
    <3>. DEFINE buf == g_events[s].buf  L == Len(buf)  old == read - L
    <3>1. s \in Slots /\ g_events[s].status = 1 /\ conn[g_events[s].fd] = c
      BY DEF Answering
    <3>2. Answering(c) = {s} BY <3>1, OneNode DEF Answering
    <3>3. InHand(c) = UnitsOf(buf) BY <2>2, <3>2
    <3>4. Typed BY TypedIs DEF ReactorInv
    <3>5. buf \in Bufs /\ read \in Nat /\ L \in Nat
      <4>1. buf \in Bufs BY <3>1, <3>4 DEF Typed, Table, Node
      <4>2. read \in Counts BY <3>4 DEF Typed, Peer
      <4>. QED BY <4>1, <4>2, SizesAssumption DEF Counts, Bufs
    <3>6. Buffered(c, buf, got, dropped, read) BY <2>0 DEF EchoOf
    <3>7. old \in Nat /\ Run(c, buf, old) /\ UnitsOf(got) \cup dropped = 1 .. old
      BY <3>5, <3>6 DEF Buffered, Run
    <3>8. UnitsOf(buf) = old + 1 .. old + L BY <3>5, <3>7, RunIs
    <3>9. old + L = read BY <3>5
    <3>. HIDE DEF buf, got, dropped, read, L, old
    <3>10. UnitsOf(buf) = old + 1 .. read BY <3>8, <3>9
    <3>11. /\ (1 .. old) \cup (old + 1 .. read) = 1 .. read
           /\ (old + 1 .. read) \cap (1 .. old) = {}
      BY <3>5, <3>7, <3>9
    <3>. QED BY <3>3, <3>7, <3>10, <3>11
  <2>. QED BY <2>1, <2>3, <2>4 DEF InOrder
<1>. QED BY <1>1, ReactorInit, ReactorStep, EchoInit, EchoStep, PTL DEF Spec
=============================================================================
