--------------------------- MODULE SockSetupProofs --------------------------
(***************************************************************************)
(* Proofs about SockSetup and TcpConn, for every number of clients, server *)
(* threads and descriptors and every length of the backlog.  SetupInv is   *)
(* the inductive invariant: what connect_timeout knows at each of its      *)
(* steps of the socket it works on, and where a connection can be.         *)
(***************************************************************************)
EXTENDS TcpConn, WellFoundedInduction, TLAPS

(* The kernel has established the connection (and has, maybe, reset it      *)
(* since, with the listening socket).                                       *)
Reached(c) == sock[c] = "established" \/ listener = "closed"

(* What holds of a client at each step of sckClient_connect. *)
ClientIs(c) ==
  /\ cl[c].pc = "idle" => sock[c] = "none"
  /\ cl[c].pc = "connect" => sock[c] = "made"
  /\ cl[c].pc = "sockopt" => sock[c] \in {"established", "refused"}
  /\ cl[c].pc \in ClientPc \ {"idle", "done"} => blocking[c] \/ cl[c].wait
  /\ cl[c].pc = "restore" /\ cl[c].ret = "ok" => Reached(c)
  /\ cl[c].result # "none" => cl[c].pc = "done"
  /\ cl[c].result = "ok" => blocking[c] /\ Reached(c)

ClientInv == \A c \in Clients : ClientIs(c)

(* A thread accepts only below its bound; only established connections wait. *)
AcceptInv ==
  /\ \A t \in Servers : srv[t].pc \in {"select", "accept"} => srv[t].served < NServed
  /\ \A c \in backlog : sock[c] = "established"

SetupInv == TypeOK /\ ClientInv /\ AcceptInv /\ ServesOwn
-----------------------------------------------------------------------------
USE DEF FD, NoFd, SockState, ClientPc, ServerPc, Result

(* Every non-empty set of descriptors has a lowest one, the one accept returns. *)
LEMMA LowestIs ==
  ASSUME NEW fds \in SUBSET FD, fds # {} PROVE Lowest(fds) \in fds
<1>. DEFINE Less == {pair \in Nat \X Nat : pair[1] < pair[2]}
<1>1. IsWellFoundedOn(Less, Nat) BY NatLessThanWellFounded DEF OpToRel
<1>2. fds \subseteq Nat BY SizesAssumption
<1>. HIDE DEF Less
<1>3. PICK x \in fds : \A y \in fds : ~ (<<y, x>> \in Less) BY <1>1, <1>2, WFMin
<1>4. ASSUME NEW y \in fds PROVE x <= y
  <2>1. <<y, x>> \notin Less /\ x \in Nat /\ y \in Nat BY <1>2, <1>3
  <2>2. ~ (y < x) BY <2>1 DEF Less
  <2>. QED BY <2>1, <2>2
<1>. QED BY <1>4 DEF Lowest

ClientRecord == [pc : ClientPc, wait : BOOLEAN, ret : Result, result : Result]

(* Assigning to one field of a client's record keeps its type. *)
LEMMA ClientField ==
  ASSUME NEW f \in [Clients -> ClientRecord], NEW c \in Clients
  PROVE  /\ \A pc \in ClientPc : [f EXCEPT ![c].pc = pc] \in [Clients -> ClientRecord]
         /\ \A wait \in BOOLEAN : [f EXCEPT ![c].wait = wait] \in [Clients -> ClientRecord]
         /\ \A ret \in Result : [f EXCEPT ![c].ret = ret] \in [Clients -> ClientRecord]
         /\ \A ret \in Result : [f EXCEPT ![c].result = ret] \in [Clients -> ClientRecord]
<1>1. ASSUME NEW pc \in ClientPc PROVE [f EXCEPT ![c].pc = pc] \in [Clients -> ClientRecord]
  BY DEF ClientRecord
<1>2. ASSUME NEW wait \in BOOLEAN PROVE [f EXCEPT ![c].wait = wait] \in [Clients -> ClientRecord]
  BY DEF ClientRecord
<1>3. ASSUME NEW ret \in Result PROVE [f EXCEPT ![c].ret = ret] \in [Clients -> ClientRecord]
  BY DEF ClientRecord
<1>4. ASSUME NEW ret \in Result PROVE [f EXCEPT ![c].result = ret] \in [Clients -> ClientRecord]
  BY DEF ClientRecord
<1>. QED BY <1>1, <1>2, <1>3, <1>4

(* What sckClient_connect assigns keeps a client's type. *)
LEMMA ClientType ==
  ASSUME TypeOK, NEW c \in Clients, NEW pc \in ClientPc,
         NEW wait \in BOOLEAN, NEW ret \in Result, NEW result \in Result
  PROVE  /\ [cl EXCEPT ![c].pc = pc] \in [Clients -> ClientRecord]
         /\ [cl EXCEPT ![c].pc = pc, ![c].wait = wait] \in [Clients -> ClientRecord]
         /\ [cl EXCEPT ![c].pc = pc, ![c].ret = ret] \in [Clients -> ClientRecord]
         /\ [cl EXCEPT ![c].pc = pc, ![c].result = result] \in [Clients -> ClientRecord]
         /\ [cl EXCEPT ![c].pc = pc, ![c].ret = ret, ![c].result = result]
              \in [Clients -> ClientRecord]
<1>0. cl \in [Clients -> ClientRecord] BY DEF TypeOK, ClientRecord
<1>1. [cl EXCEPT ![c].pc = pc] \in [Clients -> ClientRecord] BY <1>0, ClientField
<1>2. [cl EXCEPT ![c].pc = pc, ![c].wait = wait] \in [Clients -> ClientRecord]
  BY <1>0, ClientField
<1>3. [cl EXCEPT ![c].pc = pc, ![c].ret = ret] \in [Clients -> ClientRecord]
  BY <1>0, ClientField
<1>4. [cl EXCEPT ![c].pc = pc, ![c].result = result] \in [Clients -> ClientRecord]
  BY <1>0, ClientField
<1>5. [cl EXCEPT ![c].pc = pc, ![c].ret = ret, ![c].result = result]
        \in [Clients -> ClientRecord]
  BY <1>0, ClientField
<1>. QED BY <1>1, <1>2, <1>3, <1>4, <1>5

(* A step of a client's connect that leaves its socket alone, or changes    *)
(* one that is not established, changes nothing for the server.             *)
LEMMA ServerSide ==
  ASSUME SetupInv, NEW c \in Clients, sock[c] # "established",
         UNCHANGED <<backlog, conn, srv, failed>>,
         \A d \in Clients : d # c => sock'[d] = sock[d]
  PROVE  AcceptInv' /\ ServesOwn'
<1>0. TypeOK /\ AcceptInv /\ ServesOwn BY DEF SetupInv
<1>1. AcceptInv' BY <1>0 DEF AcceptInv, TypeOK
<1>2. ServesOwn' BY <1>0 DEF ServesOwn, HasOwn, TypeOK
<1>. QED BY <1>1, <1>2

(* Nor does a step that leaves the sockets alone. *)
LEMMA ServerSame ==
  ASSUME SetupInv, UNCHANGED <<backlog, conn, srv, failed, sock>>
  PROVE  AcceptInv' /\ ServesOwn'
BY DEF SetupInv, AcceptInv, ServesOwn, HasOwn

(* sckClient_connect and the handshake. *)
LEMMA ClientStep ==
  ASSUME SetupInv, NEW c \in Clients, sckClient_connect(c) \/ Handshake(c)
  PROVE  SetupInv'
<1>0. TypeOK /\ ClientInv /\ AcceptInv /\ ServesOwn BY DEF SetupInv
<1>1. CASE ConnectCall(c)
  <2>0. PICK wait \in BOOLEAN :
          /\ cl' = [cl EXCEPT ![c].pc = "connect", ![c].wait = wait]
          /\ blocking' = [blocking EXCEPT ![c] = ~ wait]
    BY <1>1 DEF ConnectCall
  <2>1. TypeOK'
    <3>1. cl' \in [Clients -> ClientRecord] BY <1>0, <2>0, ClientType
    <3>2. blocking' \in [Clients -> BOOLEAN] BY <1>0, <2>0 DEF TypeOK
    <3>. QED BY <1>0, <1>1, <3>1, <3>2 DEF ConnectCall, TypeOK, ClientRecord
  <2>2. ClientInv'
    <3>1. /\ cl'[c].pc = "connect" /\ cl'[c].result = cl[c].result /\ sock'[c] = "made"
          /\ cl'[c].wait = wait /\ blocking'[c] = ~ wait
      BY <1>0, <1>1, <2>0 DEF ConnectCall, TypeOK
    <3>1a. blocking'[c] \/ cl'[c].wait BY <3>1
    <3>2. cl[c].result = "none" BY <1>0, <1>1 DEF ConnectCall, ClientInv, ClientIs
    <3>3. \A d \in Clients : d # c =>
            cl'[d] = cl[d] /\ blocking'[d] = blocking[d] /\ sock'[d] = sock[d]
      BY <1>0, <1>1, <2>0 DEF ConnectCall, TypeOK
    <3>4. ASSUME NEW d \in Clients, d # c PROVE ClientIs(d)'
      <4>1. ClientIs(d) BY <1>0 DEF ClientInv
      <4>. QED BY <1>1, <3>3, <3>4, <4>1 DEF ConnectCall, ClientIs, Reached
    <3>5. ClientIs(c)' BY <3>1, <3>1a, <3>2 DEF ClientIs
    <3>. QED BY <3>4, <3>5 DEF ClientInv
  <2>3. AcceptInv' /\ ServesOwn'
    BY <1>0, <1>1, ServerSide DEF ConnectCall, TypeOK, ClientInv, ClientIs
  <2>. QED BY <2>1, <2>2, <2>3 DEF SetupInv
<1>2. CASE SocketFails(c)
  <2>1. TypeOK'
    <3>1. cl' \in [Clients -> ClientRecord] BY <1>0, <1>2, ClientType DEF SocketFails
    <3>. QED BY <1>0, <1>2, <3>1 DEF SocketFails, TypeOK, ClientRecord
  <2>2. ClientInv' BY <1>0, <1>2 DEF SocketFails, TypeOK, ClientInv, ClientIs, Reached
  <2>. QED BY <1>2, <2>1, <2>2, ServerSame DEF SocketFails, SetupInv
<1>3. CASE Connect(c)
  <2>1. TypeOK'
    <3>1. cl' \in [Clients -> ClientRecord] BY <1>0, <1>3, ClientType DEF Connect
    <3>. QED BY <1>0, <1>3, <3>1 DEF Connect, TypeOK, ClientRecord
  <2>2. ClientInv' BY <1>0, <1>3 DEF Connect, TypeOK, ClientInv, ClientIs, Reached
  <2>3. AcceptInv' /\ ServesOwn'
    BY <1>0, <1>3, ServerSide DEF Connect, TypeOK, ClientInv, ClientIs
  <2>. QED BY <2>1, <2>2, <2>3 DEF SetupInv
<1>4. CASE ConnectFails(c)
  <2>1. TypeOK'
    <3>0. PICK ret \in {"timeout", "fail"} : Restore(c, ret) BY <1>4 DEF ConnectFails
    <3>1. cl' \in [Clients -> ClientRecord] BY <1>0, <3>0, ClientType DEF Restore
    <3>. QED BY <1>0, <1>4, <3>1 DEF ConnectFails, Restore, TypeOK, ClientRecord
  <2>2. ClientInv' BY <1>0, <1>4 DEF ConnectFails, Restore, TypeOK, ClientInv, ClientIs, Reached
  <2>. QED BY <1>4, <2>1, <2>2, ServerSame DEF ConnectFails, SetupInv
<1>5. CASE ConnectReturns(c)
  <2>1. TypeOK'
    <3>1. cl' \in [Clients -> ClientRecord] BY <1>0, <1>5, ClientType DEF ConnectReturns, Restore
    <3>. QED BY <1>0, <1>5, <3>1 DEF ConnectReturns, Restore, TypeOK, ClientRecord
  <2>2. ClientInv' BY <1>0, <1>5 DEF ConnectReturns, Restore, TypeOK, ClientInv, ClientIs, Reached
  <2>. QED BY <1>5, <2>1, <2>2, ServerSame DEF ConnectReturns, SetupInv
<1>6. CASE SelectWritable(c)
  <2>1. TypeOK'
    <3>1. cl' \in [Clients -> ClientRecord] BY <1>0, <1>6, ClientType DEF SelectWritable
    <3>. QED BY <1>0, <1>6, <3>1 DEF SelectWritable, TypeOK, ClientRecord
  <2>2. ClientInv' BY <1>0, <1>6 DEF SelectWritable, TypeOK, ClientInv, ClientIs, Reached
  <2>. QED BY <1>6, <2>1, <2>2, ServerSame DEF SelectWritable, SetupInv
<1>7. CASE SelectTimesOut(c)
  <2>1. TypeOK'
    <3>1. cl' \in [Clients -> ClientRecord] BY <1>0, <1>7, ClientType DEF SelectTimesOut, Restore
    <3>. QED BY <1>0, <1>7, <3>1 DEF SelectTimesOut, Restore, TypeOK, ClientRecord
  <2>2. ClientInv' BY <1>0, <1>7 DEF SelectTimesOut, Restore, TypeOK, ClientInv, ClientIs, Reached
  <2>. QED BY <1>7, <2>1, <2>2, ServerSame DEF SelectTimesOut, SetupInv
<1>8. CASE SockOpt(c)
  <2>1. TypeOK'
    <3>1. cl' \in [Clients -> ClientRecord] BY <1>0, <1>8, ClientType DEF SockOpt, Restore
    <3>. QED BY <1>0, <1>8, <3>1 DEF SockOpt, Restore, TypeOK, ClientRecord
  <2>2. ClientInv' BY <1>0, <1>8 DEF SockOpt, SockError, Restore, TypeOK, ClientInv, ClientIs, Reached
  <2>. QED BY <1>8, <2>1, <2>2, ServerSame DEF SockOpt, SetupInv
<1>9. CASE WaitFails(c)
  <2>1. TypeOK'
    <3>1. cl' \in [Clients -> ClientRecord] BY <1>0, <1>9, ClientType DEF WaitFails
    <3>. QED BY <1>0, <1>9, <3>1 DEF WaitFails, TypeOK, ClientRecord
  <2>2. ClientInv' BY <1>0, <1>9 DEF WaitFails, TypeOK, ClientInv, ClientIs, Reached
  <2>. QED BY <1>9, <2>1, <2>2, ServerSame DEF WaitFails, SetupInv
<1>10. CASE ConnectDone(c)
  <2>1. TypeOK'
    <3>0. cl[c].ret \in Result BY <1>0 DEF TypeOK
    <3>1. cl' \in [Clients -> ClientRecord] BY <1>0, <1>10, <3>0, ClientType DEF ConnectDone
    <3>. QED BY <1>0, <1>10, <3>1 DEF ConnectDone, Deactivated, TypeOK, ClientRecord
  <2>2. ClientInv' BY <1>0, <1>10 DEF ConnectDone, Deactivated, TypeOK, ClientInv, ClientIs, Reached
  <2>. QED BY <1>10, <2>1, <2>2, ServerSame DEF ConnectDone, SetupInv
<1>11. CASE Establish(c)
  <2>1. TypeOK' BY <1>0, <1>11 DEF Establish, TypeOK
  <2>2. ClientInv' BY <1>0, <1>11 DEF Establish, TypeOK, ClientInv, ClientIs, Reached
  <2>3. AcceptInv' BY <1>0, <1>11 DEF Establish, TypeOK, AcceptInv
  <2>4. ServesOwn' BY <1>0, <1>11 DEF Establish, TypeOK, ServesOwn, HasOwn
  <2>. QED BY <2>1, <2>2, <2>3, <2>4 DEF SetupInv
<1>12. CASE Refuse(c)
  <2>1. TypeOK' BY <1>0, <1>12 DEF Refuse, TypeOK
  <2>2. ClientInv' BY <1>0, <1>12 DEF Refuse, TypeOK, ClientInv, ClientIs, Reached
  <2>3. AcceptInv' /\ ServesOwn' BY <1>0, <1>12, ServerSide DEF Refuse, TypeOK
  <2>. QED BY <2>1, <2>2, <2>3 DEF SetupInv
<1>. QED
  BY <1>1, <1>2, <1>3, <1>4, <1>5, <1>6, <1>7, <1>8, <1>9, <1>10, <1>11, <1>12
  DEF sckClient_connect, Connecting, Handshake

-----------------------------------------------------------------------------
ServerRecord == [pc : ServerPc, wait : BOOLEAN, ret : Result,
                 connfd : FD \cup {NoFd, Errno}, served : 0 .. NServed]

(* What sckServer_accept and sckServer_close leave in a thread's variables. *)
LEMMA ServerType ==
  ASSUME TypeOK, NEW t \in Servers, NEW pc \in ServerPc, NEW wait \in BOOLEAN,
         NEW ret \in Result, NEW fd \in FD \cup {NoFd, Errno}
  PROVE  /\ [srv[t] EXCEPT !.pc = pc, !.wait = wait, !.ret = ret] \in ServerRecord
         /\ [srv[t] EXCEPT !.pc = pc] \in ServerRecord
         /\ [srv[t] EXCEPT !.pc = pc, !.ret = ret] \in ServerRecord
         /\ [srv[t] EXCEPT !.pc = pc, !.connfd = fd] \in ServerRecord
         /\ srv[t].served < NServed =>
              [srv[t] EXCEPT !.pc = pc, !.ret = ret, !.connfd = fd,
                             !.served = @ + 1] \in ServerRecord
<1>0. srv[t] \in ServerRecord BY DEF TypeOK, ServerRecord
<1>1. srv[t].served \in 0 .. NServed BY <1>0 DEF ServerRecord
<1>2. srv[t].served < NServed => srv[t].served + 1 \in 0 .. NServed BY <1>1, SizesAssumption
<1>3. [srv[t] EXCEPT !.pc = pc, !.wait = wait, !.ret = ret] \in ServerRecord BY <1>0 DEF ServerRecord
<1>4. [srv[t] EXCEPT !.pc = pc] \in ServerRecord BY <1>0 DEF ServerRecord
<1>5. [srv[t] EXCEPT !.pc = pc, !.ret = ret] \in ServerRecord BY <1>0 DEF ServerRecord
<1>6. [srv[t] EXCEPT !.pc = pc, !.connfd = fd] \in ServerRecord BY <1>0 DEF ServerRecord
<1>7. ASSUME srv[t].served + 1 \in 0 .. NServed
      PROVE  [srv[t] EXCEPT !.pc = pc, !.ret = ret, !.connfd = fd,
                            !.served = @ + 1] \in ServerRecord
  BY <1>0, <1>7 DEF ServerRecord
<1>. QED BY <1>2, <1>3, <1>4, <1>5, <1>6, <1>7

(* A step of thread t, seen as an assignment to its record. *)
LEMMA ThreadStep ==
  ASSUME SetupInv, NEW t \in Servers, NEW r \in ServerRecord,
         srv' = [srv EXCEPT ![t] = r], UNCHANGED <<listener, sock, blocking, cl>>,
         backlog' \subseteq backlog, conn' \in [FD -> Clients \cup {None}],
         failed' \in BOOLEAN, r.pc \in {"select", "accept"} => r.served < NServed
  PROVE  /\ TypeOK' /\ ClientInv' /\ AcceptInv'
         /\ srv'[t] = r /\ \A u \in Servers : u # t => srv'[u] = srv[u]
<1>0. TypeOK /\ ClientInv /\ AcceptInv BY DEF SetupInv
<1>1. srv' \in [Servers -> ServerRecord] BY <1>0 DEF TypeOK, ServerRecord
<1>2. TypeOK' BY <1>0, <1>1 DEF TypeOK, ServerRecord
<1>3. ClientInv' BY <1>0 DEF ClientInv, ClientIs, Reached
<1>4. srv'[t] = r /\ \A u \in Servers : u # t => srv'[u] = srv[u] BY <1>0 DEF TypeOK
<1>5. AcceptInv' BY <1>0, <1>4 DEF AcceptInv
<1>. QED BY <1>2, <1>3, <1>4, <1>5

(* sckServer_accept and sckServer_close, by any thread of the server. *)
LEMMA ServerStep ==
  ASSUME SetupInv, NEW t \in Servers, sckServer_accept(t) \/ ServerClose(t)
  PROVE  SetupInv'
<1>0. TypeOK /\ ClientInv /\ AcceptInv /\ ServesOwn BY DEF SetupInv
<1>1. CASE \/ AcceptCall(t) \/ AcceptReady(t) \/ AcceptTimesOut(t) \/ AcceptSelectFails(t)
  <2>1. PICK r \in ServerRecord :
          /\ srv' = [srv EXCEPT ![t] = r] /\ srv[t].pc # "serving" /\ r.pc # "serving"
          /\ r.pc \in {"select", "accept"} => r.served < NServed
    <3>1. CASE AcceptCall(t)
      <4>1. PICK wait \in BOOLEAN :
              srv' = [srv EXCEPT ![t] = [@ EXCEPT !.pc = "select", !.wait = wait, !.ret = "none"]]
        BY <3>1 DEF AcceptCall
      <4>2. [srv[t] EXCEPT !.pc = "select", !.wait = wait, !.ret = "none"] \in ServerRecord
        BY <1>0, ServerType
      <4>. DEFINE r == [srv[t] EXCEPT !.pc = "select", !.wait = wait, !.ret = "none"]
      <4>3. r.pc = "select" /\ r.served = srv[t].served BY <1>0 DEF TypeOK
      <4>4. srv' = [srv EXCEPT ![t] = r] BY <1>0, <4>1 DEF TypeOK
      <4>. QED BY <3>1, <4>2, <4>3, <4>4 DEF AcceptCall
    <3>2. CASE AcceptReady(t)
      <4>. DEFINE r == [srv[t] EXCEPT !.pc = "accept"]
      <4>1. r \in ServerRecord BY <1>0, ServerType
      <4>2. r.pc = "accept" /\ r.served = srv[t].served BY <1>0 DEF TypeOK
      <4>3. srv' = [srv EXCEPT ![t] = r] BY <1>0, <3>2 DEF AcceptReady, TypeOK
      <4>4. srv[t].pc = "select" /\ srv[t].served < NServed
        BY <1>0, <3>2 DEF AcceptReady, AcceptInv
      <4>. QED BY <4>1, <4>2, <4>3, <4>4
    <3>3. CASE AcceptTimesOut(t) \/ AcceptSelectFails(t)
      <4>1. PICK ret \in {"timeout", "fail"} :
              srv' = [srv EXCEPT ![t].pc = "idle", ![t].ret = ret]
        BY <3>3 DEF AcceptTimesOut, AcceptSelectFails
      <4>. DEFINE r == [srv[t] EXCEPT !.pc = "idle", !.ret = ret]
      <4>2. r \in ServerRecord BY <1>0, ServerType
      <4>3. r.pc = "idle" BY <1>0 DEF TypeOK
      <4>4. srv' = [srv EXCEPT ![t] = r] BY <1>0, <4>1 DEF TypeOK
      <4>5. srv[t].pc = "select" BY <3>3 DEF AcceptTimesOut, AcceptSelectFails
      <4>. QED BY <4>2, <4>3, <4>4, <4>5
    <3>. QED BY <1>1, <3>1, <3>2, <3>3
  <2>2. UNCHANGED <<failed, listener, backlog, conn, sock, blocking, cl>>
    BY <1>1 DEF AcceptCall, AcceptReady, AcceptTimesOut, AcceptSelectFails
  <2>3. /\ TypeOK' /\ ClientInv' /\ AcceptInv'
        /\ srv'[t] = r /\ \A u \in Servers : u # t => srv'[u] = srv[u]
    BY <1>0, <2>1, <2>2, ThreadStep DEF TypeOK
  <2>4. ServesOwn' BY <1>0, <2>1, <2>2, <2>3 DEF ServesOwn, HasOwn
  <2>. QED BY <2>3, <2>4 DEF SetupInv
<1>2. CASE Accept(t)
  <2>1. AcceptedFd \in FD /\ conn[AcceptedFd] = None
    BY <1>2, LowestIs DEF Accept, AcceptedFd, ClosedFds
  <2>2. PICK c \in backlog : backlog' = backlog \ {c} /\ conn' = [conn EXCEPT ![AcceptedFd] = c]
    BY <1>2 DEF Accept
  <2>. DEFINE r == [srv[t] EXCEPT !.pc = "serving", !.ret = "ok", !.connfd = AcceptedFd,
                                  !.served = @ + 1]
  <2>3. srv[t].pc = "accept" /\ srv[t].served < NServed BY <1>0, <1>2 DEF Accept, AcceptInv
  <2>4. r \in ServerRecord BY <1>0, <2>1, <2>3, ServerType
  <2>5. r.pc = "serving" /\ r.connfd = AcceptedFd BY <1>0 DEF TypeOK
  <2>6. srv' = [srv EXCEPT ![t] = r] BY <1>0, <1>2 DEF Accept, TypeOK
  <2>. HIDE DEF r
  <2>7. c \in Clients /\ sock[c] = "established" /\ c # None
    BY <1>0, ClientsAssumption DEF TypeOK, AcceptInv
  <2>8. conn' \in [FD -> Clients \cup {None}] BY <1>0, <2>2, <2>7 DEF TypeOK
  <2>9. UNCHANGED <<failed, listener, sock, blocking, cl>> BY <1>2 DEF Accept
  <2>10. /\ TypeOK' /\ ClientInv' /\ AcceptInv'
         /\ srv'[t] = r /\ \A u \in Servers : u # t => srv'[u] = srv[u]
    BY <1>0, <2>2, <2>4, <2>5, <2>6, <2>8, <2>9, ThreadStep DEF TypeOK
  <2>11. ASSUME ~ failed' PROVE ServesOwn'
    <3>1. ~ failed BY <2>9, <2>11
    <3>2. /\ conn'[AcceptedFd] = c /\ \A fd \in FD : fd # AcceptedFd => conn'[fd] = conn[fd]
      BY <1>0, <2>1, <2>2 DEF TypeOK
    <3>3. \A fd \in FD : conn[fd] # c BY <1>0, <2>7, <3>1 DEF ServesOwn
    <3>4. \A u \in Servers : u # t /\ srv[u].pc = "serving" =>
             srv[u].connfd \in FD /\ srv[u].connfd # AcceptedFd /\ conn[srv[u].connfd] # None
      BY <1>0, <2>1, <3>1 DEF ServesOwn, HasOwn
    <3>5. ASSUME NEW u \in Servers, srv'[u].pc = "serving" PROVE HasOwn(u)'
      <4>1. CASE u = t
        BY <2>1, <2>5, <2>7, <2>10, <3>2, <3>4, <4>1 DEF HasOwn
      <4>2. CASE u # t
        <5>1. HasOwn(u) BY <1>0, <2>10, <3>1, <3>5, <4>2 DEF ServesOwn
        <5>2. srv'[u] = srv[u] /\ conn'[srv[u].connfd] = conn[srv[u].connfd]
          BY <2>10, <3>2, <3>4, <3>5, <4>2
        <5>3. \A v \in Servers \ {u} : srv'[v].pc = "serving" => srv'[v].connfd # srv[u].connfd
          BY <2>3, <2>5, <2>10, <3>4, <3>5, <4>2, <5>1 DEF HasOwn
        <5>. QED BY <5>1, <5>2, <5>3 DEF HasOwn
      <4>. QED BY <4>1, <4>2
    <3>6. ASSUME NEW fd \in FD, conn'[fd] # None
          PROVE  /\ conn'[fd] \notin backlog' /\ sock'[conn'[fd]] = "established"
                 /\ \A other \in FD \ {fd} : conn'[other] # conn'[fd]
                 /\ \E u \in Servers : srv'[u].pc = "serving" /\ srv'[u].connfd = fd
      <4>1. CASE fd = AcceptedFd
        BY <2>1, <2>2, <2>5, <2>7, <2>9, <2>10, <3>2, <3>3, <4>1
      <4>2. CASE fd # AcceptedFd
        <5>1. conn'[fd] = conn[fd] /\ conn[fd] # None BY <3>2, <3>6, <4>2
        <5>2. /\ conn[fd] \notin backlog /\ sock[conn[fd]] = "established"
              /\ \A other \in FD \ {fd} : conn[other] # conn[fd]
              /\ \E u \in Servers : srv[u].pc = "serving" /\ srv[u].connfd = fd
          BY <1>0, <3>1, <5>1 DEF ServesOwn
        <5>3. PICK u \in Servers : srv[u].pc = "serving" /\ srv[u].connfd = fd BY <5>2
        <5>4. u # t BY <2>3, <5>3
        <5>. QED BY <2>2, <2>9, <2>10, <3>2, <3>3, <5>1, <5>2, <5>3, <5>4
      <4>. QED BY <4>1, <4>2
    <3>. QED BY <3>5, <3>6 DEF ServesOwn
  <2>12. ServesOwn' BY <2>11 DEF ServesOwn
  <2>. QED BY <2>10, <2>12 DEF SetupInv
<1>3. CASE AcceptNoFd(t)
  <2>. DEFINE r == [srv[t] EXCEPT !.pc = "serving", !.ret = "ok", !.connfd = Errno,
                                  !.served = @ + 1]
  <2>1. srv[t].pc = "accept" /\ srv[t].served < NServed BY <1>0, <1>3 DEF AcceptNoFd, AcceptInv
  <2>2. r \in ServerRecord BY <1>0, <2>1, ServerType
  <2>3. r.pc = "serving" BY <1>0 DEF TypeOK
  <2>4. srv' = [srv EXCEPT ![t] = r] BY <1>0, <1>3 DEF AcceptNoFd, TypeOK
  <2>. HIDE DEF r
  <2>5. UNCHANGED <<listener, backlog, conn, sock, blocking, cl>> /\ failed' = TRUE
    BY <1>3 DEF AcceptNoFd
  <2>6. TypeOK' /\ ClientInv' /\ AcceptInv'
    BY <1>0, <2>2, <2>3, <2>4, <2>5, ThreadStep DEF TypeOK
  <2>7. ServesOwn' BY <2>5 DEF ServesOwn
  <2>. QED BY <2>6, <2>7 DEF SetupInv
<1>4. CASE ServerClose(t)
  <2>. DEFINE r == [srv[t] EXCEPT !.pc = "idle", !.connfd = NoFd]
  <2>1. /\ srv[t].pc = "serving"
        /\ conn' = [fd \in FD |-> IF fd = srv[t].connfd THEN None ELSE conn[fd]]
        /\ UNCHANGED <<failed, listener, backlog, sock, blocking, cl>>
    BY <1>4 DEF ServerClose
  <2>2. r \in ServerRecord BY <1>0, ServerType
  <2>3. r.pc = "idle" BY <1>0 DEF TypeOK
  <2>4. srv' = [srv EXCEPT ![t] = r] BY <1>0, <1>4 DEF ServerClose, TypeOK
  <2>. HIDE DEF r
  <2>5. conn' \in [FD -> Clients \cup {None}] BY <1>0, <2>1 DEF TypeOK
  <2>6. /\ TypeOK' /\ ClientInv' /\ AcceptInv'
        /\ srv'[t] = r /\ \A u \in Servers : u # t => srv'[u] = srv[u]
    BY <1>0, <2>1, <2>2, <2>3, <2>4, <2>5, ThreadStep DEF TypeOK
  <2>7. ASSUME ~ failed' PROVE ServesOwn'
    <3>1. ~ failed /\ HasOwn(t) BY <1>0, <2>1, <2>7 DEF ServesOwn
    <3>2. ASSUME NEW u \in Servers, srv'[u].pc = "serving" PROVE HasOwn(u)'
      <4>1. u # t BY <2>3, <2>6, <3>2
      <4>2. HasOwn(u) BY <1>0, <2>6, <3>1, <3>2, <4>1 DEF ServesOwn
      <4>3. srv'[u] = srv[u] BY <2>6, <4>1
      <4>4. srv[u].connfd # srv[t].connfd BY <3>1, <3>2, <4>1, <4>3 DEF HasOwn
      <4>5. srv'[u].connfd \in FD /\ conn'[srv'[u].connfd] # None
        BY <2>1, <4>2, <4>3, <4>4 DEF HasOwn
      <4>6. \A v \in Servers \ {u} : srv'[v].pc = "serving" => srv'[v].connfd # srv'[u].connfd
        BY <2>3, <2>6, <4>2, <4>3 DEF HasOwn
      <4>. QED BY <4>5, <4>6 DEF HasOwn
    <3>3. ASSUME NEW fd \in FD, conn'[fd] # None
          PROVE  /\ conn'[fd] \notin backlog' /\ sock'[conn'[fd]] = "established"
                 /\ \A other \in FD \ {fd} : conn'[other] # conn'[fd]
                 /\ \E u \in Servers : srv'[u].pc = "serving" /\ srv'[u].connfd = fd
      <4>1. fd # srv[t].connfd /\ conn'[fd] = conn[fd] BY <2>1, <3>3
      <4>2. /\ conn[fd] \notin backlog /\ sock[conn[fd]] = "established"
            /\ \A other \in FD \ {fd} : conn[other] # conn[fd]
            /\ \E u \in Servers : srv[u].pc = "serving" /\ srv[u].connfd = fd
        BY <1>0, <3>1, <3>3, <4>1 DEF ServesOwn
      <4>3. \A other \in FD \ {fd} : conn'[other] # conn'[fd] BY <2>1, <3>3, <4>1, <4>2
      <4>4. PICK u \in Servers : srv[u].pc = "serving" /\ srv[u].connfd = fd BY <4>2
      <4>. QED BY <2>1, <2>6, <4>1, <4>2, <4>3, <4>4
    <3>. QED BY <3>2, <3>3 DEF ServesOwn
  <2>8. ServesOwn' BY <2>7 DEF ServesOwn
  <2>. QED BY <2>6, <2>8 DEF SetupInv
<1>. QED BY <1>1, <1>2, <1>3, <1>4 DEF sckServer_accept, Accepting

-----------------------------------------------------------------------------
(* Opening the listening socket disturbs nobody. *)
LEMMA ListenStep == ASSUME SetupInv, ServerInit \/ ServerInitFails PROVE SetupInv'
<1>0. TypeOK /\ ClientInv BY DEF SetupInv
<1>1. /\ UNCHANGED <<failed, backlog, conn, srv, sock, blocking, cl>>
      /\ listener = "none" /\ listener' \in {"listening", "open"}
  BY DEF ServerInit, ServerInitFails
<1>2. TypeOK' BY <1>0, <1>1 DEF TypeOK
<1>3. ClientInv' BY <1>0, <1>1 DEF ClientInv, ClientIs, Reached
<1>. QED BY <1>1, <1>2, <1>3, ServerSame DEF SetupInv

(* A step of the C library. *)
LEMMA SetupStep == ASSUME SetupInv, [Next]_vars PROVE SetupInv'
<1>1. CASE UNCHANGED vars
  BY <1>1 DEF vars, SetupInv, TypeOK, ClientInv, ClientIs, Reached, AcceptInv, ServesOwn, HasOwn
<1>. QED BY <1>1, ListenStep, ClientStep, ServerStep DEF Next

(* Closing the listening socket resets only what nobody has accepted. *)
LEMMA CloseStep == ASSUME SetupInv, closefd PROVE SetupInv'
<1>0. TypeOK /\ ClientInv /\ AcceptInv /\ ServesOwn BY DEF SetupInv
<1>1. /\ listener = "listening" /\ listener' = "closed" /\ backlog' = {}
      /\ sock' = [c \in Clients |-> IF c \in backlog THEN "refused" ELSE sock[c]]
      /\ UNCHANGED <<conn, srv, failed, blocking, cl>>
  BY DEF closefd
<1>2. TypeOK' BY <1>0, <1>1 DEF TypeOK
<1>3. ClientInv'
  <2>. SUFFICES ASSUME NEW c \in Clients PROVE ClientIs(c)' BY DEF ClientInv
  <2>1. ClientIs(c) BY <1>0 DEF ClientInv
  <2>2. sock'[c] = sock[c] \/ (sock[c] = "established" /\ sock'[c] = "refused")
    BY <1>0, <1>1 DEF AcceptInv
  <2>. QED BY <1>1, <2>1, <2>2 DEF ClientIs, Reached
<1>4. AcceptInv' BY <1>0, <1>1 DEF AcceptInv
<1>5. ServesOwn'
  <2>1. \A fd \in FD : conn[fd] # None /\ conn[fd] \notin backlog
                         => sock'[conn[fd]] = sock[conn[fd]]
    BY <1>0, <1>1 DEF TypeOK
  <2>. QED BY <1>0, <1>1, <2>1 DEF ServesOwn, HasOwn
<1>. QED BY <1>2, <1>3, <1>4, <1>5 DEF SetupInv

(* A step of a program that uses the C functions or the C++ classes: but    *)
(* for closefd, the classes take steps of the C functions.                  *)
LEMMA TcpStep == ASSUME SetupInv, [TcpNext]_tcpVars PROVE SetupInv'
<1>1. CASE UNCHANGED tcpVars BY <1>1, SetupStep DEF tcpVars
<1>2. CASE Next BY <1>2, SetupStep
<1>3. CASE setListen BY <1>3, ListenStep DEF setListen
<1>4. CASE closefd BY <1>4, CloseStep
<1>5. ASSUME NEW c \in Clients, connectToHost(c) \/ connectTimeout(c) \/ TcpHandshake(c)
      PROVE  SetupInv'
  BY <1>5, ClientStep DEF connectToHost, connectTimeout, TcpHandshake, sckClient_connect
<1>6. ASSUME NEW t \in TcpThreads, acceptConn(t) \/ acceptTimeout(t) \/ disConnect(t)
      PROVE  SetupInv'
  <2>1. t \in Servers BY ThreadsAssumption
  <2>. QED BY <1>6, <2>1, ServerStep DEF acceptConn, acceptTimeout, disConnect, sckServer_accept
<1>. QED BY <1>1, <1>2, <1>3, <1>4, <1>5, <1>6 DEF TcpNext

(* Before anybody has called anything. *)
LEMMA SetupInitial == Init => SetupInv
<1>. SUFFICES ASSUME Init PROVE SetupInv OBVIOUS
<1>1. TypeOK
  <2>1. srv \in [Servers -> ServerRecord] BY SizesAssumption DEF Init, ServerRecord
  <2>2. cl \in [Clients -> ClientRecord] BY DEF Init, ClientRecord
  <2>3. conn \in [FD -> Clients \cup {None}] BY DEF Init
  <2>. QED BY <2>1, <2>2, <2>3 DEF Init, TypeOK, ServerRecord, ClientRecord
<1>2. ClientInv BY DEF Init, ClientInv, ClientIs
<1>3. AcceptInv BY DEF Init, AcceptInv
<1>4. ServesOwn BY DEF Init, ServesOwn
<1>. QED BY <1>1, <1>2, <1>3, <1>4 DEF SetupInv

(* Connection setup stays within its invariant, in C and in C++: in         *)
(* particular it is type correct.                                           *)
THEOREM SetupSafe == TcpSpec => [](SetupInv /\ TypeOK)
<1>1. TcpInit => SetupInv BY SetupInitial DEF TcpInit
<1>2. SetupInv /\ [TcpNext]_tcpVars => SetupInv' BY TcpStep
<1>3. SetupInv => TypeOK BY DEF SetupInv
<1>. QED BY <1>1, <1>2, <1>3, PTL DEF TcpSpec

(* Whatever the order of handshake, timeout, signal and closefd, a connect  *)
(* that reports success leaves an established, blocking socket.             *)
THEOREM SetupConnects == TcpSpec => []ConnectedIsUsable
<1>1. SetupInv => ConnectedIsUsable
  BY DEF SetupInv, ClientInv, ClientIs, Reached, ConnectedIsUsable
<1>. QED BY <1>1, SetupSafe, PTL

(* The threads of a server never share a connection that sckServer_accept   *)
(* or acceptConn has returned, until an errno is taken for a descriptor.    *)
THEOREM SetupServes == TcpSpec => []ServesOwn
<1>1. SetupInv => ServesOwn BY DEF SetupInv
<1>. QED BY <1>1, SetupSafe, PTL
=============================================================================
