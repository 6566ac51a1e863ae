----------------------------- MODULE SockSetup ------------------------------
(***************************************************************************)
(* How connections of Csocket/socketutil.c come about: sckServer_init, the *)
(* threads of a server in sckServer_accept (accept_timeout), and clients   *)
(* in sckClient_connect (connect_timeout, activate_nonblock,               *)
(* deactivate_nonblock), with the kernel's handshake between them.         *)
(* Interrupted calls of select are repeated and change nothing.            *)
(***************************************************************************)
EXTENDS Integers, FiniteSets

CONSTANTS Clients,   \* processes that connect, once each
          Servers,   \* threads of the server that accept
          NFd,       \* descriptors the server may have open
          Errno,     \* the errno of an accept that fails
          Queue,     \* connections the listening socket holds
          MayFail,   \* whether system calls fail
          NServed    \* bound on the connections a thread serves

FD   == 1 .. NFd
NoFd == 0
None == "none"

ASSUME SizesAssumption ==
  NFd \in Nat /\ Errno \in Nat \ {0} /\ Queue \in Nat \ {0} /\ NServed \in Nat
ASSUME FailAssumption == MayFail \in BOOLEAN
ASSUME ClientsAssumption == None \notin Clients

VARIABLES listener,  \* "none", "open" (made, not listening), "listening", "closed"
          backlog,   \* established, not yet accepted
          conn,      \* server: whose connection each descriptor is
          srv,       \* per thread of the server: pc, timeout > 0, result, connfd,
                     \* connections served
          failed,    \* an accept has failed
          sock,      \* kernel: the client's socket
          blocking,  \* whether the client's socket is in blocking mode
          cl         \* per client: pc, wait_seconds > 0, connect's result, result

vars == <<listener, backlog, conn, srv, failed, sock, blocking, cl>>

SockState == {"none", "made", "syn", "established", "refused"}
ClientPc  == {"idle", "connect", "blocked", "select", "sockopt", "restore", "done"}
ServerPc  == {"idle", "select", "accept", "serving"}
Result    == {"none", "ok", "timeout", "fail"}

Init ==
  /\ listener = "none" /\ backlog = {}
  /\ conn = [fd \in FD |-> None]
  /\ srv = [t \in Servers |-> [pc |-> "idle", wait |-> FALSE, ret |-> "none",
                             connfd |-> NoFd, served |-> 0]]
  /\ failed = FALSE
  /\ sock = [c \in Clients |-> "none"]
  /\ blocking = [c \in Clients |-> TRUE]
  /\ cl = [c \in Clients |-> [pc |-> "idle", wait |-> FALSE, ret |-> "none", result |-> "none"]]

-----------------------------------------------------------------------------
(* sckServer_init *)
ServerInit ==
  /\ listener = "none" /\ listener' = "listening"
  /\ UNCHANGED <<failed, backlog, conn, srv, sock, blocking, cl>>

(* setsockopt, bind or listen fails: the socket stays open. *)
ServerInitFails ==
  /\ MayFail /\ listener = "none" /\ listener' = "open"
  /\ UNCHANGED <<failed, backlog, conn, srv, sock, blocking, cl>>

-----------------------------------------------------------------------------
(* sckClient_connect *)
ConnectCall(c) ==
  /\ cl[c].pc = "idle"
  /\ \E wait \in BOOLEAN :
       /\ cl' = [cl EXCEPT ![c].pc = "connect", ![c].wait = wait]
       /\ blocking' = [blocking EXCEPT ![c] = ~ wait]
  /\ sock' = [sock EXCEPT ![c] = "made"]
  /\ UNCHANGED <<failed, listener, backlog, conn, srv>>

SocketFails(c) ==
  /\ MayFail /\ cl[c].pc = "idle"
  /\ cl' = [cl EXCEPT ![c].pc = "done", ![c].result = "fail"]
  /\ UNCHANGED <<failed, listener, backlog, conn, srv, sock, blocking>>

(* connect: EINPROGRESS if the socket does not block. *)
Connect(c) ==
  /\ cl[c].pc = "connect"
  /\ sock' = [sock EXCEPT ![c] = "syn"]
  /\ cl' = [cl EXCEPT ![c].pc = IF blocking[c] THEN "blocked" ELSE "select"]
  /\ UNCHANGED <<failed, listener, backlog, conn, srv, blocking>>

Restore(c, ret) == cl' = [cl EXCEPT ![c].pc = "restore", ![c].ret = ret]

(* connect fails at once, is interrupted, or gives up waiting (ETIMEDOUT). *)
ConnectFails(c) ==
  /\ MayFail /\ cl[c].pc \in {"connect", "blocked"}
  /\ \E ret \in {"timeout", "fail"} : Restore(c, ret)
  /\ UNCHANGED <<failed, listener, backlog, conn, srv, sock, blocking>>

ConnectReturns(c) ==
  /\ cl[c].pc = "blocked" /\ sock[c] \in {"established", "refused"}
  /\ Restore(c, IF sock[c] = "established" THEN "ok" ELSE "fail")
  /\ UNCHANGED <<failed, listener, backlog, conn, srv, sock, blocking>>

SelectWritable(c) ==
  /\ cl[c].pc = "select" /\ sock[c] \in {"established", "refused"}
  /\ cl' = [cl EXCEPT ![c].pc = "sockopt"]
  /\ UNCHANGED <<failed, listener, backlog, conn, srv, sock, blocking>>

(* Fault: the time limit starts again whenever select is interrupted. *)
SelectTimesOut_Rearmed(c) ==
  cl[c].pc = "select" /\ sock[c] = "syn" /\ UNCHANGED vars

SelectTimesOut(c) ==
  /\ cl[c].pc = "select" /\ sock[c] = "syn"
  /\ Restore(c, "timeout")
  /\ UNCHANGED <<failed, listener, backlog, conn, srv, sock, blocking>>

(* SO_ERROR *)
SockError(c) == sock[c] = "refused"

SockOpt(c) ==
  /\ cl[c].pc = "sockopt"
  /\ Restore(c, IF SockError(c) THEN "fail" ELSE "ok")
  /\ UNCHANGED <<failed, listener, backlog, conn, srv, sock, blocking>>

(* select or getsockopt fails: connect_timeout returns as it is. *)
WaitFails(c) ==
  /\ MayFail /\ cl[c].pc \in {"select", "sockopt"}
  /\ cl' = [cl EXCEPT ![c].pc = "done", ![c].ret = "fail", ![c].result = "fail"]
  /\ UNCHANGED <<failed, listener, backlog, conn, srv, sock, blocking>>

(* Fault: the socket is left in the mode connect_timeout has put it in. *)
Deactivated_Never(c) == blocking[c]

(* deactivate_nonblock, after any other outcome *)
Deactivated(c) == cl[c].wait \/ blocking[c]

ConnectDone(c) ==
  /\ cl[c].pc = "restore"
  /\ blocking' = [blocking EXCEPT ![c] = Deactivated(c)]
  /\ cl' = [cl EXCEPT ![c].pc = "done", ![c].result = cl[c].ret]
  /\ UNCHANGED <<failed, listener, backlog, conn, srv, sock>>

-----------------------------------------------------------------------------
(* The kernel's handshake. *)
Establish(c) ==
  /\ sock[c] = "syn" /\ listener = "listening" /\ Cardinality(backlog) < Queue
  /\ sock' = [sock EXCEPT ![c] = "established"]
  /\ backlog' = backlog \cup {c}
  /\ UNCHANGED <<failed, listener, conn, srv, blocking, cl>>

Refuse(c) ==
  /\ sock[c] = "syn" /\ listener # "listening"
  /\ sock' = [sock EXCEPT ![c] = "refused"]
  /\ UNCHANGED <<failed, listener, backlog, conn, srv, blocking, cl>>

Handshake(c) == Establish(c) \/ Refuse(c)

-----------------------------------------------------------------------------
(* sckServer_accept *)
AcceptCall(t) ==
  /\ listener = "listening" /\ srv[t].pc = "idle" /\ srv[t].served < NServed
  /\ \E wait \in BOOLEAN :
       srv' = [srv EXCEPT ![t] = [@ EXCEPT !.pc = "select", !.wait = wait, !.ret = "none"]]
  /\ UNCHANGED <<failed, listener, backlog, conn, sock, blocking, cl>>

(* The listening socket is readable, or no timeout was asked for. *)
AcceptReady(t) ==
  /\ srv[t].pc = "select" /\ (srv[t].wait => backlog # {})
  /\ srv' = [srv EXCEPT ![t].pc = "accept"]
  /\ UNCHANGED <<failed, listener, backlog, conn, sock, blocking, cl>>

(* Fault: as in connect_timeout. *)
AcceptTimesOut_Rearmed(t) ==
  srv[t].pc = "select" /\ srv[t].wait /\ backlog = {} /\ UNCHANGED vars

AcceptTimesOut(t) ==
  /\ srv[t].pc = "select" /\ srv[t].wait /\ backlog = {}
  /\ srv' = [srv EXCEPT ![t].pc = "idle", ![t].ret = "timeout"]
  /\ UNCHANGED <<failed, listener, backlog, conn, sock, blocking, cl>>

AcceptSelectFails(t) ==
  /\ MayFail /\ srv[t].pc = "select" /\ srv[t].wait
  /\ srv' = [srv EXCEPT ![t].pc = "idle", ![t].ret = "fail"]
  /\ UNCHANGED <<failed, listener, backlog, conn, sock, blocking, cl>>

ClosedFds == {fd \in FD : conn[fd] = None}
Lowest(fds) == CHOOSE fd \in fds : \A other \in fds : fd <= other

AcceptedFd == Lowest(ClosedFds)

Accept(t) ==
  /\ srv[t].pc = "accept" /\ ClosedFds # {}
  /\ \E c \in backlog :
       /\ backlog' = backlog \ {c}
       /\ conn' = [conn EXCEPT ![AcceptedFd] = c]
  /\ srv' = [srv EXCEPT ![t].pc = "serving", ![t].ret = "ok",
                         ![t].connfd = AcceptedFd, ![t].served = @ + 1]
  /\ UNCHANGED <<failed, listener, sock, blocking, cl>>

(* accept fails, for want of a descriptor or otherwise: errno is returned   *)
(* where the caller expects a descriptor.                                   *)
AcceptNoFd(t) ==
  /\ srv[t].pc = "accept" /\ backlog # {} /\ (ClosedFds = {} \/ MayFail)
  /\ srv' = [srv EXCEPT ![t].pc = "serving", ![t].ret = "ok",
                         ![t].connfd = Errno, ![t].served = @ + 1]
  /\ failed' = TRUE
  /\ UNCHANGED <<listener, backlog, conn, sock, blocking, cl>>

(* Fault: the thread goes on to the next connection without closing this one. *)
ServerClose_Forgotten(t) ==
  /\ srv[t].pc = "serving"
  /\ srv' = [srv EXCEPT ![t].pc = "idle", ![t].connfd = NoFd]
  /\ UNCHANGED <<failed, listener, backlog, conn, sock, blocking, cl>>

(* sckServer_close, when the thread has served the connection *)
ServerClose(t) ==
  /\ srv[t].pc = "serving"
  /\ conn' = [fd \in FD |-> IF fd = srv[t].connfd THEN None ELSE conn[fd]]
  /\ srv' = [srv EXCEPT ![t].pc = "idle", ![t].connfd = NoFd]
  /\ UNCHANGED <<failed, listener, backlog, sock, blocking, cl>>

Connecting(c) ==
  \/ Connect(c) \/ ConnectReturns(c) \/ SelectWritable(c) \/ SelectTimesOut(c)
  \/ SockOpt(c) \/ ConnectDone(c)

sckClient_connect(c) ==
  \/ ConnectCall(c) \/ Connecting(c)
  \/ SocketFails(c) \/ ConnectFails(c) \/ WaitFails(c)

Accepting(t) == AcceptReady(t) \/ AcceptTimesOut(t) \/ Accept(t)

sckServer_accept(t) ==
  AcceptCall(t) \/ Accepting(t) \/ AcceptSelectFails(t) \/ AcceptNoFd(t)

Next ==
  \/ ServerInit \/ ServerInitFails
  \/ \E c \in Clients : sckClient_connect(c) \/ Handshake(c)
  \/ \E t \in Servers : sckServer_accept(t) \/ ServerClose(t)

Spec == Init /\ [][Next]_vars

(* A call that can go on does, and the kernel completes its handshakes; no  *)
(* system call has to fail, and nobody has to call anything.                *)
Fairness ==
  /\ \A c \in Clients : WF_vars(Connecting(c)) /\ WF_vars(Handshake(c))
  /\ \A t \in Servers : WF_vars(Accepting(t)) /\ WF_vars(ServerClose(t))

-----------------------------------------------------------------------------
TypeOK ==
  /\ listener \in {"none", "open", "listening", "closed"} /\ backlog \subseteq Clients
  /\ conn \in [FD -> Clients \cup {None}]
  /\ srv \in [Servers -> [pc : ServerPc, wait : BOOLEAN, ret : Result,
                          connfd : FD \cup {NoFd, Errno}, served : 0 .. NServed]]
  /\ failed \in BOOLEAN
  /\ sock \in [Clients -> SockState] /\ blocking \in [Clients -> BOOLEAN]
  /\ cl \in [Clients -> [pc : ClientPc, wait : BOOLEAN, ret : Result, result : Result]]

(* sckClient_connect returns 0 for a connection that is established and     *)
(* whose socket blocks again, so that readn and writen may be used on it,   *)
(* whichever of the handshake and the timeout comes first.  (The server may *)
(* since have closed its listener, and with it what it had not accepted.)   *)
ConnectedIsUsable ==
  \A c \in Clients : cl[c].result = "ok" =>
    blocking[c] /\ (sock[c] = "established" \/ listener = "closed")

(* What thread t serves is open and is no other thread's. *)
HasOwn(t) ==
  /\ srv[t].connfd \in FD /\ conn[srv[t].connfd] # None
  /\ \A u \in Servers \ {t} : srv[u].pc = "serving" => srv[u].connfd # srv[t].connfd

(* As long as accept does not fail, every thread serves a connection of its *)
(* own (the descriptor it was given is open, is nobody else's, and stands   *)
(* for one client), and a connection is in one place: waiting to be         *)
(* accepted, or behind one descriptor of a thread that serves it.           *)
ServesOwn ==
  ~ failed =>
    /\ \A t \in Servers : srv[t].pc = "serving" => HasOwn(t)
    /\ \A fd \in FD : conn[fd] # None =>
         /\ conn[fd] \notin backlog /\ sock[conn[fd]] = "established"
         /\ \A other \in FD \ {fd} : conn[other] # conn[fd]
         /\ \E t \in Servers : srv[t].pc = "serving" /\ srv[t].connfd = fd

(* A connect that is given a time limit returns, also while no thread of    *)
(* the server accepts and the backlog is full.                              *)
ConnectEnds == \A c \in Clients : cl[c].pc # "idle" /\ cl[c].wait ~> cl[c].pc = "done"

(* A call of sckServer_accept with a timeout comes back, unless another     *)
(* thread takes the connection that select has reported: then it is in      *)
(* accept, which has no timeout.                                            *)
AcceptEnds ==
  \A t \in Servers :
    srv[t].pc \in {"select", "accept"} /\ srv[t].wait
      ~> \/ srv[t].pc \in {"serving", "idle"}
         \/ srv[t].pc = "accept" /\ backlog = {}
=============================================================================
