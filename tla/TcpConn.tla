------------------------------ MODULE TcpConn -------------------------------
(***************************************************************************)
(* How connections of C++socket come about: TcpServer::setListen and       *)
(* acceptConn, TcpSocket::connectToHost.  They take the steps of the C     *)
(* functions in SockSetup (the descriptor that a thread has there is the   *)
(* m_socket of the TcpSocket acceptConn made for it), and a server may     *)
(* close its listening socket (closefd).  A TcpServer keeps the address of *)
(* its last client in a member, so one thread uses it.                     *)
(***************************************************************************)
EXTENDS SockSetup

CONSTANT TcpThreads   \* the threads that may use the TcpServer

ASSUME ThreadsAssumption == TcpThreads \subseteq Servers /\ Cardinality(TcpThreads) <= 1

VARIABLE api          \* "c" or "c++": which library a behaviour is about

tcpVars == <<vars, api>>

IsTcp == api = "c++"

TcpInit == Init /\ api \in {"c", "c++"}

setListen == IsTcp /\ (ServerInit \/ ServerInitFails) /\ UNCHANGED api

(* connectTimeout, with blockIO and noBlockIO, is part of it. *)
connectTimeout(c) ==
  /\ IsTcp /\ (Connecting(c) \/ ConnectFails(c) \/ WaitFails(c))
  /\ UNCHANGED api

connectToHost(c) == IsTcp /\ (ConnectCall(c) \/ SocketFails(c)) /\ UNCHANGED api

acceptConn(t) == IsTcp /\ AcceptCall(t) /\ UNCHANGED api

(* An errno, which is positive, passes acceptConn's test for an error and   *)
(* becomes the m_socket of a new TcpSocket.                                 *)
acceptTimeout(t) ==
  /\ IsTcp /\ (Accepting(t) \/ AcceptSelectFails(t) \/ AcceptNoFd(t))
  /\ UNCHANGED api

disConnect(t) == IsTcp /\ ServerClose(t) /\ UNCHANGED api

(* The kernel resets the connections that nobody has accepted. *)
closefd ==
  /\ IsTcp /\ listener = "listening"
  /\ \A t \in Servers : srv[t].pc \notin {"select", "accept"}
  /\ listener' = "closed" /\ backlog' = {}
  /\ sock' = [c \in Clients |-> IF c \in backlog THEN "refused" ELSE sock[c]]
  /\ UNCHANGED <<conn, srv, failed, blocking, cl, api>>

TcpHandshake(c) == IsTcp /\ Handshake(c) /\ UNCHANGED api

TcpNext ==
  \/ ~ IsTcp /\ Next /\ UNCHANGED api
  \/ setListen \/ closefd
  \/ \E c \in Clients :
       connectToHost(c) \/ connectTimeout(c) \/ TcpHandshake(c)
  \/ \E t \in TcpThreads : acceptConn(t) \/ acceptTimeout(t) \/ disConnect(t)

TcpSpec == TcpInit /\ [][TcpNext]_tcpVars

TcpFairSpec == TcpSpec /\ Fairness
=============================================================================
