----------------------------- MODULE MCSockSetup ----------------------------
(* Model checking of SockSetup and TcpConn. *)
EXTENDS TcpConn
=============================================================================
