------------------------------ MODULE TcpMsgs -------------------------------
(***************************************************************************)
(* The messages of C++socket/TcpSocket.cpp.  sendMsg and recvMsg take the  *)
(* steps of sckClient_send and sckClient_rev of the C library, and their   *)
(* messages look the same, so either library may be at either end.  They   *)
(* differ in one thing: recvMsg has its length by reference, and its test  *)
(* for a missing argument, recvLen == NULL, refuses the call whenever the  *)
(* caller's variable is 0.  recvLen is that variable, which the program    *)
(* uses for all its calls, or NotTcp where the C library receives.         *)
(***************************************************************************)
EXTENDS Framing

VARIABLE recvLen

NotTcp == -1

tcpVars == <<vars, recvLen>>

(* A TcpSocket has a TcpSocket or sckServer_send as its peer. *)
TcpInit ==
  /\ Init
  /\ recvLen \in CASE snd.role = "tcp" -> {0, 1}
                   [] snd.role = "server" -> {NotTcp, 1}
                   [] snd.role = "client" -> {NotTcp}

IsTcp == recvLen # NotTcp

sendMsg(m)   == IsTcp /\ SendCall(m) /\ UNCHANGED recvLen
writeTimeout == IsTcp /\ (WriteTimeout \/ WriteTimesOut \/ SendFails) /\ UNCHANGED recvLen
writen       == IsTcp /\ (Writen \/ WritenFails) /\ UNCHANGED recvLen

recvMsgRefused ==
  /\ recvLen = 0 /\ rcv.pc = "idle" /\ ~ gone
  /\ rcv' = [rcv EXCEPT !.ret = "param"]
  /\ UNCHANGED <<pipe, eof, gone, snd, calls, sent, rcvd, lost, recvLen>>

recvMsg == IsTcp /\ recvLen # 0 /\ RevCall /\ UNCHANGED recvLen

readTimeout ==
  /\ IsTcp /\ (ReadTimeout \/ ReadNoTimeout \/ ReadTimesOut \/ ReadSelectFails)
  /\ UNCHANGED recvLen

readn == IsTcp /\ (Read \/ RevEof \/ RevFails) /\ UNCHANGED recvLen

(* The rest of recvMsg; only a message that is returned sets recvLen. *)
recvMsgBuf ==
  /\ IsTcp
  /\ \/ (RevHeader \/ RevNoMemory) /\ UNCHANGED recvLen
     \/ RevBody /\ recvLen' = rcv.n

disConnect == IsTcp /\ (SenderCloses \/ ReceiverCloses) /\ UNCHANGED recvLen

TcpNext ==
  \/ ~ IsTcp /\ Next /\ UNCHANGED recvLen
  \/ \E m \in Msgs : sendMsg(m)
  \/ writeTimeout \/ writen \/ disConnect
  \/ recvMsgRefused \/ recvMsg \/ readTimeout \/ readn \/ recvMsgBuf

TcpSpec == TcpInit /\ [][TcpNext]_tcpVars

(* The receiving program keeps calling as well. *)
TcpFairSpec == TcpSpec /\ Fairness /\ WF_vars(recvLen # 0 /\ RevCall)

-----------------------------------------------------------------------------
(* A message that has been written is returned by some call of rev or       *)
(* recvMsg, unless the connection ends, rev runs out of memory, or recvMsg  *)
(* refuses every call: for a variable that is 0 from the start, or since a  *)
(* message of no bytes.                                                     *)
SentArrives ==
  \A i \in 1 .. NCalls :
    Len(sent) >= i ~> Len(rcvd) >= i \/ eof \/ gone \/ lost # NotLost \/ recvLen = 0

(* A caller that sends gets an answer: its message goes out while the       *)
(* receiver reads, or the call times out or fails.  A receiver whose calls  *)
(* are refused does not read.                                               *)
SendReturns == snd.pc # "idle" ~> snd.pc = "idle" \/ recvLen = 0
=============================================================================
