------------------------------ MODULE Framing -------------------------------
(***************************************************************************)
(* The messages of Csocket/socketutil.c: one direction of one connection,  *)
(* with a caller of sckClient_send or sckServer_send on one side and of    *)
(* sckClient_rev or sckServer_rev on the other.  A message is a header     *)
(* that holds its length in network byte order (four bytes in the code)    *)
(* and the data.  write and read move as many bytes as they please, calls  *)
(* may be interrupted (EINTR: the loops try again, and nothing changes),   *)
(* select may time out or fail, malloc may fail, and either side may close *)
(* the connection or die at any step.                                      *)
(***************************************************************************)
EXTENDS Integers, Sequences, SequencesExt

CONSTANTS HdrLen,       \* bytes of the header (4)
          Base,         \* values of a byte (256)
          Msgs,         \* data that callers send: sequences of bytes
          NCalls,       \* bound on the calls of send
          Capacity,     \* bytes the connection holds
          Roles,        \* which sends are called, of "client", "server" and "tcp"
          MayFail,      \* whether select fails and the connection breaks
          MallocFails   \* whether malloc fails

Byte == 0 .. Base - 1
NotLost == -1

ASSUME SizesAssumption ==
  HdrLen \in Nat \ {0} /\ Base \in Nat \ {0, 1} /\ NCalls \in Nat /\ Capacity \in Nat \ {0}
ASSUME RoleAssumption ==
  Roles \subseteq {"client", "server", "tcp"} /\ MayFail \in BOOLEAN /\ MallocFails \in BOOLEAN
ASSUME MsgsAssumption == \A m \in Msgs : m \in Seq(Byte) /\ Len(m) < Base ^ HdrLen

VARIABLES pipe,   \* bytes on their way
          eof,    \* the sending side has closed the connection
          gone,   \* the receiving side has
          snd,    \* the calls of send: role, pc, the data, the bytes left to write,
                  \* result
          rcv,    \* the call of rev: pc, the bytes read, the length wanted, result
          calls,  \* calls of send made
          sent,   \* messages written to their last byte
          rcvd,   \* messages returned by rev
          lost    \* the messages returned when rev gave one up after reading its
                  \* header, or NotLost

vars == <<pipe, eof, gone, snd, rcv, calls, sent, rcvd, lost>>

Result == {"none", "ok", "param", "timeout", "closed", "fail", "nomem"}

Init ==
  /\ pipe = <<>> /\ eof = FALSE /\ gone = FALSE
  /\ snd \in [role : Roles, pc : {"idle"}, data : {<<>>}, left : {<<>>}, ret : {"none"}]
  /\ rcv = [pc |-> "idle", got |-> <<>>, n |-> 0, ret |-> "none"]
  /\ calls = 0 /\ sent = <<>> /\ rcvd = <<>> /\ lost = NotLost

-----------------------------------------------------------------------------
(* Fault: the bytes of the length are in the order of the host. *)
ntohl_HostOrder(s) == FoldRight(LAMBDA b, acc : acc * Base + b, s, 0)

(* htonl and memcpy; memcpy and ntohl *)
htonl(n) == [i \in 1 .. HdrLen |-> (n \div Base ^ (HdrLen - i)) % Base]
ntohl(s) == FoldLeft(LAMBDA acc, b : acc * Base + b, 0, s)

(* sckClient_send, sckServer_send *)
Refused(m) == snd.role # "server" /\ m = <<>>

SendCall(m) ==
  /\ snd.pc = "idle" /\ ~ eof /\ calls < NCalls
  /\ snd' = IF Refused(m) THEN [snd EXCEPT !.ret = "param"]
            ELSE [snd EXCEPT !.pc = "select", !.data = m, !.ret = "none"]
  /\ calls' = calls + 1
  /\ UNCHANGED <<pipe, eof, gone, rcv, sent, rcvd, lost>>

SendReturn(ret) == snd' = [snd EXCEPT !.pc = "idle", !.left = <<>>, !.ret = ret]

(* write_timeout succeeds at once when no timeout is asked for. *)
WriteTimeout ==
  /\ snd.pc = "select"
  /\ snd' = [snd EXCEPT !.pc = "write", !.left = htonl(Len(snd.data)) \o snd.data]
  /\ UNCHANGED <<pipe, eof, gone, rcv, calls, sent, rcvd, lost>>

WriteTimesOut ==
  /\ snd.pc = "select" /\ Len(pipe) = Capacity /\ ~ gone
  /\ SendReturn("timeout")
  /\ UNCHANGED <<pipe, eof, gone, rcv, calls, sent, rcvd, lost>>

SendFails ==
  /\ snd.pc = "select"
  /\ \/ MayFail /\ SendReturn("fail")
     \/ MallocFails /\ SendReturn("nomem")
  /\ UNCHANGED <<pipe, eof, gone, rcv, calls, sent, rcvd, lost>>

(* Fault: write has taken everything it was given. *)
Remaining_None(k) == <<>>

(* bufp += nwritten, nleft -= nwritten *)
Remaining(k) == SubSeq(snd.left, k + 1, Len(snd.left))

Writen ==
  /\ snd.pc = "write" /\ ~ gone
  /\ \E k \in 1 .. Len(snd.left) :
       /\ Len(pipe) + k <= Capacity
       /\ pipe' = pipe \o SubSeq(snd.left, 1, k)
       /\ IF Remaining(k) = <<>>
            THEN /\ SendReturn("ok")
                 /\ sent' = Append(sent, snd.data)
            ELSE /\ snd' = [snd EXCEPT !.left = Remaining(k)]
                 /\ UNCHANGED sent
  /\ UNCHANGED <<eof, gone, rcv, calls, rcvd, lost>>

(* A write error ends the call; the bytes already written stay written. *)
WritenFails ==
  /\ snd.pc = "write" /\ gone
  /\ SendReturn("fail")
  /\ UNCHANGED <<pipe, eof, gone, rcv, calls, sent, rcvd, lost>>

(* sckClient_closeconn or sckServer_close, or the end of the process. *)
SenderCloses ==
  /\ MayFail /\ ~ eof /\ eof' = TRUE
  /\ SendReturn(snd.ret)
  /\ UNCHANGED <<pipe, gone, rcv, calls, sent, rcvd, lost>>

-----------------------------------------------------------------------------
(* sckClient_rev, sckServer_rev *)
RevCall ==
  /\ rcv.pc = "idle" /\ ~ gone
  /\ rcv' = [pc |-> "select", got |-> <<>>, n |-> HdrLen, ret |-> "none"]
  /\ UNCHANGED <<pipe, eof, gone, snd, calls, sent, rcvd, lost>>

RevReturn(ret) == rcv' = [pc |-> "idle", got |-> <<>>, n |-> 0, ret |-> ret]

ReadTimeout ==
  /\ rcv.pc = "select" /\ (pipe # <<>> \/ eof)
  /\ rcv' = [rcv EXCEPT !.pc = "header"]
  /\ UNCHANGED <<pipe, eof, gone, snd, calls, sent, rcvd, lost>>

(* revtime 0: no test, readn waits. *)
ReadNoTimeout ==
  /\ rcv.pc = "select" /\ pipe = <<>> /\ ~ eof
  /\ rcv' = [rcv EXCEPT !.pc = "header"]
  /\ UNCHANGED <<pipe, eof, gone, snd, calls, sent, rcvd, lost>>

ReadTimesOut ==
  /\ rcv.pc = "select" /\ pipe = <<>> /\ ~ eof
  /\ RevReturn("timeout")
  /\ UNCHANGED <<pipe, eof, gone, snd, calls, sent, rcvd, lost>>

(* select fails: ret == -1 || errno == ETIMEDOUT holds all the same. *)
ReadSelectFails ==
  /\ rcv.pc = "select" /\ MayFail
  /\ RevReturn("timeout")
  /\ UNCHANGED <<pipe, eof, gone, snd, calls, sent, rcvd, lost>>

(* Fault: read is taken to return all it was asked for. *)
Read_Whole ==
  /\ rcv.pc \in {"header", "body"} /\ Len(rcv.got) < rcv.n /\ rcv.n <= Len(pipe)
  /\ rcv' = [rcv EXCEPT !.got = SubSeq(pipe, 1, rcv.n)]
  /\ pipe' = SubSeq(pipe, rcv.n + 1, Len(pipe))
  /\ UNCHANGED <<eof, gone, snd, calls, sent, rcvd, lost>>

(* One call of read in readn; an interrupted one changes nothing. *)
Read ==
  /\ rcv.pc \in {"header", "body"} /\ Len(rcv.got) < rcv.n
  /\ \E k \in 1 .. Len(pipe) :
       /\ k <= rcv.n - Len(rcv.got)
       /\ rcv' = [rcv EXCEPT !.got = @ \o SubSeq(pipe, 1, k)]
       /\ pipe' = SubSeq(pipe, k + 1, Len(pipe))
  /\ UNCHANGED <<eof, gone, snd, calls, sent, rcvd, lost>>

RevEof ==
  /\ rcv.pc \in {"header", "body"} /\ Len(rcv.got) < rcv.n /\ pipe = <<>> /\ eof
  /\ RevReturn("closed")
  /\ UNCHANGED <<pipe, eof, gone, snd, calls, sent, rcvd, lost>>

(* The connection breaks: what is on its way is lost. *)
RevFails ==
  /\ MayFail /\ rcv.pc \in {"header", "body"} /\ Len(rcv.got) < rcv.n
  /\ RevReturn("fail")
  /\ pipe' = <<>> /\ eof' = TRUE /\ SendReturn(snd.ret)
  /\ UNCHANGED <<gone, calls, sent, rcvd, lost>>

RevHeader ==
  /\ rcv.pc = "header" /\ Len(rcv.got) = rcv.n
  /\ rcv' = [rcv EXCEPT !.pc = "body", !.got = <<>>, !.n = ntohl(rcv.got)]
  /\ UNCHANGED <<pipe, eof, gone, snd, calls, sent, rcvd, lost>>

(* The header has been read and the data stay where they are. *)
RevNoMemory ==
  /\ MallocFails /\ rcv.pc = "header" /\ Len(rcv.got) = rcv.n
  /\ RevReturn("nomem") /\ lost' = IF lost = NotLost THEN Len(rcvd) ELSE lost
  /\ UNCHANGED <<pipe, eof, gone, snd, calls, sent, rcvd>>

RevBody ==
  /\ rcv.pc = "body" /\ Len(rcv.got) = rcv.n
  /\ rcvd' = Append(rcvd, rcv.got)
  /\ RevReturn("ok")
  /\ UNCHANGED <<pipe, eof, gone, snd, calls, sent, lost>>

ReceiverCloses ==
  /\ MayFail /\ rcv.pc = "idle" /\ ~ gone /\ gone' = TRUE
  /\ UNCHANGED <<pipe, eof, snd, rcv, calls, sent, rcvd, lost>>

Send == \/ WriteTimeout \/ WriteTimesOut \/ SendFails \/ Writen \/ WritenFails
Rev  == \/ ReadTimeout \/ ReadNoTimeout \/ ReadTimesOut \/ ReadSelectFails
        \/ Read \/ RevEof \/ RevFails \/ RevHeader \/ RevNoMemory \/ RevBody

Next ==
  \/ \E m \in Msgs : SendCall(m)
  \/ Send \/ SenderCloses \/ RevCall \/ Rev \/ ReceiverCloses

Spec == Init /\ [][Next]_vars

(* Calls that can go on do, and select does not fail for ever when there    *)
(* are bytes to read.                                                       *)
Fairness ==
  /\ WF_vars(Writen \/ WritenFails) /\ WF_vars(WriteTimeout \/ WriteTimesOut)
  /\ SF_vars(ReadTimeout) /\ WF_vars(Read) /\ WF_vars(RevHeader) /\ WF_vars(RevBody)

-----------------------------------------------------------------------------
TypeOK ==
  /\ pipe \in Seq(Byte) /\ Len(pipe) <= Capacity
  /\ eof \in BOOLEAN /\ gone \in BOOLEAN
  /\ snd \in [role : Roles, pc : {"idle", "select", "write"}, data : Msgs \cup {<<>>},
              left : Seq(Byte), ret : Result]
  /\ rcv \in [pc : {"idle", "select", "header", "body"}, got : Seq(Byte),
              n : 0 .. HdrLen + Base ^ HdrLen, ret : Result]
  /\ calls \in 0 .. NCalls /\ sent \in Seq(Msgs) /\ rcvd \in Seq(Seq(Byte))
  /\ lost \in {NotLost} \cup 0 .. NCalls

(* Framing keeps messages whole, in order and apart, however write and read *)
(* cut the stream up, whenever calls time out and whenever a side dies in   *)
(* the middle of a message: the connection is a channel of messages, until  *)
(* a rev that cannot allocate memory leaves the data of one in the stream.  *)
InTime == IF lost = NotLost THEN rcvd ELSE SubSeq(rcvd, 1, lost)
Channel == INSTANCE MsgChannel
             WITH Message <- Msgs, delivered <- InTime,
                  inFlight <- SubSeq(sent, Len(InTime) + 1, Len(sent))
ImplementsChannel == Channel!Spec

Frames(msgs) == FoldLeft(LAMBDA acc, m : acc \o htonl(Len(m)) \o m, <<>>, msgs)

(* The bytes of the messages not yet returned: those rev has of the current *)
(* one, those on their way, those still to be written.                      *)
InStep ==
  LET begun == (IF rcv.pc = "body" THEN htonl(rcv.n) ELSE <<>>) \o rcv.got
      owed  == SubSeq(sent, Len(rcvd) + 1, Len(sent))
                 \o (IF snd.pc = "write" THEN <<snd.data>> ELSE <<>>)
  IN  begun \o pipe \o snd.left = Frames(owed)

(* Where the receiver is in its message is where the stream is, in every    *)
(* state of both calls.  A call that timed out or failed before its first   *)
(* byte, at either end, has taken nothing from the stream and added nothing *)
(* to it, and the next call works on the same connection.                   *)
StreamInStep == ~ eof /\ ~ gone /\ lost = NotLost => InStep
=============================================================================
