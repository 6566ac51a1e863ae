----------------------------- MODULE PollServer -----------------------------
(* Csocket/poll.c: an array of pollfd, of which poll is given the first     *)
(* maxi + 1.  (Place i of the model is client[i + 1]: client[0] is the      *)
(* listener's.)  A descriptor is in `ready' when its revents has POLLIN.    *)
(* A poll that is interrupted reports nothing and changes nothing.          *)
EXTENDS EchoKernel

pollUnchanged == UNCHANGED <<rigid, maxfd, watch, edge, cur, myevents, thr>>

InPoll == server = "poll" /\ alive /\ Writing = {} /\ pos = NoFd

Ready_Poll ==
  {client[i] : i \in {j \in Slots \ FreeSlots : j <= maxi /\ Readable(conn[client[j]])}}
    \cup (IF Backlog # {} THEN {Lfd} ELSE {})

Poll ==
  /\ InPoll /\ Ready_Poll # {}
  /\ ready' = Ready_Poll /\ nready' = Cardinality(Ready_Poll) /\ pos' = 0
  /\ UNCHANGED <<kernelVars, client, maxi>> /\ pollUnchanged

InPollPass == server = "poll" /\ alive /\ Writing = {} /\ pos # NoFd

(* The revents of a place that poll has not seen yet is not initialized:    *)
(* the pass may take it for reported.                                       *)
Garbage(i, fd) == {{}} \cup (IF i > maxi THEN {{fd}} ELSE {})

(* The pass after it sees the new place as well. *)
PollAccept ==
  /\ InPollPass /\ Lfd \in ready /\ FreeSlots # {}
  /\ LET i == Min(FreeSlots)
     IN  /\ \E c \in Backlog : Accept(c)
         /\ client' = [client EXCEPT ![i] = AcceptedFd]
         /\ maxi' = Max({maxi, i})
         /\ nready' = nready - 1
         /\ pos' = IF nready <= 1 THEN NoFd ELSE 0
         /\ \E g \in IF nready <= 1 THEN {{}} ELSE Garbage(i, AcceptedFd) :
              ready' = (ready \ {Lfd}) \cup g
  /\ UNCHANGED <<out, alive, overrun>> /\ pollUnchanged

(* too many clients *)
PollTooMany == InPollPass /\ Lfd \in ready /\ ClosedFds # {} /\ FreeSlots = {} /\ Exit

PollAcceptExits == InPollPass /\ Lfd \in ready /\ AcceptExits

PollAt(i) == InPollPass /\ Lfd \notin ready /\ i \in Reported /\ i = Min(Reported)

PollRead(i) ==
  /\ PollAt(i) /\ Read(client[i]) /\ CountDown(i + 1, {i})
  /\ UNCHANGED <<client, maxi, ready>> /\ pollUnchanged

(* End of file, or ECONNRESET *)
PollClose(i) ==
  /\ PollAt(i) /\ CountDown(i + 1, {i})
  /\ ReadsEof(conn[client[i]]) \/ ReadsErr(conn[client[i]])
  /\ Close(client[i])
  /\ client' = [client EXCEPT ![i] = NoFd]
  /\ UNCHANGED <<maxi, ready>> /\ pollUnchanged

(* Any other error *)
PollReadExits(i) == PollAt(i) /\ ReadsErr(conn[client[i]]) /\ Exit

(* Writen: Write until nothing is left *)
PollWrite(fd) ==
  /\ server = "poll" /\ alive /\ Write(fd)
  /\ UNCHANGED <<tableVars, ready>> /\ UNCHANGED <<rigid, treeVars, myevents, thr>>

PollKilled(fd) == server = "poll" /\ alive /\ WriteKilled(fd)

(* Waiting in Read for a client that has not sent anything. *)
PollHung == \E i \in Slots : PollAt(i) /\ ~ Readable(conn[client[i]])

PollStep ==
  \/ Poll \/ PollAccept \/ PollTooMany \/ PollAcceptExits
  \/ \E i \in Slots : PollRead(i) \/ PollClose(i) \/ PollReadExits(i)
  \/ \E fd \in FD : PollWrite(fd) \/ PollKilled(fd)
=============================================================================
