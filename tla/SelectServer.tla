---------------------------- MODULE SelectServer ----------------------------
(* Csocket/select_advance.c: a table of descriptors, the set to select on,  *)
(* and a pass over the table that counts down what select has reported.     *)
EXTENDS EchoKernel

selectUnchanged == UNCHANGED <<rigid, edge, cur, myevents, thr>>

(* After FD_SET has written outside allset nothing the program does is      *)
(* defined, and it has no step here.                                        *)
Defined == server = "select" /\ alive /\ ~ overrun

AtSelect == Defined /\ Writing = {} /\ pos = NoFd

Ready_Select ==
  {fd \in watch : fd <= maxfd /\ Readable(conn[fd])} \cup (IF Backlog # {} THEN {Lfd} ELSE {})

(* rset = allset, select *)
Select ==
  /\ AtSelect /\ Ready_Select # {}
  /\ ready' = Ready_Select /\ nready' = Cardinality(Ready_Select) /\ pos' = 0
  /\ UNCHANGED <<kernelVars, client, maxi, maxfd, watch>> /\ selectUnchanged

SelectFails == AtSelect /\ MayInterrupt /\ Exit

InPass == Defined /\ Writing = {} /\ pos # NoFd

(* Fault: maxi follows the last connection, also one that fills a gap. *)
SelectStore_MaxiLast(fd, i) ==
  /\ client' = [client EXCEPT ![i] = fd]
  /\ watch' = IF fd < size THEN watch \cup {fd} ELSE watch
  /\ maxfd' = Max({maxfd, fd}) /\ maxi' = i

(* The set has room for the numbers below FD_SETSIZE: FD_SET of a higher    *)
(* one may write to any other variable (overrun, which ends what is said).  *)
SelectStore(fd, i) ==
  /\ client' = [client EXCEPT ![i] = fd]
  /\ watch' = IF fd < size THEN watch \cup {fd} ELSE watch
  /\ maxfd' = Max({maxfd, fd}) /\ maxi' = Max({maxi, i})

(* The exit for a full client[] (too many clients) has no step: it is never *)
(* reached, because allset runs out of numbers first (TableIsWatched).      *)
SelectAccept ==
  /\ InPass /\ Lfd \in ready /\ FreeSlots # {}
  /\ \E c \in Backlog :
       /\ Accept(c) /\ SelectStore(AcceptedFd, Min(FreeSlots))
       /\ overrun' = (overrun \/ AcceptedFd >= size)
  /\ ready' = ready \ {Lfd} /\ CountDown(0, {})
  /\ UNCHANGED <<out, alive>> /\ selectUnchanged

(* FD_SET with a check of its argument (a fortified build) aborts. *)
SelectAborts ==
  /\ InPass /\ Lfd \in ready /\ FreeSlots # {} /\ ClosedFds # {} /\ AcceptedFd >= size
  /\ Exit

SelectAcceptExits == InPass /\ Lfd \in ready /\ AcceptExits

SelectAt(i) == InPass /\ Lfd \notin ready /\ i \in Reported /\ i = Min(Reported)

SelectRead(i) ==
  /\ SelectAt(i) /\ CountDown(i + 1, {i})
  /\ Read(client[i]) \/ ReadFails(client[i])
  /\ UNCHANGED <<client, maxi, maxfd, watch, ready>> /\ selectUnchanged

SelectClose(i) ==
  /\ SelectAt(i) /\ CountDown(i + 1, {i}) /\ ReadsEof(conn[client[i]])
  /\ Close(client[i])
  /\ watch' = watch \ {client[i]}
  /\ client' = [client EXCEPT ![i] = NoFd]
  /\ UNCHANGED <<maxi, maxfd, ready>> /\ selectUnchanged

SelectWrite(fd) ==
  /\ Defined /\ Write(fd)
  /\ UNCHANGED <<tableVars, watch, ready>> /\ selectUnchanged

SelectKilled(fd) == Defined /\ WriteKilled(fd)

SelectStep ==
  \/ Select \/ SelectAccept \/ SelectAborts \/ SelectAcceptExits
  \/ \E i \in Slots : SelectRead(i) \/ SelectClose(i)
  \/ \E fd \in FD : SelectWrite(fd) \/ SelectKilled(fd)
=============================================================================
