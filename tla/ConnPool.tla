------------------------------ MODULE ConnPool ------------------------------
(***************************************************************************)
(* The client connection pool of Csocket/poolsocket.c, over                *)
(* sckClient_connect and sckClient_closeconn of Csocket/socketutil.c.      *)
(*                                                                         *)
(* fdArray[0 .. valid-1] are the idle connections, used as a stack.  Every *)
(* operation holds foo_mutex from its first to its last access (getConnet  *)
(* even while it sleeps for a connection to come back, the reconnection    *)
(* of putConnet even while it waits for the server), so an operation is    *)
(* one action.  destroy is several: between two of its calls of close      *)
(* other threads of the process may open files, and it frees the handle    *)
(* after it has unlocked.                                                  *)
(*                                                                         *)
(* Descriptors are small numbers that the process reuses: file[fd] says    *)
(* what descriptor fd refers to now, a connection opened by the pool, some *)
(* other file, or nothing.  0 is standard input; open and socket return    *)
(* the lowest number that is free.                                         *)
(***************************************************************************)
EXTENDS Integers, FiniteSets

CONSTANTS Bounds,     \* bounds
          NFd,        \* bound on the descriptors of the process
          Clients,    \* threads that use the pool
          Garbage,    \* what an int of malloc'ed memory may hold
          DoublePut,  \* whether a client may put a connection back twice
          OthersOpen  \* whether other code opens and closes files

Index == 0 .. Bounds - 1
FD    == 0 .. NFd - 1
NoFd  == -1

ASSUME SizesAssumption == Bounds \in Nat \ {0} /\ NFd \in Nat \ {0}
ASSUME GarbageAssumption == Garbage \subseteq FD /\ 0 \in Garbage
ASSUME SwitchAssumption == DoublePut \in BOOLEAN /\ OthersOpen \in BOOLEAN

VARIABLES fdArray, statusArray, valid, nvalid, terminated,
          file,    \* what each descriptor refers to
          phase,   \* "init", "ready", "failed" (init returned an error)
          held,    \* per client: the connection it got, or NoFd
          last,    \* per client: the connection it last put back
          ret,     \* the result of the last call
          leaked,  \* sockets of failed connects: nobody closes them
          lost,    \* connections given up after a failed reconnect
          misused, \* a connection was taken back from a client that did not hold it
          dst      \* sckCltPool_destroy: pc and loop counter

arrays == <<fdArray, statusArray, valid, nvalid>>
clientVars == <<held, last, ret, misused>>
vars == <<arrays, terminated, file, phase, clientVars, leaked, lost, dst>>

Kind   == {"closed", "conn", "other"}
Phase  == {"init", "ready", "failed"}
Result == {"none", "ok", "empty", "terminated", "exist", "bounds", "fail", "crash"}
DestroyPc == {"idle", "close", "unlocked", "freed"}

Closed == {fd \in FD : file[fd] = "closed"}
Lowest(fds) == {fd \in fds : \A other \in fds : fd <= other}
Idle   == {fdArray[i] : i \in {j \in Index : j < valid}}
Held   == {held[c] : c \in Clients} \ {NoFd}
Conns  == {fd \in FD : file[fd] = "conn"}

(* The process runs until it crashes; the mutex is free and the handle usable. *)
Running  == dst.pc # "freed" /\ ret # "crash"
Unlocked == Running /\ phase = "ready" /\ dst.pc \in {"idle", "unlocked"}

-----------------------------------------------------------------------------
(* sckCltPool_init.  memset(hdl, 0, sizeof(hdl)) clears one pointer: the    *)
(* arrays and `terminated' start out as whatever malloc returned.           *)
Init ==
  /\ fdArray \in [Index -> Garbage] /\ statusArray \in [Index -> Garbage]
  /\ terminated \in Garbage
  /\ valid = 0 /\ nvalid = Bounds
  /\ file = [fd \in FD |-> IF fd = 0 THEN "other" ELSE "closed"]
  /\ phase = "init"
  /\ held = [c \in Clients |-> NoFd]
  /\ last = [c \in Clients |-> NoFd]
  /\ ret = "none"
  /\ leaked = {} /\ lost = 0 /\ misused = FALSE
  /\ dst = [pc |-> "idle", i |-> 0]

InitConnect ==
  /\ phase = "init"
  /\ \E fd \in Lowest(Closed) :
       /\ file' = [file EXCEPT ![fd] = "conn"]
       /\ fdArray' = [fdArray EXCEPT ![valid] = fd]
  /\ statusArray' = [statusArray EXCEPT ![valid] = 1]
  /\ valid' = valid + 1 /\ nvalid' = nvalid - 1
  /\ phase' = IF valid + 1 = Bounds THEN "ready" ELSE "init"
  /\ UNCHANGED <<terminated, clientVars, leaked, lost, dst>>

(* What a failed sckClient_connect leaves open: the socket, if it got as far *)
(* as making one.  `stored' tells whether the caller was given its number:   *)
(* after any error of connect_timeout but a timeout.                         *)
FailedSocket(free) == {{}} \cup {{fd} : fd \in Lowest(free)}

(* All connections are closed, and whatever garbage in statusArray says is one. *)
InitFail ==
  /\ phase = "init"
  /\ \E sock \in FailedSocket(Closed), stored \in BOOLEAN :
       LET fds == [i \in Index |-> IF i = valid /\ stored /\ sock # {}
                                   THEN CHOOSE fd \in sock : TRUE ELSE fdArray[i]]
           shut == {fds[i] : i \in {j \in Index : statusArray[j] = 1}}
       IN  /\ file' = [fd \in FD |-> IF fd \in shut THEN "closed"
                                     ELSE IF fd \in sock THEN "conn" ELSE file[fd]]
           /\ leaked' = leaked \cup (sock \ shut)
  /\ phase' = "failed"
  /\ UNCHANGED <<arrays, terminated, clientVars, lost, dst>>

-----------------------------------------------------------------------------
(* sckCltPool_getConnet *)
GetTerminated(c) ==
  /\ Unlocked /\ held[c] = NoFd /\ terminated = 1
  /\ ret' = "terminated"
  /\ UNCHANGED <<arrays, terminated, file, phase, held, last, misused, leaked, lost, dst>>

(* usleep keeps the mutex, so nothing can come back meanwhile. *)
GetEmpty(c) ==
  /\ Unlocked /\ held[c] = NoFd /\ terminated # 1 /\ valid = 0
  /\ ret' = "empty"
  /\ UNCHANGED <<arrays, terminated, file, phase, held, last, misused, leaked, lost, dst>>

(* Fault: the top of the stack is read before valid is decremented. *)
Top_Stale == fdArray[IF valid < Bounds THEN valid ELSE valid - 1]

Top == fdArray[valid - 1]

(* What getConnet finds on top: a connection whose status is good, or one   *)
(* that has to be connected again, in place, which may fail; descriptor 0   *)
(* is closed before that.                                                   *)
Repaired ==
  LET f == IF Top = 0 THEN [file EXCEPT ![0] = "closed"] ELSE file
      free == {fd \in FD : f[fd] = "closed"}
  IN  IF statusArray[valid - 1] # 0
        THEN {[fd |-> Top, files |-> file, leaks |-> {}, ok |-> TRUE]}
        ELSE {[fd |-> fd, files |-> [f EXCEPT ![fd] = "conn"], leaks |-> {},
               ok |-> TRUE] : fd \in Lowest(free)}
             \cup {[fd |-> 0, leaks |-> sock, ok |-> FALSE,
                    files |-> [d \in FD |-> IF d \in sock THEN "conn" ELSE f[d]]] :
                   sock \in FailedSocket(free)}

GetConn(c) ==
  /\ Unlocked /\ held[c] = NoFd /\ terminated # 1 /\ valid > 0
  /\ \E top \in Repaired :
       /\ fdArray' = [fdArray EXCEPT ![valid - 1] = top.fd]
       /\ file' = top.files
       /\ held' = [held EXCEPT ![c] = IF top.ok THEN top.fd ELSE NoFd]
       /\ valid' = IF top.ok THEN valid - 1 ELSE valid
       /\ ret' = IF top.ok THEN "ok" ELSE "fail"
       /\ leaked' = leaked \cup top.leaks
  /\ UNCHANGED <<statusArray, nvalid, terminated, phase, last, misused, lost, dst>>

getConnet(c) == GetTerminated(c) \/ GetEmpty(c) \/ GetConn(c)

-----------------------------------------------------------------------------
(* sckCltPool_putConnet.  A client puts back the connection it holds, or,   *)
(* mistakenly, the one it has put back already.                             *)
Mine(c) == ({held[c]} \cup (IF DoublePut THEN {last[c]} ELSE {})) \ {NoFd}

GivenUp(c, fd, result) ==
  /\ held' = [held EXCEPT ![c] = IF @ = fd THEN NoFd ELSE @]
  /\ last' = [last EXCEPT ![c] = fd]
  /\ ret' = result

Refused(c, fd, result)  == GivenUp(c, fd, result) /\ UNCHANGED misused
Released(c, fd, result) == GivenUp(c, fd, result) /\ misused' = (misused \/ held[c] # fd)

(* destroy has already set fdArray to NULL when it unlocks. *)
PutTerminated(c) ==
  /\ Unlocked /\ terminated = 1
  /\ \E fd \in Mine(c) :
       IF dst.pc = "unlocked"
         THEN /\ ret' = "crash"
              /\ UNCHANGED <<held, last, misused, fdArray, valid>>
         ELSE /\ Released(c, fd, "terminated")
              /\ fdArray' = [fdArray EXCEPT ![valid] = fd] /\ valid' = valid + 1
  /\ UNCHANGED <<statusArray, nvalid, terminated, file, phase, leaked, lost, dst>>

PutExist(c) ==
  /\ Unlocked /\ terminated # 1
  /\ \E fd \in Mine(c) \cap Idle : Refused(c, fd, "exist")
  /\ UNCHANGED <<arrays, terminated, file, phase, leaked, lost, dst>>

PutBounds(c) ==
  /\ Unlocked /\ terminated # 1 /\ valid >= Bounds
  /\ \E fd \in Mine(c) \ Idle : Refused(c, fd, "bounds")
  /\ UNCHANGED <<arrays, terminated, file, phase, leaked, lost, dst>>

(* Fault: the connection is stored without counting it. *)
Push_NoCount(fd) ==
  /\ fdArray' = [fdArray EXCEPT ![valid] = fd]
  /\ statusArray' = [statusArray EXCEPT ![valid] = 1]
  /\ UNCHANGED valid

Push(fd) ==
  /\ fdArray' = [fdArray EXCEPT ![valid] = fd]
  /\ statusArray' = [statusArray EXCEPT ![valid] = 1]
  /\ valid' = valid + 1

(* Fault: a full pool takes one more connection. *)
PutValid_NoBoundsTest(c) ==
  /\ Unlocked /\ terminated # 1
  /\ \E fd \in Mine(c) \ Idle : Push(fd) /\ Released(c, fd, "ok")
  /\ UNCHANGED <<nvalid, terminated, file, phase, leaked, lost, dst>>

(* validFlag = 1 *)
PutValid(c) ==
  /\ Unlocked /\ terminated # 1 /\ valid < Bounds
  /\ \E fd \in Mine(c) \ Idle : Push(fd) /\ Released(c, fd, "ok")
  /\ UNCHANGED <<nvalid, terminated, file, phase, leaked, lost, dst>>

(* Fault: the bad connection is not closed before it is replaced. *)
AfterClose_Skipped(fd) == {file}

(* What a connect finds after close(fd): the number fd is free, unless      *)
(* another thread has taken it meanwhile.                                   *)
AfterClose(fd) == {[file EXCEPT ![fd] = "closed"]}
  \cup (IF OthersOpen /\ fd \in Lowest(Closed \cup {fd})
          THEN {[file EXCEPT ![fd] = "other"]} ELSE {})

FreeIn(f) == {fd \in FD : f[fd] = "closed"}

(* Any other flag: the connection is closed and replaced, if the server     *)
(* answers.                                                                 *)
PutInvalid(c) ==
  /\ Unlocked /\ terminated # 1 /\ valid < Bounds
  /\ \E fd \in Mine(c) \ Idle : \E f \in AfterClose(fd) :
       /\ \E new \in Lowest(FreeIn(f)) :
            Push(new) /\ file' = [f EXCEPT ![new] = "conn"]
       /\ Released(c, fd, "ok")
  /\ UNCHANGED <<nvalid, terminated, phase, leaked, lost, dst>>

(* Fault: a connection that is lost is subtracted a second time. *)
PutNoReconnect_CountsTwice(c) ==
  /\ Unlocked /\ terminated # 1 /\ valid < Bounds /\ lost < Bounds
  /\ \E fd \in Mine(c) \ Idle :
       /\ file' = [file EXCEPT ![fd] = "closed"]
       /\ Released(c, fd, "fail")
  /\ lost' = lost + 1 /\ valid' = valid - 1
  /\ UNCHANGED <<fdArray, statusArray, nvalid, terminated, phase, leaked, dst>>

(* (lost < Bounds only binds when connections are put back twice.) *)
PutNoReconnect(c) ==
  /\ Unlocked /\ terminated # 1 /\ valid < Bounds /\ lost < Bounds
  /\ \E fd \in Mine(c) \ Idle : \E f \in AfterClose(fd) :
       /\ \E sock \in FailedSocket(FreeIn(f)) :
            /\ file' = [d \in FD |-> IF d \in sock THEN "conn" ELSE f[d]]
            /\ leaked' = leaked \cup sock
       /\ Released(c, fd, "fail")
  /\ lost' = lost + 1
  /\ UNCHANGED <<arrays, terminated, phase, dst>>

putConnet(c) ==
  \/ PutTerminated(c) \/ PutExist(c) \/ PutBounds(c) \/ PutValid(c)
  \/ PutInvalid(c) \/ PutNoReconnect(c)

-----------------------------------------------------------------------------
(* sckCltPool_destroy: it closes every entry of fdArray, in use or not. *)
DestroyLock ==
  /\ phase = "ready" /\ dst.pc = "idle"
  /\ terminated' = 1
  /\ dst' = [pc |-> "close", i |-> 0]
  /\ UNCHANGED <<arrays, file, phase, clientVars, leaked, lost>>

ToClose(i) == fdArray[i] # 0

DestroyClose ==
  /\ dst.pc = "close" /\ dst.i < Bounds
  /\ file' = [fd \in FD |-> IF ToClose(dst.i) /\ fd = fdArray[dst.i] THEN "closed"
                            ELSE file[fd]]
  /\ dst' = [dst EXCEPT !.i = @ + 1]
  /\ UNCHANGED <<arrays, terminated, phase, clientVars, leaked, lost>>

DestroyUnlock ==
  /\ dst.pc = "close" /\ dst.i = Bounds
  /\ dst' = [dst EXCEPT !.pc = "unlocked"]
  /\ UNCHANGED <<arrays, terminated, file, phase, clientVars, leaked, lost>>

DestroyFree ==
  /\ Running /\ dst.pc = "unlocked"
  /\ dst' = [dst EXCEPT !.pc = "freed"]
  /\ UNCHANGED <<arrays, terminated, file, phase, clientVars, leaked, lost>>

destroy == DestroyLock \/ DestroyClose \/ DestroyUnlock \/ DestroyFree

-----------------------------------------------------------------------------
(* The rest of the process. *)
OtherOpen ==
  /\ Running /\ OthersOpen
  /\ \E fd \in Lowest(Closed) : file' = [file EXCEPT ![fd] = "other"]
  /\ UNCHANGED <<arrays, terminated, phase, clientVars, leaked, lost, dst>>

OtherClose ==
  /\ Running /\ OthersOpen
  /\ \E fd \in FD \ {0} : file[fd] = "other" /\ file' = [file EXCEPT ![fd] = "closed"]
  /\ UNCHANGED <<arrays, terminated, phase, clientVars, leaked, lost, dst>>

Next ==
  \/ InitConnect \/ InitFail
  \/ \E c \in Clients : getConnet(c) \/ putConnet(c)
  \/ destroy
  \/ OtherOpen \/ OtherClose

Spec == Init /\ [][Next]_vars

-----------------------------------------------------------------------------
TypeOK ==
  /\ fdArray \in [Index -> FD] /\ statusArray \in [Index -> FD \cup {1}]
  /\ valid \in 0 .. Bounds /\ nvalid \in 0 .. Bounds
  /\ terminated \in FD \cup {1}
  /\ file \in [FD -> Kind] /\ phase \in Phase
  /\ held \in [Clients -> FD \cup {NoFd}] /\ last \in [Clients -> FD \cup {NoFd}]
  /\ ret \in Result /\ misused \in BOOLEAN
  /\ leaked \subseteq FD /\ lost \in 0 .. Bounds
  /\ dst \in [pc : DestroyPc, i : 0 .. Bounds]

(* Until it is destroyed, the pool keeps or lends every connection once:    *)
(* idle entries are distinct, no two clients hold the same connection, no   *)
(* idle one is in a client's hands, and all of them are open connections of *)
(* the pool, whatever other code opens and closes, however often a          *)
(* descriptor number is reused, and also when a client puts a connection    *)
(* back twice, as long as the checks of putConnet catch it.                 *)
ExclusiveOwnership ==
  dst.pc = "idle" /\ phase # "failed" /\ ~misused =>
    /\ \A i, j \in Index : i < valid /\ j < valid /\ i # j => fdArray[i] # fdArray[j]
    /\ \A c, d \in Clients : c # d /\ held[c] # NoFd => held[c] # held[d]
    /\ Idle \cap Held = {}
    /\ Idle \cup Held \subseteq Conns

(* Every connection of the pool is idle, held, or lost to a reconnect that  *)
(* failed; so putConnet never finds the pool full unless it is misused.     *)
Conservation ==
  dst.pc = "idle" /\ phase = "ready" /\ ~misused =>
    valid + Cardinality(Held) + lost = Bounds

(* The sockets the pool has opened are exactly the idle ones, the held ones *)
(* and those a failed sckClient_connect left behind, which stay open; after *)
(* destroy no idle one is open any more.                                    *)
SocketsAccounted ==
  ~misused =>
    /\ dst.pc = "idle" =>
         Conns = leaked \cup (IF phase = "failed" THEN {} ELSE Idle \cup Held)
    /\ dst.pc \in {"unlocked", "freed"} => Conns \subseteq Held \cup leaked

(* However the pool is misused, the stack stays within fdArray and every    *)
(* entry on it is marked valid (so the repair branch of getConnet is never  *)
(* entered).                                                                *)
StackWellFormed ==
  valid \in 0 .. Bounds /\ \A i \in Index : i < valid => statusArray[i] = 1
=============================================================================
