--------------------------- MODULE ConnPoolProofs ---------------------------
(***************************************************************************)
(* Proofs about ConnPool, for every size of the pool, number of            *)
(* descriptors and set of clients, whether or not clients put connections  *)
(* back twice and other code opens files.  PoolInv is the inductive        *)
(* invariant: it adds to ExclusiveOwnership what the sockets are that      *)
(* failed connects leave behind, and what destroy has still to close.      *)
(***************************************************************************)
EXTENDS ConnPool, FiniteSetTheorems, TLAPS

(* What the calls that are over have left: before init has succeeded, and   *)
(* while `terminated' holds garbage that reads as 1, no client has ever had *)
(* a connection.                                                            *)
CallsInv ==
  /\ phase = "init" => valid < Bounds /\ valid + nvalid = Bounds /\ leaked = {}
  /\ phase # "ready" => dst.pc = "idle" /\ lost = 0 /\ ~ misused
  /\ phase # "ready" \/ (dst.pc = "idle" /\ terminated = 1)
       => \A c \in Clients : held[c] = NoFd /\ last[c] = NoFd
  /\ dst.pc # "idle" => terminated = 1
  /\ dst.pc \in {"unlocked", "freed"} => dst.i = Bounds

DistinctIdle ==
  \A i, j \in Index : i < valid /\ j < valid /\ i # j => fdArray[i] # fdArray[j]

DistinctHeld == \A c, d \in Clients : c # d /\ held[c] # NoFd => held[c] # held[d]

(* While nobody has misused or destroyed the pool, its sockets are its idle *)
(* and its held connections and those that failed connects left behind, and *)
(* these are three disjoint sets.  Standard input is none of them.          *)
Live == dst.pc = "idle" /\ phase # "failed" /\ ~ misused

Owned ==
  /\ DistinctIdle /\ DistinctHeld /\ Idle \cap Held = {}
  /\ leaked \cap (Idle \cup Held) = {}
  /\ Conns = leaked \cup Idle \cup Held
  /\ file[0] = "other"

OwnedInv == Live => Owned

(* The entries that destroy has not come to yet. *)
Unclosed == {fdArray[j] : j \in {k \in Index : dst.i <= k /\ k < valid}}

ClosingInv ==
  /\ phase = "failed" => Conns = leaked
  /\ dst.pc # "idle" /\ ~ misused => Conns \subseteq Held \cup leaked \cup Unclosed
  /\ dst.pc # "idle" /\ ~ misused => 0 \notin Conns

(* The part that holds however the clients misuse the pool, and all of it.  *)
CoreInv == TypeOK /\ CallsInv /\ StackWellFormed
PoolInv == CoreInv /\ OwnedInv /\ Conservation /\ ClosingInv
-----------------------------------------------------------------------------
USE DEF Index, FD, NoFd, Kind, Phase, Result, DestroyPc

(* Pushing a connection on the stack adds it to the idle ones, on top of    *)
(* entries that stay what they are.                                         *)
LEMMA IdlePush ==
  ASSUME TypeOK, valid < Bounds, NEW fd \in FD,
         fdArray' = [fdArray EXCEPT ![valid] = fd], valid' = valid + 1
  PROVE  /\ Idle' = Idle \cup {fd}
         /\ DistinctIdle /\ fd \notin Idle => DistinctIdle'
<1>. USE SizesAssumption
<1>0. valid \in Index BY DEF TypeOK
<1>1. fdArray'[valid] = fd BY <1>0 DEF TypeOK
<1>2. ASSUME NEW i \in Index, i < valid PROVE fdArray'[i] = fdArray[i]
  BY <1>2 DEF TypeOK
<1>3. Idle' = {fdArray'[i] : i \in {j \in Index : j < valid + 1}} BY DEF Idle
<1>4. ASSUME NEW x \in Idle' PROVE x \in Idle \cup {fd}
  <2>1. PICK i \in Index : i < valid + 1 /\ x = fdArray'[i] BY <1>3
  <2>2. CASE i = valid BY <2>1, <2>2, <1>1
  <2>3. CASE i < valid BY <2>1, <2>3, <1>2 DEF Idle
  <2>. QED BY <2>1, <2>2, <2>3 DEF TypeOK
<1>5. ASSUME NEW x \in Idle PROVE x \in Idle'
  <2>1. PICK i \in Index : i < valid /\ x = fdArray[i] BY DEF Idle
  <2>2. i < valid + 1 /\ x = fdArray'[i] BY <2>1, <1>2 DEF TypeOK
  <2>. QED BY <1>3, <2>2
<1>6. fd \in Idle'
  <2>1. valid < valid + 1 BY <1>0
  <2>. QED BY <1>0, <1>1, <1>3, <2>1
<1>7. ASSUME DistinctIdle, fd \notin Idle PROVE DistinctIdle'
  <2>1. \A i \in Index : i < valid => fdArray[i] # fd BY <1>7 DEF Idle
  <2>2. \A i \in Index : i < valid + 1 => i < valid \/ i = valid BY <1>0
  <2>. QED BY <1>1, <1>2, <1>7, <2>1, <2>2 DEF DistinctIdle
<1>. QED BY <1>4, <1>5, <1>6, <1>7

(* Popping the top removes it, since no other idle entry is the same. *)
LEMMA IdlePop ==
  ASSUME TypeOK, valid > 0,
         DistinctIdle, fdArray' = fdArray, valid' = valid - 1
  PROVE  Top \in Idle /\ Idle' = Idle \ {Top} /\ DistinctIdle'
<1>. USE SizesAssumption
<1>0. valid - 1 \in Index /\ valid - 1 < valid BY DEF TypeOK
<1>1. Top \in Idle BY <1>0 DEF Top, Idle
<1>2. Idle' = {fdArray[i] : i \in {j \in Index : j < valid - 1}} BY DEF Idle
<1>3. ASSUME NEW x \in Idle' PROVE x \in Idle /\ x # Top
  <2>1. PICK i \in Index : i < valid - 1 /\ x = fdArray[i] BY <1>2
  <2>2. i < valid /\ i # valid - 1 BY <2>1 DEF TypeOK
  <2>. QED BY <1>0, <2>1, <2>2 DEF Top, Idle, DistinctIdle
<1>4. ASSUME NEW x \in Idle, x # Top PROVE x \in Idle'
  <2>1. PICK i \in Index : i < valid /\ x = fdArray[i] BY DEF Idle
  <2>2. i # valid - 1 BY <1>4, <2>1 DEF Top
  <2>3. i < valid - 1 BY <2>1, <2>2 DEF TypeOK
  <2>. QED BY <1>2, <2>1, <2>3
<1>5. DistinctIdle'
  <2>1. \A i \in Index : i < valid' => i < valid BY DEF TypeOK
  <2>. QED BY <2>1 DEF DistinctIdle
<1>. QED BY <1>1, <1>3, <1>4, <1>5

(* A client that gives up what it alone holds. *)
LEMMA HeldDrop ==
  ASSUME TypeOK, NEW c \in Clients, held[c] # NoFd,
         DistinctHeld, held' = [held EXCEPT ![c] = NoFd]
  PROVE  held[c] \in Held /\ Held' = Held \ {held[c]} /\ DistinctHeld'
<1>1. held'[c] = NoFd /\ \A d \in Clients : d # c => held'[d] = held[d]
  BY DEF TypeOK
<1>2. held[c] \in Held BY DEF Held
<1>3. ASSUME NEW x \in Held' PROVE x \in Held /\ x # held[c]
  <2>1. PICK d \in Clients : x = held'[d] /\ x # NoFd BY DEF Held
  <2>2. d # c BY <1>1, <2>1
  <2>. QED BY <1>1, <2>1, <2>2 DEF Held, DistinctHeld
<1>4. ASSUME NEW x \in Held, x # held[c] PROVE x \in Held'
  <2>1. PICK d \in Clients : x = held[d] /\ x # NoFd BY DEF Held
  <2>2. x = held'[d] BY <1>1, <1>4, <2>1
  <2>. QED BY <2>1, <2>2 DEF Held
<1>5. DistinctHeld' BY <1>1 DEF DistinctHeld
<1>. QED BY <1>2, <1>3, <1>4, <1>5

(* A client that is given a connection. *)
LEMMA HeldAdd ==
  ASSUME TypeOK, NEW c \in Clients, held[c] = NoFd, NEW fd \in FD,
         held' = [held EXCEPT ![c] = fd]
  PROVE  /\ Held' = Held \cup {fd}
         /\ DistinctHeld /\ fd \notin Held => DistinctHeld'
<1>1. held'[c] = fd /\ \A d \in Clients : d # c => held'[d] = held[d]
  BY DEF TypeOK
<1>2. ASSUME NEW x \in Held' PROVE x \in Held \cup {fd}
  <2>1. PICK d \in Clients : x = held'[d] /\ x # NoFd BY DEF Held
  <2>. QED BY <1>1, <2>1 DEF Held
<1>3. ASSUME NEW x \in Held PROVE x \in Held'
  <2>1. PICK d \in Clients : x = held[d] /\ x # NoFd BY DEF Held
  <2>2. x = held'[d] BY <1>1, <2>1
  <2>. QED BY <2>1, <2>2 DEF Held
<1>4. fd \in Held' BY <1>1 DEF Held
<1>5. ASSUME DistinctHeld, fd \notin Held PROVE DistinctHeld'
  <2>1. \A d \in Clients : held[d] # fd BY <1>5 DEF Held
  <2>. QED BY <1>1, <1>5, <2>1 DEF DistinctHeld
<1>. QED BY <1>2, <1>3, <1>4, <1>5

(* The connections lent are finitely many. *)
LEMMA HeldFinite == ASSUME TypeOK PROVE Held \subseteq FD /\ IsFiniteSet(Held)
<1>1. Held \subseteq FD BY DEF Held, TypeOK
<1>2. IsFiniteSet(FD) BY FS_Interval, SizesAssumption
<1>. QED BY <1>1, <1>2, FS_Subset

-----------------------------------------------------------------------------
(* The repair branch of getConnet is never entered: it lends the top as it is. *)
LEMMA GetTop ==
  ASSUME CoreInv, NEW c \in Clients, GetConn(c)
  PROVE  /\ Top \in FD /\ valid > 0 /\ valid' = valid - 1
         /\ held' = [held EXCEPT ![c] = Top] /\ ret' = "ok"
         /\ UNCHANGED <<fdArray, file, leaked>>
<1>. USE SizesAssumption DEF CoreInv
<1>1. valid - 1 \in Index /\ valid - 1 < valid BY DEF GetConn, TypeOK
<1>2. statusArray[valid - 1] # 0 BY <1>1 DEF StackWellFormed
<1>3. Repaired = {[fd |-> Top, files |-> file, leaks |-> {}, ok |-> TRUE]}
  BY <1>2 DEF Repaired
<1>4. Top \in FD /\ fdArray = [fdArray EXCEPT ![valid - 1] = Top]
  BY <1>1 DEF Top, TypeOK
<1>5. PICK top \in Repaired :
        /\ fdArray' = [fdArray EXCEPT ![valid - 1] = top.fd] /\ file' = top.files
        /\ held' = [held EXCEPT ![c] = IF top.ok THEN top.fd ELSE NoFd]
        /\ valid' = (IF top.ok THEN valid - 1 ELSE valid)
        /\ ret' = (IF top.ok THEN "ok" ELSE "fail")
        /\ leaked' = leaked \cup top.leaks
  BY DEF GetConn
<1>6. top = [fd |-> Top, files |-> file, leaks |-> {}, ok |-> TRUE] BY <1>3, <1>5
<1>7. top.fd = Top /\ top.files = file /\ top.leaks = {} /\ top.ok = TRUE BY <1>6
<1>8. valid > 0 BY DEF GetConn
<1>. QED BY <1>4, <1>5, <1>7, <1>8

(* putConnet finds `terminated' set only after destroy, and then there is   *)
(* no fdArray to write to.                                                  *)
LEMMA PutTooLate ==
  ASSUME CoreInv, NEW c \in Clients, PutTerminated(c)
  PROVE  /\ dst.pc = "unlocked" /\ ret' = "crash"
         /\ UNCHANGED <<arrays, terminated, file, phase, held, last, misused,
                        leaked, lost, dst>>
<1>1. Mine(c) # {} BY DEF PutTerminated
<1>2. held[c] # NoFd \/ last[c] # NoFd BY <1>1 DEF Mine
<1>3. dst.pc # "idle" BY <1>2 DEF CoreInv, CallsInv, PutTerminated
<1>4. dst.pc = "unlocked" BY <1>3 DEF PutTerminated, Unlocked
<1>. QED BY <1>4 DEF PutTerminated, arrays

(* A client has a descriptor to put back only while the pool is in use. *)
LEMMA MineIs ==
  ASSUME TypeOK, NEW c \in Clients
  PROVE  /\ Mine(c) \subseteq FD
         /\ \A fd \in Mine(c) : held[c] = fd \/ (last[c] = fd /\ fd # NoFd)
BY DEF Mine, TypeOK

(* close(fd) ends what fd referred to and leaves every other descriptor alone. *)
LEMMA AfterCloseIs ==
  ASSUME TypeOK, NEW fd \in FD, NEW f \in AfterClose(fd)
  PROVE  /\ f \in [FD -> Kind] /\ f[fd] # "conn"
         /\ \A d \in FD : d # fd => f[d] = file[d]
<1>1. f = [file EXCEPT ![fd] = "closed"] \/ f = [file EXCEPT ![fd] = "other"]
  BY DEF AfterClose
<1>. QED BY <1>1 DEF TypeOK

(* What a failed connect leaves behind had a free number. *)
LEMMA FailedSocketIs ==
  ASSUME NEW free, NEW sock \in FailedSocket(free) PROVE sock \subseteq free
BY DEF FailedSocket, Lowest

(* The outcome of a failed init: sckClient_connect left sock, the cleanup   *)
(* has closed shut.                                                         *)
InitClosed(sock, shut) ==
  /\ file' = [fd \in FD |-> IF fd \in shut THEN "closed"
                            ELSE IF fd \in sock THEN "conn" ELSE file[fd]]
  /\ leaked' = leaked \cup (sock \ shut)

(* That cleanup misses none of the connections init has made, whatever else *)
(* garbage in statusArray makes it close.                                   *)
LEMMA InitFailIs ==
  ASSUME CoreInv, InitFail
  PROVE  \E sock \in FailedSocket(Closed), shut \in SUBSET FD :
           InitClosed(sock, shut) /\ Idle \subseteq shut
<1>1. PICK sock \in FailedSocket(Closed), stored \in BOOLEAN :
        LET fds == [i \in Index |-> IF i = valid /\ stored /\ sock # {}
                                    THEN CHOOSE fd \in sock : TRUE ELSE fdArray[i]]
        IN  InitClosed(sock, {fds[i] : i \in {j \in Index : statusArray[j] = 1}})
  BY DEF InitFail, InitClosed
<1>. DEFINE fds == [i \in Index |-> IF i = valid /\ stored /\ sock # {}
                                    THEN CHOOSE fd \in sock : TRUE ELSE fdArray[i]]
            shut == {fds[i] : i \in {j \in Index : statusArray[j] = 1}}
<1>2. sock \subseteq FD BY FailedSocketIs DEF Closed
<1>3. sock # {} => (CHOOSE fd \in sock : TRUE) \in sock OBVIOUS
<1>4. \A i \in Index : fds[i] \in FD BY <1>2, <1>3 DEF CoreInv, TypeOK
<1>5. shut \in SUBSET FD BY <1>4
<1>6. ASSUME NEW x \in Idle PROVE x \in shut
  <2>1. PICK i \in Index : i < valid /\ x = fdArray[i] BY DEF Idle
  <2>2. fds[i] = x /\ statusArray[i] = 1
    BY <2>1, SizesAssumption DEF CoreInv, StackWellFormed, TypeOK
  <2>. QED BY <2>2
<1>7. InitClosed(sock, shut) BY <1>1
<1>. HIDE DEF shut
<1>. QED BY <1>5, <1>6, <1>7

(* What a client that has put a connection back is left with. *)
LEMMA ReleasedType ==
  ASSUME TypeOK, NEW c \in Clients, NEW fd \in FD, NEW result \in Result,
         Released(c, fd, result) \/ Refused(c, fd, result)
  PROVE  /\ held' \in [Clients -> FD \cup {NoFd}] /\ last' \in [Clients -> FD \cup {NoFd}]
         /\ ret' \in Result /\ misused' \in BOOLEAN
<1>1. held' \in [Clients -> FD \cup {NoFd}] BY DEF Released, Refused, GivenUp, TypeOK
<1>2. last' \in [Clients -> FD \cup {NoFd}] BY DEF Released, Refused, GivenUp, TypeOK
<1>3. ret' \in Result BY DEF Released, Refused, GivenUp, TypeOK
<1>4. misused' \in BOOLEAN BY DEF Released, Refused, TypeOK
<1>. QED BY <1>1, <1>2, <1>3, <1>4

(* Every step keeps the type, the order of the calls and the stack intact. *)
LEMMA CoreStep == ASSUME CoreInv, [Next]_vars PROVE CoreInv'
<1>. USE SizesAssumption DEF arrays, clientVars
<1>0. TypeOK /\ CallsInv /\ StackWellFormed BY DEF CoreInv
<1>1. ASSUME InitConnect PROVE CoreInv'
  <2>1. PICK fd \in Lowest(Closed) : /\ file' = [file EXCEPT ![fd] = "conn"]
                                     /\ fdArray' = [fdArray EXCEPT ![valid] = fd]
    BY <1>1 DEF InitConnect
  <2>2. fd \in FD BY DEF Lowest, Closed
  <2>3. valid \in Index /\ nvalid - 1 \in 0 .. Bounds BY <1>0, <1>1 DEF CallsInv, InitConnect, TypeOK
  <2>4. TypeOK' BY <1>0, <1>1, <2>1, <2>2, <2>3 DEF InitConnect, TypeOK
  <2>5. CallsInv' BY <1>0, <1>1, <2>3 DEF InitConnect, CallsInv, TypeOK
  <2>6. StackWellFormed' BY <1>0, <1>1, <2>3 DEF InitConnect, StackWellFormed, TypeOK
  <2>. QED BY <2>4, <2>5, <2>6 DEF CoreInv
<1>2. ASSUME InitFail PROVE CoreInv'
  <2>1. PICK sock \in FailedSocket(Closed), shut \in SUBSET FD : InitClosed(sock, shut)
    BY <1>2, InitFailIs
  <2>2. sock \subseteq FD BY FailedSocketIs DEF Closed
  <2>3. file' \in [FD -> Kind] /\ leaked' \subseteq FD BY <1>0, <2>1, <2>2 DEF TypeOK, InitClosed
  <2>4. TypeOK' BY <1>0, <1>2, <2>3 DEF InitFail, TypeOK
  <2>5. CallsInv' BY <1>0, <1>2 DEF InitFail, CallsInv
  <2>6. StackWellFormed' BY <1>0, <1>2 DEF InitFail, StackWellFormed
  <2>. QED BY <2>4, <2>5, <2>6 DEF CoreInv
<1>3. ASSUME NEW c \in Clients, GetTerminated(c) \/ GetEmpty(c) PROVE CoreInv'
  <2>1. /\ ret' \in Result
        /\ UNCHANGED <<arrays, terminated, file, phase, held, last, misused, leaked, lost, dst>>
    BY <1>3 DEF GetTerminated, GetEmpty
  <2>. QED BY <1>0, <2>1 DEF CoreInv, TypeOK, CallsInv, StackWellFormed
<1>4. ASSUME NEW c \in Clients, GetConn(c) PROVE CoreInv'
  <2>1. /\ Top \in FD /\ valid > 0 /\ valid' = valid - 1
        /\ held' = [held EXCEPT ![c] = Top] /\ ret' = "ok"
        /\ UNCHANGED <<fdArray, file, leaked>>
    BY <1>4, GetTop
  <2>2. UNCHANGED <<statusArray, nvalid, terminated, phase, last, misused, lost, dst>>
    BY <1>4 DEF GetConn
  <2>3. phase = "ready" /\ terminated # 1 BY <1>4 DEF GetConn, Unlocked
  <2>4. TypeOK' BY <1>0, <2>1, <2>2 DEF TypeOK
  <2>5. CallsInv' BY <1>0, <2>1, <2>2, <2>3 DEF CallsInv
  <2>6. StackWellFormed' BY <1>0, <2>1, <2>2 DEF StackWellFormed
  <2>. QED BY <2>4, <2>5, <2>6 DEF CoreInv
<1>5. ASSUME NEW c \in Clients, PutTerminated(c) PROVE CoreInv'
  BY <1>0, <1>5, PutTooLate DEF CoreInv, TypeOK, CallsInv, StackWellFormed
<1>6. ASSUME NEW c \in Clients, PutExist(c) \/ PutBounds(c) PROVE CoreInv'
  <2>1. PICK fd \in Mine(c), result \in {"exist", "bounds"} : Refused(c, fd, result)
    BY <1>6 DEF PutExist, PutBounds
  <2>2. UNCHANGED <<arrays, terminated, file, phase, leaked, lost, dst>>
    BY <1>6 DEF PutExist, PutBounds
  <2>3. phase = "ready" /\ terminated # 1
    BY <1>6 DEF PutExist, PutBounds, Unlocked
  <2>4. TypeOK'
    <3>1. /\ held' \in [Clients -> FD \cup {NoFd}] /\ last' \in [Clients -> FD \cup {NoFd}]
          /\ ret' \in Result /\ misused' \in BOOLEAN
      BY <1>0, <2>1, MineIs, ReleasedType
    <3>. QED BY <1>0, <2>2, <3>1 DEF TypeOK
  <2>5. CallsInv' BY <1>0, <2>1, <2>2, <2>3 DEF CallsInv, Refused, GivenUp
  <2>6. StackWellFormed' BY <1>0, <2>2 DEF StackWellFormed
  <2>. QED BY <2>4, <2>5, <2>6 DEF CoreInv
<1>7. ASSUME NEW c \in Clients, PutValid(c) PROVE CoreInv'
  <2>1. PICK fd \in Mine(c) : Push(fd) /\ Released(c, fd, "ok")
    BY <1>7 DEF PutValid
  <2>2. UNCHANGED <<nvalid, terminated, file, phase, leaked, lost, dst>>
    BY <1>7 DEF PutValid
  <2>3. phase = "ready" /\ terminated # 1 /\ valid < Bounds
    BY <1>7 DEF PutValid, Unlocked
  <2>4. TypeOK'
    <3>1. /\ held' \in [Clients -> FD \cup {NoFd}] /\ last' \in [Clients -> FD \cup {NoFd}]
          /\ ret' \in Result /\ misused' \in BOOLEAN
      BY <1>0, <2>1, MineIs, ReleasedType
    <3>2. /\ fdArray' \in [Index -> FD] /\ statusArray' \in [Index -> FD \cup {1}]
          /\ valid' \in 0 .. Bounds
      BY <1>0, <2>1, <2>3, MineIs DEF Push, TypeOK
    <3>. QED BY <1>0, <2>2, <3>1, <3>2 DEF TypeOK
  <2>5. CallsInv' BY <1>0, <2>1, <2>2, <2>3 DEF CallsInv, Released, GivenUp
  <2>6. StackWellFormed' BY <1>0, <2>1, <2>3 DEF StackWellFormed, Push, TypeOK
  <2>. QED BY <2>4, <2>5, <2>6 DEF CoreInv
<1>8. ASSUME NEW c \in Clients, PutInvalid(c) PROVE CoreInv'
  <2>1. PICK fd \in Mine(c) : \E f \in AfterClose(fd) : \E new \in Lowest(FreeIn(f)) :
          Push(new) /\ file' = [f EXCEPT ![new] = "conn"] /\ Released(c, fd, "ok")
    BY <1>8 DEF PutInvalid
  <2>1a. PICK f \in AfterClose(fd) : \E new \in Lowest(FreeIn(f)) :
          Push(new) /\ file' = [f EXCEPT ![new] = "conn"] /\ Released(c, fd, "ok")
    BY <2>1
  <2>1b. PICK new \in Lowest(FreeIn(f)) :
          Push(new) /\ file' = [f EXCEPT ![new] = "conn"] /\ Released(c, fd, "ok")
    BY <2>1a
  <2>2. UNCHANGED <<nvalid, terminated, phase, leaked, lost, dst>>
    BY <1>8 DEF PutInvalid
  <2>3. phase = "ready" /\ terminated # 1 /\ valid < Bounds
    BY <1>8 DEF PutInvalid, Unlocked
  <2>4. fd \in FD /\ new \in FD /\ f \in [FD -> Kind]
    BY <1>0, MineIs, AfterCloseIs DEF Lowest, FreeIn
  <2>5. TypeOK'
    <3>1. /\ held' \in [Clients -> FD \cup {NoFd}] /\ last' \in [Clients -> FD \cup {NoFd}]
          /\ ret' \in Result /\ misused' \in BOOLEAN
      BY <1>0, <2>1b, <2>4, ReleasedType
    <3>2. /\ fdArray' \in [Index -> FD] /\ statusArray' \in [Index -> FD \cup {1}]
          /\ valid' \in 0 .. Bounds
      BY <1>0, <2>1b, <2>3, <2>4 DEF Push, TypeOK
    <3>3. file' \in [FD -> Kind] BY <2>1b, <2>4
    <3>. QED BY <1>0, <2>2, <3>1, <3>2, <3>3 DEF TypeOK
  <2>6. CallsInv' BY <1>0, <2>1b, <2>2, <2>3 DEF CallsInv, Released, GivenUp
  <2>7. StackWellFormed' BY <1>0, <2>1b, <2>3 DEF StackWellFormed, Push, TypeOK
  <2>. QED BY <2>5, <2>6, <2>7 DEF CoreInv
<1>9. ASSUME NEW c \in Clients, PutNoReconnect(c) PROVE CoreInv'
  <2>1. PICK fd \in Mine(c) : \E f \in AfterClose(fd) : \E sock \in FailedSocket(FreeIn(f)) :
          /\ file' = [d \in FD |-> IF d \in sock THEN "conn" ELSE f[d]]
          /\ leaked' = leaked \cup sock /\ Released(c, fd, "fail")
    BY <1>9 DEF PutNoReconnect
  <2>1a. PICK f \in AfterClose(fd) : \E sock \in FailedSocket(FreeIn(f)) :
          /\ file' = [d \in FD |-> IF d \in sock THEN "conn" ELSE f[d]]
          /\ leaked' = leaked \cup sock /\ Released(c, fd, "fail")
    BY <2>1
  <2>1b. PICK sock \in FailedSocket(FreeIn(f)) :
          /\ file' = [d \in FD |-> IF d \in sock THEN "conn" ELSE f[d]]
          /\ leaked' = leaked \cup sock /\ Released(c, fd, "fail")
    BY <2>1a
  <2>2. UNCHANGED <<arrays, terminated, phase, dst>> /\ lost' = lost + 1
    BY <1>9 DEF PutNoReconnect
  <2>3. phase = "ready" /\ terminated # 1 /\ lost < Bounds
    BY <1>9 DEF PutNoReconnect, Unlocked
  <2>4. fd \in FD /\ sock \subseteq FD /\ f \in [FD -> Kind]
    BY <1>0, MineIs, AfterCloseIs, FailedSocketIs DEF FreeIn
  <2>5. TypeOK'
    <3>1. /\ held' \in [Clients -> FD \cup {NoFd}] /\ last' \in [Clients -> FD \cup {NoFd}]
          /\ ret' \in Result /\ misused' \in BOOLEAN
      BY <1>0, <2>1b, <2>4, ReleasedType
    <3>2. file' \in [FD -> Kind] /\ leaked' \subseteq FD /\ lost' \in 0 .. Bounds
      BY <1>0, <2>1b, <2>2, <2>3, <2>4 DEF TypeOK
    <3>. QED BY <1>0, <2>2, <3>1, <3>2 DEF TypeOK
  <2>6. CallsInv' BY <1>0, <2>1b, <2>2, <2>3 DEF CallsInv, Released, GivenUp
  <2>7. StackWellFormed' BY <1>0, <2>2 DEF StackWellFormed
  <2>. QED BY <2>5, <2>6, <2>7 DEF CoreInv
<1>10. ASSUME DestroyLock PROVE CoreInv'
  BY <1>0, <1>10 DEF DestroyLock, CoreInv, TypeOK, CallsInv, StackWellFormed
<1>11. ASSUME DestroyClose PROVE CoreInv'
  BY <1>0, <1>11 DEF DestroyClose, CoreInv, TypeOK, CallsInv, StackWellFormed
<1>12. ASSUME DestroyUnlock \/ DestroyFree PROVE CoreInv'
  BY <1>0, <1>12 DEF DestroyUnlock, DestroyFree, CoreInv, TypeOK, CallsInv, StackWellFormed
<1>13. ASSUME OtherOpen \/ OtherClose PROVE CoreInv'
  <2>1. PICK fd \in FD, kind \in Kind : file' = [file EXCEPT ![fd] = kind]
    BY <1>13 DEF OtherOpen, OtherClose, Lowest, Closed
  <2>2. UNCHANGED <<arrays, terminated, phase, clientVars, leaked, lost, dst>>
    BY <1>13 DEF OtherOpen, OtherClose
  <2>. QED BY <1>0, <2>1, <2>2 DEF CoreInv, TypeOK, CallsInv, StackWellFormed
<1>14. ASSUME UNCHANGED vars PROVE CoreInv'
  BY <1>0, <1>14 DEF vars, CoreInv, TypeOK, CallsInv, StackWellFormed
<1>. QED
  BY <1>1, <1>2, <1>3, <1>4, <1>5, <1>6, <1>7, <1>8, <1>9, <1>10, <1>11, <1>12,
     <1>13, <1>14 DEF Next, getConnet, putConnet, destroy

-----------------------------------------------------------------------------
(* Taking one connection back from the client that holds it: one fewer held. *)
LEMMA HeldOneLess ==
  ASSUME TypeOK, NEW fd \in Held
  PROVE  Cardinality(Held \ {fd}) = Cardinality(Held) - 1 /\ Cardinality(Held) \in Nat
BY HeldFinite, FS_RemoveElement, FS_CardinalityType

(* A put that is not a misuse is of the connection the client holds. *)
LEMMA ReleasedIs ==
  ASSUME PoolInv, NEW c \in Clients, NEW fd \in Mine(c), NEW result, Live,
         Released(c, fd, result), ~ misused'
  PROVE  /\ fd \in FD /\ fd \in Held /\ Held' = Held \ {fd} /\ DistinctHeld'
         /\ fd \in Conns /\ fd # 0 /\ fd \notin leaked /\ fd \notin Idle
<1>0. TypeOK /\ Owned BY DEF PoolInv, CoreInv, OwnedInv
<1>1. held[c] = fd BY DEF Released
<1>2. fd # NoFd BY DEF Mine
<1>3. held' = [held EXCEPT ![c] = NoFd] BY <1>1 DEF Released, GivenUp
<1>4. fd \in Held /\ Held' = Held \ {fd} /\ DistinctHeld'
  BY <1>0, <1>1, <1>2, <1>3, HeldDrop DEF Owned
<1>5. fd \in FD BY <1>0, <1>4, HeldFinite
<1>6. fd \in Conns /\ fd \notin leaked /\ fd \notin Idle BY <1>0, <1>4 DEF Owned
<1>7. fd # 0 BY <1>0, <1>6 DEF Owned, Conns
<1>. QED BY <1>4, <1>5, <1>6, <1>7

(* The calls of a client keep every connection in one place. *)
LEMMA ClientStep ==
  ASSUME PoolInv, NEW c \in Clients, getConnet(c) \/ putConnet(c)
  PROVE  OwnedInv' /\ Conservation' /\ ClosingInv'
<1>. USE SizesAssumption
<1>0. TypeOK /\ CallsInv /\ OwnedInv /\ Conservation /\ ClosingInv BY DEF PoolInv, CoreInv
<1>1. ASSUME UNCHANGED <<arrays, file, phase, held, misused, leaked, lost, dst>>
      PROVE  OwnedInv' /\ Conservation' /\ ClosingInv'
  <2>1. Idle' = Idle /\ Held' = Held /\ Conns' = Conns /\ Unclosed' = Unclosed
    BY <1>1 DEF Idle, Held, Conns, Unclosed, arrays
  <2>2. OwnedInv' BY <1>0, <1>1, <2>1 DEF OwnedInv, Live, Owned, DistinctIdle, DistinctHeld, arrays
  <2>3. Conservation' BY <1>0, <1>1, <2>1 DEF Conservation, arrays
  <2>4. ClosingInv' BY <1>0, <1>1, <2>1 DEF ClosingInv
  <2>. QED BY <2>2, <2>3, <2>4
<1>2. CASE GetTerminated(c) \/ GetEmpty(c) BY <1>1, <1>2 DEF GetTerminated, GetEmpty
<1>3. CASE PutTerminated(c)
  <2>1. CoreInv BY DEF PoolInv
  <2>. QED BY <1>1, <1>3, <2>1, PutTooLate
<1>. DEFINE Serving == GetConn(c) \/ PutExist(c) \/ PutBounds(c) \/ PutValid(c)
                       \/ PutInvalid(c) \/ PutNoReconnect(c)
<1>4. ASSUME Serving PROVE ClosingInv' /\ dst.pc = "idle" /\ phase = "ready"
  <2>1. /\ phase = "ready" /\ terminated # 1 /\ phase' = phase /\ dst' = dst
    BY <1>4 DEF GetConn, PutExist, PutBounds, PutValid, PutInvalid, PutNoReconnect, Unlocked
  <2>2. dst.pc = "idle" BY <1>0, <2>1 DEF CallsInv
  <2>. QED BY <2>1, <2>2 DEF ClosingInv
<1>5. CASE GetConn(c)
  <2>. SUFFICES ASSUME Live' PROVE Owned' /\ Conservation'
    BY <1>4, <1>5 DEF OwnedInv, Conservation, Live
  <2>1. CoreInv BY DEF PoolInv
  <2>2. /\ Top \in FD /\ valid > 0 /\ valid' = valid - 1
        /\ held' = [held EXCEPT ![c] = Top] /\ UNCHANGED <<fdArray, file, leaked>>
    BY <1>5, <2>1, GetTop
  <2>3. UNCHANGED <<phase, misused, lost, dst>> /\ held[c] = NoFd BY <1>5 DEF GetConn
  <2>4. Live /\ Owned BY <1>0, <2>3 DEF OwnedInv, Live
  <2>5. Top \in Idle /\ Idle' = Idle \ {Top} /\ DistinctIdle'
    BY <1>0, <2>2, <2>4, IdlePop DEF Owned
  <2>6. Held' = Held \cup {Top} /\ DistinctHeld'
    BY <1>0, <2>2, <2>3, <2>4, <2>5, HeldAdd DEF Owned
  <2>7. Conns' = Conns BY <2>2 DEF Conns
  <2>8. Owned' BY <2>2, <2>4, <2>5, <2>6, <2>7 DEF Owned
  <2>9. Conservation'
    <3>1. valid + Cardinality(Held) + lost = Bounds
      BY <1>0, <1>4, <1>5, <2>4 DEF Conservation, Live
    <3>2. Cardinality(Held') = Cardinality(Held) + 1 /\ Cardinality(Held) \in Nat
      BY <1>0, <2>4, <2>5, <2>6, HeldFinite, FS_AddElement, FS_CardinalityType DEF Owned
    <3>. QED BY <1>0, <2>2, <2>3, <3>1, <3>2 DEF Conservation, TypeOK
  <2>. QED BY <2>8, <2>9
<1>6. CASE PutExist(c) \/ PutBounds(c)
  <2>1. PICK fd \in Mine(c), result \in {"exist", "bounds"} :
          Refused(c, fd, result) /\ (fd \in Idle \/ valid >= Bounds)
    BY <1>6 DEF PutExist, PutBounds
  <2>2. UNCHANGED <<arrays, file, phase, leaked, lost, dst, misused>>
    BY <1>6, <2>1 DEF PutExist, PutBounds, Refused
  <2>. SUFFICES ASSUME Live' PROVE Owned' /\ Conservation'
    BY <1>4, <1>6 DEF OwnedInv, Conservation, Live
  <2>3. Live /\ Owned BY <1>0, <2>2 DEF OwnedInv, Live
  <2>4. fd # held[c]
    <3>1. SUFFICES ASSUME fd = held[c] PROVE FALSE OBVIOUS
    <3>2. fd \in Held BY <3>1 DEF Held, Mine
    <3>3. valid >= Bounds BY <2>1, <2>3, <3>2 DEF Owned
    <3>4. valid + Cardinality(Held) + lost = Bounds
      BY <1>0, <1>4, <1>6, <2>3 DEF Conservation, Live
    <3>5. Cardinality(Held) = 0
      BY <1>0, <3>3, <3>4, HeldFinite, FS_CardinalityType DEF TypeOK
    <3>. QED BY <1>0, <3>2, <3>5, HeldFinite, FS_EmptySet
  <2>5. held' = held BY <1>0, <2>1, <2>4 DEF Refused, GivenUp, TypeOK
  <2>. QED BY <1>1, <2>2, <2>5 DEF OwnedInv
<1>7. CASE PutValid(c)
  <2>. SUFFICES ASSUME Live' PROVE Owned' /\ Conservation'
    BY <1>4, <1>7 DEF OwnedInv, Conservation, Live
  <2>1. PICK fd \in Mine(c) : Push(fd) /\ Released(c, fd, "ok") BY <1>7 DEF PutValid
  <2>2. UNCHANGED <<file, phase, leaked, lost, dst>> /\ valid < Bounds BY <1>7 DEF PutValid
  <2>3. Live /\ Owned BY <1>0, <2>1, <2>2 DEF OwnedInv, Live, Released
  <2>4. /\ fd \in FD /\ fd \in Held /\ Held' = Held \ {fd} /\ DistinctHeld'
        /\ fd \in Conns /\ fd \notin Idle
    BY <2>1, <2>3, ReleasedIs DEF Live
  <2>5. Idle' = Idle \cup {fd} /\ DistinctIdle'
    BY <1>0, <2>1, <2>2, <2>3, <2>4, IdlePush DEF Push, Owned
  <2>6. Conns' = Conns BY <2>2 DEF Conns
  <2>7. Owned' BY <2>2, <2>3, <2>4, <2>5, <2>6 DEF Owned
  <2>8. Conservation'
    <3>1. valid + Cardinality(Held) + lost = Bounds
      BY <1>0, <1>4, <1>7, <2>3 DEF Conservation, Live
    <3>2. Cardinality(Held') = Cardinality(Held) - 1 /\ Cardinality(Held) \in Nat
      BY <1>0, <2>4, HeldOneLess
    <3>. QED BY <1>0, <2>1, <2>2, <3>1, <3>2 DEF Conservation, TypeOK, Push
  <2>. QED BY <2>7, <2>8
<1>8. CASE PutInvalid(c)
  <2>. SUFFICES ASSUME Live' PROVE Owned' /\ Conservation'
    BY <1>4, <1>8 DEF OwnedInv, Conservation, Live
  <2>1. PICK fd \in Mine(c) : \E f \in AfterClose(fd) : \E new \in Lowest(FreeIn(f)) :
          Push(new) /\ file' = [f EXCEPT ![new] = "conn"] /\ Released(c, fd, "ok")
    BY <1>8 DEF PutInvalid
  <2>2. PICK f \in AfterClose(fd) : \E new \in Lowest(FreeIn(f)) :
          Push(new) /\ file' = [f EXCEPT ![new] = "conn"] /\ Released(c, fd, "ok")
    BY <2>1
  <2>3. PICK new \in Lowest(FreeIn(f)) :
          Push(new) /\ file' = [f EXCEPT ![new] = "conn"] /\ Released(c, fd, "ok")
    BY <2>2
  <2>4. UNCHANGED <<phase, leaked, lost, dst>> /\ valid < Bounds BY <1>8 DEF PutInvalid
  <2>5. Live /\ Owned BY <1>0, <2>3, <2>4 DEF OwnedInv, Live, Released
  <2>6. /\ fd \in FD /\ fd \in Held /\ Held' = Held \ {fd} /\ DistinctHeld'
        /\ fd \in Conns /\ fd # 0 /\ fd \notin leaked /\ fd \notin Idle
    BY <2>3, <2>5, ReleasedIs DEF Live
  <2>7. /\ f \in [FD -> Kind] /\ f[fd] # "conn" /\ \A d \in FD : d # fd => f[d] = file[d]
    BY <1>0, <2>6, AfterCloseIs
  <2>8. new \in FD /\ f[new] = "closed" BY DEF Lowest, FreeIn
  <2>9. new \notin Conns \ {fd} /\ new # 0
    BY <2>5, <2>6, <2>7, <2>8 DEF Conns, Owned
  <2>10. Conns' = (Conns \ {fd}) \cup {new} BY <2>3, <2>6, <2>7, <2>8 DEF Conns
  <2>11. Idle' = Idle \cup {new} /\ DistinctIdle'
    BY <1>0, <2>3, <2>4, <2>5, <2>6, <2>8, <2>9, IdlePush DEF Push, Owned
  <2>12. file'[0] = "other" BY <2>3, <2>5, <2>6, <2>7, <2>9, SizesAssumption DEF Owned
  <2>13. Owned' BY <2>4, <2>5, <2>6, <2>9, <2>10, <2>11, <2>12 DEF Owned
  <2>14. Conservation'
    <3>1. valid + Cardinality(Held) + lost = Bounds
      BY <1>0, <1>4, <1>8, <2>5 DEF Conservation, Live
    <3>2. Cardinality(Held') = Cardinality(Held) - 1 /\ Cardinality(Held) \in Nat
      BY <1>0, <2>6, HeldOneLess
    <3>. QED BY <1>0, <2>3, <2>4, <3>1, <3>2 DEF Conservation, TypeOK, Push
  <2>. QED BY <2>13, <2>14
<1>9. CASE PutNoReconnect(c)
  <2>. SUFFICES ASSUME Live' PROVE Owned' /\ Conservation'
    BY <1>4, <1>9 DEF OwnedInv, Conservation, Live
  <2>1. PICK fd \in Mine(c) : \E f \in AfterClose(fd) : \E sock \in FailedSocket(FreeIn(f)) :
          /\ file' = [d \in FD |-> IF d \in sock THEN "conn" ELSE f[d]]
          /\ leaked' = leaked \cup sock /\ Released(c, fd, "fail")
    BY <1>9 DEF PutNoReconnect
  <2>2. PICK f \in AfterClose(fd) : \E sock \in FailedSocket(FreeIn(f)) :
          /\ file' = [d \in FD |-> IF d \in sock THEN "conn" ELSE f[d]]
          /\ leaked' = leaked \cup sock /\ Released(c, fd, "fail")
    BY <2>1
  <2>3. PICK sock \in FailedSocket(FreeIn(f)) :
          /\ file' = [d \in FD |-> IF d \in sock THEN "conn" ELSE f[d]]
          /\ leaked' = leaked \cup sock /\ Released(c, fd, "fail")
    BY <2>2
  <2>4. UNCHANGED <<arrays, phase, dst>> /\ lost' = lost + 1 BY <1>9 DEF PutNoReconnect
  <2>5. Live /\ Owned BY <1>0, <2>3, <2>4 DEF OwnedInv, Live, Released
  <2>6. /\ fd \in FD /\ fd \in Held /\ Held' = Held \ {fd} /\ DistinctHeld'
        /\ fd \in Conns /\ fd # 0 /\ fd \notin leaked /\ fd \notin Idle
    BY <2>3, <2>5, ReleasedIs DEF Live
  <2>7. /\ f \in [FD -> Kind] /\ f[fd] # "conn" /\ \A d \in FD : d # fd => f[d] = file[d]
    BY <1>0, <2>6, AfterCloseIs
  <2>8. sock \subseteq FD /\ \A d \in sock : f[d] = "closed"
    BY FailedSocketIs DEF FreeIn
  <2>9. sock \cap (Conns \ {fd}) = {} /\ 0 \notin sock
    BY <2>5, <2>6, <2>7, <2>8 DEF Conns, Owned
  <2>10. Conns' = (Conns \ {fd}) \cup sock BY <2>3, <2>6, <2>7, <2>8 DEF Conns
  <2>11. Idle' = Idle /\ DistinctIdle' BY <2>4, <2>5 DEF Idle, arrays, Owned, DistinctIdle
  <2>12. file'[0] = "other" BY <2>3, <2>5, <2>6, <2>7, <2>9, SizesAssumption DEF Owned
  <2>13. Owned' BY <2>3, <2>5, <2>6, <2>9, <2>10, <2>11, <2>12 DEF Owned
  <2>14. Conservation'
    <3>1. valid + Cardinality(Held) + lost = Bounds
      BY <1>0, <1>4, <1>9, <2>5 DEF Conservation, Live
    <3>2. Cardinality(Held') = Cardinality(Held) - 1 /\ Cardinality(Held) \in Nat
      BY <1>0, <2>6, HeldOneLess
    <3>. QED BY <1>0, <2>4, <3>1, <3>2 DEF Conservation, TypeOK, arrays
  <2>. QED BY <2>13, <2>14
<1>. QED BY <1>2, <1>3, <1>4, <1>5, <1>6, <1>7, <1>8, <1>9 DEF getConnet, putConnet

(* Every step of Next keeps the invariant. *)
LEMMA PoolStep == ASSUME PoolInv, [Next]_vars PROVE PoolInv'
<1>. USE SizesAssumption
<1>0. TypeOK /\ CallsInv /\ OwnedInv /\ Conservation /\ ClosingInv BY DEF PoolInv, CoreInv
<1>. CoreInv /\ CoreInv' BY CoreStep DEF PoolInv
<1>. SUFFICES OwnedInv' /\ Conservation' /\ ClosingInv' BY DEF PoolInv
<1>1. CASE InitConnect
  <2>1. PICK fd \in Lowest(Closed) : /\ file' = [file EXCEPT ![fd] = "conn"]
                                     /\ fdArray' = [fdArray EXCEPT ![valid] = fd]
    BY <1>1 DEF InitConnect
  <2>2. fd \in FD /\ file[fd] = "closed" BY DEF Lowest, Closed
  <2>3. /\ phase = "init" /\ valid' = valid + 1
        /\ UNCHANGED <<held, misused, leaked, lost, dst>>
        /\ phase' = IF valid + 1 = Bounds THEN "ready" ELSE "init"
    BY <1>1 DEF InitConnect, clientVars
  <2>4. /\ valid < Bounds /\ dst.pc = "idle" /\ lost = 0 /\ ~ misused
        /\ \A c \in Clients : held[c] = NoFd
    BY <1>0, <2>3 DEF CallsInv
  <2>5. Owned BY <1>0, <2>3, <2>4 DEF OwnedInv, Live
  <2>6. Held = {} /\ Held' = Held BY <2>3, <2>4 DEF Held
  <2>7. Conns' = Conns \cup {fd} /\ fd \notin Conns /\ file'[0] = "other"
    BY <1>0, <2>1, <2>2, <2>5 DEF Conns, TypeOK, Owned
  <2>8. Idle' = Idle \cup {fd} /\ DistinctIdle'
    BY <1>0, <2>1, <2>2, <2>3, <2>4, <2>5, <2>7, IdlePush DEF Owned
  <2>9. DistinctHeld' BY <2>3, <2>5 DEF DistinctHeld, Owned
  <2>10. Owned' BY <2>3, <2>5, <2>6, <2>7, <2>8, <2>9 DEF Owned
  <2>11. Conservation'
    <3>1. Cardinality(Held') = 0 BY <2>6, FS_EmptySet
    <3>2. phase' = "ready" => valid' = Bounds /\ lost' = 0 BY <2>3, <2>4
    <3>. QED BY <3>1, <3>2 DEF Conservation
  <2>12. ClosingInv' BY <2>3, <2>4 DEF ClosingInv
  <2>. QED BY <2>10, <2>11, <2>12 DEF OwnedInv
<1>2. CASE InitFail
  <2>1. phase = "init" /\ phase' = "failed" /\ UNCHANGED <<held, misused, dst>>
    BY <1>2 DEF InitFail, clientVars
  <2>2. /\ leaked = {} /\ dst.pc = "idle" /\ ~ misused
        /\ \A c \in Clients : held[c] = NoFd
    BY <1>0, <2>1 DEF CallsInv
  <2>3. Conns = Idle BY <1>0, <2>1, <2>2 DEF OwnedInv, Live, Owned, Held
  <2>4. PICK sock \in FailedSocket(Closed), shut \in SUBSET FD :
          InitClosed(sock, shut) /\ Idle \subseteq shut
    BY <1>2, InitFailIs
  <2>5. sock \subseteq FD BY FailedSocketIs DEF Closed
  <2>6. Conns' = sock \ shut BY <2>3, <2>4, <2>5 DEF Conns, InitClosed
  <2>7. Conns' = leaked' BY <2>2, <2>4, <2>6 DEF InitClosed
  <2>. QED BY <2>1, <2>2, <2>7 DEF OwnedInv, Live, Conservation, ClosingInv
<1>3. CASE \E c \in Clients : getConnet(c) \/ putConnet(c) BY <1>3, ClientStep
<1>4. CASE DestroyLock
  <2>1. /\ phase = "ready" /\ dst.pc = "idle" /\ dst' = [pc |-> "close", i |-> 0]
        /\ UNCHANGED <<fdArray, valid, file, phase, held, misused, leaked>>
    BY <1>4 DEF DestroyLock, arrays, clientVars
  <2>2. Held' = Held /\ Conns' = Conns BY <2>1 DEF Held, Conns
  <2>3. Unclosed' = Idle
    <3>1. dst'.i = 0 /\ \A k \in Index : 0 <= k BY <2>1
    <3>. QED BY <2>1, <3>1 DEF Unclosed, Idle
  <2>4. ~ misused => Owned BY <1>0, <2>1 DEF OwnedInv, Live
  <2>5. ClosingInv' BY <2>1, <2>2, <2>3, <2>4 DEF ClosingInv, Owned, Conns
  <2>. QED BY <2>1, <2>5 DEF OwnedInv, Live, Conservation
<1>5. CASE DestroyClose
  <2>1. /\ dst.pc = "close" /\ dst.i < Bounds
        /\ file' = [fd \in FD |-> IF ToClose(dst.i) /\ fd = fdArray[dst.i] THEN "closed"
                                  ELSE file[fd]]
        /\ dst' = [dst EXCEPT !.i = @ + 1]
        /\ UNCHANGED <<fdArray, valid, phase, held, misused, leaked>>
    BY <1>5 DEF DestroyClose, arrays, clientVars
  <2>2. phase = "ready" BY <1>0, <2>1 DEF CallsInv, TypeOK
  <2>3. dst'.pc = "close" /\ dst'.i = dst.i + 1 /\ dst.i \in Index BY <1>0, <2>1 DEF TypeOK
  <2>4. ASSUME ~ misused PROVE Conns' \subseteq Held' \cup leaked' \cup Unclosed' /\ 0 \notin Conns'
    <3>1. 0 \notin Conns /\ Conns \subseteq Held \cup leaked \cup Unclosed
      BY <1>0, <2>1, <2>4 DEF ClosingInv
    <3>2. Conns' \subseteq Conns \ {fdArray[dst.i]} BY <2>1, <3>1 DEF Conns, ToClose
    <3>3. Held' = Held BY <2>1 DEF Held
    <3>4. ASSUME NEW x \in Unclosed, x # fdArray[dst.i] PROVE x \in Unclosed'
      <4>1. PICK k \in Index : dst.i <= k /\ k < valid /\ x = fdArray[k] BY DEF Unclosed
      <4>2. dst.i + 1 <= k BY <2>3, <3>4, <4>1
      <4>3. k < valid' /\ x = fdArray'[k] BY <2>1, <4>1
      <4>. QED BY <2>3, <4>2, <4>3 DEF Unclosed
    <3>. QED BY <2>1, <3>1, <3>2, <3>3, <3>4
  <2>5. ClosingInv' BY <2>1, <2>2, <2>4 DEF ClosingInv
  <2>. QED BY <2>3, <2>5 DEF OwnedInv, Live, Conservation
<1>6. CASE DestroyUnlock \/ DestroyFree
  <2>1. /\ dst.pc \in {"close", "unlocked"} /\ dst'.pc \in {"unlocked", "freed"}
        /\ dst'.i = dst.i
        /\ UNCHANGED <<fdArray, valid, file, phase, held, misused, leaked>>
    BY <1>0, <1>6 DEF DestroyUnlock, DestroyFree, arrays, clientVars, TypeOK
  <2>2. Held' = Held /\ Conns' = Conns /\ Unclosed' = Unclosed
    BY <2>1 DEF Held, Conns, Unclosed
  <2>3. ClosingInv' BY <1>0, <2>1, <2>2 DEF ClosingInv
  <2>. QED BY <2>1, <2>3 DEF OwnedInv, Live, Conservation
<1>7. CASE OtherOpen \/ OtherClose
  <2>1. PICK fd \in FD, kind \in {"other", "closed"} :
          /\ file[fd] # "conn" /\ file' = [file EXCEPT ![fd] = kind]
          /\ fd = 0 => kind = "other"
    BY <1>7 DEF OtherOpen, OtherClose, Lowest, Closed
  <2>2. UNCHANGED <<fdArray, valid, phase, held, misused, leaked, lost, dst>>
    BY <1>7 DEF OtherOpen, OtherClose, arrays, clientVars
  <2>3. Conns' = Conns /\ (file[0] = "other" => file'[0] = "other")
    BY <1>0, <2>1 DEF Conns, TypeOK
  <2>4. Held' = Held /\ Idle' = Idle /\ Unclosed' = Unclosed BY <2>2 DEF Held, Idle, Unclosed
  <2>5. DistinctIdle = DistinctIdle' /\ DistinctHeld = DistinctHeld'
    BY <2>2 DEF DistinctIdle, DistinctHeld
  <2>6. OwnedInv' BY <1>0, <2>2, <2>3, <2>4, <2>5 DEF OwnedInv, Live, Owned
  <2>7. Conservation' BY <1>0, <2>2, <2>4 DEF Conservation
  <2>8. ClosingInv' BY <1>0, <2>2, <2>3, <2>4 DEF ClosingInv
  <2>. QED BY <2>6, <2>7, <2>8
<1>8. CASE UNCHANGED vars
  <2>1. UNCHANGED <<fdArray, valid, file, phase, held, misused, leaked, lost, dst>>
    BY <1>8 DEF vars, arrays, clientVars
  <2>2. Held' = Held /\ Idle' = Idle /\ Unclosed' = Unclosed /\ Conns' = Conns
    BY <2>1 DEF Held, Idle, Unclosed, Conns
  <2>3. DistinctIdle = DistinctIdle' /\ DistinctHeld = DistinctHeld'
    BY <2>1 DEF DistinctIdle, DistinctHeld
  <2>4. OwnedInv' BY <1>0, <2>1, <2>2, <2>3 DEF OwnedInv, Live, Owned
  <2>5. Conservation' BY <1>0, <2>1, <2>2 DEF Conservation
  <2>6. ClosingInv' BY <1>0, <2>1, <2>2 DEF ClosingInv
  <2>. QED BY <2>4, <2>5, <2>6
<1>. QED BY <1>1, <1>2, <1>3, <1>4, <1>5, <1>6, <1>7, <1>8 DEF Next, destroy

(* The memory malloc returns, whatever it holds, is a state of PoolInv. *)
LEMMA PoolInitial == Init => PoolInv
<1>. SUFFICES ASSUME Init PROVE PoolInv OBVIOUS
<1>. USE SizesAssumption
<1>1. TypeOK
  <2>1. Garbage \subseteq FD /\ 0 \in FD BY GarbageAssumption
  <2>2. /\ fdArray \in [Index -> FD] /\ statusArray \in [Index -> FD \cup {1}]
        /\ terminated \in FD \cup {1}
    BY <2>1 DEF Init
  <2>3. file \in [FD -> Kind] BY DEF Init
  <2>4. /\ valid \in 0 .. Bounds /\ nvalid \in 0 .. Bounds /\ lost \in 0 .. Bounds
        /\ dst \in [pc : DestroyPc, i : 0 .. Bounds]
    BY DEF Init
  <2>5. /\ held \in [Clients -> FD \cup {NoFd}] /\ last \in [Clients -> FD \cup {NoFd}]
        /\ ret \in Result /\ misused \in BOOLEAN /\ leaked \subseteq FD /\ phase \in Phase
    BY DEF Init
  <2>. QED BY <2>2, <2>3, <2>4, <2>5 DEF TypeOK
<1>2. CallsInv /\ StackWellFormed BY DEF Init, CallsInv, StackWellFormed
<1>3. Idle = {} /\ Held = {} BY DEF Init, Idle, Held
<1>4. Conns = {} /\ file[0] = "other" BY DEF Init, Conns
<1>5. DistinctIdle /\ DistinctHeld BY DEF Init, DistinctIdle, DistinctHeld
<1>6. Owned BY <1>3, <1>4, <1>5 DEF Init, Owned
<1>7. Conservation /\ ClosingInv BY <1>4 DEF Init, Conservation, ClosingInv
<1>. QED BY <1>1, <1>2, <1>6, <1>7 DEF PoolInv, CoreInv, OwnedInv

(* The invariant of the connection pool holds in every reachable state. *)
THEOREM PoolSafe == Spec => []PoolInv
<1>1. Init => PoolInv BY PoolInitial
<1>2. PoolInv /\ [Next]_vars => PoolInv' BY PoolStep
<1>. QED BY <1>1, <1>2, PTL DEF Spec

(* The variables of poolsocket.c keep their types: nvalid never points      *)
(* outside fdArray, however its clients misuse the pool.                    *)
THEOREM PoolTyped == Spec => []TypeOK
<1>1. PoolInv => TypeOK BY DEF PoolInv, CoreInv
<1>. QED BY <1>1, PoolSafe, PTL

(* The marks in statusArray agree with the stack of idle connections: no    *)
(* entry is lent that is not marked valid.                                  *)
THEOREM PoolStack == Spec => []StackWellFormed
<1>1. PoolInv => StackWellFormed BY DEF PoolInv, CoreInv
<1>. QED BY <1>1, PoolSafe, PTL

(* No connection is idle twice, lent twice, or idle and lent, in spite of   *)
(* the descriptor numbers that close and open reuse in between.             *)
THEOREM PoolOwns == Spec => []ExclusiveOwnership
<1>1. PoolInv => ExclusiveOwnership
  BY DEF PoolInv, OwnedInv, Live, Owned, DistinctIdle, DistinctHeld, ExclusiveOwnership
<1>. QED BY <1>1, PoolSafe, PTL

(* putConnet and getConnet lose no connection but those whose reconnect fails. *)
THEOREM PoolConserves == Spec => []Conservation
<1>1. PoolInv => Conservation BY DEF PoolInv
<1>. QED BY <1>1, PoolSafe, PTL

(* Every socket poolsocket.c has opened is in one of its sets, and destroy  *)
(* closes all that are idle.                                                *)
THEOREM PoolAccounts == Spec => []SocketsAccounted
<1>1. PoolInv => SocketsAccounted
  <2>. SUFFICES ASSUME PoolInv, ~ misused PROVE
         /\ dst.pc = "idle" =>
              Conns = leaked \cup (IF phase = "failed" THEN {} ELSE Idle \cup Held)
         /\ dst.pc \in {"unlocked", "freed"} => Conns \subseteq Held \cup leaked
    BY DEF SocketsAccounted
  <2>1. ASSUME dst.pc = "idle"
        PROVE  Conns = leaked \cup (IF phase = "failed" THEN {} ELSE Idle \cup Held)
    BY <2>1 DEF PoolInv, OwnedInv, Live, Owned, ClosingInv
  <2>2. ASSUME dst.pc \in {"unlocked", "freed"} PROVE Conns \subseteq Held \cup leaked
    <3>1. dst.i = Bounds BY <2>2 DEF PoolInv, CoreInv, CallsInv
    <3>2. Unclosed = {} BY <3>1, SizesAssumption DEF Unclosed
    <3>. QED BY <2>2, <3>2 DEF PoolInv, ClosingInv
  <2>. QED BY <2>1, <2>2
<1>. QED BY <1>1, PoolSafe, PTL
=============================================================================
