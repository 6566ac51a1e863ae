------------------------- MODULE EchoServersProofs --------------------------
(***************************************************************************)
(* Proofs about EchoServers, for every set of clients, number of           *)
(* descriptors and size of the tables, with resets, clients that stop      *)
(* reading, interrupted waits and threads that are not created.            *)
(***************************************************************************)
EXTENDS EchoServers, FiniteSetTheorems, SequenceTheorems, WellFoundedInduction, TLAPS

States == {"new", "backlog", "up", "down"}
Units  == Clients \X Nat
Bufs   == Seq(Units)
Peer   == [st : States, sent : Nat, read : Nat, got : Bufs, reads : BOOLEAN,
           fin : BOOLEAN, rst : BOOLEAN, err : BOOLEAN]

(* The kernel and the clients have the values they should, *)
KernelTyped ==
  /\ server \in AllKinds /\ limit \in Limits
  /\ alive \in BOOLEAN /\ overrun \in BOOLEAN
  /\ conn \in [FD -> Clients \cup {None}] /\ cl \in [Clients -> Peer] /\ out \in [FD -> Bufs]

(* a connection that is open has one descriptor, and only an open one is    *)
(* written to,                                                              *)
ConnInv ==
  /\ \A f, g \in FD : conn[f] = conn[g] /\ conn[f] # None => f = g
  /\ \A f \in FD : conn[f] # None => cl[conn[f]].st = "up"
  /\ Writing \subseteq OpenFds

(* nothing is read that was not sent, nothing before the connection was     *)
(* accepted, and an error comes from a reset.                               *)
PeerInv ==
  \A c \in Clients :
    /\ cl[c].read <= cl[c].sent
    /\ cl[c].st \in {"new", "backlog"} => cl[c].read = 0 /\ cl[c].got = <<>>
    /\ cl[c].err => cl[c].rst

KernelInv == KernelTyped /\ ConnInv /\ PeerInv
-----------------------------------------------------------------------------
(* A smallest member of a set of numbers. *)
LEMMA MinIs ==
  ASSUME NEW S, S \subseteq Nat, S # {}
  PROVE  Min(S) \in S /\ \A y \in S : Min(S) <= y
<1>. DEFINE Less == {pair \in Nat \X Nat : pair[1] < pair[2]}
<1>1. IsWellFoundedOn(Less, Nat) BY NatLessThanWellFounded DEF OpToRel
<1>. HIDE DEF Less
<1>2. PICK x \in S : \A y \in S : ~ (<<y, x>> \in Less) BY <1>1, WFMin
<1>3. ASSUME NEW y \in S PROVE x <= y
  <2>1. <<y, x>> \notin Less /\ x \in Nat /\ y \in Nat BY <1>2
  <2>2. ~ (y < x) BY <2>1 DEF Less
  <2>. QED BY <2>1, <2>2
<1>. QED BY <1>3 DEF Min

(* The larger of two numbers. *)
LEMMA MaxOfTwo ==
  ASSUME NEW a \in Int, NEW b \in Int
  PROVE  Max({a, b}) \in {a, b} /\ a <= Max({a, b}) /\ b <= Max({a, b})
<1>1. \E x \in {a, b} : \A y \in {a, b} : x >= y OBVIOUS
<1>. QED BY <1>1 DEF Max

(* The smaller of two. *)
LEMMA MinOfTwo ==
  ASSUME NEW a \in Int, NEW b \in Int
  PROVE  Min({a, b}) \in {a, b} /\ Min({a, b}) <= a /\ Min({a, b}) <= b
<1>1. \E x \in {a, b} : \A y \in {a, b} : x <= y OBVIOUS
<1>. QED BY <1>1 DEF Min

(* Every limit leaves room for numbers that the model has. *)
LEMMA FdIs == Max(Limits) \in Nat /\ \A l \in Limits : 1 .. l \subseteq FD
<1>1. PICK m \in Limits : Limits \subseteq 0 .. m BY SizesAssumption
<1>2. Limits \subseteq Nat BY SizesAssumption
<1>3. \E x \in Limits : \A y \in Limits : x >= y BY <1>1, <1>2
<1>4. Max(Limits) \in Limits /\ \A y \in Limits : Max(Limits) >= y BY <1>3 DEF Max
<1>5. PICK M \in Nat : M = Max(Limits) BY <1>2, <1>4
<1>6. ASSUME NEW l \in Limits PROVE 1 .. l \subseteq 1 .. M
  BY <1>2, <1>4, <1>5
<1>. QED BY <1>5, <1>6 DEF FD

(* Neither the listener nor "no descriptor" is the number of a connection. *)
LEMMA FdNumbers == FD \subseteq Nat /\ Lfd \notin FD /\ NoFd \notin FD /\ Lfd # NoFd
BY FdIs DEF FD, Lfd, NoFd

(* The descriptor that Accept returns is one that is closed. *)
LEMMA AcceptedIs ==
  ASSUME KernelTyped, ClosedFds # {}
  PROVE  AcceptedFd \in FD /\ conn[AcceptedFd] = None
<1>1. ClosedFds \subseteq Nat /\ ClosedFds \subseteq 1 .. limit /\ limit \in Limits
  BY SizesAssumption DEF ClosedFds, KernelTyped
<1>2. AcceptedFd \in ClosedFds BY <1>1, MinIs DEF AcceptedFd
<1>. QED BY <1>1, <1>2, FdIs DEF ClosedFds, OpenFds
-----------------------------------------------------------------------------
(* The step changes only the connection of client c, which has not moved to *)
(* another descriptor.                                                      *)
Touches(c) ==
  /\ cl' \in [Clients -> Peer] /\ \A d \in Clients : d # c => cl'[d] = cl[d]

SameConns == conn' = conn /\ OpenFds' = OpenFds

(* The data that the server and client c have exchanged are the same. *)
SameData(c) ==
  /\ cl'[c].sent = cl[c].sent /\ cl'[c].read = cl[c].read /\ cl'[c].got = cl[c].got
  /\ cl'[c].fin = cl[c].fin /\ cl'[c].rst = cl[c].rst

(* Accept opens a descriptor for a client that was waiting. *)
LEMMA AcceptStep ==
  ASSUME KernelInv, NEW c \in Clients, Accept(c), UNCHANGED <<rigid, out, alive>>,
         overrun' \in BOOLEAN
  PROVE  /\ KernelInv'
         /\ Touches(c) /\ SameData(c) /\ cl[c].st = "backlog" /\ cl'[c].st = "up"
         /\ \A d \in Clients : SameData(d)
         /\ AcceptedFd \in FD /\ AcceptedFd \notin OpenFds
         /\ conn'[AcceptedFd] = c
         /\ \A f \in FD : f # AcceptedFd => conn'[f] = conn[f]
         /\ OpenFds' = OpenFds \cup {AcceptedFd} /\ Writing' = Writing
<1>1. AcceptedFd \in FD /\ conn[AcceptedFd] = None BY AcceptedIs DEF KernelInv, Accept
<1>2. PICK a \in FD : a = AcceptedFd BY <1>1
<1>3. conn' = [conn EXCEPT ![a] = c] /\ cl' = [cl EXCEPT ![c].st = "up"] BY <1>2 DEF Accept
<1>4. cl[c].st = "backlog" BY DEF Accept, Backlog
<1>5. c # None BY ClientsAssumption
<1>6. /\ conn' \in [FD -> Clients \cup {None}] /\ conn'[a] = c
      /\ \A f \in FD : f # a => conn'[f] = conn[f]
  BY <1>3 DEF KernelInv, KernelTyped
<1>7. cl[c] \in Peer /\ cl \in [Clients -> Peer] BY DEF KernelInv, KernelTyped
<1>8. "up" \in States BY DEF States
<1>9. cl' \in [Clients -> Peer] /\ \A d \in Clients : d # c => cl'[d] = cl[d]
  BY <1>3, <1>7, <1>8 DEF Peer
<1>10. /\ cl'[c].st = "up" /\ SameData(c) /\ cl'[c].err = cl[c].err
  BY <1>3, <1>7, <1>8 DEF SameData, Peer
<1>11. OpenFds' = OpenFds \cup {a} BY <1>2, <1>5, <1>6 DEF OpenFds
<1>12. KernelTyped' BY <1>6, <1>9 DEF KernelInv, KernelTyped, rigid
<1>13. ConnInv'
  <2>1. \A f \in FD : f # a => conn[f] # c
    BY <1>4, <1>5 DEF KernelInv, ConnInv
  <2>2. \A f, g \in FD : conn'[f] = conn'[g] /\ conn'[f] # None => f = g
    BY <1>6, <2>1 DEF KernelInv, ConnInv
  <2>3. \A f \in FD : conn'[f] # None => cl'[conn'[f]].st = "up"
    BY <1>6, <1>7, <1>9, <1>10, <2>1 DEF KernelInv, KernelTyped, ConnInv
  <2>4. Writing' = Writing BY DEF Writing
  <2>. QED BY <1>11, <2>2, <2>3, <2>4 DEF KernelInv, ConnInv
<1>14. PeerInv' BY <1>9, <1>10 DEF KernelInv, PeerInv, SameData
<1>15. Writing' = Writing BY DEF Writing
<1>16. ASSUME NEW d \in Clients PROVE SameData(d) BY <1>9, <1>10 DEF SameData
<1>. QED
  BY <1>1, <1>2, <1>4, <1>6, <1>9, <1>10, <1>11, <1>12, <1>13, <1>14, <1>15, <1>16
  DEF KernelInv, Touches, OpenFds

(* Read takes some of what an open connection's client has sent. *)
LEMMA ReceivedIs ==
  ASSUME KernelInv, NEW c \in Clients, Unread(c)
  PROVE  /\ Received(c) \in Bufs /\ Received(c) # <<>>
         /\ Len(Received(c)) \in 1 .. cl[c].sent - cl[c].read
         /\ \A i \in 1 .. Len(Received(c)) : Received(c)[i] = <<c, cl[c].read + i>>
<1>1. cl[c].sent \in Nat /\ cl[c].read \in Nat /\ cl[c].read < cl[c].sent
  BY DEF KernelInv, KernelTyped, Peer, Unread
<1>2. PICK n \in Nat : n = Min({BufLen, cl[c].sent - cl[c].read})
                      /\ n \in 1 .. cl[c].sent - cl[c].read
  <2>1. PICK k \in Nat : k = cl[c].sent - cl[c].read /\ k > 0 BY <1>1
  <2>2. BufLen \in Nat /\ BufLen > 0 BY SizesAssumption
  <2>3. Min({BufLen, k}) \in {BufLen, k} /\ Min({BufLen, k}) <= k
    <3>1. BufLen \in Int /\ k \in Int BY <2>2
    <3>. QED BY <3>1, MinOfTwo
  <2>. DEFINE m == Min({BufLen, k})
  <2>. HIDE DEF m
  <2>4. m \in Nat /\ m \in 1 .. k BY <2>1, <2>2, <2>3 DEF m
  <2>. QED BY <2>1, <2>4 DEF m
<1>3. Received(c) = [i \in 1 .. n |-> <<c, cl[c].read + i>>] BY <1>2 DEF Received
<1>4. \A i \in 1 .. n : <<c, cl[c].read + i>> \in Units BY <1>1 DEF Units
<1>5. Received(c) \in Seq(Units) /\ Len(Received(c)) = n BY <1>3, <1>4
<1>6. Received(c) # <<>> BY <1>2, <1>5
<1>. QED BY <1>2, <1>3, <1>5, <1>6 DEF Bufs

(* How a client is left by a Read of its data. *)
Takes(c) ==
  /\ Touches(c)
  /\ cl'[c].read = cl[c].read + Len(Received(c)) /\ cl'[c].read \in Nat
  /\ cl'[c].read \in cl[c].read + 1 .. cl[c].sent
  /\ cl'[c].sent = cl[c].sent /\ cl'[c].got = cl[c].got /\ cl'[c].st = cl[c].st
  /\ cl'[c].fin = cl[c].fin /\ cl'[c].rst = cl[c].rst /\ cl'[c].err = cl[c].err

(* A Read of client c's data leaves it so. *)
LEMMA TakeStep ==
  ASSUME KernelInv, NEW c \in Clients, Unread(c),
         cl' = [cl EXCEPT ![c].read = @ + Len(Received(c))]
  PROVE  Takes(c)
<1>1. cl[c] \in Peer /\ cl \in [Clients -> Peer] BY DEF KernelInv, KernelTyped
<1>2. cl[c].sent \in Nat /\ cl[c].read \in Nat BY <1>1 DEF Peer
<1>3. PICK n \in Nat : n = Len(Received(c)) /\ n \in 1 .. cl[c].sent - cl[c].read
  BY <1>2, ReceivedIs
<1>4. PICK r \in Nat : r = cl[c].read + n /\ r \in cl[c].read + 1 .. cl[c].sent
  <2>1. PICK a \in Nat : a = cl[c].read BY <1>2
  <2>2. PICK b \in Nat : b = cl[c].sent BY <1>2
  <2>3. n >= 1 /\ n <= b - a BY <1>3, <2>1, <2>2
  <2>4. a + n \in Nat /\ a + n \in a + 1 .. b BY <2>3
  <2>. QED BY <2>1, <2>2, <2>4
<1>5. cl' = [cl EXCEPT ![c].read = r] BY <1>1, <1>3, <1>4
<1>6. cl' \in [Clients -> Peer] /\ \A d \in Clients : d # c => cl'[d] = cl[d]
  BY <1>1, <1>5 DEF Peer
<1>7. /\ cl'[c].read = r /\ cl'[c].sent = cl[c].sent /\ cl'[c].got = cl[c].got
      /\ cl'[c].st = cl[c].st /\ cl'[c].fin = cl[c].fin /\ cl'[c].rst = cl[c].rst
      /\ cl'[c].err = cl[c].err
  BY <1>1, <1>5 DEF Peer
<1>. QED BY <1>3, <1>4, <1>6, <1>7 DEF Takes, Touches

(* The kernel stays as it should be when the connections are the same and   *)
(* what changes of client c is in order.                                    *)
LEMMA SameConnsStep ==
  ASSUME KernelInv, NEW c \in Clients, Touches(c),
         cl[c].st = "up" => cl'[c].st = "up",
         cl'[c].read <= cl'[c].sent, cl'[c].err => cl'[c].rst,
         cl'[c].st \in {"new", "backlog"} => cl'[c].read = 0 /\ cl'[c].got = <<>>,
         UNCHANGED <<rigid, conn, alive>>, overrun' \in BOOLEAN,
         out' \in [FD -> Bufs], Writing' \subseteq OpenFds
  PROVE  KernelInv' /\ SameConns
<1>1. OpenFds' = OpenFds BY DEF OpenFds
<1>2. KernelTyped' BY DEF KernelInv, KernelTyped, Touches, rigid
<1>3. ASSUME NEW d \in Clients, cl[d].st = "up" PROVE cl'[d].st = "up"
  BY <1>3 DEF Touches
<1>4. ConnInv' BY <1>1, <1>3 DEF KernelInv, KernelTyped, ConnInv
<1>5. PeerInv' BY DEF KernelInv, PeerInv, Touches
<1>. QED BY <1>1, <1>2, <1>4, <1>5 DEF KernelInv, SameConns

(* Read fills the buffer of its descriptor, *)
LEMMA ReadStep ==
  ASSUME KernelInv, NEW fd \in FD, conn[fd] # None, Read(fd), UNCHANGED rigid
  PROVE  /\ KernelInv' /\ SameConns /\ Takes(conn[fd])
         /\ out' \in [FD -> Bufs] /\ out'[fd] = Received(conn[fd])
         /\ \A f \in FD : f # fd => out'[f] = out[f]
         /\ Writing' = Writing \cup {fd}
<1>1. conn[fd] \in Clients BY DEF KernelInv, KernelTyped
<1>2. PICK c \in Clients : c = conn[fd] BY <1>1
<1>3. /\ Unread(c) /\ out' = [out EXCEPT ![fd] = Received(c)]
      /\ cl' = [cl EXCEPT ![c].read = @ + Len(Received(c))]
      /\ UNCHANGED <<conn, alive, overrun>>
  BY <1>2 DEF Read
<1>4. Takes(c) BY <1>3, TakeStep
<1>5. Received(c) \in Bufs /\ Received(c) # <<>> BY <1>3, ReceivedIs
<1>6. /\ out' \in [FD -> Bufs] /\ out'[fd] = Received(c)
      /\ \A f \in FD : f # fd => out'[f] = out[f]
  BY <1>3, <1>5 DEF KernelInv, KernelTyped
<1>7. Writing' = Writing \cup {fd} BY <1>5, <1>6 DEF Writing
<1>8. Writing' \subseteq OpenFds BY <1>7 DEF KernelInv, ConnInv, OpenFds
<1>9. cl[c].st = "up" BY <1>2 DEF KernelInv, ConnInv
<1>10. /\ cl'[c].read <= cl'[c].sent /\ cl'[c].st = cl[c].st /\ Touches(c)
       /\ cl'[c].err => cl'[c].rst
  <2>1. cl[c].sent \in Nat /\ cl[c].read \in Nat BY DEF KernelInv, KernelTyped, Peer
  <2>. QED BY <1>4, <2>1 DEF Takes, KernelInv, PeerInv
<1>11. overrun' \in BOOLEAN BY <1>3 DEF KernelInv, KernelTyped
<1>12. KernelInv' /\ SameConns BY <1>3, <1>6, <1>8, <1>9, <1>10, <1>11, SameConnsStep
<1>. QED BY <1>2, <1>4, <1>6, <1>7, <1>12

(* or finds the error that a reset has left. *)
LEMMA ReadFailsStep ==
  ASSUME KernelInv, NEW fd \in FD, conn[fd] # None, ReadFails(fd), UNCHANGED rigid
  PROVE  /\ KernelInv' /\ SameConns /\ UNCHANGED out
         /\ Touches(conn[fd]) /\ SameData(conn[fd]) /\ cl'[conn[fd]].st = cl[conn[fd]].st
<1>1. conn[fd] \in Clients BY DEF KernelInv, KernelTyped
<1>2. PICK c \in Clients : c = conn[fd] BY <1>1
<1>3. cl' = [cl EXCEPT ![c].err = FALSE] /\ UNCHANGED <<conn, out, alive, overrun>>
  BY <1>2 DEF ReadFails
<1>4. cl[c] \in Peer /\ cl \in [Clients -> Peer] BY DEF KernelInv, KernelTyped
<1>5. Touches(c) BY <1>3, <1>4 DEF Peer, Touches
<1>6. SameData(c) /\ cl'[c].st = cl[c].st /\ cl'[c].err = FALSE
  BY <1>3, <1>4 DEF Peer, SameData
<1>7. Writing' = Writing /\ Writing \subseteq OpenFds
  BY <1>3 DEF Writing, KernelInv, ConnInv
<1>8. cl'[c].read <= cl'[c].sent BY <1>6 DEF SameData, KernelInv, PeerInv
<1>9. cl[c].st \in {"new", "backlog"} => cl'[c].read = 0 /\ cl'[c].got = <<>>
  BY <1>6 DEF SameData, KernelInv, PeerInv
<1>10. overrun' \in BOOLEAN /\ out' \in [FD -> Bufs] BY <1>3 DEF KernelInv, KernelTyped
<1>11. KernelInv' /\ SameConns
  BY <1>3, <1>5, <1>6, <1>7, <1>8, <1>9, <1>10, SameConnsStep
<1>. QED BY <1>2, <1>3, <1>5, <1>6, <1>11

(* Write gives the client what the buffer holds, or drops it after a reset. *)
Gives(c, buf) ==
  /\ Touches(c) /\ cl'[c].st = cl[c].st /\ cl'[c].sent = cl[c].sent
  /\ cl'[c].read = cl[c].read /\ cl'[c].fin = cl[c].fin /\ cl'[c].rst = cl[c].rst
  /\ \/ ~ cl[c].rst /\ cl'[c].got = cl[c].got \o buf
     \/ cl[c].rst /\ cl'[c].got = cl[c].got

(* The kernel after a Write, whose buffer is empty then. *)
LEMMA WriteStep ==
  ASSUME KernelInv, NEW fd \in FD, Write(fd), UNCHANGED rigid
  PROVE  /\ KernelInv' /\ SameConns /\ conn[fd] \in Clients /\ Gives(conn[fd], out[fd])
         /\ out' \in [FD -> Bufs] /\ out'[fd] = <<>>
         /\ \A f \in FD : f # fd => out'[f] = out[f]
         /\ Writing' = Writing \ {fd}
<1>0. fd \in Writing BY DEF Write
<1>1. conn[fd] \in Clients BY <1>0 DEF KernelInv, KernelTyped, ConnInv, OpenFds
<1>2. PICK c \in Clients : c = conn[fd] BY <1>1
<1>3. /\ \/ ~ cl[c].rst /\ cl' = [cl EXCEPT ![c].got = @ \o out[fd]]
         \/ cl[c].err /\ cl' = [cl EXCEPT ![c].err = FALSE]
      /\ out' = [out EXCEPT ![fd] = <<>>] /\ UNCHANGED <<conn, alive, overrun>>
  BY <1>2 DEF Write
<1>4. cl[c] \in Peer /\ cl \in [Clients -> Peer] /\ out[fd] \in Bufs
  BY DEF KernelInv, KernelTyped
<1>5. cl[c].got \o out[fd] \in Bufs
  <2>1. cl[c].got \in Bufs BY <1>4 DEF Peer
  <2>. QED BY <1>4, <2>1 DEF Bufs
<1>6. Touches(c) /\ cl'[c].st = cl[c].st /\ cl'[c].sent = cl[c].sent
      /\ cl'[c].read = cl[c].read /\ cl'[c].fin = cl[c].fin /\ cl'[c].rst = cl[c].rst
      /\ (cl'[c].err => cl[c].err)
      /\ ((~ cl[c].rst /\ cl'[c].got = cl[c].got \o out[fd])
            \/ (cl[c].err /\ cl'[c].got = cl[c].got))
  <2>1. CASE ~ cl[c].rst /\ cl' = [cl EXCEPT ![c].got = @ \o out[fd]]
    <3>1. cl' = [cl EXCEPT ![c].got = cl[c].got \o out[fd]] BY <2>1
    <3>. QED BY <1>4, <1>5, <2>1, <3>1 DEF Peer, Touches
  <2>2. CASE cl[c].err /\ cl' = [cl EXCEPT ![c].err = FALSE]
    BY <1>4, <2>2 DEF Peer, Touches
  <2>. QED BY <1>3, <2>1, <2>2
<1>7. cl[c].err => cl[c].rst BY DEF KernelInv, PeerInv
<1>8. Gives(c, out[fd]) BY <1>6, <1>7 DEF Gives
<1>9. <<>> \in Bufs BY DEF Bufs
<1>10. /\ out' \in [FD -> Bufs] /\ out'[fd] = <<>>
       /\ \A f \in FD : f # fd => out'[f] = out[f]
  BY <1>3, <1>9 DEF KernelInv, KernelTyped
<1>11. Writing' = Writing \ {fd} BY <1>10 DEF Writing
<1>12. Writing' \subseteq OpenFds BY <1>11 DEF KernelInv, ConnInv
<1>13. cl[c].st = "up" BY <1>0, <1>2 DEF KernelInv, ConnInv, OpenFds
<1>14. cl'[c].read <= cl'[c].sent BY <1>6 DEF KernelInv, PeerInv
<1>15. overrun' \in BOOLEAN BY <1>3 DEF KernelInv, KernelTyped
<1>16. KernelInv' /\ SameConns
  BY <1>3, <1>6, <1>7, <1>10, <1>12, <1>13, <1>14, <1>15, SameConnsStep
<1>. QED BY <1>1, <1>2, <1>8, <1>10, <1>11, <1>16

(* Close ends a connection that is not written to. *)
LEMMA CloseStep ==
  ASSUME KernelInv, NEW fd \in FD, conn[fd] # None, fd \notin Writing, Close(fd),
         UNCHANGED rigid
  PROVE  /\ KernelInv' /\ UNCHANGED out /\ Writing' = Writing
         /\ conn[fd] \in Clients /\ Touches(conn[fd]) /\ SameData(conn[fd])
         /\ cl[conn[fd]].st = "up" /\ cl'[conn[fd]].st = "down"
         /\ OpenFds' = OpenFds \ {fd} /\ conn'[fd] = None
         /\ \A f \in FD : f # fd => conn'[f] = conn[f] /\ conn[f] # conn[fd]
<1>1. conn[fd] \in Clients BY DEF KernelInv, KernelTyped
<1>2. PICK c \in Clients : c = conn[fd] BY <1>1
<1>3. /\ conn' = [conn EXCEPT ![fd] = None]
      /\ cl' = [cl EXCEPT ![c] = [cl[c] EXCEPT !.st = "down", !.err = FALSE]]
      /\ UNCHANGED <<out, alive, overrun>>
  <2>1. conn[fd] = c /\ cl[c] \in Peer /\ cl \in [Clients -> Peer]
    BY <1>2 DEF KernelInv, KernelTyped
  <2>2. cl' = [cl EXCEPT ![c].st = "down", ![c].err = FALSE] BY <2>1 DEF Close
  <2>. QED BY <2>1, <2>2 DEF Close, Peer
<1>4. cl[c] \in Peer /\ cl \in [Clients -> Peer] /\ "down" \in States
  BY DEF KernelInv, KernelTyped, States
<1>5. [cl[c] EXCEPT !.st = "down", !.err = FALSE] \in Peer BY <1>4 DEF Peer
<1>6. Touches(c) BY <1>3, <1>4, <1>5 DEF Touches
<1>7. SameData(c) /\ cl'[c].st = "down" /\ cl'[c].err = FALSE
  BY <1>3, <1>4 DEF Peer, SameData
<1>8. /\ conn' \in [FD -> Clients \cup {None}] /\ conn'[fd] = None
      /\ \A f \in FD : f # fd => conn'[f] = conn[f]
  BY <1>3 DEF KernelInv, KernelTyped
<1>9. \A f \in FD : f # fd => conn[f] # c BY <1>2, ClientsAssumption DEF KernelInv, ConnInv
<1>10. OpenFds' = OpenFds \ {fd} BY <1>8 DEF OpenFds
<1>11. Writing' = Writing BY <1>3 DEF Writing
<1>12. KernelTyped' BY <1>3, <1>6, <1>8 DEF KernelInv, KernelTyped, Touches, rigid
<1>13. ConnInv'
  <2>1. \A f, g \in FD : conn'[f] = conn'[g] /\ conn'[f] # None => f = g
    BY <1>8 DEF KernelInv, ConnInv
  <2>2. \A f \in FD : conn'[f] # None => cl'[conn'[f]].st = "up"
    BY <1>6, <1>8, <1>9 DEF KernelInv, KernelTyped, ConnInv, Touches
  <2>. QED BY <1>10, <1>11, <2>1, <2>2 DEF KernelInv, ConnInv
<1>14. PeerInv' BY <1>6, <1>7 DEF KernelInv, PeerInv, SameData, Touches
<1>15. cl[c].st = "up" BY <1>2 DEF KernelInv, ConnInv
<1>. QED
  BY <1>2, <1>3, <1>6, <1>7, <1>8, <1>9, <1>10, <1>11, <1>12, <1>13, <1>14, <1>15
  DEF KernelInv

(* The end of the process disconnects the clients, and leaves them what     *)
(* they have got.                                                           *)
LEMMA ExitStep ==
  ASSUME KernelInv, Exit
  PROVE  /\ KernelInv'
         /\ \A c \in Clients :
              /\ SameData(c)
              /\ cl'[c].st = IF cl[c].st \in {"backlog", "up"} THEN "down" ELSE cl[c].st
<1>1. <<>> \in Bufs BY DEF Bufs
<1>2. /\ conn' = NoConn /\ out' = NoOut /\ UNCHANGED <<rigid, overrun>> /\ alive' = FALSE
      /\ cl' = [c \in Clients |-> Gone(c)]
  BY DEF Exit
<1>3. ASSUME NEW c \in Clients
      PROVE  /\ cl'[c] \in Peer /\ SameData(c) /\ cl'[c].err = cl[c].err
             /\ cl'[c].st = IF cl[c].st \in {"backlog", "up"} THEN "down" ELSE cl[c].st
  <2>1. cl[c] \in Peer /\ "down" \in States BY DEF KernelInv, KernelTyped, States
  <2>2. cl'[c] = IF cl[c].st \in {"backlog", "up"} THEN [cl[c] EXCEPT !.st = "down"]
                 ELSE cl[c]
    BY <1>2 DEF Gone
  <2>. QED BY <2>1, <2>2 DEF Peer, SameData
<1>4. KernelTyped'
  BY <1>1, <1>2, <1>3 DEF KernelInv, KernelTyped, NoConn, NoOut, rigid
<1>5. ConnInv' BY <1>2 DEF ConnInv, NoConn, NoOut, Writing
<1>6. PeerInv' BY <1>3 DEF KernelInv, PeerInv, SameData
<1>. QED BY <1>3, <1>4, <1>5, <1>6 DEF KernelInv

(* What a client can do by itself: nothing that was there to be read goes   *)
(* away.                                                                    *)
ClientActs(c) == Connect(c) \/ Send(c) \/ Finish(c) \/ Reset(c) \/ StopReading(c)

Acts(c) ==
  /\ Touches(c)
  /\ cl'[c].read = cl[c].read /\ cl'[c].got = cl[c].got /\ cl'[c].sent >= cl[c].sent
  /\ cl[c].fin => cl'[c].fin
  /\ cl[c].rst => cl'[c].rst

(* The kernel after a client has acted: the connections are the same. *)
LEMMA ClientActsStep ==
  ASSUME KernelInv, NEW c \in Clients, ClientActs(c)
  PROVE  KernelInv' /\ SameConns /\ Writing' = Writing /\ Acts(c)
<1>1. cl[c] \in Peer /\ cl \in [Clients -> Peer] BY DEF KernelInv, KernelTyped
<1>2. /\ UNCHANGED <<rigid, conn, out, alive, overrun>>
  BY DEF ClientActs, Connect, Send, Finish, Reset, StopReading, ClientStep
<1>3. cl[c].sent \in Nat /\ cl[c].read \in Nat BY <1>1 DEF Peer
<1>4. cl[c].read <= cl[c].sent /\ (cl[c].err => cl[c].rst) BY DEF KernelInv, PeerInv
<1>5. /\ Touches(c) /\ cl'[c].read = cl[c].read /\ cl'[c].got = cl[c].got
      /\ cl'[c].sent >= cl[c].sent
      /\ cl[c].fin => cl'[c].fin
      /\ cl[c].rst => cl'[c].rst
      /\ cl'[c].err => cl'[c].rst
      /\ cl[c].st = "up" => cl'[c].st = "up"
      /\ cl'[c].st \in {"new", "backlog"} => cl[c].st \in {"new", "backlog"}
  <2>1. CASE Connect(c)
    <3>1. cl' = [cl EXCEPT ![c].st = "backlog"] /\ cl[c].st = "new" /\ "backlog" \in States
      BY <1>1, <2>1 DEF Connect, ClientStep, States
    <3>. QED BY <1>1, <1>3, <1>4, <3>1 DEF Peer, Touches
  <2>2. CASE Send(c)
    <3>1. PICK n \in Nat : n = cl[c].sent + 1 BY <1>3
    <3>2. cl' = [cl EXCEPT ![c].sent = n] BY <1>1, <2>2, <3>1 DEF Send, ClientStep
    <3>. QED BY <1>1, <1>3, <1>4, <3>1, <3>2 DEF Peer, Touches
  <2>3. CASE Finish(c)
    <3>1. cl' = [cl EXCEPT ![c].fin = TRUE] BY <1>1, <2>3 DEF Finish, ClientStep
    <3>2. Touches(c) BY <1>1, <3>1 DEF Peer, Touches
    <3>3. /\ cl'[c].st = cl[c].st /\ cl'[c].sent = cl[c].sent /\ cl'[c].read = cl[c].read
          /\ cl'[c].got = cl[c].got
          /\ cl'[c].fin = TRUE /\ cl'[c].rst = cl[c].rst /\ cl'[c].err = cl[c].err
      BY <1>1, <3>1 DEF Peer
    <3>. QED BY <1>3, <1>4, <3>2, <3>3
  <2>4. CASE Reset(c)
    <3>1. cl' = [cl EXCEPT ![c] = [cl[c] EXCEPT !.rst = TRUE, !.err = TRUE]]
      BY <1>1, <2>4 DEF Reset, ClientStep
    <3>2. Touches(c) BY <1>1, <3>1 DEF Peer, Touches
    <3>3. /\ cl'[c].st = cl[c].st /\ cl'[c].sent = cl[c].sent /\ cl'[c].read = cl[c].read
          /\ cl'[c].got = cl[c].got
          /\ cl'[c].fin = cl[c].fin /\ cl'[c].rst = TRUE /\ cl'[c].err = TRUE
      BY <1>1, <3>1 DEF Peer
    <3>. QED BY <1>3, <1>4, <3>2, <3>3
  <2>5. CASE StopReading(c)
    <3>1. cl' = [cl EXCEPT ![c].reads = FALSE] BY <2>5 DEF StopReading
    <3>2. Touches(c) BY <1>1, <3>1 DEF Peer, Touches
    <3>3. /\ cl'[c].st = cl[c].st /\ cl'[c].sent = cl[c].sent /\ cl'[c].read = cl[c].read
          /\ cl'[c].got = cl[c].got
          /\ cl'[c].fin = cl[c].fin /\ cl'[c].rst = cl[c].rst /\ cl'[c].err = cl[c].err
      BY <1>1, <3>1 DEF Peer
    <3>. QED BY <1>3, <1>4, <3>2, <3>3
  <2>. QED BY <2>1, <2>2, <2>3, <2>4, <2>5 DEF ClientActs
<1>6. cl'[c].read <= cl'[c].sent
  <2>1. cl'[c].sent \in Nat BY <1>5 DEF Touches, Peer
  <2>. QED BY <1>3, <1>4, <1>5, <2>1
<1>7. cl'[c].st \in {"new", "backlog"} => cl'[c].read = 0 /\ cl'[c].got = <<>>
  BY <1>5 DEF KernelInv, PeerInv
<1>8. Writing' = Writing /\ Writing \subseteq OpenFds
  BY <1>2 DEF Writing, KernelInv, ConnInv
<1>9. overrun' \in BOOLEAN /\ out' \in [FD -> Bufs] BY <1>2 DEF KernelInv, KernelTyped
<1>10. KernelInv' /\ SameConns BY <1>2, <1>5, <1>6, <1>7, <1>8, <1>9, SameConnsStep
<1>. QED BY <1>5, <1>8, <1>10 DEF Acts
-----------------------------------------------------------------------------
(* The table of select and poll, and the pass over it: the listener comes   *)
(* first, when what was reported is still open.                             *)
TableInv ==
  /\ size \in Nat \ {0} /\ client \in [Slots -> FD \cup {NoFd}] /\ maxi \in Int /\ maxfd \in Int
  /\ InTable

PassInv ==
  pos # NoFd =>
    /\ pos \in Nat
    /\ Lfd \in ready => pos = 0 /\ ready \subseteq OpenFds \cup {Lfd}

(* How much is left to be looked at. *)
Left == Cardinality(Reported) + Cardinality(ready \cap {Lfd})

SelectInv ==
  /\ watch = OpenFds /\ \A fd \in OpenFds : fd <= maxfd /\ fd < size
  /\ PassInv
  /\ pos # NoFd => nready = Left

PollInv == PassInv /\ (pos # NoFd => nready \in 1 .. Left)

(* Sets of places and of numbers are finite. *)
LEMMA ReportedFinite ==
  ASSUME TableInv
  PROVE  IsFiniteSet(Reported) /\ Cardinality(Reported) \in Nat
<1>1. IsFiniteSet(Slots) BY FS_Interval DEF TableInv, Slots
<1>2. Reported \in SUBSET Slots BY DEF Reported
<1>3. IsFiniteSet(Reported) BY <1>1, <1>2, FS_Subset
<1>. QED BY <1>3, FS_CardinalityType

(* The listener counts for one. *)
LEMMA ListenerCounts ==
  ASSUME NEW R
  PROVE  /\ Lfd \in R => Cardinality(R \cap {Lfd}) = 1
         /\ Lfd \notin R => Cardinality(R \cap {Lfd}) = 0
<1>1. ASSUME Lfd \in R PROVE Cardinality(R \cap {Lfd}) = 1
  <2>1. R \cap {Lfd} = {Lfd} BY <1>1
  <2>. QED BY <2>1, FS_Singleton
<1>2. ASSUME Lfd \notin R PROVE Cardinality(R \cap {Lfd}) = 0
  <2>1. R \cap {Lfd} = {} BY <1>2
  <2>. QED BY <2>1, FS_EmptySet
<1>. QED BY <1>1, <1>2

(* Two sets that a function matches have as many members. *)
LEMMA SameCount ==
  ASSUME NEW S, NEW T, IsFiniteSet(S), NEW f \in [S -> T],
         \A x, y \in S : x # y => f[x] # f[y],
         \A y \in T : \E x \in S : f[x] = y
  PROVE  Cardinality(T) = Cardinality(S)
<1>1. f \in Injection(S, T) BY DEF Injection, IsInjective
<1>2. f \in Surjection(S, T) BY DEF Surjection
<1>3. ExistsBijection(S, T) BY <1>1, <1>2 DEF ExistsBijection, Bijection
<1>. QED BY <1>3, FS_Bijection

(* A place of the table that is in use has an open descriptor, *)
LEMMA PlaceIs ==
  ASSUME TableInv, NEW i \in Slots, client[i] # NoFd
  PROVE  client[i] \in FD /\ client[i] \in OpenFds /\ conn[client[i]] # None /\ i <= maxi
BY DEF TableInv, InTable, FreeSlots, OpenFds

(* and every open descriptor has a place. *)
LEMMA OpenIs ==
  ASSUME TableInv, NEW fd \in OpenFds
  PROVE  \E i \in Slots : client[i] = fd /\ client[i] # NoFd /\ i <= maxi
BY DEF TableInv, InTable, FreeSlots

(* The first free place. *)
LEMMA FreeIs ==
  ASSUME TableInv, FreeSlots # {}
  PROVE  Min(FreeSlots) \in Slots /\ client[Min(FreeSlots)] = NoFd
<1>1. FreeSlots \subseteq Nat BY DEF FreeSlots, Slots, TableInv
<1>. QED BY <1>1, MinIs DEF FreeSlots

(* What a wait reports, it reports for places of the table: so nready is    *)
(* the number of places with something to do, and one for the listener.     *)
LEMMA AllReported ==
  ASSUME KernelInv, TableInv, NEW R, R \subseteq OpenFds \cup {Lfd},
         ready' = R, pos' = 0, UNCHANGED <<size, client, maxi>>
  PROVE  Left' = Cardinality(R) /\ IsFiniteSet(R)
<1>1. Reported' = {i \in Slots : i <= maxi /\ client[i] # NoFd /\ client[i] \in R}
  BY DEF Reported, Slots, TableInv
<1>2. IsFiniteSet(Reported')
  <2>1. IsFiniteSet(Slots) BY FS_Interval DEF TableInv, Slots
  <2>2. Reported' \in SUBSET Slots BY <1>1
  <2>. QED BY <2>1, <2>2, FS_Subset
<1>. DEFINE D == R \ {Lfd}
            f == [i \in Reported' |-> client[i]]
<1>3. f \in [Reported' -> D]
  BY <1>1, FdNumbers, PlaceIs
<1>4. \A i, j \in Reported' : i # j => f[i] # f[j]
  BY <1>1 DEF TableInv, InTable, FreeSlots
<1>5. \A fd \in D : \E i \in Reported' : f[i] = fd BY <1>1, OpenIs
<1>. HIDE DEF f
<1>6. Cardinality(D) = Cardinality(Reported') BY <1>2, <1>3, <1>4, <1>5, SameCount
<1>7. IsFiniteSet(D)
  <2>1. IsFiniteSet(FD) BY FdIs, FS_Interval DEF FD
  <2>2. D \in SUBSET FD BY DEF OpenFds
  <2>. QED BY <2>1, <2>2, FS_Subset
<1>8. Cardinality(D) \in Nat BY <1>7, FS_CardinalityType
<1>9. CASE Lfd \in R
  <2>1. R = D \cup {Lfd} /\ Lfd \notin D BY <1>9
  <2>2. Cardinality(R) = Cardinality(D) + 1 /\ IsFiniteSet(R) BY <1>7, <2>1, FS_AddElement
  <2>3. Cardinality(R \cap {Lfd}) = 1 BY <1>9, ListenerCounts
  <2>. QED BY <1>6, <1>8, <2>2, <2>3 DEF Left
<1>10. CASE Lfd \notin R
  <2>1. R = D BY <1>10
  <2>2. Cardinality(R \cap {Lfd}) = 0 BY <1>10, ListenerCounts
  <2>. QED BY <1>6, <1>7, <1>8, <2>1, <2>2 DEF Left
<1>. QED BY <1>9, <1>10

(* The table with a new connection in a free place, *)
LEMMA TableAdd ==
  ASSUME TableInv, NEW i \in Slots, client[i] = NoFd, NEW fd \in FD, fd \notin OpenFds,
         client' = [client EXCEPT ![i] = fd], maxi' = Max({maxi, i}),
         OpenFds' = OpenFds \cup {fd}, UNCHANGED size, maxfd' \in Int
  PROVE  TableInv' /\ maxi' >= maxi
<1>1. Slots' = Slots BY DEF Slots
<1>2. i \in Int /\ maxi \in Int BY DEF Slots, TableInv
<1>3. maxi' \in Int /\ maxi' >= maxi /\ maxi' >= i BY <1>2, MaxOfTwo
<1>4. /\ client' \in [Slots -> FD \cup {NoFd}] /\ client'[i] = fd
      /\ \A j \in Slots : j # i => client'[j] = client[j]
  BY DEF TableInv
<1>5. fd # NoFd BY FdNumbers
<1>6. \A j \in Slots : client'[j] # NoFd <=> j = i \/ client[j] # NoFd BY <1>4, <1>5
<1>7. \A j \in Slots : client[j] # NoFd => client[j] # fd BY PlaceIs
<1>8. InTable'
  <2>1. (Slots \ FreeSlots)' = {j \in Slots : client'[j] # NoFd}
    BY <1>1 DEF FreeSlots
  <2>2. {client'[j] : j \in (Slots \ FreeSlots)'} = OpenFds \cup {fd}
    <3>1. ASSUME NEW j \in (Slots \ FreeSlots)' PROVE client'[j] \in OpenFds \cup {fd}
      BY <1>4, <1>6, <2>1, PlaceIs
    <3>2. ASSUME NEW f \in OpenFds PROVE \E j \in (Slots \ FreeSlots)' : client'[j] = f
      <4>1. PICK j \in Slots : client[j] = f /\ client[j] # NoFd BY OpenIs
      <4>. QED BY <1>4, <1>6, <2>1, <4>1
    <3>3. \E j \in (Slots \ FreeSlots)' : client'[j] = fd BY <1>4, <1>6, <2>1
    <3>. QED BY <3>1, <3>2, <3>3
  <2>3. \A j, k \in (Slots \ FreeSlots)' : j # k => client'[j] # client'[k]
    BY <1>4, <1>6, <1>7, <2>1 DEF TableInv, InTable, FreeSlots
  <2>4. \A j \in (Slots \ FreeSlots)' : j <= maxi'
    <3>1. ASSUME NEW j \in Slots, client[j] # NoFd PROVE j <= maxi' 
      <4>1. j <= maxi /\ j \in Int BY <3>1, PlaceIs DEF Slots
      <4>. QED BY <1>2, <1>3, <4>1
    <3>. QED BY <1>3, <1>6, <2>1, <3>1
  <2>. QED BY <2>2, <2>3, <2>4 DEF InTable
<1>. QED BY <1>1, <1>3, <1>4, <1>8 DEF TableInv

(* without one that was closed, *)
LEMMA TableDrop ==
  ASSUME TableInv, NEW i \in Slots, client[i] # NoFd,
         client' = [client EXCEPT ![i] = NoFd], OpenFds' = OpenFds \ {client[i]},
         UNCHANGED <<size, maxi, maxfd>>
  PROVE  TableInv'
<1>1. Slots' = Slots BY DEF Slots
<1>2. /\ client' \in [Slots -> FD \cup {NoFd}] /\ client'[i] = NoFd
      /\ \A j \in Slots : j # i => client'[j] = client[j]
  BY DEF TableInv
<1>3. (Slots \ FreeSlots)' = {j \in Slots : client'[j] # NoFd} BY <1>1 DEF FreeSlots
<1>4. \A j \in (Slots \ FreeSlots)' :
        j \in Slots /\ j # i /\ client'[j] = client[j] /\ client[j] # NoFd
  BY <1>2, <1>3
<1>5. \A j \in Slots : j # i /\ client[j] # NoFd => client[j] # client[i]
  BY DEF TableInv, InTable, FreeSlots
<1>6. InTable'
  <2>1. {client'[j] : j \in (Slots \ FreeSlots)'} = OpenFds \ {client[i]}
    <3>1. ASSUME NEW j \in (Slots \ FreeSlots)' PROVE client'[j] \in OpenFds \ {client[i]}
      BY <1>4, <1>5, PlaceIs
    <3>2. ASSUME NEW f \in OpenFds, f # client[i]
          PROVE  \E j \in (Slots \ FreeSlots)' : client'[j] = f
      <4>1. PICK j \in Slots : client[j] = f /\ client[j] # NoFd BY OpenIs
      <4>. QED BY <1>2, <1>3, <3>2, <4>1
    <3>. QED BY <3>1, <3>2
  <2>2. \A j, k \in (Slots \ FreeSlots)' : j # k => client'[j] # client'[k]
    BY <1>4 DEF TableInv, InTable, FreeSlots
  <2>3. \A j \in (Slots \ FreeSlots)' : j <= maxi' BY <1>4, PlaceIs
  <2>. QED BY <2>1, <2>2, <2>3 DEF InTable
<1>. QED BY <1>1, <1>2, <1>6 DEF TableInv

(* and when no connection has come or gone. *)
LEMMA TableSame ==
  ASSUME TableInv, OpenFds' = OpenFds, UNCHANGED <<size, client, maxi, maxfd>>
  PROVE  TableInv'
<1>1. Slots' = Slots /\ FreeSlots' = FreeSlots BY DEF Slots, FreeSlots
<1>2. InTable' BY <1>1 DEF TableInv, InTable
<1>. QED BY <1>1, <1>2 DEF TableInv

(* The place that a pass looks at. *)
LEMMA ReportedIs ==
  ASSUME TableInv, NEW i \in Reported
  PROVE  /\ i \in Slots /\ i \in Nat /\ client[i] # NoFd /\ client[i] \in OpenFds
         /\ client[i] \in FD /\ conn[client[i]] # None
<1>1. i \in Slots /\ client[i] # NoFd BY DEF Reported
<1>. QED BY <1>1, PlaceIs DEF Slots, TableInv

(* The pass goes on behind it. *)
LEMMA PassGoesOn ==
  ASSUME TableInv, pos \in Nat, NEW i \in Reported, i = Min(Reported),
         UNCHANGED <<size, maxi, ready>>, pos' = i + 1,
         \A j \in Slots : j # i => client'[j] = client[j]
  PROVE  Reported' = Reported \ {i}
<1>1. i \in Slots /\ i \in Nat /\ pos <= i BY ReportedIs DEF Reported
<1>2. Reported \subseteq Nat BY DEF Reported, Slots, TableInv
<1>3. \A j \in Reported : i <= j BY <1>2, MinIs
<1>4. Slots' = Slots /\ Slots \subseteq Nat BY DEF Slots, TableInv
<1>5. ASSUME NEW j \in Slots, j # i PROVE j \in Reported' <=> j \in Reported
  <2>1. j \in Nat /\ client'[j] = client[j] BY <1>4, <1>5
  <2>2. j \in Reported => j >= i + 1 BY <1>1, <1>3, <1>5, <2>1
  <2>3. j >= i + 1 => j >= pos BY <1>1, <2>1
  <2>. QED BY <1>4, <2>1, <2>2, <2>3 DEF Reported
<1>6. i \notin Reported'
  <2>1. ~ (i >= i + 1) BY <1>1
  <2>. QED BY <2>1 DEF Reported
<1>7. Reported' \subseteq Slots BY <1>4 DEF Reported
<1>8. Reported \subseteq Slots BY DEF Reported
<1>. QED BY <1>5, <1>6, <1>7, <1>8

(* One report of a pass is done. *)
LEMMA Counted ==
  ASSUME TableInv, PassInv, pos # NoFd, nready \in Int, Lfd \notin ready, NEW i \in Reported,
         i = Min(Reported), CountDown(i + 1, {i}), UNCHANGED <<size, maxi, ready>>,
         \A j \in Slots : j # i => client'[j] = client[j]
  PROVE  /\ nready' \in Int /\ nready' = nready - 1 /\ PassInv'
         /\ pos' # NoFd => /\ Left' = Left - 1 /\ nready > 1
<1>1. pos \in Nat BY DEF PassInv
<1>2. nready \in Int /\ nready' = nready - 1 BY DEF CountDown
<1>3. i \in Nat BY ReportedIs
<1>4. PassInv' BY <1>3 DEF CountDown, PassInv
<1>5. ASSUME pos' # NoFd PROVE Left' = Left - 1 /\ nready > 1
  <2>1. pos' = i + 1 /\ nready > 1 BY <1>2, <1>5 DEF CountDown
  <2>2. Reported' = Reported \ {i} BY <1>1, <2>1, PassGoesOn
  <2>3. PICK m \in Nat : m = Cardinality(Reported) /\ IsFiniteSet(Reported) BY ReportedFinite
  <2>4. Cardinality(Reported \ {i}) = m - 1 BY <2>3, FS_RemoveElement
  <2>5. Cardinality(ready \cap {Lfd}) = 0 BY ListenerCounts
  <2>. QED BY <2>1, <2>2, <2>3, <2>4, <2>5 DEF Left
<1>. QED BY <1>2, <1>4, <1>5

(* The number of reports that are left is a number. *)
LEMMA LeftIs ==
  ASSUME TableInv
  PROVE  /\ Left \in Nat
         /\ Left = Cardinality(Reported) + (IF Lfd \in ready THEN 1 ELSE 0)
BY ReportedFinite, ListenerCounts DEF Left

(* A connection that is accepted in a pass is not among its reports. *)
LEMMA PassAccepts ==
  ASSUME TableInv, PassInv, pos # NoFd, Lfd \in ready,
         NEW i \in Slots, client[i] = NoFd, NEW fd \in FD, fd \notin OpenFds,
         client' = [client EXCEPT ![i] = fd], maxi' \in Int, maxi' >= maxi, UNCHANGED size,
         pos' = 0
  PROVE  /\ ready' = ready \ {Lfd} => Reported' = Reported
         /\ ready \ {Lfd} \subseteq ready' => Reported \subseteq Reported'
<1>1. pos = 0 /\ ready \subseteq OpenFds \cup {Lfd} BY DEF PassInv
<1>2. Slots' = Slots BY DEF Slots
<1>3. client'[i] = fd /\ \A j \in Slots : j # i => client'[j] = client[j] BY DEF TableInv
<1>4. fd \notin ready \ {Lfd} BY <1>1
<1>5. i \notin Reported BY DEF Reported
<1>6. ASSUME NEW j \in Reported
      PROVE  /\ j \in Slots /\ j >= pos' /\ j <= maxi' /\ client'[j] # NoFd
             /\ client'[j] \in ready \ {Lfd}
  <2>1. j \in Slots /\ j >= 0 /\ j <= maxi /\ client[j] # NoFd /\ client[j] \in ready
    BY <1>1 DEF Reported
  <2>2. client[j] # Lfd BY <2>1, PlaceIs, FdNumbers
  <2>3. j \in Int /\ maxi \in Int BY <2>1 DEF Slots, TableInv
  <2>4. j <= maxi' BY <2>1, <2>3
  <2>. QED BY <1>3, <1>5, <2>1, <2>2, <2>4
<1>7. ASSUME ready' = ready \ {Lfd}, NEW j \in Reported' PROVE j \in Reported
  <2>1. j \in Slots /\ client'[j] # NoFd /\ client'[j] \in ready \ {Lfd}
    BY <1>2, <1>7 DEF Reported
  <2>2. j # i /\ client[j] = client'[j] BY <1>3, <1>4, <2>1
  <2>3. j >= 0 BY <2>1 DEF Slots, TableInv
  <2>. QED BY <1>1, <2>1, <2>2, <2>3, PlaceIs DEF Reported
<1>8. ASSUME ready \ {Lfd} \subseteq ready' PROVE Reported \subseteq Reported'
  BY <1>2, <1>6, <1>8 DEF Reported
<1>. QED BY <1>7, <1>8

(* The steps of the select server: the table stays what it should be, and   *)
(* as long as every descriptor is below FD_SETSIZE, so do the set and the   *)
(* countdown.                                                               *)
LEMMA SelectKeeps ==
  ASSUME KernelInv, TableInv, ~ overrun => SelectInv, SelectStep, alive'
  PROVE  TableInv' /\ (~ overrun' => SelectInv')
<1>1. CASE Select
  <2>1. UNCHANGED <<rigid, kernelVars, client, maxi, maxfd, watch>>
    BY <1>1 DEF Select, selectUnchanged
  <2>2. OpenFds' = OpenFds BY <2>1 DEF OpenFds, kernelVars
  <2>3. UNCHANGED <<size, overrun>> BY <2>1 DEF rigid, kernelVars
  <2>4. TableInv' BY <2>1, <2>2, <2>3, TableSame
  <2>5. ASSUME ~ overrun PROVE SelectInv'
    <3>1. PICK R : R = Ready_Select OBVIOUS
    <3>2. ready' = R /\ nready' = Cardinality(R) /\ pos' = 0 BY <1>1, <3>1 DEF Select
    <3>3. R \subseteq OpenFds \cup {Lfd} BY <2>5, <3>1 DEF Ready_Select, SelectInv
    <3>4. Left' = Cardinality(R) BY <2>1, <2>3, <3>2, <3>3, AllReported
    <3>5. PassInv' BY <2>2, <3>2, <3>3 DEF PassInv
    <3>. QED BY <2>1, <2>2, <2>3, <2>5, <3>2, <3>4, <3>5 DEF SelectInv
  <2>. QED BY <2>3, <2>4, <2>5
<1>2. CASE SelectAccept
  <2>0. InPass /\ Lfd \in ready /\ FreeSlots # {} BY <1>2 DEF SelectAccept
  <2>1. PICK c \in Clients :
          /\ Accept(c) /\ SelectStore(AcceptedFd, Min(FreeSlots))
          /\ overrun' = (overrun \/ AcceptedFd >= size)
    BY <1>2 DEF SelectAccept, Backlog
  <2>2. /\ ready' = ready \ {Lfd} /\ CountDown(0, {}) /\ UNCHANGED <<rigid, out, alive>>
    BY <1>2 DEF SelectAccept, selectUnchanged
  <2>3. overrun' \in BOOLEAN BY <2>1
  <2>4. /\ AcceptedFd \in FD /\ AcceptedFd \notin OpenFds
        /\ OpenFds' = OpenFds \cup {AcceptedFd}
    BY <2>1, <2>2, <2>3, AcceptStep
  <2>5. PICK fd \in FD : fd = AcceptedFd BY <2>4
  <2>6. PICK i \in Slots : i = Min(FreeSlots) /\ client[i] = NoFd BY <2>0, FreeIs
  <2>7. /\ client' = [client EXCEPT ![i] = fd] /\ maxi' = Max({maxi, i})
        /\ maxfd' = Max({maxfd, fd})
        /\ watch' = IF fd < size THEN watch \cup {fd} ELSE watch
    BY <2>1, <2>5, <2>6 DEF SelectStore
  <2>8. fd \in Int /\ maxfd \in Int BY FdNumbers DEF TableInv
  <2>9. maxfd' \in Int /\ maxfd' >= maxfd /\ maxfd' >= fd BY <2>7, <2>8, MaxOfTwo
  <2>10. UNCHANGED size BY <2>2 DEF rigid
  <2>11. TableInv' /\ maxi' >= maxi
    BY <2>4, <2>5, <2>6, <2>7, <2>9, <2>10, TableAdd
  <2>12. ASSUME ~ overrun' PROVE SelectInv'
    <3>1. ~ overrun /\ fd < size
      <4>1. ~ overrun /\ ~ (fd >= size) BY <2>1, <2>5, <2>12, Zenon
      <4>. QED BY <2>8, <4>1 DEF TableInv
    <3>2. watch' = OpenFds' BY <2>4, <2>5, <2>7, <3>1 DEF SelectInv
    <3>3. ASSUME NEW f \in OpenFds' PROVE f <= maxfd' /\ f < size'
      <4>1. CASE f = fd BY <2>9, <2>10, <3>1, <4>1
      <4>2. CASE f \in OpenFds
        <5>1. f <= maxfd /\ f < size /\ f \in Int BY <3>1, <4>2, FdNumbers DEF SelectInv, OpenFds
        <5>. QED BY <2>8, <2>9, <2>10, <5>1
      <4>. QED BY <2>4, <2>5, <4>1, <4>2
    <3>4. PassInv' BY <2>2 DEF CountDown, PassInv
    <3>5. ASSUME pos' # NoFd PROVE nready' = Left'
      <4>1. pos' = 0 BY <2>2, <3>5 DEF CountDown
      <4>2. maxi' \in Int BY <2>11 DEF TableInv
      <4>3. PassInv /\ pos # NoFd BY <2>0, <3>1 DEF SelectInv, InPass
      <4>4. Reported' = Reported
        BY <2>0, <2>2, <2>4, <2>5, <2>6, <2>7, <2>10, <2>11, <4>1, <4>2, <4>3, PassAccepts
      <4>5. nready = Cardinality(Reported) + 1 /\ Cardinality(Reported) \in Nat
        BY <2>0, <3>1, <4>3, LeftIs, ReportedFinite DEF SelectInv
      <4>6. Left' = Cardinality(Reported) + 0
        <5>1. Lfd \notin ready' BY <2>2
        <5>2. Cardinality(ready' \cap {Lfd}) = 0 BY <5>1, ListenerCounts
        <5>. QED BY <4>4, <5>2 DEF Left
      <4>7. nready' = nready - 1 BY <2>2 DEF CountDown
      <4>. QED BY <4>5, <4>6, <4>7
    <3>. QED BY <3>2, <3>3, <3>4, <3>5 DEF SelectInv
  <2>. QED BY <2>11, <2>12
<1>3. ASSUME NEW i \in Slots, SelectRead(i) \/ SelectClose(i)
      PROVE  TableInv' /\ (~ overrun' => SelectInv')
  <2>1. /\ i \in Reported /\ i = Min(Reported) /\ Lfd \notin ready /\ pos # NoFd
        /\ Writing = {} /\ CountDown(i + 1, {i}) /\ UNCHANGED <<rigid, maxi, maxfd, ready>>
    BY <1>3 DEF SelectRead, SelectClose, SelectAt, InPass, selectUnchanged
  <2>2. UNCHANGED size BY <2>1 DEF rigid
  <2>3. PICK fd \in FD : fd = client[i] /\ conn[fd] # None /\ client[i] # NoFd
    BY <2>1, ReportedIs
  <2>4. \/ OpenFds' = OpenFds /\ UNCHANGED <<client, watch, overrun>>
        \/ /\ OpenFds' = OpenFds \ {fd} /\ watch' = watch \ {fd} /\ UNCHANGED overrun
           /\ client' = [client EXCEPT ![i] = NoFd]
    <3>1. CASE SelectRead(i)
      <4>1. Read(fd) \/ ReadFails(fd) BY <2>3, <3>1 DEF SelectRead
      <4>2. SameConns BY <2>1, <2>3, <4>1, ReadStep, ReadFailsStep
      <4>. QED BY <3>1, <4>1, <4>2 DEF SameConns, SelectRead, Read, ReadFails
    <3>2. CASE SelectClose(i)
      <4>1. Close(fd) BY <2>3, <3>2 DEF SelectClose
      <4>2. OpenFds' = OpenFds \ {fd} BY <2>1, <2>3, <4>1, CloseStep
      <4>. QED BY <2>3, <3>2, <4>1, <4>2 DEF SelectClose, Close
    <3>. QED BY <1>3, <3>1, <3>2
  <2>5. TableInv' BY <2>1, <2>2, <2>3, <2>4, TableSame, TableDrop
  <2>6. \A j \in Slots : j # i => client'[j] = client[j] BY <2>4 DEF TableInv
  <2>7. ASSUME ~ overrun PROVE SelectInv'
    <3>1. PassInv /\ nready = Left /\ nready \in Int
      BY <2>1, <2>7, LeftIs DEF SelectInv
    <3>2. /\ nready' = nready - 1 /\ PassInv'
          /\ pos' # NoFd => Left' = Left - 1
      BY <2>1, <2>2, <2>6, <3>1, Counted
    <3>3. watch' = OpenFds' /\ \A f \in OpenFds' : f <= maxfd' /\ f < size'
      BY <2>1, <2>2, <2>4, <2>7 DEF SelectInv
    <3>. QED BY <3>1, <3>2, <3>3 DEF SelectInv
  <2>. QED BY <2>4, <2>5, <2>7
<1>4. ASSUME NEW fd \in FD, SelectWrite(fd) PROVE TableInv' /\ (~ overrun' => SelectInv')
  <2>1. Write(fd) /\ UNCHANGED <<rigid, tableVars, watch, ready>>
    BY <1>4 DEF SelectWrite, selectUnchanged
  <2>2. OpenFds' = OpenFds /\ UNCHANGED overrun BY <2>1, WriteStep DEF SameConns, Write
  <2>3. UNCHANGED <<size, client, maxi, maxfd, nready, pos>> BY <2>1 DEF rigid, tableVars
  <2>4. TableInv' BY <2>2, <2>3, TableSame
  <2>5. SelectInv => SelectInv'
    BY <2>1, <2>2, <2>3 DEF SelectInv, PassInv, Left, Reported, Slots
  <2>. QED BY <2>2, <2>4, <2>5
<1>5. CASE SelectAborts \/ SelectAcceptExits
           \/ \E fd \in FD : SelectKilled(fd)
  BY <1>5 DEF SelectAborts, SelectAcceptExits, AcceptExits, SelectKilled,
              WriteKilled, Exit
<1>. QED BY <1>1, <1>2, <1>3, <1>4, <1>5 DEF SelectStep

(* The steps of the poll server.  A place that poll has not seen may be     *)
(* taken for reported, which only adds to what is left.                     *)
LEMMA PollKeeps ==
  ASSUME KernelInv, TableInv, PollInv, PollStep, alive'
  PROVE  TableInv' /\ PollInv'
<1>1. CASE Poll
  <2>1. UNCHANGED <<rigid, kernelVars, client, maxi, maxfd>>
    BY <1>1 DEF Poll, pollUnchanged
  <2>2. OpenFds' = OpenFds BY <2>1 DEF OpenFds, kernelVars
  <2>3. UNCHANGED size BY <2>1 DEF rigid
  <2>4. TableInv' BY <2>1, <2>2, <2>3, TableSame
  <2>5. PICK R : R = Ready_Poll OBVIOUS
  <2>6. ready' = R /\ nready' = Cardinality(R) /\ pos' = 0 /\ R # {}
    BY <1>1, <2>5 DEF Poll
  <2>7. R \subseteq OpenFds \cup {Lfd} BY <2>5, PlaceIs DEF Ready_Poll, FreeSlots
  <2>8. Left' = Cardinality(R) /\ IsFiniteSet(R) BY <2>1, <2>3, <2>6, <2>7, AllReported
  <2>9. Cardinality(R) \in Nat /\ Cardinality(R) # 0
    BY <2>6, <2>8, FS_CardinalityType, FS_EmptySet
  <2>10. PassInv' BY <2>2, <2>6, <2>7 DEF PassInv
  <2>. QED BY <2>4, <2>6, <2>8, <2>9, <2>10 DEF PollInv
<1>2. CASE PollAccept
  <2>0. Lfd \in ready /\ pos # NoFd /\ FreeSlots # {} BY <1>2 DEF PollAccept, InPollPass
  <2>1. PICK c \in Clients : Accept(c) BY <1>2 DEF PollAccept, Backlog
  <2>2. /\ UNCHANGED <<rigid, out, alive, overrun, maxfd>> /\ nready' = nready - 1
        /\ pos' = IF nready <= 1 THEN NoFd ELSE 0
        /\ ready \ {Lfd} \subseteq ready'
    BY <1>2 DEF PollAccept, pollUnchanged
  <2>3. overrun' \in BOOLEAN BY <2>2 DEF KernelInv, KernelTyped
  <2>4. /\ AcceptedFd \in FD /\ AcceptedFd \notin OpenFds
        /\ OpenFds' = OpenFds \cup {AcceptedFd}
    BY <2>1, <2>2, <2>3, AcceptStep
  <2>5. PICK fd \in FD : fd = AcceptedFd BY <2>4
  <2>6. PICK i \in Slots : i = Min(FreeSlots) /\ client[i] = NoFd BY <2>0, FreeIs
  <2>7. client' = [client EXCEPT ![i] = fd] /\ maxi' = Max({maxi, i})
    BY <1>2, <2>5, <2>6 DEF PollAccept
  <2>8. UNCHANGED size /\ maxfd' \in Int BY <2>2 DEF rigid, TableInv
  <2>9. TableInv' /\ maxi' >= maxi BY <2>4, <2>5, <2>6, <2>7, <2>8, TableAdd
  <2>10. Lfd \notin ready'
    <3>1. PICK g \in IF nready <= 1 THEN {{}} ELSE Garbage(i, fd) :
            ready' = (ready \ {Lfd}) \cup g
      BY <1>2, <2>5, <2>6 DEF PollAccept
    <3>2. g = {} \/ g = {fd} BY <3>1 DEF Garbage
    <3>. QED BY <3>1, <3>2, FdNumbers
  <2>11. PassInv' BY <2>2, <2>10 DEF PassInv
  <2>12. ASSUME pos' # NoFd PROVE nready' \in 1 .. Left'
    <3>1. pos' = 0 /\ ~ (nready <= 1) BY <2>2, <2>12
    <3>2. maxi' \in Int BY <2>9 DEF TableInv
    <3>3. Reported \subseteq Reported'
      BY <2>0, <2>2, <2>4, <2>5, <2>6, <2>7, <2>8, <2>9, <3>1, <3>2, PassAccepts DEF PollInv
    <3>4. /\ Left = Cardinality(Reported) + 1 /\ Cardinality(Reported) \in Nat
          /\ nready \in 1 .. Left
      BY <2>0, LeftIs, ReportedFinite DEF PollInv
    <3>5. IsFiniteSet(Reported')
      <4>1. IsFiniteSet(Slots) BY FS_Interval DEF TableInv, Slots
      <4>2. Reported' \in SUBSET Slots BY <2>8 DEF Reported, Slots
      <4>. QED BY <4>1, <4>2, FS_Subset
    <3>6. /\ Cardinality(Reported) <= Cardinality(Reported')
          /\ Cardinality(Reported') \in Nat
      BY <3>3, <3>5, FS_Subset, FS_CardinalityType
    <3>7. Cardinality(ready' \cap {Lfd}) = 0 BY <2>10, ListenerCounts
    <3>8. Left' = Cardinality(Reported') + 0 BY <3>7 DEF Left
    <3>. QED BY <2>2, <3>1, <3>4, <3>6, <3>8
  <2>. QED BY <2>9, <2>11, <2>12 DEF PollInv
<1>3. ASSUME NEW i \in Slots, PollRead(i) \/ PollClose(i) PROVE TableInv' /\ PollInv'
  <2>1. /\ i \in Reported /\ i = Min(Reported) /\ Lfd \notin ready /\ pos # NoFd
        /\ Writing = {} /\ CountDown(i + 1, {i}) /\ UNCHANGED <<rigid, maxi, maxfd, ready>>
    BY <1>3 DEF PollRead, PollClose, PollAt, InPollPass, pollUnchanged
  <2>2. UNCHANGED size BY <2>1 DEF rigid
  <2>3. PICK fd \in FD : fd = client[i] /\ conn[fd] # None /\ client[i] # NoFd
    BY <2>1, ReportedIs
  <2>4. \/ OpenFds' = OpenFds /\ UNCHANGED client
        \/ OpenFds' = OpenFds \ {fd} /\ client' = [client EXCEPT ![i] = NoFd]
    <3>1. CASE PollRead(i)
      <4>1. Read(fd) BY <2>3, <3>1 DEF PollRead
      <4>2. SameConns BY <2>1, <2>3, <4>1, ReadStep
      <4>. QED BY <3>1, <4>2 DEF SameConns, PollRead
    <3>2. CASE PollClose(i)
      <4>1. Close(fd) BY <2>3, <3>2 DEF PollClose
      <4>2. OpenFds' = OpenFds \ {fd} BY <2>1, <2>3, <4>1, CloseStep
      <4>. QED BY <2>3, <3>2, <4>2 DEF PollClose
    <3>. QED BY <1>3, <3>1, <3>2
  <2>5. TableInv' BY <2>1, <2>2, <2>3, <2>4, TableSame, TableDrop
  <2>6. \A j \in Slots : j # i => client'[j] = client[j] BY <2>4 DEF TableInv
  <2>7. nready \in 1 .. Left /\ nready \in Int /\ Left \in Nat /\ PassInv
    BY <2>1, LeftIs DEF PollInv
  <2>8. /\ nready' = nready - 1 /\ PassInv'
        /\ pos' # NoFd => Left' = Left - 1 /\ nready > 1
    BY <2>1, <2>2, <2>6, <2>7, Counted
  <2>. QED BY <2>5, <2>7, <2>8 DEF PollInv
<1>4. ASSUME NEW fd \in FD, PollWrite(fd) PROVE TableInv' /\ PollInv'
  <2>1. Write(fd) /\ UNCHANGED <<rigid, tableVars, ready>> BY <1>4 DEF PollWrite
  <2>2. OpenFds' = OpenFds BY <2>1, WriteStep DEF SameConns
  <2>3. UNCHANGED <<size, client, maxi, maxfd, nready, pos>> BY <2>1 DEF rigid, tableVars
  <2>4. TableInv' BY <2>2, <2>3, TableSame
  <2>5. PollInv' BY <2>1, <2>2, <2>3 DEF PollInv, PassInv, Left, Reported, Slots
  <2>. QED BY <2>4, <2>5
<1>5. CASE PollTooMany \/ PollAcceptExits \/ (\E i \in Slots : PollReadExits(i))
           \/ \E fd \in FD : PollKilled(fd)
  BY <1>5 DEF PollTooMany, PollAcceptExits, AcceptExits, PollReadExits, PollKilled,
              WriteKilled, Exit
<1>. QED BY <1>1, <1>2, <1>3, <1>4, <1>5 DEF PollStep
-----------------------------------------------------------------------------
(* The tree of the epoll servers is the open descriptors.  What epoll has   *)
(* reported is still there and can be read,                                 *)
EpollInv ==
  /\ watch = OpenFds /\ ready \subseteq OpenFds \cup {Lfd}
  /\ \A fd \in ready \ {Lfd} : Readable(conn[fd])

(* and what can be read from an edge-triggered descriptor is an edge not    *)
(* reported yet, a report, or being read.                                   *)
EtInv ==
  /\ watch = OpenFds /\ edge \subseteq OpenFds /\ ready \subseteq OpenFds \cup {Lfd}
  /\ cur \in OpenFds \cup {NoFd} /\ cur \notin ready
  /\ \A fd \in OpenFds : Readable(conn[fd]) => fd \in edge \cup ready \cup {cur}

(* Whether something can be read depends on the data and the end only. *)
LEMMA SameReadable ==
  ASSUME NEW c, SameData(c) \/ cl'[c] = cl[c]
  PROVE  Readable(c)' <=> Readable(c)
BY DEF SameData, Readable, Unread, Ended

(* Nobody else's data can be read from a descriptor. *)
LEMMA OtherReadable ==
  ASSUME KernelInv, NEW fd \in FD, Touches(conn[fd]), conn[fd] # None,
         NEW f \in OpenFds, f # fd, conn'[f] = conn[f]
  PROVE  Readable(conn[f])' <=> Readable(conn[f])
<1>1. conn[f] \in Clients /\ conn[f] # conn[fd]
  BY DEF KernelInv, KernelTyped, ConnInv, OpenFds
<1>2. cl'[conn'[f]] = cl[conn[f]] BY <1>1 DEF Touches
<1>. QED BY <1>2 DEF Readable, Unread, Ended

(* The steps of epoll.c. *)
LEMMA EpollKeeps ==
  ASSUME KernelInv, EpollInv, server = "epoll", EpollStep, alive'
  PROVE  EpollInv'
<1>0. ~ IsEt BY DEF IsEt
<1>1. CASE Epoll
  <2>1. UNCHANGED <<conn, cl, watch>> /\ ready' = Ready_Epoll BY <1>1 DEF Epoll, kernelVars
  <2>2. OpenFds' = OpenFds BY <2>1 DEF OpenFds
  <2>3. \A fd \in OpenFds : Readable(conn[fd])' <=> Readable(conn[fd])
    BY <2>1 DEF Readable, Unread, Ended
  <2>4. Ready_Epoll \subseteq {fd \in OpenFds : Readable(conn[fd])} \cup {Lfd}
    BY <1>0 DEF Ready_Epoll, EpollInv
  <2>. QED BY <2>1, <2>2, <2>3, <2>4 DEF EpollInv
<1>2. CASE EpollAccept
  <2>1. PICK c \in Clients : Accept(c) BY <1>2 DEF EpollAccept, Backlog
  <2>2. UNCHANGED <<rigid, out, alive, overrun>> BY <1>2 DEF EpollAccept, epollUnchanged
  <2>3. overrun' \in BOOLEAN BY <2>2 DEF KernelInv, KernelTyped
  <2>4. /\ AcceptedFd \in FD /\ AcceptedFd \notin OpenFds
        /\ OpenFds' = OpenFds \cup {AcceptedFd}
        /\ \A f \in FD : f # AcceptedFd => conn'[f] = conn[f]
        /\ \A d \in Clients : SameData(d)
    BY <2>1, <2>2, <2>3, AcceptStep
  <2>5. watch' = watch \cup {AcceptedFd} /\ ready' = ready \ {Lfd}
    BY <1>2 DEF EpollAccept
  <2>6. ASSUME NEW f \in ready' PROVE f \in OpenFds /\ Readable(conn[f])'
    <3>1. f \in OpenFds /\ f \in FD /\ Readable(conn[f]) /\ conn'[f] = conn[f]
      BY <2>4, <2>5 DEF EpollInv, OpenFds
    <3>2. PICK d \in Clients : d = conn[f] /\ d = conn'[f]
      BY <3>1 DEF OpenFds, KernelInv, KernelTyped
    <3>. QED BY <2>4, <3>1, <3>2, SameReadable
  <2>. QED BY <2>4, <2>5, <2>6 DEF EpollInv
<1>3. ASSUME NEW fd \in FD, EpollRead(fd) PROVE EpollInv'
  <2>1. /\ fd \in ready /\ Read(fd) /\ ready' = ready \ {fd} /\ UNCHANGED <<rigid, watch>>
    BY <1>3 DEF EpollRead, treeVars, epollUnchanged
  <2>2. conn[fd] # None /\ fd \in OpenFds BY <2>1, FdNumbers DEF EpollInv, OpenFds
  <2>3. SameConns /\ Touches(conn[fd]) BY <2>1, <2>2, ReadStep DEF Takes
  <2>4. ASSUME NEW f \in ready', f # Lfd PROVE Readable(conn[f])'
    <3>1. f \in OpenFds /\ f # fd /\ Readable(conn[f]) /\ conn'[f] = conn[f]
      BY <2>1, <2>3, <2>4 DEF EpollInv, SameConns
    <3>. QED BY <2>2, <2>3, <3>1, OtherReadable
  <2>. QED BY <2>1, <2>3, <2>4 DEF EpollInv, SameConns
<1>4. ASSUME NEW fd \in FD, EpollClose(fd) PROVE EpollInv'
  <2>1. /\ fd \in ready /\ Close(fd) /\ ready' = ready \ {fd} /\ watch' = watch \ {fd}
        /\ UNCHANGED rigid /\ Writing = {}
    BY <1>4 DEF EpollClose, epollUnchanged, InEpoll
  <2>2. conn[fd] # None /\ fd \in OpenFds BY <2>1, FdNumbers DEF EpollInv, OpenFds
  <2>3. /\ Touches(conn[fd]) /\ OpenFds' = OpenFds \ {fd}
        /\ \A f \in FD : f # fd => conn'[f] = conn[f]
    BY <2>1, <2>2, CloseStep
  <2>4. ASSUME NEW f \in ready', f # Lfd PROVE f \in OpenFds /\ Readable(conn[f])'
    <3>1. f \in OpenFds /\ f # fd /\ Readable(conn[f]) /\ conn'[f] = conn[f]
      BY <2>1, <2>3, <2>4 DEF EpollInv, OpenFds
    <3>. QED BY <2>2, <2>3, <3>1, OtherReadable
  <2>. QED BY <2>1, <2>3, <2>4 DEF EpollInv
<1>5. ASSUME NEW fd \in FD, EpollWrite(fd) PROVE EpollInv'
  <2>1. Write(fd) /\ UNCHANGED <<rigid, watch, ready>>
    BY <1>5 DEF EpollWrite, treeVars, epollUnchanged
  <2>2. SameConns /\ conn[fd] \in Clients /\ Gives(conn[fd], out[fd]) BY <2>1, WriteStep
  <2>3. ASSUME NEW f \in OpenFds, Readable(conn[f]) PROVE Readable(conn[f])'
    <3>1. CASE conn[f] = conn[fd]
      BY <2>2, <2>3, <3>1 DEF Gives, SameConns, Readable, Unread, Ended
    <3>2. CASE conn[f] # conn[fd]
      <4>1. conn[f] \in Clients BY DEF KernelInv, KernelTyped, OpenFds
      <4>. QED BY <2>2, <2>3, <3>2, <4>1
           DEF Gives, Touches, SameConns, Readable, Unread, Ended
    <3>. QED BY <3>1, <3>2
  <2>. QED BY <2>1, <2>2, <2>3 DEF EpollInv, SameConns
<1>6. CASE EpollAcceptExits \/ \E fd \in FD : EpollKilled(fd)
  BY <1>6 DEF EpollAcceptExits, AcceptExits, EpollKilled, WriteKilled, Exit
<1>. QED BY <1>0, <1>1, <1>2, <1>3, <1>4, <1>5, <1>6
         DEF EpollStep, EtStart, EtRead, EtAgain, EtClose, EtWrite, AtEt

(* The beginning of a sequence. *)
LEMMA PrefixIs ==
  ASSUME NEW T, NEW s \in Seq(T), NEW n \in 0 .. Len(s)
  PROVE  /\ SubSeq(s, 1, n) \in Seq(T) /\ Len(SubSeq(s, 1, n)) = n
         /\ \A i \in 1 .. n : SubSeq(s, 1, n)[i] = s[i]
OBVIOUS

(* Write on a non-blocking descriptor whose client does not read: the       *)
(* beginning is taken, the rest is lost.                                    *)
Loses(fd) ==
  /\ fd \in Writing /\ ~ cl[conn[fd]].reads /\ ~ cl[conn[fd]].rst
  /\ \E n \in 0 .. Len(out[fd]) - 1 :
       cl' = [cl EXCEPT ![conn[fd]].got = @ \o SubSeq(out[fd], 1, n)]
  /\ out' = [out EXCEPT ![fd] = <<>>]
  /\ UNCHANGED <<conn, alive, overrun>>

(* The kernel after such a Write. *)
LEMMA LosesStep ==
  ASSUME KernelInv, NEW fd \in FD, Loses(fd), UNCHANGED rigid
  PROVE  /\ KernelInv' /\ SameConns /\ conn[fd] \in Clients /\ ~ cl[conn[fd]].rst
         /\ \E n \in 0 .. Len(out[fd]) - 1 : Gives(conn[fd], SubSeq(out[fd], 1, n))
         /\ out' \in [FD -> Bufs] /\ out'[fd] = <<>>
         /\ \A f \in FD : f # fd => out'[f] = out[f]
         /\ Writing' = Writing \ {fd}
<1>0. fd \in Writing BY DEF Loses
<1>1. conn[fd] \in Clients BY <1>0 DEF KernelInv, KernelTyped, ConnInv, OpenFds
<1>2. PICK c \in Clients : c = conn[fd] BY <1>1
<1>3. PICK n \in 0 .. Len(out[fd]) - 1 :
        cl' = [cl EXCEPT ![c].got = @ \o SubSeq(out[fd], 1, n)]
  BY <1>2 DEF Loses
<1>4. /\ cl[c] \in Peer /\ cl \in [Clients -> Peer] /\ out[fd] \in Bufs /\ ~ cl[c].rst
      /\ out' = [out EXCEPT ![fd] = <<>>] /\ UNCHANGED <<conn, alive, overrun>>
  BY <1>2 DEF KernelInv, KernelTyped, Loses
<1>5. PICK part \in Bufs : part = SubSeq(out[fd], 1, n)
  <2>1. n \in 0 .. Len(out[fd]) BY <1>4 DEF Bufs
  <2>. QED BY <1>4, <2>1, PrefixIs DEF Bufs
<1>6. cl[c].got \o part \in Bufs
  <2>1. cl[c].got \in Bufs BY <1>4 DEF Peer
  <2>. QED BY <2>1 DEF Bufs
<1>7. cl' = [cl EXCEPT ![c].got = cl[c].got \o part] BY <1>3, <1>5
<1>8. /\ Touches(c) /\ cl'[c].st = cl[c].st /\ cl'[c].sent = cl[c].sent
      /\ cl'[c].read = cl[c].read /\ cl'[c].fin = cl[c].fin /\ cl'[c].rst = cl[c].rst
      /\ cl'[c].err = cl[c].err /\ cl'[c].got = cl[c].got \o part
  BY <1>4, <1>6, <1>7 DEF Peer, Touches
<1>9. Gives(c, part) BY <1>4, <1>8 DEF Gives
<1>10. <<>> \in Bufs BY DEF Bufs
<1>11. /\ out' \in [FD -> Bufs] /\ out'[fd] = <<>>
       /\ \A f \in FD : f # fd => out'[f] = out[f]
  BY <1>4, <1>10 DEF KernelInv, KernelTyped
<1>12. Writing' = Writing \ {fd} BY <1>11 DEF Writing
<1>13. Writing' \subseteq OpenFds BY <1>12 DEF KernelInv, ConnInv
<1>14. cl[c].st = "up" BY <1>0, <1>2 DEF KernelInv, ConnInv, OpenFds
<1>15. cl'[c].read <= cl'[c].sent /\ (cl'[c].err => cl'[c].rst)
  BY <1>8 DEF KernelInv, PeerInv
<1>16. overrun' \in BOOLEAN BY <1>4 DEF KernelInv, KernelTyped
<1>17. KernelInv' /\ SameConns
  BY <1>4, <1>8, <1>11, <1>13, <1>14, <1>15, <1>16, SameConnsStep
<1>. QED BY <1>2, <1>3, <1>4, <1>5, <1>9, <1>11, <1>12, <1>17

(* A Write of either kind leaves what can be read. *)
LEMMA GivesReadable ==
  ASSUME KernelInv, NEW fd \in FD, conn[fd] \in Clients, NEW part, Gives(conn[fd], part),
         SameConns, NEW f \in OpenFds
  PROVE  Readable(conn[f])' <=> Readable(conn[f])
<1>1. CASE conn[f] = conn[fd]
  BY <1>1 DEF Gives, SameConns, Readable, Unread, Ended
<1>2. CASE conn[f] # conn[fd]
  <2>1. conn[f] \in Clients BY DEF KernelInv, KernelTyped, OpenFds
  <2>. QED BY <1>2, <2>1 DEF Gives, Touches, SameConns, Readable, Unread, Ended
<1>. QED BY <1>1, <1>2

(* The steps of epoll_et.c. *)
LEMMA EtKeeps ==
  ASSUME KernelInv, EtInv, server = "epoll_et", EpollStep, alive'
  PROVE  EtInv'
<1>0. IsEt BY DEF IsEt
<1>1. CASE Epoll
  <2>1. UNCHANGED <<conn, cl, watch, cur>> /\ ready' = Ready_Epoll /\ edge' = {}
        /\ cur = NoFd /\ ready = {}
    BY <1>1 DEF Epoll, kernelVars, InEpoll
  <2>2. OpenFds' = OpenFds BY <2>1 DEF OpenFds
  <2>3. \A fd \in OpenFds : Readable(conn[fd])' <=> Readable(conn[fd])
    BY <2>1 DEF Readable, Unread, Ended
  <2>4. NoFd \notin OpenFds /\ NoFd # Lfd BY FdNumbers DEF OpenFds
  <2>5. /\ {fd \in edge : Readable(conn[fd])} \subseteq ready'
        /\ ready' \subseteq edge \cup {Lfd}
    BY <1>0, <2>1 DEF Ready_Epoll
  <2>6. \A fd \in OpenFds : Readable(conn[fd]) => fd \in ready'
    BY <2>1, <2>4, <2>5 DEF EtInv
  <2>. QED BY <2>1, <2>2, <2>3, <2>4, <2>5, <2>6 DEF EtInv
<1>2. CASE EpollAccept
  <2>1. PICK c \in Clients :
          /\ Accept(c)
          /\ edge' = IF Readable(c) THEN edge \cup {AcceptedFd} ELSE edge
    BY <1>0, <1>2 DEF EpollAccept, Backlog
  <2>2. UNCHANGED <<rigid, out, alive, overrun, cur>> /\ cur = NoFd
    BY <1>2 DEF EpollAccept, epollUnchanged, InEpoll
  <2>3. overrun' \in BOOLEAN BY <2>2 DEF KernelInv, KernelTyped
  <2>4. /\ AcceptedFd \in FD /\ AcceptedFd \notin OpenFds /\ conn'[AcceptedFd] = c
        /\ OpenFds' = OpenFds \cup {AcceptedFd}
        /\ \A f \in FD : f # AcceptedFd => conn'[f] = conn[f]
        /\ \A d \in Clients : SameData(d)
    BY <2>1, <2>2, <2>3, AcceptStep
  <2>5. watch' = watch \cup {AcceptedFd} /\ ready' = ready \ {Lfd}
    BY <1>2 DEF EpollAccept
  <2>6. ASSUME NEW f \in OpenFds', Readable(conn[f])' PROVE f \in edge' \cup ready' \cup {cur'}
    <3>1. CASE f = AcceptedFd
      <4>1. Readable(c)' BY <2>4, <2>6, <3>1 DEF Readable, Unread, Ended
      <4>2. Readable(c) BY <2>4, <4>1, SameReadable
      <4>. QED BY <2>1, <3>1, <4>2
    <3>2. CASE f # AcceptedFd
      <4>1. f \in OpenFds /\ f \in FD /\ conn'[f] = conn[f] BY <2>4, <3>2 DEF OpenFds
      <4>2. PICK d \in Clients : d = conn[f] /\ d = conn'[f]
        BY <4>1 DEF OpenFds, KernelInv, KernelTyped
      <4>3. Readable(d)' BY <2>6, <4>2 DEF Readable, Unread, Ended
      <4>4. Readable(conn[f]) BY <2>4, <4>2, <4>3, SameReadable
      <4>5. f # Lfd BY <4>1, FdNumbers
      <4>. QED BY <2>1, <2>2, <2>5, <4>1, <4>4, <4>5 DEF EtInv
    <3>. QED BY <3>1, <3>2
  <2>7. edge' \subseteq OpenFds' BY <2>1, <2>4 DEF EtInv
  <2>. QED BY <2>2, <2>4, <2>5, <2>6, <2>7 DEF EtInv
<1>3. ASSUME NEW fd \in FD, EtStart(fd) PROVE EtInv'
  <2>1. /\ fd \in ready \ {Lfd} /\ cur' = fd /\ ready' = ready \ {fd} /\ cur = NoFd
        /\ UNCHANGED <<conn, cl, watch, edge>>
    BY <1>3 DEF EtStart, InEpoll, kernelVars
  <2>2. OpenFds' = OpenFds /\ NoFd \notin OpenFds BY <2>1, FdNumbers DEF OpenFds
  <2>3. \A f \in OpenFds : Readable(conn[f])' <=> Readable(conn[f])
    BY <2>1 DEF Readable, Unread, Ended
  <2>. QED BY <2>1, <2>2, <2>3 DEF EtInv
<1>4. ASSUME NEW fd \in FD, EtRead(fd) PROVE EtInv'
  <2>1. Read(fd) /\ fd = cur /\ UNCHANGED <<rigid, watch, edge, cur, ready>>
    BY <1>4 DEF EtRead, AtEt, treeVars, epollUnchanged
  <2>2. conn[fd] # None BY <2>1, FdNumbers DEF EtInv, OpenFds
  <2>3. SameConns /\ Touches(conn[fd]) BY <2>1, <2>2, ReadStep DEF Takes
  <2>4. \A f \in OpenFds : f # fd => (Readable(conn[f])' <=> Readable(conn[f]))
    BY <2>2, <2>3, OtherReadable DEF SameConns
  <2>. QED BY <2>1, <2>3, <2>4 DEF EtInv, SameConns
<1>5. ASSUME NEW fd \in FD, EtAgain(fd) PROVE EtInv'
  <2>1. /\ fd = cur /\ ~ Readable(conn[fd]) /\ cur' = NoFd
        /\ UNCHANGED <<conn, cl, watch, edge, ready>>
    BY <1>5 DEF EtAgain, AtEt, kernelVars
  <2>2. OpenFds' = OpenFds /\ NoFd \notin OpenFds /\ NoFd # Lfd
    BY <2>1, FdNumbers DEF OpenFds
  <2>3. \A f \in OpenFds : Readable(conn[f])' <=> Readable(conn[f])
    BY <2>1 DEF Readable, Unread, Ended
  <2>. QED BY <2>1, <2>2, <2>3 DEF EtInv
<1>6. ASSUME NEW fd \in FD, EtClose(fd) PROVE EtInv'
  <2>1. /\ Close(fd) /\ fd = cur /\ watch' = watch \ {fd} /\ edge' = edge \ {fd}
        /\ cur' = NoFd /\ UNCHANGED <<rigid, ready>> /\ Writing = {}
    BY <1>6 DEF EtClose, AtEt, epollUnchanged
  <2>2. conn[fd] # None BY <2>1, FdNumbers DEF EtInv, OpenFds
  <2>3. /\ Touches(conn[fd]) /\ OpenFds' = OpenFds \ {fd}
        /\ \A f \in FD : f # fd => conn'[f] = conn[f]
    BY <2>1, <2>2, CloseStep
  <2>4. ASSUME NEW f \in OpenFds' PROVE Readable(conn[f])' <=> Readable(conn[f])
    <3>1. f \in OpenFds /\ f # fd /\ conn'[f] = conn[f] BY <2>3 DEF OpenFds
    <3>. QED BY <2>2, <2>3, <3>1, OtherReadable
  <2>5. NoFd \notin OpenFds /\ NoFd # Lfd BY FdNumbers DEF OpenFds
  <2>6. watch' = OpenFds' /\ edge' \subseteq OpenFds' /\ ready' \subseteq OpenFds' \cup {Lfd}
    BY <2>1, <2>3 DEF EtInv
  <2>7. cur' \notin ready' BY <2>1, <2>5 DEF EtInv
  <2>8. ASSUME NEW f \in OpenFds', Readable(conn[f])' PROVE f \in edge' \cup ready' \cup {cur'}
    <3>1. f \in edge \cup ready \cup {cur} /\ f # fd BY <2>3, <2>4, <2>8 DEF EtInv
    <3>. QED BY <2>1, <3>1
  <2>. QED BY <2>1, <2>6, <2>7, <2>8 DEF EtInv
<1>7. ASSUME NEW fd \in FD, EtWrite(fd) PROVE EtInv'
  <2>1. /\ Write(fd) \/ Loses(fd)
        /\ UNCHANGED <<rigid, watch, edge, cur, ready>>
    BY <1>7 DEF EtWrite, Loses, treeVars, epollUnchanged
  <2>2. SameConns /\ conn[fd] \in Clients /\ \E part : Gives(conn[fd], part)
    BY <2>1, WriteStep, LosesStep
  <2>3. \A f \in OpenFds : Readable(conn[f])' <=> Readable(conn[f])
    BY <2>2, GivesReadable
  <2>. QED BY <2>1, <2>2, <2>3 DEF EtInv, SameConns
<1>8. CASE EpollAcceptExits \/ \E fd \in FD : EpollKilled(fd)
  BY <1>8 DEF EpollAcceptExits, AcceptExits, EpollKilled, WriteKilled, Exit
<1>9. \A fd \in FD : ~ EpollRead(fd) /\ ~ EpollClose(fd) /\ ~ EpollWrite(fd)
  BY <1>0 DEF EpollRead, EpollClose, EpollWrite
<1>. QED BY <1>1, <1>2, <1>3, <1>4, <1>5, <1>6, <1>7, <1>8, <1>9 DEF EpollStep
-----------------------------------------------------------------------------
(* Every thread of the thread-per-connection server has a connection, and   *)
(* only a thread writes.                                                    *)
ThreadInv == Writing \subseteq thr /\ thr \subseteq OpenFds

(* The steps of pthread_tcp_server.c, of main and of the threads. *)
LEMMA ThreadKeeps ==
  ASSUME KernelInv, ThreadInv, alive',
         AcceptThread \/ ThreadCreateFails \/ \E fd \in FD : client_fun(fd)
  PROVE  ThreadInv'
<1>1. CASE ThreadAccept \/ ThreadCreateFails
  <2>1. PICK c \in Clients : Accept(c)
    BY <1>1 DEF ThreadAccept, ThreadCreateFails, Backlog
  <2>2. UNCHANGED <<rigid, out, alive, overrun>> /\ thr' \in {thr, thr \cup {AcceptedFd}}
    BY <1>1 DEF ThreadAccept, ThreadCreateFails, threadUnchanged
  <2>3. overrun' \in BOOLEAN BY <2>2 DEF KernelInv, KernelTyped
  <2>4. OpenFds' = OpenFds \cup {AcceptedFd} /\ Writing' = Writing
    BY <2>1, <2>2, <2>3, AcceptStep
  <2>. QED BY <2>2, <2>4 DEF ThreadInv
<1>2. ASSUME NEW fd \in FD, ThreadRead(fd) PROVE ThreadInv'
  <2>1. Read(fd) /\ fd \in thr /\ UNCHANGED <<rigid, thr>>
    BY <1>2 DEF ThreadRead, Reading, threadUnchanged
  <2>2. conn[fd] # None BY <2>1 DEF ThreadInv, OpenFds
  <2>3. SameConns /\ Writing' = Writing \cup {fd} BY <2>1, <2>2, ReadStep
  <2>. QED BY <2>1, <2>3 DEF ThreadInv, SameConns
<1>3. ASSUME NEW fd \in FD, ThreadClose(fd) PROVE ThreadInv'
  <2>1. Close(fd) /\ fd \in thr \ Writing /\ thr' = thr \ {fd} /\ UNCHANGED rigid
    BY <1>3 DEF ThreadClose, Reading, threadUnchanged
  <2>2. conn[fd] # None BY <2>1 DEF ThreadInv, OpenFds
  <2>3. Writing' = Writing /\ OpenFds' = OpenFds \ {fd} BY <2>1, <2>2, CloseStep
  <2>. QED BY <2>1, <2>3 DEF ThreadInv
<1>4. ASSUME NEW fd \in FD, ThreadWrite(fd) PROVE ThreadInv'
  <2>1. Write(fd) /\ UNCHANGED <<rigid, thr>> BY <1>4 DEF ThreadWrite, threadUnchanged
  <2>2. SameConns /\ Writing' = Writing \ {fd} BY <2>1, WriteStep
  <2>. QED BY <2>1, <2>2 DEF ThreadInv, SameConns
<1>5. CASE ThreadAcceptExits \/ \E fd \in FD : ThreadKilled(fd)
  BY <1>5 DEF ThreadAcceptExits, AcceptExits, ThreadKilled, WriteKilled, Exit
<1>. QED BY <1>1, <1>2, <1>3, <1>4, <1>5 DEF AcceptThread, client_fun
-----------------------------------------------------------------------------
(* myevents of reactor_1: a place in use has a descriptor of its own, open, *)
(* and the callback to go with it; what is being written is in a place.     *)
Fds       == FD \cup {Lfd, NoFd}
Events    == {"none", "in", "out"}
Callbacks == {"none", "initAccept", "readData", "senddata"}
Place     == [fd : Fds, events : Events, call_back : Callbacks, buf : Bufs]

WritesPlaces ==
  \A fd \in Writing :
    \E s \in Places : /\ myevents[s].fd = fd /\ myevents[s].call_back = "senddata"
                      /\ out[fd] = myevents[s].buf

XInv ==
  /\ size \in Nat /\ myevents \in [Places -> Place]
  /\ \A s, t \in Places : myevents[s].fd = myevents[t].fd /\ myevents[s].fd # NoFd => s = t
  /\ \A s \in Places :
       /\ myevents[s].fd = NoFd => myevents[s].call_back = "none"
       /\ myevents[s].fd = Lfd => myevents[s].call_back = "initAccept"
       /\ myevents[s].fd \in FD =>
            /\ conn[myevents[s].fd] # None
            /\ myevents[s].call_back \in {"readData", "senddata"}
  /\ WritesPlaces

(* The tree, while the listener has its place: the nodes are the places in  *)
(* use, every connection has one, and what is left of the reports is there  *)
(* for places that nobody is busy with.                                     *)
Used == {s \in Places : myevents[s].fd # NoFd}
NodeOf(s) == Node(myevents[s].fd, s, myevents[s].events)

XTreeInv ==
  /\ watch = {NodeOf(s) : s \in Used}
  /\ \A fd \in OpenFds : \E s \in Used : myevents[s].fd = fd
  /\ myevents[Listener].fd = Lfd /\ myevents[Listener].events = "in"
  /\ \A s \in Used \ {Listener} :
       \/ myevents[s].events = "in" /\ myevents[s].call_back = "readData"
       \/ myevents[s].events = "out" /\ myevents[s].call_back = "senddata"
  /\ ready \subseteq watch
  /\ \A n \in ready : n.place # cur /\ n.fd \notin Writing

(* The fields of a node. *)
LEMMA NodeIs ==
  ASSUME NEW fd, NEW s, NEW events
  PROVE  /\ Node(fd, s, events).fd = fd /\ Node(fd, s, events).place = s
         /\ Node(fd, s, events).events = events
BY DEF Node

(* Nodes of places. *)
LEMMA NodeOfIs ==
  ASSUME NEW s
  PROVE  /\ NodeOf(s).fd = myevents[s].fd /\ NodeOf(s).place = s
         /\ NodeOf(s).events = myevents[s].events
BY NodeIs DEF NodeOf

(* A callback for data is called for an open connection. *)
LEMMA CallsTarget ==
  ASSUME XInv, NEW s \in Places, myevents[s].call_back \in {"readData", "senddata"}
  PROVE  myevents[s].fd \in FD /\ conn[myevents[s].fd] # None
<1>1. myevents[s].fd \in Fds BY DEF XInv, Place
<1>. QED BY <1>1 DEF XInv, Fds

(* The report for which a callback is called is not there any more. *)
LEMMA CallsIs ==
  ASSUME XTreeInv, NEW s \in Places, NEW call_back, Calls(s, call_back)
  PROVE  ready' \subseteq ready /\ \A n \in ready' : n.place # s
<1>1. CASE cur = s /\ UNCHANGED ready BY <1>1 DEF XTreeInv
<1>2. CASE \E n \in ready : n.place = s /\ ready' = ready \ {n}
  <2>1. PICK n \in ready : n.place = s /\ ready' = ready \ {n} BY <1>2
  <2>2. ASSUME NEW m \in ready, m.place = s PROVE m = n
    <3>1. PICK t \in Used : m = NodeOf(t) BY DEF XTreeInv
    <3>2. PICK u \in Used : n = NodeOf(u) BY DEF XTreeInv
    <3>. QED BY <2>1, <2>2, <3>1, <3>2, NodeOfIs
  <2>. QED BY <2>1, <2>2
<1>. QED BY <1>1, <1>2 DEF Calls

(* The step changes one place, which has descriptor fd then. *)
PlaceSet(s, fd, events, call_back) ==
  /\ myevents' \in [Places -> Place] /\ \A t \in Places : t # s => myevents'[t] = myevents[t]
  /\ myevents'[s].fd = fd /\ myevents'[s].events = events
  /\ myevents'[s].call_back = call_back

(* eventset, *)
LEMMA EventSet ==
  ASSUME XInv, NEW s \in Places, NEW fd \in FD, NEW events \in Events,
         NEW call_back \in Callbacks, NEW buf \in Bufs,
         eventset(fd, events, call_back, s, buf)
  PROVE  PlaceSet(s, fd, events, call_back) /\ myevents'[s].buf = buf
<1>1. PICK p : p = [fd |-> fd, events |-> events, call_back |-> call_back, buf |-> buf]
  OBVIOUS
<1>2. p \in Place BY <1>1 DEF Place, Fds
<1>3. myevents' = [myevents EXCEPT ![s] = p] BY <1>1 DEF eventset
<1>4. myevents' \in [Places -> Place] /\ myevents'[s] = p
      /\ \A t \in Places : t # s => myevents'[t] = myevents[t]
  BY <1>2, <1>3 DEF XInv
<1>. QED BY <1>1, <1>4 DEF PlaceSet

(* eventadd, *)
LEMMA EventAdd ==
  ASSUME XInv, NEW s \in Places, NEW fd \in FD, eventadd(fd, "in", "readData", s)
  PROVE  PlaceSet(s, fd, "in", "readData")
<1>1. myevents[s] \in Place /\ myevents \in [Places -> Place] BY DEF XInv
<1>2. "in" \in Events /\ "readData" \in Callbacks /\ fd \in Fds
  BY DEF Events, Callbacks, Fds
<1>3. PICK p : p = [myevents[s] EXCEPT !.fd = fd, !.events = "in", !.call_back = "readData"]
  OBVIOUS
<1>4. p \in Place /\ p.fd = fd /\ p.events = "in" /\ p.call_back = "readData"
  BY <1>1, <1>2, <1>3 DEF Place
<1>5. myevents' = [myevents EXCEPT ![s] = p] BY <1>1, <1>3 DEF eventadd
<1>. QED BY <1>1, <1>4, <1>5 DEF PlaceSet

(* and eventdel do that. *)
LEMMA EventDel ==
  ASSUME XInv, NEW s \in Places, NEW fd, eventdel(s, fd)
  PROVE  PlaceSet(s, NoFd, "none", "none")
<1>1. myevents \in [Places -> Place] BY DEF XInv
<1>2. "none" \in Events /\ "none" \in Callbacks /\ NoFd \in Fds /\ <<>> \in Bufs
  BY DEF Events, Callbacks, Fds, Bufs
<1>3. FreePlace \in Place /\ FreePlace.fd = NoFd /\ FreePlace.events = "none"
      /\ FreePlace.call_back = "none"
  BY <1>2 DEF FreePlace, Place
<1>4. myevents' = [myevents EXCEPT ![s] = FreePlace] BY DEF eventdel
<1>. QED BY <1>1, <1>3, <1>4 DEF PlaceSet

(* The table after one place has changed, *)
LEMMA TableSet ==
  ASSUME XInv, UNCHANGED size, NEW s \in Places, NEW fd \in FD \cup {NoFd},
         NEW events, NEW call_back, PlaceSet(s, fd, events, call_back),
         IF fd = NoFd THEN call_back = "none"
                      ELSE conn'[fd] # None /\ call_back \in {"readData", "senddata"},
         \A t \in Places : t # s /\ fd # NoFd => myevents[t].fd # fd,
         \A t \in Places : t # s /\ myevents[t].fd \in FD => conn'[myevents[t].fd] # None,
         WritesPlaces'
  PROVE  XInv'
<1>1. Places' = Places BY DEF Places
<1>2. \A t, u \in Places :
        myevents'[t].fd = myevents'[u].fd /\ myevents'[t].fd # NoFd => t = u
  BY DEF PlaceSet, XInv
<1>3. fd # Lfd BY FdNumbers
<1>4. ASSUME NEW t \in Places
      PROVE  /\ myevents'[t].fd = NoFd => myevents'[t].call_back = "none"
             /\ myevents'[t].fd = Lfd => myevents'[t].call_back = "initAccept"
             /\ myevents'[t].fd \in FD =>
                  /\ conn'[myevents'[t].fd] # None
                  /\ myevents'[t].call_back \in {"readData", "senddata"}
  <2>1. CASE t = s BY <1>3, <2>1, FdNumbers DEF PlaceSet
  <2>2. CASE t # s BY <2>2 DEF PlaceSet, XInv
  <2>. QED BY <2>1, <2>2
<1>5. myevents' \in [Places -> Place] BY DEF PlaceSet
<1>. QED BY <1>1, <1>2, <1>4, <1>5 DEF XInv

(* and when none has. *)
LEMMA TableKept ==
  ASSUME XInv, UNCHANGED <<size, myevents, conn>>, WritesPlaces'
  PROVE  XInv'
<1>1. Places' = Places BY DEF Places
<1>. QED BY <1>1 DEF XInv

(* The node of a descriptor is the node of its place. *)
LEMMA SameNode ==
  ASSUME XInv, XTreeInv, NEW s \in Places, myevents[s].fd # NoFd
  PROVE  {n \in watch : n.fd # myevents[s].fd} = {n \in watch : n.place # s}
<1>1. ASSUME NEW n \in watch PROVE n.fd = myevents[s].fd <=> n.place = s
  <2>1. PICK t \in Used : n = NodeOf(t) BY DEF XTreeInv
  <2>2. n.fd = myevents[t].fd /\ n.place = t BY <2>1, NodeOfIs
  <2>. QED BY <2>1, <2>2 DEF XInv, Used
<1>. QED BY <1>1

(* The tree after one place has changed that is not the listener's, *)
LEMMA TreeSet ==
  ASSUME XInv, XTreeInv, UNCHANGED size, NEW s \in Places, s # Listener, NEW fd,
         NEW events, NEW call_back, PlaceSet(s, fd, events, call_back),
         \/ fd = NoFd
         \/ events = "in" /\ call_back = "readData"
         \/ events = "out" /\ call_back = "senddata",
         watch' = {n \in watch : n.place # s}
                    \cup (IF fd = NoFd THEN {} ELSE {Node(fd, s, events)}),
         \A f \in OpenFds' : f = fd \/ \E t \in Places : t # s /\ myevents[t].fd = f,
         ready' \subseteq ready,
         \A n \in ready' : n.place # s /\ n.place # cur' /\ n.fd \notin Writing'
  PROVE  XTreeInv'
<1>1. Places' = Places /\ Listener' = Listener /\ Listener \in Places
  BY DEF Places, Listener, XInv
<1>2. /\ \A t \in Places : t # s => myevents'[t] = myevents[t]
      /\ myevents'[s].fd = fd /\ myevents'[s].events = events
      /\ myevents'[s].call_back = call_back
  BY DEF PlaceSet
<1>3. Used' = {t \in Places : myevents'[t].fd # NoFd} BY <1>1 DEF Used
<1>4. \A t \in Places : t # s => NodeOf(t)' = NodeOf(t) /\ (t \in Used' <=> t \in Used)
  BY <1>2, <1>3 DEF NodeOf, Used
<1>5. NodeOf(s)' = Node(fd, s, events) /\ (s \in Used' <=> fd # NoFd)
  BY <1>2, <1>3 DEF NodeOf
<1>6. watch' = {NodeOf(t)' : t \in Used'}
  <2>1. ASSUME NEW n \in watch' PROVE \E t \in Used' : n = NodeOf(t)'
    <3>1. CASE n \in watch /\ n.place # s
      <4>1. PICK t \in Used : n = NodeOf(t) BY <3>1 DEF XTreeInv
      <4>2. t # s /\ t \in Places BY <3>1, <4>1, NodeOfIs DEF Used
      <4>. QED BY <1>4, <4>1, <4>2
    <3>2. CASE fd # NoFd /\ n = Node(fd, s, events) BY <1>5, <3>2
    <3>. QED BY <2>1, <3>1, <3>2
  <2>2. ASSUME NEW t \in Used' PROVE NodeOf(t)' \in watch'
    <3>1. CASE t = s BY <1>5, <2>2, <3>1
    <3>2. CASE t # s
      <4>1. t \in Used /\ NodeOf(t)' = NodeOf(t) BY <1>3, <1>4, <2>2, <3>2
      <4>2. NodeOf(t) \in watch /\ NodeOf(t).place = t BY <4>1, NodeOfIs DEF XTreeInv
      <4>. QED BY <3>2, <4>1, <4>2
    <3>. QED BY <3>1, <3>2
  <2>. QED BY <2>1, <2>2
<1>7. ASSUME NEW f \in OpenFds' PROVE \E t \in Used' : myevents'[t].fd = f
  <2>1. f # NoFd BY FdNumbers DEF OpenFds
  <2>2. CASE f = fd BY <1>2, <1>3, <2>1, <2>2
  <2>3. CASE \E t \in Places : t # s /\ myevents[t].fd = f BY <1>2, <1>3, <2>1, <2>3
  <2>. QED BY <2>2, <2>3
<1>8. myevents'[Listener'].fd = Lfd /\ myevents'[Listener'].events = "in"
  BY <1>1, <1>2 DEF XTreeInv
<1>9. \A t \in Used' \ {Listener'} :
        \/ myevents'[t].events = "in" /\ myevents'[t].call_back = "readData"
        \/ myevents'[t].events = "out" /\ myevents'[t].call_back = "senddata"
  BY <1>1, <1>2, <1>3, <1>4, <1>5 DEF XTreeInv
<1>10. ready' \subseteq watch' BY DEF XTreeInv
<1>. QED BY <1>6, <1>7, <1>8, <1>9, <1>10 DEF XTreeInv

(* and when none has. *)
LEMMA TreeKept ==
  ASSUME XTreeInv, UNCHANGED <<size, myevents, watch>>, OpenFds' = OpenFds,
         ready' \subseteq watch, \A n \in ready' : n.place # cur' /\ n.fd \notin Writing'
  PROVE  XTreeInv'
<1>1. Places' = Places /\ Listener' = Listener BY DEF Places, Listener
<1>2. Used' = Used BY <1>1 DEF Used
<1>3. {NodeOf(s)' : s \in Used} = {NodeOf(s) : s \in Used} BY DEF NodeOf
<1>. QED BY <1>1, <1>2, <1>3 DEF XTreeInv

(* Nothing is written while a callback for data is called, and the place    *)
(* is not the listener's.                                                   *)
LEMMA CallsPlace ==
  ASSUME XInv, XTreeInv, NEW s \in Places, myevents[s].call_back \in {"readData", "senddata"}
  PROVE  s # Listener
<1>1. myevents[s].fd \in FD BY CallsTarget
<1>. QED BY <1>1, FdNumbers DEF XTreeInv

(* initAccept puts the connection in a free place or, without one, in the   *)
(* listener's.                                                              *)
LEMMA AcceptPlaces ==
  ASSUME KernelInv, XInv, NEW s \in Places, initAccept(s)
  PROVE  /\ KernelInv' /\ XInv'
         /\ ~ overrun' /\ XTreeInv => XTreeInv'
         /\ \E i \in Places : PlaceSet(i, AcceptedFd, "in", "readData")
<1>1. PICK c \in Clients : Accept(c) BY DEF initAccept, Backlog
<1>2. PICK i : i = IF FreePlaces = {} THEN Listener ELSE Min(FreePlaces) OBVIOUS
<1>3. /\ Calls(s, "initAccept") /\ eventadd(AcceptedFd, "in", "readData", i)
      /\ overrun' = (overrun \/ i = Listener) /\ UNCHANGED <<rigid, out, alive, cur>>
  BY <1>2 DEF initAccept, xUnchanged
<1>4. overrun' \in BOOLEAN BY <1>3
<1>5. /\ KernelInv' /\ AcceptedFd \in FD /\ AcceptedFd \notin OpenFds
      /\ conn'[AcceptedFd] = c
      /\ \A f \in FD : f # AcceptedFd => conn'[f] = conn[f]
      /\ OpenFds' = OpenFds \cup {AcceptedFd} /\ Writing' = Writing
  BY <1>1, <1>3, <1>4, AcceptStep
<1>6. PICK a \in FD : a = AcceptedFd BY <1>5
<1>7. i \in Places /\ (FreePlaces # {} => i \in FreePlaces)
  <2>1. FreePlaces # {} => Min(FreePlaces) \in FreePlaces
    <3>1. FreePlaces \subseteq Nat BY DEF FreePlaces, Places, XInv
    <3>. QED BY <3>1, MinIs
  <2>2. Listener \in Places BY DEF Listener, Places, XInv
  <2>. QED BY <1>2, <2>1, <2>2 DEF FreePlaces
<1>8. PlaceSet(i, a, "in", "readData") BY <1>3, <1>6, <1>7, EventAdd
<1>9. Writing = {} /\ Writing' = {} BY <1>3, <1>5 DEF Calls
<1>10. WritesPlaces' BY <1>9 DEF WritesPlaces
<1>11. UNCHANGED size BY <1>3 DEF rigid
<1>12. a # NoFd /\ c # None BY FdNumbers, ClientsAssumption
<1>13. \A t \in Places : myevents[t].fd # a
  BY <1>5, <1>6 DEF XInv, OpenFds
<1>14. \A t \in Places : t # i /\ myevents[t].fd \in FD => conn'[myevents[t].fd] # None
  BY <1>5, <1>6, <1>12 DEF XInv
<1>15. conn'[a] # None /\ a \in FD \cup {NoFd} BY <1>5, <1>6, <1>12
<1>16. XInv'
  BY <1>7, <1>8, <1>10, <1>11, <1>12, <1>13, <1>14, <1>15, TableSet
<1>17. ASSUME ~ overrun', XTreeInv PROVE XTreeInv'
  <2>1. i # Listener /\ i \in FreePlaces BY <1>2, <1>3, <1>7, <1>17
  <2>2. myevents[i].fd = NoFd /\ i \notin Used BY <2>1 DEF FreePlaces, Used
  <2>3. \A n \in watch : n.place # i BY <1>17, <2>2, NodeOfIs DEF XTreeInv
  <2>4. watch' = {n \in watch : n.place # i} \cup {Node(a, i, "in")}
    BY <1>3, <1>6, <2>3 DEF eventadd
  <2>5. \A f \in OpenFds' : f = a \/ \E t \in Places : t # i /\ myevents[t].fd = f
    BY <1>5, <1>6, <1>17, <2>2 DEF XTreeInv, Used
  <2>6. ready' \subseteq ready BY <1>3, <1>17, CallsIs
  <2>7. \A n \in ready' : n.place # i /\ n.place # cur' /\ n.fd \notin Writing'
    BY <1>3, <1>9, <1>17, <2>3, <2>6 DEF XTreeInv
  <2>. QED BY <1>7, <1>8, <1>11, <1>12, <1>17, <2>1, <2>4, <2>5, <2>6, <2>7, TreeSet
<1>. QED BY <1>5, <1>6, <1>7, <1>8, <1>16, <1>17

(* readData moves what was sent into the place's buffer. *)
LEMMA ReadPlaces ==
  ASSUME KernelInv, XInv, NEW s \in Places, readData(s)
  PROVE  /\ KernelInv' /\ XInv' /\ (XTreeInv => XTreeInv') /\ SameConns
         /\ myevents[s].fd \in FD /\ conn[myevents[s].fd] \in Clients
         /\ Takes(conn[myevents[s].fd])
         /\ PlaceSet(s, myevents[s].fd, "out", "senddata")
         /\ myevents'[s].buf = Received(conn[myevents[s].fd])
<1>1. Calls(s, "readData") /\ myevents[s].call_back = "readData" BY DEF readData, Calls
<1>2. PICK fd \in FD : fd = myevents[s].fd /\ conn[fd] # None BY <1>1, CallsTarget
<1>3. PICK c \in Clients : c = conn[fd] BY <1>2 DEF KernelInv, KernelTyped
<1>4. /\ Unread(c) /\ cl' = [cl EXCEPT ![c].read = @ + Len(Received(c))]
      /\ eventset(fd, "out", "senddata", s, Received(c)) /\ cur' = NoFd
      /\ UNCHANGED <<rigid, conn, out, alive, overrun>>
  BY <1>2, <1>3 DEF readData, xUnchanged
<1>5. Takes(c) /\ Received(c) \in Bufs BY <1>4, TakeStep, ReceivedIs
<1>6. "out" \in Events /\ "senddata" \in Callbacks BY DEF Events, Callbacks
<1>7. PlaceSet(s, fd, "out", "senddata") /\ myevents'[s].buf = Received(c)
  BY <1>4, <1>5, <1>6, EventSet
<1>8. Writing = {} /\ Writing' = {} BY <1>1, <1>4 DEF Calls, Writing
<1>9. WritesPlaces' BY <1>8 DEF WritesPlaces
<1>10. UNCHANGED size BY <1>4 DEF rigid
<1>11. fd # NoFd /\ fd \in FD \cup {NoFd} /\ conn'[fd] # None BY <1>2, <1>4, FdNumbers
<1>12. \A t \in Places : t # s => myevents[t].fd # fd BY <1>2, <1>11 DEF XInv
<1>13. \A t \in Places : t # s /\ myevents[t].fd \in FD => conn'[myevents[t].fd] # None
  BY <1>4 DEF XInv
<1>14. XInv' BY <1>7, <1>9, <1>10, <1>11, <1>12, <1>13, TableSet
<1>15. KernelInv' /\ SameConns
  <2>1. cl[c].st = "up" BY <1>2, <1>3 DEF KernelInv, ConnInv
  <2>2. /\ cl'[c].read <= cl'[c].sent /\ cl'[c].st = cl[c].st /\ Touches(c)
        /\ cl'[c].err => cl'[c].rst
    <3>1. cl[c].sent \in Nat /\ cl[c].read \in Nat BY DEF KernelInv, KernelTyped, Peer
    <3>. QED BY <1>5, <3>1 DEF Takes, KernelInv, PeerInv
  <2>3. overrun' \in BOOLEAN /\ out' \in [FD -> Bufs] /\ Writing' \subseteq OpenFds
    BY <1>4, <1>8 DEF KernelInv, KernelTyped
  <2>. QED BY <1>4, <2>1, <2>2, <2>3, SameConnsStep
<1>16. ASSUME XTreeInv PROVE XTreeInv'
  <2>1. s # Listener BY <1>1, <1>16, CallsPlace
  <2>2. watch' = {n \in watch : n.place # s} \cup {Node(fd, s, "out")}
    <3>1. {n \in watch : n.fd # fd} = {n \in watch : n.place # s}
      BY <1>2, <1>11, <1>16, SameNode
    <3>. QED BY <1>4, <3>1 DEF eventset
  <2>3. \A f \in OpenFds' : f = fd \/ \E t \in Places : t # s /\ myevents[t].fd = f
    BY <1>2, <1>15, <1>16 DEF XTreeInv, Used, SameConns
  <2>4. ready' \subseteq ready /\ \A n \in ready' : n.place # s BY <1>1, <1>16, CallsIs
  <2>5. \A n \in ready' : n.place # cur'
    <3>1. ASSUME NEW n \in ready' PROVE n.place \in Places
      <4>1. PICK t \in Used : n = NodeOf(t) BY <1>16, <2>4 DEF XTreeInv
      <4>. QED BY <4>1, NodeOfIs DEF Used
    <3>2. NoFd \notin Places BY DEF Places, NoFd, XInv
    <3>. QED BY <1>4, <3>1, <3>2
  <2>. QED BY <1>7, <1>8, <1>10, <1>11, <1>16, <2>1, <2>2, <2>3, <2>4, <2>5, TreeSet
<1>. QED BY <1>2, <1>3, <1>5, <1>7, <1>14, <1>15, <1>16

(* A place is not NoFd, so a node is never at `cur' when nobody is busy. *)
LEMMA NobodyBusy ==
  ASSUME XInv, XTreeInv, NEW n \in ready
  PROVE  n.place \in Places /\ n.place # NoFd
<1>1. PICK t \in Used : n = NodeOf(t) BY DEF XTreeInv
<1>2. NoFd \notin Places BY DEF Places, NoFd, XInv
<1>. QED BY <1>1, <1>2, NodeOfIs DEF Used

(* XClose frees the place and closes the descriptor. *)
LEMMA ClosePlaces ==
  ASSUME KernelInv, XInv, NEW s \in Places, XClose(s)
  PROVE  /\ KernelInv' /\ XInv' /\ (XTreeInv => XTreeInv')
         /\ myevents[s].fd \in OpenFds /\ Writing = {} /\ Close(myevents[s].fd)
         /\ PlaceSet(s, NoFd, "none", "none")
<1>1. Calls(s, "readData") /\ myevents[s].call_back = "readData" BY DEF XClose, Calls
<1>2. PICK fd \in FD : fd = myevents[s].fd /\ conn[fd] # None BY <1>1, CallsTarget
<1>3. Close(fd) /\ eventdel(s, fd) /\ cur' = NoFd /\ UNCHANGED rigid
  BY <1>2 DEF XClose, xUnchanged
<1>4. PlaceSet(s, NoFd, "none", "none") BY <1>3, EventDel
<1>5. Writing = {} BY <1>1 DEF Calls
<1>6. /\ KernelInv' /\ Writing' = Writing /\ OpenFds' = OpenFds \ {fd}
      /\ \A f \in FD : f # fd => conn'[f] = conn[f]
  BY <1>2, <1>3, <1>5, CloseStep
<1>7. WritesPlaces' BY <1>5, <1>6 DEF WritesPlaces
<1>8. UNCHANGED size BY <1>3 DEF rigid
<1>9. fd # NoFd BY FdNumbers
<1>10. \A t \in Places : t # s => myevents[t].fd # fd BY <1>2, <1>9 DEF XInv
<1>11. \A t \in Places : t # s /\ myevents[t].fd \in FD => conn'[myevents[t].fd] # None
  BY <1>6, <1>10 DEF XInv
<1>12. XInv' BY <1>4, <1>7, <1>8, <1>11, TableSet
<1>13. ASSUME XTreeInv PROVE XTreeInv'
  <2>1. s # Listener BY <1>1, <1>13, CallsPlace
  <2>2. watch' = {n \in watch : n.place # s}
    <3>1. {n \in watch : n.fd # fd} = {n \in watch : n.place # s}
      BY <1>2, <1>9, <1>13, SameNode
    <3>. QED BY <1>3, <3>1 DEF eventdel
  <2>3. \A f \in OpenFds' : \E t \in Places : t # s /\ myevents[t].fd = f
    BY <1>2, <1>6, <1>13 DEF XTreeInv, Used
  <2>4. ready' \subseteq ready /\ \A n \in ready' : n.place # s BY <1>1, <1>13, CallsIs
  <2>5. \A n \in ready' : n.place # cur' BY <1>3, <1>13, <2>4, NobodyBusy
  <2>. QED BY <1>4, <1>5, <1>6, <1>8, <1>13, <2>1, <2>2, <2>3, <2>4, <2>5, TreeSet
<1>. QED BY <1>2, <1>3, <1>4, <1>5, <1>6, <1>12, <1>13 DEF OpenFds

(* senddata begins to write the buffer, *)
LEMMA SendPlaces ==
  ASSUME KernelInv, XInv, NEW s \in Places, senddata(s)
  PROVE  KernelInv' /\ XInv' /\ (XTreeInv => XTreeInv') /\ SameConns
<1>1. Calls(s, "senddata") /\ myevents[s].call_back = "senddata" BY DEF senddata, Calls
<1>2. PICK fd \in FD : fd = myevents[s].fd /\ conn[fd] # None BY <1>1, CallsTarget
<1>3. /\ out' = [out EXCEPT ![fd] = myevents[s].buf]
      /\ UNCHANGED <<rigid, conn, cl, alive, overrun, watch, cur, myevents>>
  BY <1>2 DEF senddata, xUnchanged
<1>4. myevents[s].buf \in Bufs BY DEF XInv, Place
<1>5. /\ out' \in [FD -> Bufs] /\ out'[fd] = myevents[s].buf
      /\ \A f \in FD : f # fd => out'[f] = out[f]
  BY <1>3, <1>4 DEF KernelInv, KernelTyped
<1>6. Writing = {} /\ Writing' \subseteq {fd}
  <2>1. Writing = {} BY <1>1 DEF Calls
  <2>. QED BY <1>5, <2>1 DEF Writing
<1>7. OpenFds' = OpenFds /\ fd \in OpenFds BY <1>2, <1>3 DEF OpenFds
<1>8. KernelInv'
  <2>1. KernelTyped' BY <1>3, <1>5 DEF KernelInv, KernelTyped, rigid
  <2>2. ConnInv' BY <1>3, <1>6, <1>7 DEF KernelInv, ConnInv
  <2>3. PeerInv' BY <1>3 DEF KernelInv, PeerInv
  <2>. QED BY <2>1, <2>2, <2>3 DEF KernelInv
<1>9. UNCHANGED size BY <1>3 DEF rigid
<1>10. WritesPlaces' BY <1>1, <1>2, <1>3, <1>5, <1>6, <1>9 DEF WritesPlaces, Places
<1>11. XInv' BY <1>3, <1>9, <1>10, TableKept
<1>12. ASSUME XTreeInv PROVE XTreeInv'
  <2>1. ready' \subseteq ready /\ \A n \in ready' : n.place # s BY <1>1, <1>12, CallsIs
  <2>2. ASSUME NEW n \in ready' PROVE n.place # cur' /\ n.fd \notin Writing'
    <3>1. PICK t \in Used : n = NodeOf(t) BY <1>12, <2>1 DEF XTreeInv
    <3>2. t # s /\ n.fd = myevents[t].fd BY <2>1, <3>1, NodeOfIs
    <3>3. n.fd # fd BY <1>2, <3>1, <3>2 DEF XInv, Used
    <3>4. n.place # cur BY <1>12, <2>1 DEF XTreeInv
    <3>. QED BY <1>3, <1>6, <3>3, <3>4
  <2>3. ready' \subseteq watch BY <1>12, <2>1 DEF XTreeInv
  <2>. QED BY <1>3, <1>7, <1>9, <1>12, <2>2, <2>3, TreeKept
<1>. QED BY <1>3, <1>7, <1>8, <1>11, <1>12 DEF SameConns

(* and when everything is written, the place waits for data again. *)
LEMMA WritePlaces ==
  ASSUME KernelInv, XInv, NEW s \in Places, XWrite(s)
  PROVE  /\ KernelInv' /\ XInv' /\ (XTreeInv => XTreeInv') /\ SameConns
         /\ myevents[s].fd \in FD /\ Write(myevents[s].fd)
         /\ conn[myevents[s].fd] \in Clients
         /\ myevents[s].call_back = "senddata" /\ out[myevents[s].fd] = myevents[s].buf
         /\ Gives(conn[myevents[s].fd], out[myevents[s].fd])
         /\ PlaceSet(s, myevents[s].fd, "in", "readData")
<1>1. PICK fd \in FD : fd = myevents[s].fd /\ fd \in Writing BY DEF XWrite, Writing
<1>2. /\ Write(fd) /\ eventset(fd, "in", "readData", s, myevents[s].buf)
      /\ UNCHANGED <<rigid, cur, ready>>
  BY <1>1 DEF XWrite, xUnchanged
<1>3. /\ KernelInv' /\ SameConns /\ conn[fd] \in Clients /\ Gives(conn[fd], out[fd])
      /\ \A f \in FD : f # fd => out'[f] = out[f]
      /\ Writing' = Writing \ {fd}
  BY <1>2, WriteStep
<1>4. myevents[s].buf \in Bufs BY DEF XInv, Place
<1>5. "in" \in Events /\ "readData" \in Callbacks BY DEF Events, Callbacks
<1>6. PlaceSet(s, fd, "in", "readData") BY <1>2, <1>4, <1>5, EventSet
<1>7. fd # NoFd /\ fd \in FD \cup {NoFd} BY FdNumbers
<1>8. \A t \in Places : t # s => myevents[t].fd # fd BY <1>1, <1>7 DEF XInv
<1>9. myevents[s].call_back = "senddata" /\ out[fd] = myevents[s].buf
  <2>1. PICK t \in Places : /\ myevents[t].fd = fd /\ myevents[t].call_back = "senddata"
                            /\ out[fd] = myevents[t].buf
    BY <1>1 DEF XInv, WritesPlaces
  <2>. QED BY <1>8, <2>1
<1>10. UNCHANGED size BY <1>2 DEF rigid
<1>11. WritesPlaces'
  <2>1. ASSUME NEW f \in Writing'
        PROVE  \E t \in Places : /\ myevents'[t].fd = f /\ myevents'[t].call_back = "senddata"
                                 /\ out'[f] = myevents'[t].buf
    <3>1. f \in Writing /\ f # fd /\ f \in FD BY <1>3 DEF Writing
    <3>2. PICK t \in Places : /\ myevents[t].fd = f /\ myevents[t].call_back = "senddata"
                              /\ out[f] = myevents[t].buf
      BY <3>1 DEF XInv, WritesPlaces
    <3>3. t # s /\ myevents'[t] = myevents[t] BY <1>1, <1>6, <3>1, <3>2 DEF PlaceSet
    <3>. QED BY <1>3, <3>1, <3>2, <3>3
  <2>2. Places' = Places BY <1>10 DEF Places
  <2>. QED BY <2>1, <2>2 DEF WritesPlaces
<1>12. conn'[fd] # None BY <1>3, ClientsAssumption DEF SameConns
<1>13. \A t \in Places : t # s /\ myevents[t].fd \in FD => conn'[myevents[t].fd] # None
  BY <1>3 DEF XInv, SameConns
<1>14. XInv' BY <1>6, <1>7, <1>8, <1>10, <1>11, <1>12, <1>13, TableSet
<1>15. ASSUME XTreeInv PROVE XTreeInv'
  <2>1. s # Listener BY <1>9, <1>15, CallsPlace
  <2>2. watch' = {n \in watch : n.place # s} \cup {Node(fd, s, "in")}
    <3>1. {n \in watch : n.fd # fd} = {n \in watch : n.place # s}
      BY <1>1, <1>7, <1>15, SameNode
    <3>. QED BY <1>2, <3>1 DEF eventset
  <2>3. \A f \in OpenFds' : f = fd \/ \E t \in Places : t # s /\ myevents[t].fd = f
    BY <1>1, <1>3, <1>15 DEF XTreeInv, Used, SameConns
  <2>4. ASSUME NEW n \in ready' PROVE n.place # s /\ n.place # cur' /\ n.fd \notin Writing'
    <3>1. PICK t \in Used : n = NodeOf(t) BY <1>2, <1>15 DEF XTreeInv
    <3>2. n.fd \notin Writing /\ n.place # cur BY <1>2, <1>15 DEF XTreeInv
    <3>3. t # s BY <1>1, <3>1, <3>2, NodeOfIs
    <3>. QED BY <1>2, <1>3, <3>1, <3>2, <3>3, NodeOfIs
  <2>. QED BY <1>2, <1>6, <1>7, <1>10, <1>15, <2>1, <2>2, <2>3, <2>4, TreeSet
<1>. QED BY <1>1, <1>2, <1>3, <1>6, <1>9, <1>14, <1>15

(* XReadFails leaves the place as it is. *)
LEMMA FailPlaces ==
  ASSUME KernelInv, XInv, NEW s \in Places, XReadFails(s)
  PROVE  /\ KernelInv' /\ XInv' /\ (XTreeInv => XTreeInv') /\ SameConns
         /\ myevents[s].fd \in OpenFds /\ ReadFails(myevents[s].fd)
         /\ UNCHANGED <<rigid, myevents>>
<1>1. Calls(s, "readData") /\ myevents[s].call_back = "readData" BY DEF XReadFails, Calls
<1>2. PICK fd \in FD : fd = myevents[s].fd /\ conn[fd] # None BY <1>1, CallsTarget
<1>3. ReadFails(fd) /\ cur' = NoFd /\ UNCHANGED <<rigid, watch, myevents>>
  BY <1>2 DEF XReadFails, xUnchanged
<1>4. KernelInv' /\ SameConns /\ UNCHANGED out BY <1>2, <1>3, ReadFailsStep
<1>5. UNCHANGED size BY <1>3 DEF rigid
<1>6. Writing' = Writing BY <1>4 DEF Writing
<1>7. WritesPlaces' BY <1>3, <1>4, <1>5, <1>6 DEF XInv, WritesPlaces, Places
<1>8. XInv' BY <1>3, <1>4, <1>5, <1>7, TableKept DEF SameConns
<1>9. ASSUME XTreeInv PROVE XTreeInv'
  <2>1. ready' \subseteq ready BY <1>1, <1>9, CallsIs
  <2>2. \A n \in ready' : n.place # cur' /\ n.fd \notin Writing'
    BY <1>3, <1>6, <1>9, <2>1, NobodyBusy DEF XTreeInv
  <2>3. ready' \subseteq watch BY <1>9, <2>1 DEF XTreeInv
  <2>. QED BY <1>3, <1>4, <1>5, <1>9, <2>2, <2>3, TreeKept DEF SameConns
<1>. QED BY <1>2, <1>3, <1>4, <1>8, <1>9 DEF OpenFds

(* The steps of reactor_1 that touch neither the kernel nor the table. *)
LEMMA IdlePlaces ==
  ASSUME XInv, XWait \/ XSkip \/ \E s \in Places : XReadWaits(s)
  PROVE  XInv' /\ (XTreeInv => XTreeInv') /\ UNCHANGED <<rigid, kernelVars, myevents>>
<1>1. UNCHANGED <<rigid, kernelVars, watch, myevents>>
  BY DEF XWait, XSkip, XReadWaits, xUnchanged
<1>2. UNCHANGED <<size, conn, out>> BY <1>1 DEF rigid, kernelVars
<1>3. Writing' = Writing /\ OpenFds' = OpenFds BY <1>2 DEF Writing, OpenFds
<1>4. WritesPlaces' BY <1>1, <1>2, <1>3 DEF XInv, WritesPlaces, Places
<1>5. XInv' BY <1>1, <1>2, <1>4, TableKept
<1>6. ASSUME XTreeInv PROVE XTreeInv'
  <2>1. ready' \subseteq watch /\ \A n \in ready' : n.place # cur' /\ n.fd \notin Writing'
    <3>1. CASE XWait
      <4>1. ready' \subseteq watch /\ cur' = NoFd /\ Writing = {}
        BY <3>1 DEF XWait, InLoop
      <4>2. ASSUME NEW n \in ready' PROVE n.place # NoFd
        <5>1. PICK t \in Used : n = NodeOf(t) BY <1>6, <4>1 DEF XTreeInv
        <5>2. NoFd \notin Places BY DEF Places, NoFd, XInv
        <5>. QED BY <5>1, <5>2, NodeOfIs DEF Used
      <4>. QED BY <1>3, <4>1, <4>2
    <3>2. CASE XSkip
      <4>1. ready' \subseteq ready /\ UNCHANGED cur BY <3>2 DEF XSkip
      <4>. QED BY <1>3, <1>6, <4>1 DEF XTreeInv
    <3>3. ASSUME NEW s \in Places, XReadWaits(s)
          PROVE  ready' \subseteq watch
                 /\ \A n \in ready' : n.place # cur' /\ n.fd \notin Writing'
      <4>1. Calls(s, "readData") /\ cur' = s BY <3>3 DEF XReadWaits
      <4>2. ready' \subseteq ready /\ \A n \in ready' : n.place # s
        BY <1>6, <4>1, CallsIs
      <4>. QED BY <1>3, <1>6, <4>1, <4>2 DEF XTreeInv
    <3>. QED BY <3>1, <3>2, <3>3
  <2>. QED BY <1>1, <1>2, <1>3, <1>6, <2>1, TreeKept
<1>. QED BY <1>1, <1>5, <1>6

(* The steps of reactor_1. *)
LEMMA XKeeps ==
  ASSUME KernelInv, XInv, XStep, alive'
  PROVE  KernelInv' /\ XInv' /\ (~ overrun' /\ XTreeInv => XTreeInv')
<1>1. CASE XWait \/ XSkip \/ \E s \in Places : XReadWaits(s)
  <2>1. XInv' /\ (XTreeInv => XTreeInv') /\ UNCHANGED <<rigid, kernelVars>>
    BY <1>1, IdlePlaces
  <2>2. KernelInv'
    BY <2>1 DEF rigid, kernelVars, KernelInv, KernelTyped, ConnInv, PeerInv, Writing, OpenFds
  <2>. QED BY <2>1, <2>2
<1>2. ASSUME NEW s \in Places,
             \/ initAccept(s) \/ readData(s) \/ XReadFails(s) \/ XClose(s)
             \/ senddata(s) \/ XWrite(s)
      PROVE  KernelInv' /\ XInv' /\ (~ overrun' /\ XTreeInv => XTreeInv')
  BY <1>2, AcceptPlaces, ReadPlaces, FailPlaces, ClosePlaces, SendPlaces, WritePlaces
<1>3. CASE (\E s \in Places : XAcceptExits(s)) \/ \E fd \in FD : XKilled(fd)
  BY <1>3 DEF XAcceptExits, AcceptExits, XKilled, WriteKilled, Exit
<1>. QED BY <1>1, <1>2, <1>3 DEF XStep
-----------------------------------------------------------------------------
(* What holds of each server, while it runs. *)
ServerInv ==
  alive =>
    /\ server \in {"select", "poll"} => TableInv
    /\ server = "select" /\ ~ overrun => SelectInv
    /\ server = "poll" => PollInv
    /\ server = "epoll" => EpollInv
    /\ server = "epoll_et" => EtInv
    /\ server = "reactor_1" => XInv
    /\ server = "reactor_1" /\ ~ overrun => XTreeInv
    /\ server = "pthread" => ThreadInv

EchoServersInv == KernelInv /\ ServerInv

(* What the servers other than reactor_1 do to the kernel in a step. *)
PlainOp ==
  /\ UNCHANGED rigid
  /\ \/ /\ \E c \in Clients : Accept(c)
        /\ overrun' \in BOOLEAN /\ UNCHANGED <<out, alive>>
     \/ \E fd \in OpenFds \ Writing : Read(fd) \/ ReadFails(fd)
     \/ \E fd \in OpenFds \ Writing : Close(fd) /\ (ReadsEof(conn[fd]) \/ ReadsErr(conn[fd]))
     \/ \E fd \in FD : Write(fd)
     \/ server = "epoll_et" /\ \E fd \in FD : Loses(fd)
     \/ UNCHANGED kernelVars
     \/ Exit

(* The loop of a server, or its threads. *)
Works ==
  \/ Loop \/ SelectFails \/ EpollFails \/ XWaitFails
  \/ AcceptThread \/ ThreadCreateFails \/ \E fd \in FD : client_fun(fd)

(* The steps of select_advance.c as operations on the kernel, *)
LEMMA SelectOps ==
  ASSUME KernelInv, TableInv, SelectStep PROVE PlainOp
<1>0. Exit => PlainOp BY DEF Exit, PlainOp
<1>1. CASE Select BY <1>1 DEF Select, PlainOp, selectUnchanged
<1>2. CASE SelectAccept
  <2>1. /\ \E c \in Clients : Accept(c)
        /\ overrun' \in BOOLEAN /\ UNCHANGED <<out, alive, rigid>>
    BY <1>2 DEF SelectAccept, selectUnchanged, Backlog
  <2>. QED BY <2>1 DEF PlainOp
<1>3. ASSUME NEW i \in Slots, SelectRead(i) PROVE PlainOp
  <2>1. client[i] \in OpenFds \ Writing
    BY <1>3, ReportedIs DEF SelectRead, SelectAt, InPass
  <2>. QED BY <1>3, <2>1 DEF SelectRead, selectUnchanged, PlainOp
<1>4. ASSUME NEW i \in Slots, SelectClose(i) PROVE PlainOp
  <2>1. client[i] \in OpenFds \ Writing
    BY <1>4, ReportedIs DEF SelectClose, SelectAt, InPass
  <2>. QED BY <1>4, <2>1 DEF SelectClose, selectUnchanged, PlainOp
<1>5. ASSUME NEW fd \in FD, SelectWrite(fd) PROVE PlainOp
  BY <1>5 DEF SelectWrite, selectUnchanged, PlainOp
<1>6. CASE SelectAborts \/ SelectAcceptExits
           \/ \E fd \in FD : SelectKilled(fd)
  BY <1>0, <1>6 DEF SelectAborts, SelectAcceptExits, AcceptExits,
                    SelectKilled, WriteKilled
<1>. QED BY <1>1, <1>2, <1>3, <1>4, <1>5, <1>6 DEF SelectStep

(* those of poll.c, *)
LEMMA PollOps ==
  ASSUME KernelInv, TableInv, PollStep PROVE PlainOp
<1>0. Exit => PlainOp BY DEF Exit, PlainOp
<1>1. CASE Poll BY <1>1 DEF Poll, PlainOp, pollUnchanged
<1>2. CASE PollAccept
  <2>1. (\E c \in Clients : Accept(c)) /\ UNCHANGED <<out, alive, overrun, rigid>>
    BY <1>2 DEF PollAccept, pollUnchanged, Backlog
  <2>. QED BY <2>1 DEF PlainOp, KernelInv, KernelTyped
<1>3. ASSUME NEW i \in Slots, PollRead(i) PROVE PlainOp
  <2>1. client[i] \in OpenFds \ Writing
    BY <1>3, ReportedIs DEF PollRead, PollAt, InPollPass
  <2>. QED BY <1>3, <2>1 DEF PollRead, pollUnchanged, PlainOp
<1>4. ASSUME NEW i \in Slots, PollClose(i) PROVE PlainOp
  <2>1. client[i] \in OpenFds \ Writing
    BY <1>4, ReportedIs DEF PollClose, PollAt, InPollPass
  <2>. QED BY <1>4, <2>1 DEF PollClose, pollUnchanged, PlainOp
<1>5. ASSUME NEW fd \in FD, PollWrite(fd) PROVE PlainOp
  BY <1>5 DEF PollWrite, PlainOp
<1>6. CASE PollTooMany \/ PollAcceptExits \/ (\E i \in Slots : PollReadExits(i))
           \/ \E fd \in FD : PollKilled(fd)
  BY <1>0, <1>6 DEF PollTooMany, PollAcceptExits, AcceptExits, PollReadExits,
                    PollKilled, WriteKilled
<1>. QED BY <1>1, <1>2, <1>3, <1>4, <1>5, <1>6 DEF PollStep

(* those of epoll.c and epoll_et.c, *)
LEMMA EpollOps ==
  ASSUME KernelInv, server \in {"epoll", "epoll_et"}, EpollStep,
         server = "epoll" => EpollInv, server = "epoll_et" => EtInv
  PROVE  PlainOp
<1>0. Exit => PlainOp BY DEF Exit, PlainOp
<1>1. CASE Epoll BY <1>1 DEF Epoll, PlainOp, epollUnchanged
<1>2. CASE EpollAccept
  <2>1. (\E c \in Clients : Accept(c)) /\ UNCHANGED <<out, alive, overrun, rigid>>
    BY <1>2 DEF EpollAccept, epollUnchanged, Backlog
  <2>. QED BY <2>1 DEF PlainOp, KernelInv, KernelTyped
<1>3. ASSUME NEW fd \in FD, EpollRead(fd) \/ EtRead(fd) PROVE PlainOp
  <2>1. fd \in OpenFds \ Writing
    BY <1>3, FdNumbers DEF EpollRead, EtRead, AtEt, InEpoll, IsEt, EpollInv, EtInv
  <2>. QED BY <1>3, <2>1 DEF EpollRead, EtRead, epollUnchanged, PlainOp
<1>4. ASSUME NEW fd \in FD, EpollClose(fd) \/ EtClose(fd) PROVE PlainOp
  <2>1. fd \in OpenFds \ Writing
    BY <1>4, FdNumbers DEF EpollClose, EtClose, AtEt, InEpoll, IsEt, EpollInv, EtInv
  <2>. QED BY <1>4, <2>1 DEF EpollClose, EtClose, epollUnchanged, PlainOp
<1>5. ASSUME NEW fd \in FD, EpollWrite(fd) \/ EtWrite(fd) PROVE PlainOp
  BY <1>5 DEF EpollWrite, EtWrite, Loses, IsEt, epollUnchanged, PlainOp
<1>6. ASSUME NEW fd \in FD, EtStart(fd) \/ EtAgain(fd) PROVE PlainOp
  BY <1>6 DEF EtStart, EtAgain, epollUnchanged, PlainOp
<1>7. CASE EpollAcceptExits \/ \E fd \in FD : EpollKilled(fd)
  BY <1>0, <1>7 DEF EpollAcceptExits, AcceptExits, EpollKilled, WriteKilled
<1>. QED BY <1>1, <1>2, <1>3, <1>4, <1>5, <1>6, <1>7 DEF EpollStep

(* and those of pthread_tcp_server.c. *)
LEMMA ThreadOps ==
  ASSUME KernelInv, ThreadInv,
         AcceptThread \/ ThreadCreateFails \/ \E fd \in FD : client_fun(fd)
  PROVE  PlainOp
<1>0. Exit => PlainOp BY DEF Exit, PlainOp
<1>1. CASE ThreadAccept \/ ThreadCreateFails
  <2>1. (\E c \in Clients : Accept(c)) /\ UNCHANGED <<out, alive, overrun, rigid>>
    BY <1>1 DEF ThreadAccept, ThreadCreateFails, threadUnchanged, Backlog
  <2>. QED BY <2>1 DEF PlainOp, KernelInv, KernelTyped
<1>2. ASSUME NEW fd \in FD, ThreadRead(fd) \/ ThreadClose(fd) PROVE PlainOp
  <2>1. fd \in OpenFds \ Writing BY <1>2 DEF ThreadRead, ThreadClose, Reading, ThreadInv
  <2>. QED BY <1>2, <2>1 DEF ThreadRead, ThreadClose, threadUnchanged, PlainOp
<1>3. ASSUME NEW fd \in FD, ThreadWrite(fd) PROVE PlainOp
  BY <1>3 DEF ThreadWrite, threadUnchanged, PlainOp
<1>4. CASE ThreadAcceptExits \/ \E fd \in FD : ThreadKilled(fd)
  BY <1>0, <1>4 DEF ThreadAcceptExits, AcceptExits, ThreadKilled, WriteKilled
<1>. QED BY <1>1, <1>2, <1>3, <1>4 DEF AcceptThread, client_fun

(* The kernel after any of these operations. *)
LEMMA PlainStep == ASSUME KernelInv, PlainOp PROVE KernelInv'
<1>1. UNCHANGED rigid BY DEF PlainOp
<1>2. ASSUME NEW c \in Clients, Accept(c), overrun' \in BOOLEAN, UNCHANGED <<out, alive>>
      PROVE  KernelInv'
  BY <1>1, <1>2, AcceptStep
<1>3. ASSUME NEW fd \in OpenFds \ Writing, Read(fd) \/ ReadFails(fd) PROVE KernelInv'
  <2>1. fd \in FD /\ conn[fd] # None BY DEF OpenFds
  <2>. QED BY <1>1, <1>3, <2>1, ReadStep, ReadFailsStep
<1>4. ASSUME NEW fd \in OpenFds \ Writing, Close(fd) PROVE KernelInv'
  <2>1. fd \in FD /\ conn[fd] # None BY DEF OpenFds
  <2>. QED BY <1>1, <1>4, <2>1, CloseStep
<1>5. ASSUME NEW fd \in FD, Write(fd) PROVE KernelInv' BY <1>1, <1>5, WriteStep
<1>6. ASSUME NEW fd \in FD, Loses(fd) PROVE KernelInv' BY <1>1, <1>6, LosesStep
<1>7. CASE UNCHANGED kernelVars
  BY <1>1, <1>7 DEF rigid, kernelVars, KernelInv, KernelTyped, ConnInv, PeerInv, Writing,
                    OpenFds
<1>8. CASE Exit BY <1>8, ExitStep
<1>. QED BY <1>2, <1>3, <1>4, <1>5, <1>6, <1>7, <1>8 DEF PlainOp

(* Each step is one of the server that runs: select takes its own, while    *)
(* its behaviour is defined,                                                *)
LEMMA SelectRuns ==
  ASSUME SelectStep \/ SelectFails PROVE server = "select" /\ alive /\ ~ overrun
BY DEF Defined, SelectStep, SelectFails, AtSelect, Select, SelectAccept, SelectAborts,
       SelectAcceptExits, SelectRead, SelectClose, SelectAt, InPass, SelectWrite, SelectKilled

(* poll its own, *)
LEMMA PollRuns ==
  ASSUME PollStep PROVE server = "poll" /\ alive
BY DEF PollStep, Poll, InPoll, PollAccept, PollTooMany, PollAcceptExits, PollRead, PollClose,
       PollReadExits, PollAt, InPollPass, PollWrite, PollKilled

(* epoll its own in either mode, *)
LEMMA EpollRuns ==
  ASSUME EpollStep \/ EpollFails PROVE server \in {"epoll", "epoll_et"} /\ alive
BY DEF EpollStep, EpollFails, InEpoll, Epoll, EpollAccept, EpollAcceptExits, EpollRead,
       EpollClose, EpollWrite, EpollKilled, EtStart, EtRead, EtAgain, EtClose, EtWrite, AtEt,
       IsEt

(* the threads theirs, *)
LEMMA ThreadRuns ==
  ASSUME AcceptThread \/ ThreadCreateFails \/ \E fd \in FD : client_fun(fd)
  PROVE  server = "pthread" /\ alive
BY DEF AcceptThread, ThreadAccept, ThreadAcceptExits, ThreadCreateFails, client_fun,
       ThreadRead, ThreadClose, ThreadWrite, ThreadKilled, Reading, IsThreads

(* and reactor_1 its own; they end the process, or go on with XStep. *)
LEMMA XRuns ==
  ASSUME XStep \/ XWaitFails
  PROVE  /\ server = "reactor_1" /\ alive /\ UNCHANGED rigid
         /\ Exit \/ (XStep /\ alive')
         /\ overrun => overrun'
<1>1. CASE XWait \/ XSkip
  BY <1>1 DEF XWait, XSkip, InLoop, kernelVars, xUnchanged, XStep
<1>2. ASSUME NEW s \in Places, XReadWaits(s) \/ readData(s) \/ XReadFails(s) \/ XClose(s)
                               \/ senddata(s) \/ XWrite(s)
      PROVE  server = "reactor_1" /\ alive /\ UNCHANGED <<rigid, alive, overrun>>
  BY <1>2 DEF XReadWaits, readData, XReadFails, XClose, senddata, XWrite, Calls, kernelVars,
              xUnchanged, ReadFails, Close, Write
<1>3. ASSUME NEW s \in Places, initAccept(s)
      PROVE  /\ server = "reactor_1" /\ alive /\ UNCHANGED <<rigid, alive>>
             /\ overrun => overrun'
  BY <1>3 DEF initAccept, Calls, xUnchanged
<1>4. CASE (\E s \in Places : XAcceptExits(s)) \/ (\E fd \in FD : XKilled(fd)) \/ XWaitFails
  BY <1>4 DEF XAcceptExits, AcceptExits, XKilled, WriteKilled, XWaitFails, InLoop, Calls, Exit
<1>. QED BY <1>1, <1>2, <1>3, <1>4 DEF XStep

(* A step of a server preserves what holds of it. *)
LEMMA WorksStep ==
  ASSUME EchoServersInv, Works
  PROVE  /\ EchoServersInv' /\ alive /\ UNCHANGED rigid
         /\ server # "reactor_1" => PlainOp
<1>0. KernelInv /\ (alive => ServerInv) BY DEF EchoServersInv
<1>1. ASSUME Exit PROVE EchoServersInv' /\ UNCHANGED rigid /\ PlainOp
  BY <1>0, <1>1, ExitStep DEF EchoServersInv, ServerInv, Exit, PlainOp
<1>2. CASE SelectStep \/ SelectFails
  <2>1. server = "select" /\ alive BY <1>2, SelectRuns
  <2>2. CASE SelectFails BY <1>1, <2>1, <2>2 DEF SelectFails
  <2>3. CASE SelectStep
    <3>1. TableInv /\ (~ overrun => SelectInv)
      BY <2>1 DEF EchoServersInv, ServerInv
    <3>2. PlainOp /\ KernelInv' BY <1>0, <2>3, <3>1, SelectOps, PlainStep
    <3>3. alive' => TableInv' /\ (~ overrun' => SelectInv')
      BY <1>0, <2>3, <3>1, SelectKeeps
    <3>4. UNCHANGED rigid /\ server' = "select" BY <2>1, <3>2 DEF PlainOp, rigid
    <3>. QED BY <2>1, <3>2, <3>3, <3>4 DEF EchoServersInv, ServerInv
  <2>. QED BY <1>2, <2>2, <2>3
<1>3. CASE PollStep
  <2>1. server = "poll" /\ alive BY <1>3, PollRuns
  <2>2. TableInv /\ PollInv BY <2>1 DEF EchoServersInv, ServerInv
  <2>3. PlainOp /\ KernelInv' BY <1>0, <1>3, <2>2, PollOps, PlainStep
  <2>4. alive' => TableInv' /\ PollInv' BY <1>0, <1>3, <2>2, PollKeeps
  <2>5. UNCHANGED rigid /\ server' = "poll" BY <2>1, <2>3 DEF PlainOp, rigid
  <2>. QED BY <2>1, <2>3, <2>4, <2>5 DEF EchoServersInv, ServerInv
<1>4. CASE EpollStep \/ EpollFails
  <2>1. server \in {"epoll", "epoll_et"} /\ alive BY <1>4, EpollRuns
  <2>2. CASE EpollFails BY <1>1, <2>1, <2>2 DEF EpollFails
  <2>3. CASE EpollStep
    <3>1. (server = "epoll" => EpollInv) /\ (server = "epoll_et" => EtInv)
      BY <2>1 DEF EchoServersInv, ServerInv
    <3>2. PlainOp /\ KernelInv' BY <1>0, <2>1, <2>3, <3>1, EpollOps, PlainStep
    <3>3. alive' /\ server = "epoll" => EpollInv' BY <1>0, <2>3, <3>1, EpollKeeps
    <3>4. alive' /\ server = "epoll_et" => EtInv' BY <1>0, <2>3, <3>1, EtKeeps
    <3>5. UNCHANGED rigid /\ server' = server BY <3>2 DEF PlainOp, rigid
    <3>. QED BY <2>1, <3>2, <3>3, <3>4, <3>5 DEF EchoServersInv, ServerInv
  <2>. QED BY <1>4, <2>2, <2>3
<1>5. CASE AcceptThread \/ ThreadCreateFails \/ \E fd \in FD : client_fun(fd)
  <2>1. server = "pthread" /\ alive BY <1>5, ThreadRuns
  <2>2. ThreadInv BY <2>1 DEF EchoServersInv, ServerInv
  <2>3. PlainOp /\ KernelInv' BY <1>0, <1>5, <2>2, ThreadOps, PlainStep
  <2>4. alive' => ThreadInv' BY <1>0, <1>5, <2>2, ThreadKeeps
  <2>5. UNCHANGED rigid /\ server' = "pthread" BY <2>1, <2>3 DEF PlainOp, rigid
  <2>. QED BY <2>1, <2>3, <2>4, <2>5 DEF EchoServersInv, ServerInv
<1>6. CASE XStep \/ XWaitFails
  <2>1. /\ server = "reactor_1" /\ alive /\ UNCHANGED rigid
        /\ Exit \/ (XStep /\ alive')
        /\ overrun => overrun'
    BY <1>6, XRuns
  <2>2. XInv /\ (~ overrun => XTreeInv) BY <2>1 DEF EchoServersInv, ServerInv
  <2>3. CASE XStep /\ alive'
    <3>1. KernelInv' /\ XInv' /\ (~ overrun' /\ XTreeInv => XTreeInv')
      BY <1>0, <2>2, <2>3, XKeeps
    <3>2. server' = "reactor_1" BY <2>1 DEF rigid
    <3>. QED BY <2>1, <2>2, <3>1, <3>2 DEF EchoServersInv, ServerInv
  <2>. QED BY <1>1, <2>1, <2>3
<1>. QED BY <1>2, <1>3, <1>4, <1>5, <1>6 DEF Works, Loop

(* So does what a client does. *)
LEMMA ClientKeeps ==
  ASSUME EchoServersInv, NEW c \in Clients, ClientActs(c)
  PROVE  /\ EchoServersInv' /\ SameConns /\ Acts(c) /\ alive
         /\ UNCHANGED <<rigid, out, myevents, alive>>
<1>0. KernelInv BY DEF EchoServersInv
<1>1. KernelInv' /\ SameConns /\ Writing' = Writing /\ Acts(c) BY <1>0, ClientActsStep
<1>2. alive /\ UNCHANGED <<rigid, conn, out, alive, overrun, tableVars, watch, cur, ready,
                           myevents, thr>>
  BY DEF ClientActs, Connect, Send, Finish, Reset, StopReading, ClientStep, treeVars
<1>3. UNCHANGED <<server, size, client, maxi, maxfd, nready, pos>>
  BY <1>2 DEF rigid, tableVars
<1>4. OpenFds' = OpenFds BY <1>1 DEF SameConns
<1>5. ASSUME TableInv PROVE TableInv' BY <1>3, <1>4, <1>5, TableSame
<1>6. PassInv => PassInv' BY <1>2, <1>3, <1>4 DEF PassInv
<1>7. Left' = Left BY <1>2, <1>3 DEF Left, Reported, Slots
<1>8. SelectInv => SelectInv' BY <1>2, <1>3, <1>4, <1>6, <1>7 DEF SelectInv
<1>9. PollInv => PollInv' BY <1>2, <1>3, <1>4, <1>6, <1>7 DEF PollInv
<1>10. ASSUME NEW f \in OpenFds, Readable(conn[f]) PROVE Readable(conn[f])'
  <2>1. conn[f] \in Clients /\ conn'[f] = conn[f]
    BY <1>0, <1>2 DEF OpenFds, KernelInv, KernelTyped
  <2>2. CASE conn[f] = c
    <3>1. /\ cl[c].read \in Nat /\ cl[c].sent \in Nat /\ cl'[c].sent \in Nat
          /\ cl'[c].sent >= cl[c].sent /\ cl'[c].read = cl[c].read
          /\ cl[c].fin => cl'[c].fin
          /\ cl[c].rst => cl'[c].rst
      BY <1>0, <1>1 DEF KernelInv, KernelTyped, Peer, Acts, Touches
    <3>2. CASE Unread(c)
      BY <2>1, <2>2, <3>1, <3>2 DEF Readable, Unread
    <3>3. CASE Ended(c) BY <2>1, <2>2, <3>1, <3>3 DEF Readable, Ended
    <3>. QED BY <1>10, <2>2, <3>2, <3>3 DEF Readable
  <2>3. CASE conn[f] # c
    BY <1>1, <1>10, <2>1, <2>3 DEF Acts, Touches, Readable, Unread, Ended
  <2>. QED BY <2>2, <2>3
<1>11. EpollInv => EpollInv' BY <1>2, <1>4, <1>10 DEF EpollInv
<1>12. ASSUME EtInv, server = "epoll_et" PROVE EtInv'
  <2>1. CASE StopReading(c)
    <3>1. cl' = [cl EXCEPT ![c].reads = FALSE] /\ UNCHANGED edge
      BY <2>1 DEF StopReading, treeVars
    <3>2. SameData(c) BY <1>0, <3>1 DEF KernelInv, KernelTyped, Peer, SameData
    <3>3. ASSUME NEW f \in OpenFds PROVE Readable(conn[f])' <=> Readable(conn[f])
      <4>1. conn[f] \in Clients /\ conn'[f] = conn[f]
        BY <1>0, <1>2 DEF OpenFds, KernelInv, KernelTyped
      <4>2. CASE conn[f] = c BY <3>2, <4>1, <4>2 DEF SameData, Readable, Unread, Ended
      <4>3. CASE conn[f] # c
        BY <1>1, <4>1, <4>3 DEF Acts, Touches, Readable, Unread, Ended
      <4>. QED BY <4>2, <4>3
    <3>. QED BY <1>2, <1>4, <1>12, <3>1, <3>3 DEF EtInv
  <2>2. CASE ~ StopReading(c)
    <3>1. edge' = edge \cup {fd \in watch : conn[fd] = c}
      BY <1>12, <2>2 DEF ClientActs, Connect, Send, Finish, Reset, ClientStep
    <3>2. ASSUME NEW f \in OpenFds, conn[f] # c PROVE Readable(conn[f])' <=> Readable(conn[f])
      <4>1. conn[f] \in Clients /\ conn'[f] = conn[f]
        BY <1>0, <1>2 DEF OpenFds, KernelInv, KernelTyped
      <4>. QED BY <1>1, <3>2, <4>1 DEF Acts, Touches, Readable, Unread, Ended
    <3>. QED BY <1>2, <1>4, <1>12, <3>1, <3>2 DEF EtInv
  <2>. QED BY <2>1, <2>2
<1>13. ASSUME XInv PROVE XInv'
  <2>1. WritesPlaces' BY <1>1, <1>2, <1>3, <1>13 DEF XInv, WritesPlaces, Places
  <2>. QED BY <1>2, <1>3, <1>13, <2>1, TableKept
<1>14. ASSUME XTreeInv PROVE XTreeInv'
  <2>1. ready' \subseteq watch /\ \A n \in ready' : n.place # cur' /\ n.fd \notin Writing'
    BY <1>1, <1>2, <1>14 DEF XTreeInv
  <2>. QED BY <1>2, <1>3, <1>4, <1>14, <2>1, TreeKept
<1>15. ThreadInv => ThreadInv' BY <1>1, <1>2, <1>4 DEF ThreadInv
<1>16. ServerInv'
  BY <1>2, <1>3, <1>5, <1>8, <1>9, <1>11, <1>12, <1>13, <1>14, <1>15
  DEF EchoServersInv, ServerInv
<1>. QED BY <1>1, <1>2, <1>16 DEF EchoServersInv

-----------------------------------------------------------------------------
(* At the start nothing is open, and reactor_1 has its listener in the last *)
(* place.                                                                   *)
LEMMA InitServers == ASSUME Init PROVE EchoServersInv
<1>1. /\ server \in AllKinds /\ limit \in Limits /\ alive = TRUE /\ overrun = FALSE
      /\ conn = NoConn /\ out = NoOut /\ cl = [c \in Clients |-> NewClient]
  BY KindsAssumption DEF Init
<1>2. <<>> \in Bufs BY DEF Bufs
<1>3. NewClient \in Peer BY <1>2 DEF NewClient, Peer, States
<1>4. KernelTyped BY <1>1, <1>2, <1>3 DEF KernelTyped, NoConn, NoOut
<1>5. OpenFds = {} /\ Writing = {} BY <1>1 DEF OpenFds, Writing, NoConn, NoOut
<1>6. ConnInv BY <1>1, <1>5 DEF ConnInv, NoConn
<1>7. PeerInv BY <1>1 DEF PeerInv, NewClient
<1>8. size \in Nat \ {0} BY SizesAssumption DEF Init
<1>9. /\ client = [i \in Slots |-> NoFd] /\ maxi = -1 /\ maxfd = Lfd /\ pos = NoFd
      /\ edge = {} /\ ready = {} /\ cur = NoFd /\ thr = {}
      /\ server # "reactor_1" => watch = {}
  BY DEF Init
<1>10. TableInv
  <2>1. Slots \ FreeSlots = {} BY <1>9 DEF FreeSlots
  <2>2. client \in [Slots -> FD \cup {NoFd}] BY <1>9
  <2>3. maxi \in Int /\ maxfd \in Int BY <1>9 DEF Lfd
  <2>. QED BY <1>5, <1>8, <2>1, <2>2, <2>3 DEF TableInv, InTable
<1>11. server = "select" => SelectInv BY <1>5, <1>9 DEF SelectInv, PassInv
<1>12. PollInv BY <1>9 DEF PollInv, PassInv
<1>13. server = "epoll" => EpollInv BY <1>5, <1>9 DEF EpollInv
<1>14. server = "epoll_et" => EtInv BY <1>5, <1>9 DEF EtInv
<1>15. ThreadInv BY <1>5, <1>9 DEF ThreadInv
<1>16. ASSUME server = "reactor_1" PROVE XInv /\ XTreeInv
  <2>1. /\ myevents = [s \in Places |-> IF s = Listener THEN ListenerPlace ELSE FreePlace]
        /\ watch = {Node(Lfd, Listener, "in")}
    BY <1>16 DEF Init
  <2>2. Listener \in Places BY <1>8 DEF Listener, Places
  <2>3. ListenerPlace \in Place /\ FreePlace \in Place
    BY <1>2 DEF ListenerPlace, FreePlace, Place, Fds, Events, Callbacks
  <2>4. /\ ListenerPlace.fd = Lfd /\ ListenerPlace.call_back = "initAccept"
        /\ ListenerPlace.events = "in" /\ FreePlace.fd = NoFd /\ FreePlace.call_back = "none"
    BY DEF ListenerPlace, FreePlace
  <2>5. /\ myevents \in [Places -> Place] /\ myevents[Listener] = ListenerPlace
        /\ \A s \in Places : s # Listener => myevents[s] = FreePlace
    BY <2>1, <2>2, <2>3
  <2>6. WritesPlaces BY <1>5 DEF WritesPlaces
  <2>7. XInv BY <1>8, <2>4, <2>5, <2>6, FdNumbers DEF XInv
  <2>8. Used = {Listener} BY <2>2, <2>4, <2>5, FdNumbers DEF Used
  <2>9. NodeOf(Listener) = Node(Lfd, Listener, "in") BY <2>4, <2>5 DEF NodeOf
  <2>10. watch = {NodeOf(s) : s \in Used} BY <2>1, <2>8, <2>9
  <2>. QED BY <1>5, <1>9, <2>4, <2>5, <2>7, <2>8, <2>10 DEF XTreeInv
<1>. QED
  BY <1>4, <1>6, <1>7, <1>10, <1>11, <1>12, <1>13, <1>14, <1>15, <1>16
  DEF EchoServersInv, KernelInv, ServerInv

(* A step that changes nothing. *)
LEMMA ServersStutter ==
  ASSUME EchoServersInv, UNCHANGED vars PROVE EchoServersInv'
<1>. USE DEF vars, rigid, kernelVars, tableVars, treeVars
<1>1. KernelInv'
  BY DEF EchoServersInv, KernelInv, KernelTyped, ConnInv, PeerInv, Writing, OpenFds
<1>2. OpenFds' = OpenFds /\ Writing' = Writing BY DEF OpenFds, Writing
<1>3. TableInv' <=> TableInv
  BY <1>2 DEF TableInv, InTable, Slots, FreeSlots
<1>4. PassInv' <=> PassInv BY <1>2 DEF PassInv
<1>5. Left' = Left BY DEF Left, Reported, Slots
<1>6. (SelectInv' <=> SelectInv) /\ (PollInv' <=> PollInv)
  BY <1>2, <1>4, <1>5 DEF SelectInv, PollInv
<1>7. \A c : Readable(c)' <=> Readable(c) BY DEF Readable, Unread, Ended
<1>8. (EpollInv' <=> EpollInv) /\ (EtInv' <=> EtInv) /\ (ThreadInv' <=> ThreadInv)
  BY <1>2, <1>7 DEF EpollInv, EtInv, ThreadInv
<1>9. XInv' <=> XInv BY <1>2 DEF XInv, WritesPlaces, Places
<1>10. XTreeInv' <=> XTreeInv
  BY <1>2 DEF XTreeInv, Used, NodeOf, Node, Places, Listener
<1>11. ServerInv'
  BY <1>3, <1>6, <1>8, <1>9, <1>10 DEF EchoServersInv, ServerInv
<1>. QED BY <1>1, <1>11 DEF EchoServersInv

(* The steps of the system are those of its server and of its clients. *)
LEMMA NextIs ==
  ASSUME Next PROVE Works \/ \E c \in Clients : ClientActs(c)
BY DEF Next, Works, ClientActs

(* Every server keeps its kernel, its table and its reports in order: the   *)
(* main loops of select_advance.c, poll.c, epoll.c, epoll_et.c and          *)
(* reactor_1.c, and the threads of pthread_tcp_server.c.                    *)
THEOREM EchoServersSafe == Spec => []EchoServersInv
<1>1. Init => EchoServersInv BY InitServers
<1>2. ASSUME EchoServersInv, [Next]_vars PROVE EchoServersInv'
  <2>1. CASE Next BY <1>2, <2>1, NextIs, WorksStep, ClientKeeps
  <2>2. CASE UNCHANGED vars BY <1>2, <2>2, ServersStutter
  <2>. QED BY <1>2, <2>1, <2>2
<1>. QED BY <1>1, <1>2, PTL DEF Spec

(* The nodes of reactor_1's tree and the places of myevents are the same    *)
(* connections.                                                             *)
LEMMA TreeIsTable ==
  ASSUME XInv, XTreeInv PROVE InMyevents
<1>1. ASSUME NEW n \in watch
      PROVE  /\ n.place \in Used /\ myevents[n.place].fd = n.fd
             /\ myevents[n.place].events = n.events /\ n = NodeOf(n.place)
  <2>1. PICK s \in Used : n = NodeOf(s) BY DEF XTreeInv
  <2>. QED BY <2>1, NodeOfIs
<1>2. ASSUME NEW s \in Used PROVE NodeOf(s) \in watch /\ NodeOf(s).place = s
  BY NodeOfIs DEF XTreeInv
<1>3. \A s \in Used : myevents[s].fd \in OpenFds \cup {Lfd}
  BY DEF XInv, Used, Place, Fds, OpenFds
<1>4. Listener \in Places BY DEF XInv, Listener, Places
<1>5. Listener \in Used BY <1>4, FdNumbers DEF XTreeInv, Used
<1>6. {n.fd : n \in watch} = OpenFds \cup {Lfd}
  <2>1. {n.fd : n \in watch} \subseteq OpenFds \cup {Lfd} BY <1>1, <1>3
  <2>2. ASSUME NEW fd \in OpenFds \cup {Lfd} PROVE \E n \in watch : n.fd = fd
    <3>1. PICK s \in Used : myevents[s].fd = fd BY <1>5 DEF XTreeInv
    <3>. QED BY <1>2, <3>1, NodeOfIs
  <2>. QED BY <2>1, <2>2
<1>7. Used = {n.place : n \in watch} BY <1>1, <1>2
<1>8. ASSUME NEW n \in watch
      PROVE  myevents[n.place].call_back = IF n.place = Listener THEN "initAccept"
                                           ELSE IF n.events = "in" THEN "readData"
                                           ELSE "senddata"
  <2>1. PICK s \in Used : s = n.place /\ myevents[s].events = n.events BY <1>1
  <2>2. CASE s = Listener BY <1>4, <2>1, <2>2 DEF XInv, XTreeInv
  <2>3. CASE s # Listener BY <2>1, <2>3 DEF XTreeInv
  <2>. QED BY <2>2, <2>3
<1>. QED BY <1>1, <1>6, <1>7, <1>8 DEF InMyevents, Used

(* client[] has as many places as allset has numbers, and the listening     *)
(* socket has one of the numbers.                                           *)
LEMMA NeverFull ==
  ASSUME TableInv, \A fd \in OpenFds : fd < size PROVE FreeSlots # {}
<1>. SUFFICES ASSUME FreeSlots = {} PROVE FALSE OBVIOUS
<1>. DEFINE Numbered == 1 .. size - 1
<1>1. size \in Nat \ {0} BY DEF TableInv
<1>2. /\ IsFiniteSet(Slots) /\ Cardinality(Slots) = size
      /\ IsFiniteSet(Numbered) /\ Cardinality(Numbered) = size - 1
  BY <1>1, FS_Interval DEF Slots
<1>3. ASSUME NEW i \in Slots PROVE client[i] \in Numbered
  <2>1. client[i] \in OpenFds BY <1>3, PlaceIs DEF FreeSlots
  <2>2. client[i] \in FD /\ client[i] < size BY <2>1 DEF OpenFds
  <2>3. client[i] \in Int /\ client[i] >= 1 BY <2>2, FdIs DEF FD
  <2>. QED BY <1>1, <2>2, <2>3
<1>4. client \in [Slots -> Numbered] BY <1>3 DEF TableInv
<1>5. Cardinality(Numbered) < Cardinality(Slots) BY <1>1, <1>2
<1>6. \E i, j \in Slots : i # j /\ client[i] = client[j]
  BY <1>2, <1>4, <1>5, FS_PigeonHole
<1>. QED BY <1>6 DEF TableInv, InTable

(* What each server remembers is what is open (TableIsWatched): after any   *)
(* series of accepts and closes, with the numbers of closed descriptors     *)
(* used again, no connection is missing from the table, the set, the tree   *)
(* or myevents, and none is left there that has been closed.                *)
THEOREM TablesWatched == Spec => []TableIsWatched
<1>1. ASSUME EchoServersInv PROVE TableIsWatched
  <2>1. KernelInv /\ ServerInv /\ server \in AllKinds
    BY <1>1 DEF EchoServersInv, KernelInv, KernelTyped
  <2>2. ASSUME alive, ~ overrun, server = "reactor_1" PROVE InMyevents
    BY <2>1, <2>2, TreeIsTable DEF ServerInv
  <2>3. ASSUME alive, ~ overrun, server = "select" PROVE FreeSlots # {}
    <3>1. TableInv /\ \A fd \in OpenFds : fd < size
      BY <2>1, <2>3 DEF ServerInv, SelectInv
    <3>. QED BY <3>1, NeverFull
  <2>. QED BY <2>1, <2>2, <2>3 DEF TableIsWatched, ServerInv, AllKinds, TableInv, SelectInv,
                                   EpollInv, EtInv, ThreadInv
<1>. QED BY <1>1, EchoServersSafe, PTL

(* What a wait has reported still stands while connections come and go      *)
(* (ReportIsFresh): the countdown nready of select and poll is what is left *)
(* to look at, and no edge of epoll_et is forgotten.                        *)
THEOREM ReportsFresh == Spec => []ReportIsFresh
<1>1. ASSUME EchoServersInv PROVE ReportIsFresh
  <2>1. KernelInv /\ ServerInv /\ server \in AllKinds
    BY <1>1 DEF EchoServersInv, KernelInv, KernelTyped
  <2>. QED BY <2>1 DEF ReportIsFresh, ServerInv, AllKinds, SelectInv, PollInv, Left,
                       EpollInv, EtInv, XTreeInv
<1>. QED BY <1>1, EchoServersSafe, PTL

-----------------------------------------------------------------------------
(* The refinement of EchoService.  The numbers of the units a client got,   *)
(* and the last of them.                                                    *)
NumbersOf(c, got) == [i \in DOMAIN got |-> IF got[i][1] = c THEN got[i][2] ELSE 0]
LastGot(got) == IF got = <<>> THEN 0 ELSE got[Len(got)][2]

(* What a server holds for client c comes right after what c got, and ends  *)
(* with the last unit read; the first part is exact unless units were lost. *)
Follows(c, buf, got, read, exact) ==
  /\ LastGot(got) <= read - Len(buf)
  /\ exact => LastGot(got) = read - Len(buf)
  /\ \A i \in 1 .. Len(buf) : buf[i] = <<c, read - Len(buf) + i>>

Own(c, got) == \A i \in 1 .. Len(got) : got[i][1] = c

Promise(c, buf) ==
  Follows(c, buf, cl[c].got, cl[c].read, server # "epoll_et" /\ ~ cl[c].rst)

(* What a place of myevents holds for its connection. *)
Held(s) == IF myevents[s].call_back = "senddata" THEN myevents[s].buf ELSE <<>>

(* Clients got their own units only, and what is held for each connection,  *)
(* in the buffer of a call or in a place, comes next.                       *)
OwnInv == \A c \in Clients : Own(c, cl[c].got)
BufInv == \A fd \in OpenFds : Promise(conn[fd], out[fd])
PlaceInv ==
  \A s \in Places : myevents[s].fd \in FD => Promise(conn[myevents[s].fd], Held(s))

EchoInv ==
  /\ OwnInv
  /\ alive /\ server # "reactor_1" => BufInv
  /\ alive /\ server = "reactor_1" => PlaceInv

(* The fields of a client. *)
LEMMA PeerIs ==
  ASSUME KernelInv, NEW c \in Clients
  PROVE  /\ cl[c] \in Peer /\ cl[c].st \in States /\ cl[c].sent \in Nat /\ cl[c].read \in Nat
         /\ cl[c].got \in Bufs /\ cl[c].rst \in BOOLEAN /\ cl[c].fin \in BOOLEAN
         /\ cl[c].err \in BOOLEAN
BY DEF KernelInv, KernelTyped, Peer

(* The last unit of a sequence of them. *)
LEMMA LastGotIs ==
  ASSUME NEW got \in Bufs
  PROVE  LastGot(got) \in Nat
<1>1. CASE got = <<>> BY <1>1 DEF LastGot
<1>2. CASE got # <<>>
  <2>1. Len(got) \in 1 .. Len(got) BY <1>2 DEF Bufs
  <2>2. got[Len(got)] \in Units BY <2>1 DEF Bufs
  <2>. QED BY <1>2, <2>2 DEF LastGot, Units
<1>. QED BY <1>1, <1>2

(* n numbers after base *)
Run(base, n) == [i \in 1 .. n |-> base + i]

(* The units of a buffer have the numbers after base. *)
Numbered(c, buf, base) == \A i \in 1 .. Len(buf) : buf[i] = <<c, base + i>>

(* Appending a part of a buffer to what a client got. *)
LEMMA GotPart ==
  ASSUME NEW c \in Clients, NEW got \in Bufs, Own(c, got), NEW base \in Nat,
         NEW part \in Bufs, part # <<>>, Numbered(c, part, base)
  PROVE  /\ got \o part \in Bufs /\ Own(c, got \o part)
         /\ LastGot(got \o part) = base + Len(part)
         /\ NumbersOf(c, got \o part) =
              NumbersOf(c, got) \o Run(base, Len(part))
<1>1. got \o part \in Seq(Units) BY DEF Bufs
<1>2. PICK m \in Nat : m = Len(got) BY DEF Bufs
<1>3. PICK n \in Nat : n = Len(part) /\ n > 0 BY DEF Bufs
<1>4. PICK s : s = got \o part OBVIOUS
<1>5. /\ Len(s) = m + n /\ \A i \in 1 .. m : s[i] = got[i]
      /\ \A i \in m + 1 .. m + n : s[i] = part[i - m]
  BY <1>2, <1>3, <1>4 DEF Bufs
<1>6. \A i \in 1 .. m : got[i][1] = c BY <1>2 DEF Own
<1>7. \A i \in m + 1 .. m + n : s[i] = <<c, base + (i - m)>>
  <2>1. SUFFICES ASSUME NEW i \in m + 1 .. m + n PROVE s[i] = <<c, base + (i - m)>>
    OBVIOUS
  <2>2. PICK j \in 1 .. n : j = i - m OBVIOUS
  <2>. QED BY <1>3, <1>5, <2>2 DEF Numbered
<1>8. Own(c, s)
  <2>1. SUFFICES ASSUME NEW i \in 1 .. m + n PROVE s[i][1] = c BY <1>5 DEF Own
  <2>2. CASE i \in 1 .. m BY <1>5, <1>6, <2>2
  <2>3. CASE i \in m + 1 .. m + n BY <1>7, <2>3
  <2>. QED BY <2>2, <2>3
<1>9. LastGot(s) = base + n
  <2>1. s \in Seq(Units) /\ s # <<>> BY <1>1, <1>3, <1>4, <1>5
  <2>2. m + n \in m + 1 .. m + n BY <1>3
  <2>3. s[m + n] = <<c, base + n>> BY <1>7, <2>2
  <2>. QED BY <1>5, <2>1, <2>3 DEF LastGot
<1>10. NumbersOf(c, s) = NumbersOf(c, got) \o Run(base, n)
  <2>1. s \in Seq(Units) /\ got \in Seq(Units) BY <1>1, <1>4 DEF Bufs
  <2>2. DOMAIN s = 1 .. m + n /\ DOMAIN got = 1 .. m BY <1>2, <1>5, <2>1
  <2>3. PICK a : a = NumbersOf(c, got) OBVIOUS
  <2>4. a = [i \in 1 .. m |-> got[i][2]] /\ \A i \in 1 .. m : got[i][2] \in Nat
    <3>1. \A i \in 1 .. m : got[i] \in Units BY <2>1, <2>2
    <3>2. a = [i \in 1 .. m |-> IF got[i][1] = c THEN got[i][2] ELSE 0]
      BY <2>2, <2>3 DEF NumbersOf
    <3>. QED BY <1>6, <3>1, <3>2 DEF Units
  <2>5. PICK b : b = [i \in 1 .. n |-> base + i] OBVIOUS
  <2>6. a \in Seq(Nat) /\ Len(a) = m BY <2>4
  <2>7. b \in Seq(Nat) /\ Len(b) = n BY <2>5
  <2>8. /\ a \o b \in Seq(Nat) /\ Len(a \o b) = m + n
        /\ \A i \in 1 .. m + n : (a \o b)[i] = IF i <= m THEN a[i] ELSE b[i - m]
    <3>1. /\ a \o b \in Seq(Nat) /\ Len(a \o b) = Len(a) + Len(b)
          /\ \A i \in 1 .. Len(a) + Len(b) : (a \o b)[i] =
                IF i <= Len(a) THEN a[i] ELSE b[i - Len(a)]
      BY <2>6, <2>7, ConcatProperties
    <3>. QED BY <2>6, <2>7, <3>1
  <2>9. PICK q : q = [i \in 1 .. m + n |-> IF s[i][1] = c THEN s[i][2] ELSE 0] OBVIOUS
  <2>10. ASSUME NEW i \in 1 .. m + n PROVE q[i] = IF i <= m THEN a[i] ELSE b[i - m]
    <3>1. CASE i <= m
      <4>1. i \in 1 .. m BY <3>1
      <4>2. s[i] = got[i] /\ got[i][1] = c /\ a[i] = got[i][2] BY <1>5, <1>6, <2>4, <4>1
      <4>. QED BY <2>9, <3>1, <4>2
    <3>2. CASE ~ (i <= m)
      <4>1. PICK j \in 1 .. n : j = i - m BY <3>2
      <4>2. i \in m + 1 .. m + n BY <3>2
      <4>3. s[i] = <<c, base + j>> /\ b[j] = base + j BY <1>7, <2>5, <4>1, <4>2
      <4>. QED BY <2>9, <3>2, <4>1, <4>3
    <3>. QED BY <3>1, <3>2
  <2>11. q \in Seq(Nat) /\ Len(q) = m + n
    <3>1. \A i \in 1 .. m + n : s[i] \in Units BY <2>1, <2>2
    <3>2. \A i \in 1 .. m + n : (IF s[i][1] = c THEN s[i][2] ELSE 0) \in Nat
      BY <3>1 DEF Units
    <3>. QED BY <2>9, <3>2
  <2>12. q = a \o b
    <3>1. PICK d \in Seq(Nat) : d = a \o b BY <2>8
    <3>2. Len(q) = Len(d) /\ \A i \in 1 .. Len(q) : q[i] = d[i]
      BY <2>8, <2>10, <2>11, <3>1
    <3>3. q = d BY <2>11, <3>2, SeqEqual
    <3>. QED BY <3>1, <3>3
  <2>13. NumbersOf(c, s) = q BY <2>2, <2>9 DEF NumbersOf
  <2>. QED BY <2>3, <2>5, <2>12, <2>13 DEF Run
<1>. QED BY <1>1, <1>3, <1>4, <1>8, <1>9, <1>10 DEF Bufs

-----------------------------------------------------------------------------
(* A connection starts without anything to give. *)
LEMMA PromiseNew ==
  ASSUME NEW c, cl'[c].got = <<>>, cl'[c].read = 0 PROVE Promise(c, <<>>)'
<1>1. Len(<<>>) = 0 /\ 0 - 0 = 0 /\ 1 .. 0 = {} OBVIOUS
<1>2. LastGot(<<>>) = 0 BY DEF LastGot
<1>. QED BY <1>1, <1>2 DEF Promise, Follows

(* A step that exchanges no data keeps the promise. *)
LEMMA PromiseKept ==
  ASSUME NEW c \in Clients, NEW buf, Promise(c, buf), server' = server,
         cl'[c].got = cl[c].got, cl'[c].read = cl[c].read, cl[c].rst => cl'[c].rst
  PROVE  Promise(c, buf)'
BY DEF Promise, Follows

(* What is read is the next to be given. *)
LEMMA PromiseTakes ==
  ASSUME KernelInv, NEW c \in Clients, Unread(c), Promise(c, <<>>), Takes(c),
         server' = server, NEW buf, buf = Received(c)
  PROVE  Promise(c, buf)'
<1>1. PICK r \in Nat : r = cl[c].read BY PeerIs
<1>2. /\ Len(buf) \in Nat /\ Len(buf) > 0
      /\ \A i \in 1 .. Len(buf) : buf[i] = <<c, r + i>>
  <2>1. cl[c].sent \in Nat BY PeerIs
  <2>. QED BY <1>1, <2>1, ReceivedIs
<1>3. PICK k \in Nat : k = Len(buf) BY <1>2
<1>4. PICK q \in Nat : q = cl'[c].read /\ q = r + k BY <1>1, <1>3 DEF Takes
<1>5. cl'[c].got = cl[c].got /\ cl'[c].rst = cl[c].rst BY DEF Takes
<1>6. PICK l \in Nat : l = LastGot(cl[c].got) BY PeerIs, LastGotIs
<1>7. /\ l <= r
      /\ server # "epoll_et" /\ ~ cl[c].rst => l = r
  <2>1. Len(<<>>) = 0 /\ r - 0 = r OBVIOUS
  <2>. QED BY <1>1, <1>6, <2>1 DEF Promise, Follows
<1>8. q - k = r BY <1>4
<1>. QED BY <1>2, <1>3, <1>4, <1>5, <1>6, <1>7, <1>8 DEF Promise, Follows

(* What is given comes right after what was given before, and then nothing  *)
(* is left.                                                                 *)
LEMMA PromiseGives ==
  ASSUME KernelInv, NEW c \in Clients, NEW buf \in Bufs, Promise(c, buf), server' = server,
         Own(c, cl[c].got), NEW part \in Bufs, Len(part) <= Len(buf),
         \A i \in 1 .. Len(part) : part[i] = buf[i],
         Len(part) = Len(buf) \/ server = "epoll_et", Gives(c, part)
  PROVE  /\ Promise(c, <<>>)' /\ Own(c, cl'[c].got)
         /\ \/ cl'[c].got = cl[c].got
            \/ \E base \in Nat :
                 /\ LastGot(cl[c].got) <= base /\ part # <<>> /\ base + Len(part) <= cl[c].read
                 /\ base = LastGot(cl[c].got) \/ server = "epoll_et"
                 /\ NumbersOf(c, cl'[c].got) =
                      NumbersOf(c, cl[c].got) \o Run(base, Len(part))
<1>1. PICK r \in Nat : r = cl[c].read /\ r = cl'[c].read BY PeerIs DEF Gives
<1>2. PICK got \in Bufs : got = cl[c].got BY PeerIs
<1>3. PICK l \in Nat : l = LastGot(got) BY LastGotIs
<1>4. PICK k \in Nat : k = Len(buf) BY DEF Bufs
<1>5. /\ l <= r - k
      /\ server # "epoll_et" /\ ~ cl[c].rst => l = r - k
      /\ \A i \in 1 .. k : buf[i] = <<c, r - k + i>>
  BY <1>1, <1>2, <1>3, <1>4 DEF Promise, Follows
<1>6. PICK base \in Nat : base = r - k BY <1>5
<1>7. PICK n \in Nat : n = Len(part) /\ n <= k BY <1>4 DEF Bufs
<1>8. ASSUME NEW i \in 1 .. n PROVE part[i] = <<c, base + i>>
  <2>1. part[i] = buf[i] BY <1>7
  <2>2. i \in 1 .. k BY <1>7
  <2>3. buf[i] = <<c, r - k + i>> BY <1>5, <2>2
  <2>. QED BY <1>6, <2>1, <2>3
<1>9. cl'[c].rst = cl[c].rst BY DEF Gives
<1>10. Len(<<>>) = 0 /\ r - 0 = r OBVIOUS
<1>11. CASE cl[c].rst \/ n = 0
  <2>1. cl'[c].got = got
    <3>1. CASE cl[c].rst BY <1>2, <3>1 DEF Gives
    <3>2. CASE n = 0
      <4>1. part \in Seq(Units) /\ Len(part) = 0 BY <1>7, <3>2 DEF Bufs
      <4>3. part = <<>> BY <4>1, EmptySeq
      <4>2. got \o <<>> = got BY ConcatEmptySeq DEF Bufs
      <4>. QED BY <1>2, <4>2, <4>3 DEF Gives
    <3>. QED BY <1>11, <3>1, <3>2
  <2>2. l <= r BY <1>5
  <2>3. server # "epoll_et" /\ ~ cl[c].rst => l = r
    <3>1. ASSUME server # "epoll_et", ~ cl[c].rst PROVE l = r
      BY <1>4, <1>5, <1>7, <1>11, <3>1
    <3>. QED BY <3>1
  <2>4. Promise(c, <<>>)'
    BY <1>1, <1>2, <1>3, <1>9, <1>10, <2>1, <2>2, <2>3 DEF Promise, Follows
  <2>. QED BY <1>2, <2>1, <2>4
<1>12. CASE ~ cl[c].rst /\ n > 0
  <2>1. cl'[c].got = got \o part BY <1>2, <1>12 DEF Gives
  <2>2. part # <<>> BY <1>7, <1>12
  <2>3. /\ got \o part \in Bufs /\ Own(c, got \o part)
        /\ LastGot(got \o part) = base + n
        /\ NumbersOf(c, got \o part) = NumbersOf(c, got) \o Run(base, n)
    <3>1. Numbered(c, part, base) BY <1>7, <1>8 DEF Numbered
    <3>2. Own(c, got) BY <1>2
    <3>3. /\ got \o part \in Bufs /\ Own(c, got \o part)
          /\ LastGot(got \o part) = base + Len(part)
          /\ NumbersOf(c, got \o part) =
               NumbersOf(c, got) \o Run(base, Len(part))
      BY <2>2, <3>1, <3>2, GotPart
    <3>. QED BY <1>7, <3>3
  <2>4. PICK m \in Nat : m = base + n /\ m <= r BY <1>6, <1>7
  <2>5. n = k => m = r BY <1>6, <2>4
  <2>6. Promise(c, <<>>)'
    <3>1. LastGot(cl'[c].got) = m BY <2>1, <2>3, <2>4
    <3>2. server # "epoll_et" => m = r BY <1>4, <1>7, <2>5
    <3>. QED BY <1>1, <1>10, <2>4, <3>1, <3>2 DEF Promise, Follows
  <2>7. l <= base /\ (base = l \/ server = "epoll_et") BY <1>5, <1>6, <1>12
  <2>. QED BY <1>1, <1>2, <1>3, <1>7, <2>1, <2>2, <2>3, <2>4, <2>6, <2>7
<1>13. cl[c].rst \/ n = 0 \/ (~ cl[c].rst /\ n > 0) BY <1>7
<1>. QED BY <1>11, <1>12, <1>13

-----------------------------------------------------------------------------
(* The variables of EchoService. *)
St    == [c \in Clients |-> cl[c].st]
Sent  == [c \in Clients |-> cl[c].sent]
Over  == [c \in Clients |-> Ended(c)]
Taken == [c \in Clients |-> cl[c].read]
Given == [c \in Clients |-> Numbers(c)]

(* What the service does while it runs, and whether it does. *)
EchoStep ==
  \/ \E c \in Clients :
       \/ Echo!Connect(c) \/ Echo!Send(c) \/ Echo!Leave(c) \/ Echo!Accept(c)
       \/ Echo!Take(c) \/ Echo!Give(c) \/ Echo!End(c)
  \/ UNCHANGED <<St, Sent, Over, Taken, Given, server>>

Mode == IF server = "select" /\ overrun THEN "undefined"
        ELSE IF alive THEN "runs" ELSE "stopped"

(* What they are for one client. *)
LEMMA BarsAt ==
  ASSUME NEW c \in Clients
  PROVE  /\ St[c] = cl[c].st /\ Sent[c] = cl[c].sent /\ Taken[c] = cl[c].read
         /\ (Over[c] <=> cl[c].fin \/ cl[c].rst) /\ Given[c] = NumbersOf(c, cl[c].got)
BY DEF St, Sent, Over, Taken, Given, Ended, Numbers, NumbersOf

(* A step that touches client c changes them only for c. *)
LEMMA BarsStep ==
  ASSUME NEW c \in Clients, Touches(c)
  PROVE  /\ St' = [St EXCEPT ![c] = cl'[c].st] /\ Sent' = [Sent EXCEPT ![c] = cl'[c].sent]
         /\ Over' = [Over EXCEPT ![c] = cl'[c].fin \/ cl'[c].rst]
         /\ Taken' = [Taken EXCEPT ![c] = cl'[c].read]
         /\ Given' = [Given EXCEPT ![c] = NumbersOf(c, cl'[c].got)]
<1>1. \A d \in Clients : d # c => cl'[d] = cl[d] BY DEF Touches
<1>2. St' = [St EXCEPT ![c] = cl'[c].st] BY <1>1 DEF St
<1>3. Sent' = [Sent EXCEPT ![c] = cl'[c].sent] BY <1>1 DEF Sent
<1>4. Over' = [Over EXCEPT ![c] = cl'[c].fin \/ cl'[c].rst] BY <1>1 DEF Over, Ended
<1>5. Taken' = [Taken EXCEPT ![c] = cl'[c].read] BY <1>1 DEF Taken
<1>6. Given' = [Given EXCEPT ![c] = NumbersOf(c, cl'[c].got)]
  <2>1. \A d \in Clients : Numbers(d)' = NumbersOf(d, cl'[d].got)
    BY DEF Numbers, NumbersOf
  <2>2. \A d \in Clients : Numbers(d) = NumbersOf(d, cl[d].got)
    BY DEF Numbers, NumbersOf
  <2>3. Given' = [d \in Clients |-> NumbersOf(d, cl'[d].got)] BY <2>1 DEF Given
  <2>4. Given = [d \in Clients |-> NumbersOf(d, cl[d].got)] BY <2>2 DEF Given
  <2>. QED BY <1>1, <2>3, <2>4
<1>. QED BY <1>2, <1>3, <1>4, <1>5, <1>6

(* Where nothing of c changes, they are the same. *)
LEMMA BarsSame ==
  ASSUME NEW c \in Clients, Touches(c)
  PROVE  /\ cl'[c].st = cl[c].st => St' = St
         /\ cl'[c].sent = cl[c].sent => Sent' = Sent
         /\ cl'[c].fin = cl[c].fin /\ cl'[c].rst = cl[c].rst => Over' = Over
         /\ cl'[c].read = cl[c].read => Taken' = Taken
         /\ cl'[c].got = cl[c].got => Given' = Given
<1>1. \A d \in Clients : d # c => cl'[d] = cl[d] BY DEF Touches
<1>2. ASSUME cl'[c].st = cl[c].st PROVE St' = St BY <1>1, <1>2 DEF St
<1>3. ASSUME cl'[c].sent = cl[c].sent PROVE Sent' = Sent BY <1>1, <1>3 DEF Sent
<1>4. ASSUME cl'[c].fin = cl[c].fin, cl'[c].rst = cl[c].rst PROVE Over' = Over
  BY <1>1, <1>4 DEF Over, Ended
<1>5. ASSUME cl'[c].read = cl[c].read PROVE Taken' = Taken BY <1>1, <1>5 DEF Taken
<1>6. ASSUME cl'[c].got = cl[c].got PROVE Given' = Given
  BY <1>1, <1>6 DEF Given, Numbers
<1>. QED BY <1>2, <1>3, <1>4, <1>5, <1>6

(* The steps of EchoService in these terms: a client connects, *)
LEMMA EchoConnects ==
  ASSUME NEW c \in Clients, St[c] = "new", St' = [St EXCEPT ![c] = "backlog"],
         Sent' = Sent, Over' = Over, Taken' = Taken, Given' = Given, server' = server
  PROVE  EchoStep
BY DEF EchoStep, Echo!Connect, St, Sent, Over, Taken, Given

(* A client sends, *)
LEMMA EchoSends ==
  ASSUME NEW c \in Clients, St[c] \in {"backlog", "up"}, ~ Over[c],
         Sent' = [Sent EXCEPT ![c] = Sent[c] + 1],
         St' = St, Over' = Over, Taken' = Taken, Given' = Given, server' = server
  PROVE  EchoStep
BY DEF EchoStep, Echo!Send, St, Sent, Over, Taken, Given

(* leaves, *)
LEMMA EchoLeaves ==
  ASSUME NEW c \in Clients, St[c] \in {"backlog", "up"}, Over' = [Over EXCEPT ![c] = TRUE],
         St' = St, Sent' = Sent, Taken' = Taken, Given' = Given, server' = server
  PROVE  EchoStep
BY DEF EchoStep, Echo!Leave, St, Sent, Over, Taken, Given

(* is accepted, *)
LEMMA EchoAccepts ==
  ASSUME NEW c \in Clients, St[c] = "backlog", St' = [St EXCEPT ![c] = "up"],
         Sent' = Sent, Over' = Over, Taken' = Taken, Given' = Given, server' = server
  PROVE  EchoStep
BY DEF EchoStep, Echo!Accept, St, Sent, Over, Taken, Given

(* its units are taken, *)
LEMMA EchoTakes ==
  ASSUME NEW c \in Clients, St[c] = "up", NEW n \in Taken[c] + 1 .. Sent[c],
         Taken' = [Taken EXCEPT ![c] = n],
         St' = St, Sent' = Sent, Over' = Over, Given' = Given, server' = server
  PROVE  EchoStep
BY DEF EchoStep, Echo!Take, St, Sent, Over, Taken, Given

(* its connection is ended, *)
LEMMA EchoEnds ==
  ASSUME NEW c \in Clients, St[c] = "up", Over[c], Taken[c] = Sent[c],
         St' = [St EXCEPT ![c] = "down"],
         Sent' = Sent, Over' = Over, Taken' = Taken, Given' = Given, server' = server
  PROVE  EchoStep
BY DEF EchoStep, Echo!End, St, Sent, Over, Taken, Given

(* or nothing happens. *)
LEMMA EchoStutters ==
  ASSUME St' = St, Sent' = Sent, Over' = Over, Taken' = Taken, Given' = Given,
         server' = server
  PROVE  EchoStep
BY DEF EchoStep

(* The last unit given is the last one the client got. *)
LEMMA LastGivenIs ==
  ASSUME KernelInv, NEW c \in Clients, Own(c, cl[c].got)
  PROVE  Echo!LastGiven(c) = LastGot(cl[c].got)
<1>1. PICK got \in Bufs : got = cl[c].got BY PeerIs
<1>2. PICK g : g = NumbersOf(c, got) OBVIOUS
<1>3. Given[c] = g BY <1>1, <1>2, BarsAt
<1>4. PICK n \in Nat : n = Len(got) /\ DOMAIN got = 1 .. n BY DEF Bufs
<1>5. g = [i \in 1 .. n |-> IF got[i][1] = c THEN got[i][2] ELSE 0]
  BY <1>2, <1>4 DEF NumbersOf
<1>6. \A i \in 1 .. n : got[i] \in Units BY <1>4 DEF Bufs
<1>7. \A i \in 1 .. n : (IF got[i][1] = c THEN got[i][2] ELSE 0) \in Nat
  BY <1>6 DEF Units
<1>8. g \in Seq(Nat) /\ Len(g) = n BY <1>5, <1>7
<1>9. Echo!LastGiven(c) = IF g = <<>> THEN 0 ELSE g[n]
  <2>1. Echo!LastGiven(c) = IF Given[c] = <<>> THEN 0 ELSE Given[c][Len(Given[c])]
    BY DEF Echo!LastGiven, Given
  <2>. QED BY <1>3, <1>8, <2>1
<1>10. CASE n = 0
  <2>1. g = <<>> BY <1>8, <1>10, EmptySeq
  <2>2. got = <<>>
    <3>1. got \in Seq(Units) BY DEF Bufs
    <3>. QED BY <1>4, <1>10, <3>1, EmptySeq
  <2>. QED BY <1>1, <1>9, <2>1, <2>2 DEF LastGot
<1>11. CASE n > 0
  <2>1. g # <<>> /\ got # <<>> BY <1>4, <1>8, <1>11
  <2>2. g[n] = got[n][2]
    <3>1. n \in 1 .. n /\ n = Len(got) BY <1>4, <1>11
    <3>2. got[n][1] = c BY <1>1, <3>1 DEF Own
    <3>. QED BY <1>5, <3>1, <3>2
  <2>. QED BY <1>1, <1>4, <1>9, <2>1, <2>2 DEF LastGot
<1>. QED BY <1>10, <1>11

(* A run of units after it is given. *)
LEMMA EchoGives ==
  ASSUME NEW c \in Clients, St[c] = "up", NEW base \in Nat, NEW n \in Nat, n > 0,
         NEW l \in Nat, l = Echo!LastGiven(c), NEW r \in Nat, r = Taken[c],
         l <= base, base + n <= r, base = l \/ server = "epoll_et",
         Given' = [Given EXCEPT ![c] = Given[c] \o Run(base, n)],
         St' = St, Sent' = Sent, Over' = Over, Taken' = Taken, server' = server
  PROVE  EchoStep
<1>1. PICK first \in Nat : first = base + 1 OBVIOUS
<1>2. PICK last \in Nat : last = base + n OBVIOUS
<1>3. first \in l + 1 .. r /\ last \in first .. r /\ (first = l + 1 \/ server = "epoll_et")
  BY <1>1, <1>2
<1>4. Run(base, n) = [i \in 1 .. last - first + 1 |-> first + i - 1]
  <2>1. 1 .. last - first + 1 = 1 .. n BY <1>1, <1>2
  <2>2. \A i \in 1 .. n : base + i = first + i - 1 BY <1>1
  <2>. QED BY <2>1, <2>2 DEF Run
<1>5. /\ first \in Echo!LastGiven(c) + 1 .. Taken[c] /\ last \in first .. Taken[c]
      /\ first = Echo!LastGiven(c) + 1 \/ server = "epoll_et"
  BY <1>3
<1>6. Given' = [Given EXCEPT ![c] =
                  Given[c] \o [i \in 1 .. last - first + 1 |-> first + i - 1]]
  BY <1>4
<1>7. Echo!Give(c)
  BY <1>5, <1>6 DEF Echo!Give, St, Sent, Over, Taken, Given
<1>. QED BY <1>7 DEF EchoStep

(* A server that goes on, or breaks, *)
LEMMA EchoGoesOn ==
  ASSUME EchoStep, alive, alive', server' = server, server = "select" /\ overrun => overrun'
  PROVE  [Echo!Next]_(Echo!vars)
<1>1. CASE server' = "select" /\ overrun'
  <2>1. Mode \in {"runs", "undefined"} /\ Mode' = "undefined" BY <1>1 DEF Mode
  <2>. QED BY <2>1 DEF Mode, Echo!Next, Echo!Break
<1>2. CASE ~ (server' = "select" /\ overrun')
  <2>1. Mode = "runs" /\ Mode' = "runs" BY <1>2 DEF Mode
  <2>2. CASE UNCHANGED <<St, Sent, Over, Taken, Given, server>>
    BY <2>1, <2>2 DEF Mode, Echo!vars, St, Sent, Over, Taken, Given
  <2>3. CASE \E c \in Clients :
               \/ Echo!Connect(c) \/ Echo!Send(c) \/ Echo!Leave(c) \/ Echo!Accept(c)
               \/ Echo!Take(c) \/ Echo!Give(c) \/ Echo!End(c)
    <3>1. Echo!Serve BY <2>1, <2>3 DEF Mode, Echo!Serve
    <3>. QED BY <3>1 DEF Echo!Next
  <2>. QED BY <2>2, <2>3 DEF EchoStep
<1>. QED BY <1>1, <1>2

(* and one that ends. *)
LEMMA EchoStops ==
  ASSUME KernelInv, Exit, alive, server = "select" => ~ overrun
  PROVE  [Echo!Next]_(Echo!vars)
<1>1. /\ alive' = FALSE /\ overrun' = overrun /\ server' = server
      /\ \A c \in Clients :
           /\ SameData(c)
           /\ cl'[c].st = IF cl[c].st \in {"backlog", "up"} THEN "down" ELSE cl[c].st
  BY ExitStep DEF Exit, rigid
<1>2. Mode = "runs" /\ Mode' = "stopped" BY <1>1 DEF Mode
<1>3. St' = [c \in Clients |-> IF St[c] \in {"backlog", "up"} THEN "down" ELSE St[c]]
  BY <1>1 DEF St
<1>4. Sent' = Sent /\ Over' = Over /\ Taken' = Taken
  BY <1>1 DEF Sent, Over, Taken, Ended, SameData
<1>5. Given' = Given BY <1>1 DEF Given, Numbers, SameData
<1>6. Echo!Stop
  BY <1>1, <1>2, <1>3, <1>4, <1>5 DEF Echo!Stop, Mode, St, Sent, Over, Taken, Given
<1>. QED BY <1>6 DEF Echo!Next

-----------------------------------------------------------------------------
(* No data are exchanged and no state changes. *)
LEMMA SameEcho ==
  ASSUME NEW c \in Clients, Touches(c), SameData(c), cl'[c].st = cl[c].st, server' = server
  PROVE  EchoStep
BY BarsSame, EchoStutters DEF SameData

(* An accepted connection. *)
LEMMA AcceptEcho ==
  ASSUME NEW c \in Clients, Touches(c), SameData(c), cl[c].st = "backlog",
         cl'[c].st = "up", server' = server
  PROVE  EchoStep
<1>1. Sent' = Sent /\ Over' = Over /\ Taken' = Taken /\ Given' = Given
  BY BarsSame DEF SameData
<1>2. St[c] = "backlog" /\ St' = [St EXCEPT ![c] = "up"] BY BarsAt, BarsStep
<1>. QED BY <1>1, <1>2, EchoAccepts

(* A Read. *)
LEMMA TakeEcho ==
  ASSUME KernelInv, NEW c \in Clients, cl[c].st = "up", Takes(c), server' = server
  PROVE  EchoStep
<1>1. Touches(c) BY DEF Takes
<1>2. St' = St /\ Sent' = Sent /\ Over' = Over /\ Given' = Given
  BY <1>1, BarsSame DEF Takes
<1>3. PICK n : n = cl'[c].read OBVIOUS
<1>4. n \in cl[c].read + 1 .. cl[c].sent BY <1>3 DEF Takes
<1>5. n \in Taken[c] + 1 .. Sent[c] /\ St[c] = "up" BY <1>4, BarsAt
<1>6. Taken' = [Taken EXCEPT ![c] = n] BY <1>1, <1>3, BarsStep
<1>. QED BY <1>2, <1>5, <1>6, EchoTakes

(* A Write. *)
LEMMA GiveEcho ==
  ASSUME KernelInv, NEW c \in Clients, cl[c].st = "up", NEW buf \in Bufs, Promise(c, buf),
         server' = server, Own(c, cl[c].got), NEW part \in Bufs, Len(part) <= Len(buf),
         \A i \in 1 .. Len(part) : part[i] = buf[i],
         Len(part) = Len(buf) \/ server = "epoll_et", Gives(c, part)
  PROVE  Promise(c, <<>>)' /\ Own(c, cl'[c].got) /\ EchoStep
<1>1. /\ Promise(c, <<>>)' /\ Own(c, cl'[c].got)
      /\ \/ cl'[c].got = cl[c].got
         \/ \E base \in Nat :
              /\ LastGot(cl[c].got) <= base /\ part # <<>> /\ base + Len(part) <= cl[c].read
              /\ base = LastGot(cl[c].got) \/ server = "epoll_et"
              /\ NumbersOf(c, cl'[c].got) =
                   NumbersOf(c, cl[c].got) \o Run(base, Len(part))
  BY PromiseGives
<1>2. Touches(c) /\ St' = St /\ Sent' = Sent /\ Over' = Over /\ Taken' = Taken
  BY BarsSame DEF Gives
<1>3. CASE cl'[c].got = cl[c].got
  <2>1. Given' = Given BY <1>2, <1>3, BarsSame
  <2>. QED BY <1>1, <1>2, <2>1, EchoStutters
<1>4. ASSUME NEW base \in Nat, LastGot(cl[c].got) <= base, part # <<>>,
             base + Len(part) <= cl[c].read,
             base = LastGot(cl[c].got) \/ server = "epoll_et",
             NumbersOf(c, cl'[c].got) = NumbersOf(c, cl[c].got) \o Run(base, Len(part))
      PROVE  EchoStep
  <2>1. PICK n \in Nat : n = Len(part) /\ n > 0
    <3>1. part \in Seq(Units) BY DEF Bufs
    <3>. QED BY <1>4, <3>1, EmptySeq
  <2>2. PICK l \in Nat : l = LastGot(cl[c].got) /\ l = Echo!LastGiven(c)
    BY PeerIs, LastGotIs, LastGivenIs
  <2>3. PICK r \in Nat : r = cl[c].read /\ r = Taken[c] BY PeerIs, BarsAt
  <2>4. St[c] = "up" /\ Given[c] = NumbersOf(c, cl[c].got) BY BarsAt
  <2>5. Given' = [Given EXCEPT ![c] = Given[c] \o Run(base, n)]
    BY <1>2, <1>4, <2>1, <2>4, BarsStep
  <2>6. l <= base /\ base + n <= r /\ (base = l \/ server = "epoll_et")
    BY <1>4, <2>1, <2>2, <2>3
  <2>. QED BY <1>2, <2>1, <2>2, <2>3, <2>4, <2>5, <2>6, EchoGives
<1>. QED BY <1>1, <1>3, <1>4

(* A Close. *)
LEMMA EndEcho ==
  ASSUME KernelInv, NEW c \in Clients, Touches(c), SameData(c), cl[c].st = "up",
         cl'[c].st = "down", ReadsEof(c) \/ ReadsErr(c), server' = server
  PROVE  EchoStep
<1>1. Sent' = Sent /\ Over' = Over /\ Taken' = Taken /\ Given' = Given
  BY BarsSame DEF SameData
<1>2. St[c] = "up" /\ St' = [St EXCEPT ![c] = "down"] BY BarsAt, BarsStep
<1>3. cl[c].fin \/ cl[c].rst BY DEF ReadsEof, ReadsErr, Ended, KernelInv, PeerInv
<1>4. cl[c].read = cl[c].sent
  <2>1. ~ (cl[c].read < cl[c].sent) BY DEF ReadsEof, ReadsErr, Unread
  <2>2. cl[c].read <= cl[c].sent BY DEF KernelInv, PeerInv
  <2>. QED BY <2>1, <2>2, PeerIs
<1>5. Over[c] /\ Taken[c] = Sent[c] BY <1>3, <1>4, BarsAt
<1>. QED BY <1>1, <1>2, <1>5, EchoEnds

(* What a client does. *)
LEMMA ClientEcho ==
  ASSUME KernelInv, NEW c \in Clients, ClientActs(c), Touches(c), server' = server
  PROVE  EchoStep
<1>1. cl[c] \in Peer /\ cl \in [Clients -> Peer] BY DEF KernelInv, KernelTyped
<1>2. CASE Connect(c)
  <2>1. cl' = [cl EXCEPT ![c].st = "backlog"] /\ cl[c].st = "new"
    BY <1>1, <1>2 DEF Connect, ClientStep
  <2>2. SameData(c) /\ cl'[c].st = "backlog" BY <1>1, <2>1 DEF Peer, SameData
  <2>3. Sent' = Sent /\ Over' = Over /\ Taken' = Taken /\ Given' = Given
    BY <2>2, BarsSame DEF SameData
  <2>4. St[c] = "new" /\ St' = [St EXCEPT ![c] = "backlog"]
    BY <2>1, <2>2, BarsAt, BarsStep
  <2>. QED BY <2>3, <2>4, EchoConnects
<1>3. CASE Send(c)
  <2>1. /\ cl' = [cl EXCEPT ![c] = [cl[c] EXCEPT !.sent = cl[c].sent + 1]]
        /\ cl[c].st \in {"backlog", "up"} /\ ~ (cl[c].fin \/ cl[c].rst)
    BY <1>1, <1>3 DEF Send, ClientStep, Talking, Ended
  <2>2. /\ cl'[c].st = cl[c].st /\ cl'[c].sent = cl[c].sent + 1 /\ cl'[c].read = cl[c].read
        /\ cl'[c].got = cl[c].got /\ cl'[c].fin = cl[c].fin /\ cl'[c].rst = cl[c].rst
    BY <1>1, <2>1 DEF Peer
  <2>3. St' = St /\ Over' = Over /\ Taken' = Taken /\ Given' = Given BY <2>2, BarsSame
  <2>4. St[c] \in {"backlog", "up"} /\ ~ Over[c] /\ Sent[c] = cl[c].sent BY <2>1, BarsAt
  <2>5. Sent' = [Sent EXCEPT ![c] = Sent[c] + 1] BY <2>2, <2>4, BarsStep
  <2>. QED BY <2>3, <2>4, <2>5, EchoSends
<1>4. CASE Finish(c) \/ Reset(c)
  <2>1. /\ cl[c].st \in {"backlog", "up"}
        /\ \/ cl' = [cl EXCEPT ![c] = [cl[c] EXCEPT !.fin = TRUE]]
           \/ cl' = [cl EXCEPT ![c] = [cl[c] EXCEPT !.rst = TRUE, !.err = TRUE]]
    BY <1>1, <1>4 DEF Finish, Reset, ClientStep, Talking
  <2>2. /\ cl'[c].st = cl[c].st /\ cl'[c].sent = cl[c].sent /\ cl'[c].read = cl[c].read
        /\ cl'[c].got = cl[c].got /\ (cl'[c].fin = TRUE \/ cl'[c].rst = TRUE)
    <3>1. CASE cl' = [cl EXCEPT ![c] = [cl[c] EXCEPT !.fin = TRUE]]
      BY <1>1, <3>1 DEF Peer
    <3>2. CASE cl' = [cl EXCEPT ![c] = [cl[c] EXCEPT !.rst = TRUE, !.err = TRUE]]
      BY <1>1, <3>2 DEF Peer
    <3>. QED BY <2>1, <3>1, <3>2
  <2>3. (cl'[c].fin \/ cl'[c].rst) = TRUE BY <2>2
  <2>4. St' = St /\ Sent' = Sent /\ Taken' = Taken /\ Given' = Given BY <2>2, BarsSame
  <2>5. St[c] \in {"backlog", "up"} BY <2>1, BarsAt
  <2>6. Over' = [Over EXCEPT ![c] = TRUE] BY <2>3, BarsStep
  <2>. QED BY <2>4, <2>5, <2>6, EchoLeaves
<1>5. CASE StopReading(c)
  <2>1. cl' = [cl EXCEPT ![c].reads = FALSE] BY <1>5 DEF StopReading
  <2>2. SameData(c) /\ cl'[c].st = cl[c].st BY <1>1, <2>1 DEF Peer, SameData
  <2>. QED BY <2>2, SameEcho
<1>. QED BY <1>2, <1>3, <1>4, <1>5 DEF ClientActs

-----------------------------------------------------------------------------
(* Nobody gets anything, *)
LEMMA OwnSame ==
  ASSUME OwnInv, \A d \in Clients : cl'[d].got = cl[d].got PROVE OwnInv'
BY DEF OwnInv

(* or only client c. *)
LEMMA OwnGiven ==
  ASSUME OwnInv, NEW c \in Clients, Touches(c), Own(c, cl'[c].got) PROVE OwnInv'
BY DEF OwnInv, Touches

(* What is held for one connection changes. *)
LEMMA BufStep ==
  ASSUME KernelInv, BufInv, SameConns, NEW fd \in OpenFds, Touches(conn[fd]),
         server' = server, \A f \in FD : f # fd => out'[f] = out[f],
         Promise(conn[fd], out[fd])'
  PROVE  BufInv'
<1>1. SUFFICES ASSUME NEW f \in OpenFds, f # fd PROVE Promise(conn[f], out[f])'
  BY DEF BufInv, SameConns
<1>2. f \in FD /\ fd \in FD BY DEF OpenFds
<1>3. PICK d \in Clients : d = conn[f] /\ d = conn'[f] /\ d # conn[fd]
  BY <1>1, <1>2 DEF OpenFds, KernelInv, KernelTyped, ConnInv, SameConns
<1>4. PICK buf : buf = out[f] /\ buf = out'[f] BY <1>1, <1>2
<1>5. cl'[d] = cl[d] BY <1>3 DEF Touches
<1>6. Promise(d, buf) BY <1>3, <1>4 DEF BufInv
<1>7. Promise(d, buf)' BY <1>5, <1>6, PromiseKept
<1>. QED BY <1>3, <1>4, <1>7

(* A server other than reactor_1 goes on, or ends the process. *)
LEMMA PlainEnds ==
  ASSUME PlainOp, alive PROVE Exit \/ alive'
BY DEF PlainOp, Read, ReadFails, Close, Write, Loses, kernelVars

(* The servers that keep what they have read in the buffer of a call. *)
LEMMA PlainEcho ==
  ASSUME KernelInv, OwnInv, BufInv, PlainOp, alive'
  PROVE  OwnInv' /\ BufInv' /\ EchoStep
<1>0. UNCHANGED rigid /\ server' = server BY DEF PlainOp, rigid
<1>1. ASSUME NEW c \in Clients, Accept(c), overrun' \in BOOLEAN, UNCHANGED <<out, alive>>
      PROVE  OwnInv' /\ BufInv' /\ EchoStep
  <2>1. /\ Touches(c) /\ SameData(c) /\ cl[c].st = "backlog" /\ cl'[c].st = "up"
        /\ \A d \in Clients : SameData(d)
        /\ AcceptedFd \in FD /\ AcceptedFd \notin OpenFds /\ conn'[AcceptedFd] = c
        /\ \A f \in FD : f # AcceptedFd => conn'[f] = conn[f]
        /\ OpenFds' = OpenFds \cup {AcceptedFd} /\ Writing' = Writing
    BY <1>0, <1>1, AcceptStep
  <2>2. EchoStep BY <1>0, <2>1, AcceptEcho
  <2>3. OwnInv' BY <2>1, OwnSame DEF SameData
  <2>4. ASSUME NEW f \in OpenFds' PROVE Promise(conn[f], out[f])'
    <3>1. CASE f = AcceptedFd
      <4>1. out[f] = <<>> BY <2>1, <3>1 DEF KernelInv, ConnInv, Writing
      <4>2. cl'[c].got = <<>> /\ cl'[c].read = 0
        BY <2>1 DEF SameData, KernelInv, PeerInv
      <4>3. Promise(c, <<>>)' BY <4>2, PromiseNew
      <4>. QED BY <1>1, <2>1, <3>1, <4>1, <4>3
    <3>2. CASE f # AcceptedFd
      <4>1. f \in OpenFds /\ f \in FD BY <2>1, <3>2 DEF OpenFds
      <4>2. PICK d \in Clients : d = conn[f] /\ d = conn'[f]
        BY <2>1, <3>2, <4>1 DEF OpenFds, KernelInv, KernelTyped
      <4>3. PICK buf : buf = out[f] OBVIOUS
      <4>4. Promise(d, buf) BY <4>1, <4>2, <4>3 DEF BufInv
      <4>5. Promise(d, buf)' BY <1>0, <2>1, <4>4, PromiseKept DEF SameData
      <4>. QED BY <1>1, <4>2, <4>3, <4>5
    <3>. QED BY <3>1, <3>2
  <2>. QED BY <2>2, <2>3, <2>4 DEF BufInv
<1>2. ASSUME NEW fd \in OpenFds \ Writing, Read(fd) PROVE OwnInv' /\ BufInv' /\ EchoStep
  <2>1. fd \in FD /\ conn[fd] # None BY DEF OpenFds
  <2>2. /\ SameConns /\ Takes(conn[fd]) /\ out'[fd] = Received(conn[fd])
        /\ \A f \in FD : f # fd => out'[f] = out[f]
    BY <1>0, <1>2, <2>1, ReadStep
  <2>3. PICK c \in Clients : c = conn[fd] BY <2>1 DEF KernelInv, KernelTyped
  <2>4. cl[c].st = "up" /\ Unread(c) BY <1>2, <2>1, <2>3 DEF KernelInv, ConnInv, Read
  <2>5. EchoStep BY <1>0, <2>2, <2>3, <2>4, TakeEcho
  <2>6. Promise(c, <<>>) BY <2>1, <2>3 DEF BufInv, Writing, OpenFds
  <2>7. PICK buf : buf = Received(c) OBVIOUS
  <2>8. Promise(c, buf)' BY <1>0, <2>2, <2>3, <2>4, <2>6, <2>7, PromiseTakes
  <2>9. Touches(c) /\ cl'[c].got = cl[c].got BY <2>2, <2>3 DEF Takes
  <2>10. Promise(conn[fd], out[fd])' BY <2>2, <2>3, <2>7, <2>8 DEF SameConns
  <2>11. BufInv' BY <1>0, <2>2, <2>3, <2>9, <2>10, BufStep
  <2>12. OwnInv' BY <2>9, OwnSame DEF Touches
  <2>. QED BY <2>5, <2>11, <2>12
<1>3. ASSUME NEW fd \in OpenFds \ Writing, ReadFails(fd)
      PROVE  OwnInv' /\ BufInv' /\ EchoStep
  <2>1. fd \in FD /\ conn[fd] # None BY DEF OpenFds
  <2>2. PICK c \in Clients : c = conn[fd] BY <2>1 DEF KernelInv, KernelTyped
  <2>3. /\ SameConns /\ UNCHANGED out /\ Touches(c) /\ SameData(c)
        /\ cl'[c].st = cl[c].st
    BY <1>0, <1>3, <2>1, <2>2, ReadFailsStep
  <2>4. EchoStep BY <1>0, <2>3, SameEcho
  <2>5. PICK buf : buf = out[fd] OBVIOUS
  <2>6. Promise(c, buf) BY <2>1, <2>2, <2>5 DEF BufInv, OpenFds
  <2>7. Promise(c, buf)' BY <1>0, <2>3, <2>6, PromiseKept DEF SameData
  <2>8. Promise(conn[fd], out[fd])' BY <2>2, <2>3, <2>5, <2>7 DEF SameConns
  <2>9. BufInv' BY <1>0, <2>2, <2>3, <2>8, BufStep
  <2>10. OwnInv' BY <2>3, OwnSame DEF Touches, SameData
  <2>. QED BY <2>4, <2>9, <2>10
<1>4. ASSUME NEW fd \in OpenFds \ Writing, Close(fd), ReadsEof(conn[fd]) \/ ReadsErr(conn[fd])
      PROVE  OwnInv' /\ BufInv' /\ EchoStep
  <2>1. fd \in FD /\ conn[fd] # None BY DEF OpenFds
  <2>2. PICK c \in Clients : c = conn[fd] BY <2>1 DEF KernelInv, KernelTyped
  <2>3. /\ UNCHANGED out /\ Touches(c) /\ SameData(c) /\ cl[c].st = "up" /\ cl'[c].st = "down"
        /\ OpenFds' = OpenFds \ {fd}
        /\ \A f \in FD : f # fd => conn'[f] = conn[f] /\ conn[f] # c
    BY <1>0, <1>4, <2>1, <2>2, CloseStep
  <2>4. EchoStep BY <1>0, <1>4, <2>2, <2>3, EndEcho
  <2>5. ASSUME NEW f \in OpenFds' PROVE Promise(conn[f], out[f])'
    <3>1. f \in FD /\ f # fd /\ f \in OpenFds BY <2>3 DEF OpenFds
    <3>2. PICK d \in Clients : d = conn[f] /\ d = conn'[f] /\ d # c
      BY <2>3, <3>1 DEF OpenFds, KernelInv, KernelTyped
    <3>3. PICK buf : buf = out[f] OBVIOUS
    <3>4. Promise(d, buf) BY <3>1, <3>2, <3>3 DEF BufInv
    <3>5. cl'[d] = cl[d] BY <2>3, <3>2 DEF Touches
    <3>6. Promise(d, buf)' BY <1>0, <3>4, <3>5, PromiseKept
    <3>. QED BY <2>3, <3>2, <3>3, <3>6
  <2>6. OwnInv' BY <2>3, OwnSame DEF Touches, SameData
  <2>. QED BY <2>4, <2>5, <2>6 DEF BufInv
<1>5. ASSUME NEW fd \in FD, Write(fd) \/ (server = "epoll_et" /\ Loses(fd))
      PROVE  OwnInv' /\ BufInv' /\ EchoStep
  <2>1. fd \in Writing /\ fd \in OpenFds BY <1>5 DEF Write, Loses, KernelInv, ConnInv
  <2>2. PICK c \in Clients : c = conn[fd] BY <2>1 DEF OpenFds, KernelInv, KernelTyped
  <2>3. PICK buf \in Bufs : buf = out[fd] BY DEF KernelInv, KernelTyped
  <2>4. /\ SameConns /\ out'[fd] = <<>>
        /\ \A f \in FD : f # fd => out'[f] = out[f]
        /\ \E part \in Bufs :
             /\ Len(part) <= Len(buf) /\ \A i \in 1 .. Len(part) : part[i] = buf[i]
             /\ Len(part) = Len(buf) \/ server = "epoll_et"
             /\ Gives(c, part)
    <3>1. CASE Write(fd)
      <4>1. /\ SameConns /\ out'[fd] = <<>> /\ Gives(c, buf)
            /\ \A f \in FD : f # fd => out'[f] = out[f]
        BY <1>0, <2>2, <2>3, <3>1, WriteStep
      <4>2. Len(buf) <= Len(buf) BY DEF Bufs
      <4>. QED BY <4>1, <4>2
    <3>2. CASE server = "epoll_et" /\ Loses(fd)
      <4>1. /\ SameConns /\ out'[fd] = <<>>
            /\ \A f \in FD : f # fd => out'[f] = out[f]
            /\ \E n \in 0 .. Len(buf) - 1 : Gives(c, SubSeq(buf, 1, n))
        BY <1>0, <2>2, <2>3, <3>2, LosesStep
      <4>2. PICK n \in 0 .. Len(buf) - 1 : Gives(c, SubSeq(buf, 1, n)) BY <4>1
      <4>3. n \in 0 .. Len(buf) BY DEF Bufs
      <4>4. /\ SubSeq(buf, 1, n) \in Bufs /\ Len(SubSeq(buf, 1, n)) = n
            /\ \A i \in 1 .. n : SubSeq(buf, 1, n)[i] = buf[i]
        BY <4>3, PrefixIs DEF Bufs
      <4>5. n <= Len(buf) BY <4>3 DEF Bufs
      <4>. QED BY <3>2, <4>1, <4>2, <4>4, <4>5
    <3>. QED BY <1>5, <3>1, <3>2
  <2>5. PICK part \in Bufs : /\ Len(part) <= Len(buf)
                             /\ \A i \in 1 .. Len(part) : part[i] = buf[i]
                             /\ Len(part) = Len(buf) \/ server = "epoll_et"
                             /\ Gives(c, part)
    BY <2>4
  <2>6. cl[c].st = "up" BY <2>1, <2>2 DEF KernelInv, ConnInv, OpenFds
  <2>7. Promise(c, buf) /\ Own(c, cl[c].got) BY <2>1, <2>2, <2>3 DEF BufInv, OwnInv
  <2>8. Promise(c, <<>>)' /\ Own(c, cl'[c].got) /\ EchoStep
    BY <1>0, <2>5, <2>6, <2>7, GiveEcho
  <2>9. Touches(c) BY <2>5 DEF Gives
  <2>10. Promise(conn[fd], out[fd])' BY <2>2, <2>4, <2>8 DEF SameConns
  <2>11. BufInv' BY <1>0, <2>1, <2>2, <2>4, <2>9, <2>10, BufStep
  <2>. QED BY <2>8, <2>9, <2>11, OwnGiven
<1>6. CASE UNCHANGED kernelVars
  <2>1. cl' = cl BY <1>6 DEF kernelVars
  <2>2. EchoStep BY <1>0, <2>1, EchoStutters DEF St, Sent, Over, Taken, Given, Ended, Numbers
  <2>. QED BY <1>0, <1>6, <2>2 DEF kernelVars, OwnInv, BufInv, OpenFds, Promise
<1>7. ~ Exit BY DEF Exit
<1>. QED BY <1>1, <1>2, <1>3, <1>4, <1>5, <1>6, <1>7 DEF PlainOp

(* reactor_1 keeps it in the places: one of them changes. *)
LEMMA PlaceStep ==
  ASSUME KernelInv, XInv, PlaceInv, UNCHANGED rigid, NEW s \in Places, NEW c \in Clients,
         Touches(c), \A t \in Places : t # s => myevents'[t] = myevents[t],
         \A t \in Places : t # s /\ myevents[t].fd \in FD =>
           conn'[myevents[t].fd] = conn[myevents[t].fd] /\ conn[myevents[t].fd] # c,
         myevents'[s].fd \in FD => Promise(conn[myevents[s].fd], Held(s))'
  PROVE  PlaceInv'
<1>1. UNCHANGED <<server, size>> /\ Places' = Places BY DEF rigid, Places
<1>2. SUFFICES ASSUME NEW t \in Places, t # s, myevents[t].fd \in FD
               PROVE  Promise(conn[myevents[t].fd], Held(t))'
  BY <1>1 DEF PlaceInv
<1>3. PICK f \in FD : f = myevents[t].fd /\ f = myevents'[t].fd BY <1>2
<1>4. conn[f] # None BY <1>2, <1>3 DEF XInv
<1>5. PICK d \in Clients : d = conn[f] /\ d = conn'[f] /\ d # c
  BY <1>2, <1>3, <1>4 DEF KernelInv, KernelTyped
<1>6. PICK buf : buf = Held(t) /\ buf = Held(t)' BY <1>2 DEF Held
<1>7. Promise(d, buf) BY <1>2, <1>3, <1>5, <1>6 DEF PlaceInv
<1>8. cl'[d] = cl[d] BY <1>5 DEF Touches
<1>9. Promise(d, buf)' BY <1>1, <1>7, <1>8, PromiseKept
<1>. QED BY <1>3, <1>5, <1>6, <1>9

(* Places have different connections. *)
LEMMA PlacesDiffer ==
  ASSUME KernelInv, XInv, NEW s \in Places, myevents[s].fd \in FD,
         NEW t \in Places, t # s, myevents[t].fd \in FD
  PROVE  conn[myevents[t].fd] # conn[myevents[s].fd]
<1>1. myevents[s].fd # myevents[t].fd BY FdNumbers DEF XInv
<1>2. conn[myevents[s].fd] # None BY DEF XInv
<1>. QED BY <1>1, <1>2 DEF KernelInv, ConnInv

(* The steps of reactor_1. *)
LEMMA XEcho ==
  ASSUME KernelInv, XInv, XStep, alive', OwnInv, PlaceInv, UNCHANGED rigid
  PROVE  OwnInv' /\ PlaceInv' /\ EchoStep
<1>0. server' = server BY DEF rigid
<1>1. CASE XWait \/ XSkip \/ \E s \in Places : XReadWaits(s)
  <2>1. UNCHANGED <<rigid, kernelVars, myevents>> BY <1>1, IdlePlaces
  <2>2. UNCHANGED <<server, size, conn, cl, myevents>> BY <2>1 DEF rigid, kernelVars
  <2>3. EchoStep BY <2>2, EchoStutters DEF St, Sent, Over, Taken, Given, Ended, Numbers
  <2>. QED BY <2>2, <2>3 DEF OwnInv, PlaceInv, Places, Promise, Held
<1>2. ASSUME NEW s \in Places, initAccept(s) PROVE OwnInv' /\ PlaceInv' /\ EchoStep
  <2>1. PICK c \in Clients : Accept(c) BY <1>2 DEF initAccept, Backlog
  <2>2. UNCHANGED <<out, alive>> BY <1>2 DEF initAccept
  <2>3. PICK i \in Places : PlaceSet(i, AcceptedFd, "in", "readData")
    BY <1>2, AcceptPlaces
  <2>4. overrun' \in BOOLEAN BY <1>2 DEF initAccept
  <2>5. /\ Touches(c) /\ SameData(c) /\ cl[c].st = "backlog" /\ cl'[c].st = "up"
        /\ \A d \in Clients : SameData(d)
        /\ AcceptedFd \in FD /\ AcceptedFd \notin OpenFds /\ conn'[AcceptedFd] = c
        /\ \A f \in FD : f # AcceptedFd => conn'[f] = conn[f]
    BY <2>1, <2>2, <2>4, AcceptStep
  <2>6. EchoStep BY <1>0, <2>5, AcceptEcho
  <2>7. OwnInv' BY <2>5, OwnSame DEF SameData
  <2>8. Promise(c, <<>>)'
    <3>1. cl'[c].got = <<>> /\ cl'[c].read = 0 BY <2>5 DEF SameData, KernelInv, PeerInv
    <3>. QED BY <3>1, PromiseNew
  <2>9. /\ myevents'[i].fd = AcceptedFd /\ Held(i)' = <<>>
        /\ \A t \in Places : t # i => myevents'[t] = myevents[t]
    BY <2>3 DEF PlaceSet, Held
  <2>10. Promise(conn[myevents[i].fd], Held(i))' BY <2>5, <2>8, <2>9
  <2>11. ASSUME NEW t \in Places, myevents[t].fd \in FD
         PROVE  conn'[myevents[t].fd] = conn[myevents[t].fd] /\ conn[myevents[t].fd] # c
    <3>1. PICK f \in FD : f = myevents[t].fd BY <2>11
    <3>2. conn[f] # None BY <2>11, <3>1 DEF XInv
    <3>3. f # AcceptedFd BY <2>5, <3>2 DEF OpenFds
    <3>4. cl[conn[f]].st = "up" BY <3>2 DEF KernelInv, ConnInv
    <3>. QED BY <2>5, <3>1, <3>3, <3>4
  <2>12. PlaceInv' BY <2>5, <2>9, <2>10, <2>11, PlaceStep
  <2>. QED BY <2>6, <2>7, <2>12
<1>3. ASSUME NEW s \in Places, readData(s) PROVE OwnInv' /\ PlaceInv' /\ EchoStep
  <2>1. /\ SameConns /\ myevents[s].fd \in FD /\ conn[myevents[s].fd] \in Clients
        /\ Takes(conn[myevents[s].fd])
        /\ PlaceSet(s, myevents[s].fd, "out", "senddata")
        /\ myevents'[s].buf = Received(conn[myevents[s].fd])
    BY <1>3, ReadPlaces
  <2>2. PICK fd \in FD : fd = myevents[s].fd BY <2>1
  <2>3. PICK c \in Clients : c = conn[fd] BY <2>1, <2>2
  <2>4. /\ Takes(c) /\ Touches(c) /\ cl'[c].got = cl[c].got
        /\ myevents'[s].fd = fd /\ Held(s)' = Received(c)
        /\ \A t \in Places : t # s => myevents'[t] = myevents[t]
    BY <2>1, <2>2, <2>3 DEF Takes, PlaceSet, Held
  <2>5. Unread(c) /\ myevents[s].call_back = "readData"
    BY <1>3, <2>2, <2>3 DEF readData, Calls
  <2>6. cl[c].st = "up"
    <3>1. c # None BY ClientsAssumption
    <3>. QED BY <2>3, <3>1 DEF KernelInv, ConnInv
  <2>7. EchoStep BY <1>0, <2>4, <2>6, TakeEcho
  <2>8. Promise(c, <<>>) BY <2>2, <2>3, <2>5 DEF PlaceInv, Held
  <2>9. PICK buf : buf = Received(c) OBVIOUS
  <2>10. Promise(c, buf)' BY <1>0, <2>4, <2>5, <2>8, <2>9, PromiseTakes
  <2>11. Promise(conn[myevents[s].fd], Held(s))'
    BY <2>1, <2>3, <2>4, <2>9, <2>10 DEF SameConns
  <2>12. \A t \in Places : t # s /\ myevents[t].fd \in FD =>
           conn'[myevents[t].fd] = conn[myevents[t].fd] /\ conn[myevents[t].fd] # c
    BY <2>1, <2>2, <2>3, PlacesDiffer DEF SameConns
  <2>13. PlaceInv' BY <2>4, <2>11, <2>12, PlaceStep
  <2>14. OwnInv' BY <2>4, OwnSame DEF Touches
  <2>. QED BY <2>7, <2>13, <2>14
<1>4. ASSUME NEW s \in Places, XReadFails(s) PROVE OwnInv' /\ PlaceInv' /\ EchoStep
  <2>1. /\ SameConns /\ myevents[s].fd \in OpenFds /\ ReadFails(myevents[s].fd)
        /\ UNCHANGED myevents
    BY <1>4, FailPlaces
  <2>2. PICK fd \in FD : fd = myevents[s].fd /\ conn[fd] # None BY <2>1 DEF OpenFds
  <2>3. PICK c \in Clients : c = conn[fd] BY <2>2 DEF KernelInv, KernelTyped
  <2>4. Touches(c) /\ SameData(c) /\ cl'[c].st = cl[c].st
    BY <2>1, <2>2, <2>3, ReadFailsStep
  <2>5. EchoStep BY <1>0, <2>4, SameEcho
  <2>6. PICK buf : buf = Held(s) /\ buf = Held(s)' BY <2>1 DEF Held
  <2>7. Promise(c, buf) BY <2>2, <2>3, <2>6 DEF PlaceInv
  <2>8. Promise(c, buf)' BY <1>0, <2>4, <2>7, PromiseKept DEF SameData
  <2>9. Promise(conn[myevents[s].fd], Held(s))'
    BY <2>1, <2>2, <2>3, <2>6, <2>8 DEF SameConns
  <2>10. \A t \in Places : t # s /\ myevents[t].fd \in FD =>
           conn'[myevents[t].fd] = conn[myevents[t].fd] /\ conn[myevents[t].fd] # c
    BY <2>1, <2>2, <2>3, PlacesDiffer DEF SameConns
  <2>11. PlaceInv' BY <2>1, <2>4, <2>9, <2>10, PlaceStep
  <2>12. OwnInv' BY <2>4, OwnSame DEF Touches, SameData
  <2>. QED BY <2>5, <2>11, <2>12
<1>5. ASSUME NEW s \in Places, XClose(s) PROVE OwnInv' /\ PlaceInv' /\ EchoStep
  <2>1. /\ myevents[s].fd \in OpenFds /\ Writing = {} /\ Close(myevents[s].fd)
        /\ PlaceSet(s, NoFd, "none", "none")
    BY <1>5, ClosePlaces
  <2>2. PICK fd \in FD : fd = myevents[s].fd /\ conn[fd] # None BY <2>1 DEF OpenFds
  <2>3. PICK c \in Clients : c = conn[fd] BY <2>2 DEF KernelInv, KernelTyped
  <2>4. /\ Touches(c) /\ SameData(c) /\ cl[c].st = "up" /\ cl'[c].st = "down"
        /\ \A f \in FD : f # fd => conn'[f] = conn[f] /\ conn[f] # c
    BY <2>1, <2>2, <2>3, CloseStep
  <2>5. ReadsEof(c) BY <1>5, <2>2, <2>3 DEF XClose
  <2>6. EchoStep BY <1>0, <2>4, <2>5, EndEcho
  <2>7. \A t \in Places : t # s /\ myevents[t].fd \in FD =>
          conn'[myevents[t].fd] = conn[myevents[t].fd] /\ conn[myevents[t].fd] # c
    BY <2>2, <2>3, <2>4, PlacesDiffer
  <2>8. myevents'[s].fd \notin FD /\ \A t \in Places : t # s => myevents'[t] = myevents[t]
    BY <2>1, FdNumbers DEF PlaceSet
  <2>9. PlaceInv' BY <2>4, <2>7, <2>8, PlaceStep
  <2>10. OwnInv' BY <2>4, OwnSame DEF Touches, SameData
  <2>. QED BY <2>6, <2>9, <2>10
<1>6. ASSUME NEW s \in Places, senddata(s) PROVE OwnInv' /\ PlaceInv' /\ EchoStep
  <2>1. UNCHANGED <<server, size, conn, cl, myevents>> BY <1>6 DEF senddata, rigid
  <2>2. EchoStep BY <2>1, EchoStutters DEF St, Sent, Over, Taken, Given, Ended, Numbers
  <2>. QED BY <2>1, <2>2 DEF OwnInv, PlaceInv, Places, Promise, Held
<1>7. ASSUME NEW s \in Places, XWrite(s) PROVE OwnInv' /\ PlaceInv' /\ EchoStep
  <2>1. /\ SameConns /\ myevents[s].fd \in FD /\ conn[myevents[s].fd] \in Clients
        /\ myevents[s].call_back = "senddata" /\ out[myevents[s].fd] = myevents[s].buf
        /\ Gives(conn[myevents[s].fd], out[myevents[s].fd])
        /\ PlaceSet(s, myevents[s].fd, "in", "readData")
    BY <1>7, WritePlaces
  <2>2. PICK fd \in FD : fd = myevents[s].fd BY <2>1
  <2>3. PICK c \in Clients : c = conn[fd] BY <2>1, <2>2
  <2>4. PICK buf \in Bufs : buf = out[fd] BY DEF KernelInv, KernelTyped
  <2>5. /\ Gives(c, buf) /\ Held(s) = buf /\ myevents'[s].fd = fd /\ Held(s)' = <<>>
        /\ \A t \in Places : t # s => myevents'[t] = myevents[t]
    BY <2>1, <2>2, <2>3, <2>4 DEF PlaceSet, Held
  <2>6. Touches(c) BY <2>5 DEF Gives
  <2>7. cl[c].st = "up"
    <3>1. c # None BY ClientsAssumption
    <3>. QED BY <2>3, <3>1 DEF KernelInv, ConnInv
  <2>8. Promise(c, buf) /\ Own(c, cl[c].got)
    BY <2>2, <2>3, <2>5 DEF PlaceInv, OwnInv
  <2>9. Len(buf) <= Len(buf) BY DEF Bufs
  <2>10. Promise(c, <<>>)' /\ Own(c, cl'[c].got) /\ EchoStep
    BY <1>0, <2>5, <2>7, <2>8, <2>9, GiveEcho
  <2>11. Promise(conn[myevents[s].fd], Held(s))'
    BY <2>1, <2>3, <2>5, <2>10 DEF SameConns
  <2>12. \A t \in Places : t # s /\ myevents[t].fd \in FD =>
           conn'[myevents[t].fd] = conn[myevents[t].fd] /\ conn[myevents[t].fd] # c
    BY <2>1, <2>2, <2>3, PlacesDiffer DEF SameConns
  <2>13. PlaceInv' BY <2>5, <2>6, <2>11, <2>12, PlaceStep
  <2>. QED BY <2>6, <2>10, <2>13, OwnGiven
<1>8. CASE (\E s \in Places : XAcceptExits(s)) \/ \E fd \in FD : XKilled(fd)
  BY <1>8 DEF XAcceptExits, AcceptExits, XKilled, WriteKilled, Exit
<1>. QED BY <1>1, <1>2, <1>3, <1>4, <1>5, <1>6, <1>7, <1>8 DEF XStep

-----------------------------------------------------------------------------
(* What a client does keeps what is held for it. *)
LEMMA ClientEchoInv ==
  ASSUME KernelInv, NEW c \in Clients, Acts(c), SameConns,
         UNCHANGED <<rigid, out, myevents, alive>>
  PROVE  (OwnInv => OwnInv') /\ (BufInv => BufInv') /\ (XInv /\ PlaceInv => PlaceInv')
<1>1. UNCHANGED <<server, size>> BY DEF rigid
<1>2. ASSUME NEW d \in Clients
      PROVE  /\ cl'[d].got = cl[d].got /\ cl'[d].read = cl[d].read
             /\ cl[d].rst => cl'[d].rst
  BY DEF Acts, Touches
<1>3. OwnInv => OwnInv' BY <1>2, OwnSame
<1>4. ASSUME NEW d \in Clients, NEW buf, Promise(d, buf) PROVE Promise(d, buf)'
  BY <1>1, <1>2, <1>4, PromiseKept
<1>5. ASSUME BufInv, NEW f \in OpenFds PROVE Promise(conn[f], out[f])'
  <2>1. PICK d \in Clients : d = conn[f] /\ d = conn'[f]
    BY DEF OpenFds, KernelInv, KernelTyped, SameConns
  <2>2. PICK buf : buf = out[f] /\ buf = out'[f] OBVIOUS
  <2>3. Promise(d, buf)' BY <1>4, <1>5, <2>1, <2>2 DEF BufInv
  <2>. QED BY <2>1, <2>2, <2>3
<1>6. ASSUME XInv, PlaceInv, NEW s \in Places, myevents[s].fd \in FD
      PROVE  Promise(conn[myevents[s].fd], Held(s))'
  <2>1. PICK f \in FD : f = myevents[s].fd /\ conn[f] # None BY <1>6 DEF XInv
  <2>2. PICK d \in Clients : d = conn[f] /\ d = conn'[f]
    BY <2>1 DEF KernelInv, KernelTyped, SameConns
  <2>3. PICK buf : buf = Held(s) /\ buf = Held(s)' BY DEF Held
  <2>4. Promise(d, buf)' BY <1>4, <1>6, <2>1, <2>2, <2>3 DEF PlaceInv
  <2>. QED BY <2>1, <2>2, <2>3, <2>4
<1>7. BufInv => BufInv' BY <1>5 DEF BufInv, SameConns
<1>8. XInv /\ PlaceInv => PlaceInv' BY <1>1, <1>6 DEF PlaceInv, Places
<1>. QED BY <1>3, <1>7, <1>8

(* EchoService begins where the servers do. *)
LEMMA InitEcho == ASSUME Init PROVE EchoInv /\ Echo!Init
<1>1. /\ alive = TRUE /\ overrun = FALSE /\ conn = NoConn
      /\ cl = [c \in Clients |-> NewClient]
      /\ server = "reactor_1" =>
           myevents = [s \in Places |-> IF s = Listener THEN ListenerPlace ELSE FreePlace]
  BY DEF Init
<1>2. ASSUME NEW c \in Clients
      PROVE  /\ cl[c].st = "new" /\ cl[c].sent = 0 /\ cl[c].read = 0 /\ cl[c].got = <<>>
             /\ cl[c].fin = FALSE /\ cl[c].rst = FALSE
  BY <1>1 DEF NewClient
<1>3. OwnInv
  <2>1. Len(<<>>) = 0 /\ 1 .. 0 = {} OBVIOUS
  <2>2. \A c : Own(c, <<>>) BY <2>1 DEF Own
  <2>. QED BY <1>2, <2>2 DEF OwnInv
<1>4. BufInv BY <1>1 DEF BufInv, OpenFds, NoConn
<1>5. ASSUME server = "reactor_1", NEW s \in Places PROVE myevents[s].fd \notin FD
  <2>1. ListenerPlace.fd = Lfd /\ FreePlace.fd = NoFd BY DEF ListenerPlace, FreePlace
  <2>. QED BY <1>1, <1>5, <2>1, FdNumbers
<1>6. EchoInv BY <1>3, <1>4, <1>5 DEF EchoInv, PlaceInv
<1>7. St = [c \in Clients |-> "new"] BY <1>2 DEF St
<1>8. Sent = [c \in Clients |-> 0] BY <1>2 DEF Sent
<1>9. Over = [c \in Clients |-> FALSE] BY <1>2 DEF Over, Ended
<1>10. Taken = [c \in Clients |-> 0] BY <1>2 DEF Taken
<1>11. Given = [c \in Clients |-> <<>>]
  <2>1. ASSUME NEW c \in Clients PROVE Numbers(c) = <<>>
    <3>1. Numbers(c) = NumbersOf(c, <<>>) BY <1>2 DEF Numbers, NumbersOf
    <3>2. NumbersOf(c, <<>>) \in Seq(Nat) /\ Len(NumbersOf(c, <<>>)) = 0
      BY DEF NumbersOf
    <3>. QED BY <3>1, <3>2, EmptySeq
  <2>. QED BY <2>1 DEF Given
<1>. QED
  BY <1>1, <1>6, <1>7, <1>8, <1>9, <1>10, <1>11
  DEF Echo!Init, St, Sent, Over, Taken, Given

(* Every step of a server or a client is one of EchoService, or none. *)
LEMMA EchoNext ==
  ASSUME EchoServersInv, EchoInv, [Next]_vars PROVE EchoInv' /\ [Echo!Next]_(Echo!vars)
<1>0. KernelInv BY DEF EchoServersInv
<1>1. ASSUME Exit, alive, server = "select" => ~ overrun
      PROVE  EchoInv' /\ [Echo!Next]_(Echo!vars)
  <2>1. alive' = FALSE /\ \A c \in Clients : SameData(c) BY <1>0, <1>1, ExitStep DEF Exit
  <2>2. OwnInv' BY <2>1, OwnSame DEF SameData, EchoInv
  <2>. QED BY <1>0, <1>1, <2>1, <2>2, EchoStops DEF EchoInv
<1>2. CASE Works
  <2>1. EchoServersInv' /\ alive /\ UNCHANGED rigid /\ (server # "reactor_1" => PlainOp)
    BY <1>2, WorksStep
  <2>2. UNCHANGED <<server, size>> BY <2>1 DEF rigid
  <2>3. server = "select" => ~ overrun
    <3>1. server = "select" => SelectStep \/ SelectFails
      BY <1>2, PollRuns, EpollRuns, ThreadRuns, XRuns DEF Works, Loop
    <3>. QED BY <3>1, SelectRuns
  <2>4. CASE Exit BY <1>1, <2>1, <2>3, <2>4
  <2>5. CASE ~ Exit /\ server # "reactor_1"
    <3>1. OwnInv /\ BufInv /\ PlainOp /\ alive' BY <2>1, <2>5, PlainEnds DEF EchoInv
    <3>2. OwnInv' /\ BufInv' /\ EchoStep BY <1>0, <3>1, PlainEcho
    <3>3. [Echo!Next]_(Echo!vars) BY <2>1, <2>2, <2>3, <3>1, <3>2, EchoGoesOn
    <3>. QED BY <2>2, <2>5, <3>2, <3>3 DEF EchoInv
  <2>6. CASE ~ Exit /\ server = "reactor_1"
    <3>1. XStep \/ XWaitFails
      <4>1. ~ (SelectStep \/ SelectFails) BY <2>6, SelectRuns
      <4>2. ~ PollStep BY <2>6, PollRuns
      <4>3. ~ (EpollStep \/ EpollFails) BY <2>6, EpollRuns
      <4>4. ~ (AcceptThread \/ ThreadCreateFails \/ \E fd \in FD : client_fun(fd))
        BY <2>6, ThreadRuns
      <4>. QED BY <1>2, <4>1, <4>2, <4>3, <4>4 DEF Works, Loop
    <3>2. XStep /\ alive' BY <2>6, <3>1, XRuns
    <3>3. OwnInv /\ PlaceInv /\ XInv BY <2>1, <2>6 DEF EchoInv, EchoServersInv, ServerInv
    <3>4. OwnInv' /\ PlaceInv' /\ EchoStep BY <1>0, <2>1, <3>2, <3>3, XEcho
    <3>5. [Echo!Next]_(Echo!vars) BY <2>1, <2>2, <2>3, <3>2, <3>4, EchoGoesOn
    <3>. QED BY <2>2, <2>6, <3>4, <3>5 DEF EchoInv
  <2>. QED BY <2>4, <2>5, <2>6
<1>3. ASSUME NEW c \in Clients, ClientActs(c) PROVE EchoInv' /\ [Echo!Next]_(Echo!vars)
  <2>1. /\ SameConns /\ Acts(c) /\ alive /\ UNCHANGED <<rigid, out, myevents, alive>>
    BY <1>3, ClientKeeps
  <2>2. UNCHANGED <<server, size>> /\ Touches(c) BY <2>1 DEF rigid, Acts
  <2>3. EchoStep BY <1>0, <1>3, <2>2, ClientEcho
  <2>4. (OwnInv => OwnInv') /\ (BufInv => BufInv') /\ (XInv /\ PlaceInv => PlaceInv')
    BY <1>0, <2>1, ClientEchoInv
  <2>5. server = "reactor_1" => XInv BY <2>1 DEF EchoServersInv, ServerInv
  <2>6. overrun' = overrun
    BY <1>3 DEF ClientActs, Connect, Send, Finish, Reset, StopReading, ClientStep
  <2>7. [Echo!Next]_(Echo!vars) BY <2>1, <2>2, <2>3, <2>6, EchoGoesOn
  <2>. QED BY <2>1, <2>2, <2>4, <2>5, <2>7 DEF EchoInv
<1>4. CASE UNCHANGED vars
  <2>1. UNCHANGED <<server, size, conn, cl, out, alive, overrun, myevents>>
    BY <1>4 DEF vars, rigid, kernelVars
  <2>2. UNCHANGED Echo!vars BY <2>1 DEF Echo!vars, Ended, Numbers
  <2>3. (OwnInv' <=> OwnInv) /\ (BufInv' <=> BufInv) /\ (PlaceInv' <=> PlaceInv)
    BY <2>1 DEF OwnInv, BufInv, PlaceInv, OpenFds, Places, Promise, Held
  <2>. QED BY <2>1, <2>2, <2>3 DEF EchoInv
<1>. QED BY <1>2, <1>3, <1>4, NextIs

(* Every server is an echo server (ImplementsEcho): whatever the table, the *)
(* tree or the threads make of the order of the calls, as long as the       *)
(* process runs each client gets its own units back, in order and once,     *)
(* without gaps except from epoll_et.c, and its connection is closed only   *)
(* after it has ended and everything was read; when the process ends, all   *)
(* are disconnected and get nothing more.  select is excepted once FD_SET   *)
(* has been called with a number its set has no room for.                   *)
THEOREM ServersEcho == Spec => ImplementsEcho
<1>1. Init => EchoInv /\ Echo!Init BY InitEcho
<1>2. ASSUME EchoServersInv, EchoInv, [Next]_vars PROVE EchoInv' /\ [Echo!Next]_(Echo!vars)
  BY <1>2, EchoNext
<1>. QED BY <1>1, <1>2, EchoServersSafe, PTL DEF Spec, ImplementsEcho, Echo!Spec
=============================================================================
