---------------------------- MODULE EchoService -----------------------------
(* What an echo server owes its clients while it runs.  It takes what a     *)
(* connected client has sent, in order; it gives back units it has taken    *)
(* from this client, in order and each once, without leaving any out unless *)
(* it is one that may lose some; and it ends a connection only after the    *)
(* client has, and after taking everything.  It may stop: then everybody is *)
(* disconnected at once, and nothing happens any more.  If its behaviour    *)
(* becomes undefined it owes nothing.                                       *)
EXTENDS Integers, Sequences

CONSTANT Clients

VARIABLES mode,   \* "runs", "stopped", "undefined"
          st,     \* per client: "new", "backlog", "up", "down"
          sent,   \* units sent by the client
          over,   \* the client has closed or reset the connection
          taken,  \* units taken by the server
          given,  \* units given back, by number
          lossy   \* whether the server may lose units

vars == <<mode, st, sent, over, taken, given, lossy>>

Init ==
  /\ mode = "runs" /\ st = [c \in Clients |-> "new"]
  /\ sent = [c \in Clients |-> 0]
  /\ over = [c \in Clients |-> FALSE] /\ taken = [c \in Clients |-> 0]
  /\ given = [c \in Clients |-> <<>>] /\ lossy \in BOOLEAN

Connect(c) ==
  /\ st[c] = "new" /\ st' = [st EXCEPT ![c] = "backlog"]
  /\ UNCHANGED <<sent, over, taken, given, lossy>>

Send(c) ==
  /\ st[c] \in {"backlog", "up"} /\ ~ over[c] /\ sent' = [sent EXCEPT ![c] = @ + 1]
  /\ UNCHANGED <<st, over, taken, given, lossy>>

Leave(c) ==
  /\ st[c] \in {"backlog", "up"} /\ over' = [over EXCEPT ![c] = TRUE]
  /\ UNCHANGED <<st, sent, taken, given, lossy>>

Accept(c) ==
  /\ st[c] = "backlog" /\ st' = [st EXCEPT ![c] = "up"]
  /\ UNCHANGED <<sent, over, taken, given, lossy>>

Take(c) ==
  /\ st[c] = "up"
  /\ \E n \in taken[c] + 1 .. sent[c] : taken' = [taken EXCEPT ![c] = n]
  /\ UNCHANGED <<st, sent, over, given, lossy>>

LastGiven(c) == IF given[c] = <<>> THEN 0 ELSE given[c][Len(given[c])]

Give(c) ==
  /\ st[c] = "up"
  /\ \E first \in LastGiven(c) + 1 .. taken[c] : \E last \in first .. taken[c] :
       /\ first = LastGiven(c) + 1 \/ lossy
       /\ given' = [given EXCEPT ![c] = @ \o [i \in 1 .. last - first + 1 |-> first + i - 1]]
  /\ UNCHANGED <<st, sent, over, taken, lossy>>

End(c) ==
  /\ st[c] = "up" /\ over[c] /\ taken[c] = sent[c]
  /\ st' = [st EXCEPT ![c] = "down"]
  /\ UNCHANGED <<sent, over, taken, given, lossy>>

Serve ==
  /\ mode = "runs" /\ mode' = "runs"
  /\ \E c \in Clients :
       Connect(c) \/ Send(c) \/ Leave(c) \/ Accept(c) \/ Take(c) \/ Give(c) \/ End(c)

Stop ==
  /\ mode = "runs" /\ mode' = "stopped"
  /\ st' = [c \in Clients |-> IF st[c] \in {"backlog", "up"} THEN "down" ELSE st[c]]
  /\ UNCHANGED <<sent, over, taken, given, lossy>>

(* Nothing is said of the other variables. *)
Break == mode \in {"runs", "undefined"} /\ mode' = "undefined"

Next == Serve \/ Stop \/ Break

Spec == Init /\ [][Next]_vars
=============================================================================
