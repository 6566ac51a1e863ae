---------------------------- MODULE MsgChannel ------------------------------
(* What a connection of the socket library promises: whole messages arrive, *)
(* in the order they were sent and each once; messages on their way may be  *)
(* lost only as a suffix, when the connection ends.                         *)
EXTENDS Sequences

CONSTANT Message

VARIABLES inFlight, delivered

vars == <<inFlight, delivered>>

Init == inFlight = <<>> /\ delivered = <<>>

Send(m) == inFlight' = Append(inFlight, m) /\ UNCHANGED delivered

Receive ==
  /\ inFlight # <<>>
  /\ delivered' = Append(delivered, Head(inFlight))
  /\ inFlight' = Tail(inFlight)

Next == Receive \/ \E m \in Message : Send(m)

Spec == Init /\ [][Next]_vars
=============================================================================
