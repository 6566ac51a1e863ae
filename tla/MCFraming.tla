------------------------------ MODULE MCFraming -----------------------------
(* Model checking of Framing and TcpMsgs: messages of no, one, two and three bytes, some *)
(* of which look like headers.                                               *)
EXTENDS TcpMsgs

MCMsgs == {<<>>, <<1>>, <<0, 1>>, <<1, 1, 0>>}
=============================================================================
