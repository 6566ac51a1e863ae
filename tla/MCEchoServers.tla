--------------------------- MODULE MCEchoServers ----------------------------
(* Model checking of EchoServers. *)
EXTENDS EchoServers

MCKinds == AllKinds
=============================================================================
