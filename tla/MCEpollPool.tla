----------------------------- MODULE MCEpollPool ----------------------------
(* Model checking of EpollPool: clients are interchangeable. *)
EXTENDS EpollPool, TLC

Symmetry == Permutations(Clients)
=============================================================================
