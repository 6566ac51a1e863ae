------------------------------ MODULE MCReactor -----------------------------
(* Model checking of Reactor: clients are interchangeable. *)
EXTENDS Reactor, TLC

Symmetry == Permutations(Clients)
=============================================================================
