----------------------------- MODULE MCConnPool -----------------------------
(* Model checking of ConnPool: clients are interchangeable. *)
EXTENDS ConnPool, TLC

Symmetry == Permutations(Clients)
=============================================================================
