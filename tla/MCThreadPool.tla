---------------------------- MODULE MCThreadPool ----------------------------
(* Model checking of ThreadPool: callers of threadpool_add are interchangeable. *)
EXTENDS ThreadPool, TLC

Symmetry == Permutations(Adders)
=============================================================================
