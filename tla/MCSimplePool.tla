---------------------------- MODULE MCSimplePool ----------------------------
(* Model checking of SimplePool: callers of addtask are model values.  The  *)
(* run checks liveness, so no symmetry is used.                             *)
EXTENDS SimplePool
=============================================================================
