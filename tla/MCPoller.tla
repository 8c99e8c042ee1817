------------------------------ MODULE MCPoller ------------------------------
(* Model checking Poller. *)
EXTENDS Poller

CONSTANTS p1, p2, i1, i2
=============================================================================
