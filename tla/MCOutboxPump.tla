---------------------------- MODULE MCOutboxPump ----------------------------
(* Model checking OutboxPump. *)
EXTENDS OutboxPump

CONSTANTS p1, p2, v1, v2
=============================================================================
