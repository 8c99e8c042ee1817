---------------------------- MODULE MCWatchLoops ----------------------------
(* Model checking WatchLoops. *)
EXTENDS WatchLoops
=============================================================================
