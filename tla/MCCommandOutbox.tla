-------------------------- MODULE MCCommandOutbox --------------------------
(* Model checking CommandOutbox: two commands with a guaranteed emit each. *)
EXTENDS CommandOutbox

CONSTANTS w1, w2, draft, open, r1, r2, p1, v1

Edit(w, n) ==
    [effect |-> "updates", targets |-> {w}, transition |-> FALSE, froms |-> {},
     to |-> draft, guaranteed |-> n, bestEffort |-> FALSE, audit |-> FALSE,
     materialize |-> FALSE, invalidates |-> FALSE]

MCCommands == {Edit(w1, 1), Edit(w2, 1)}
=============================================================================
