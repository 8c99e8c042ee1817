--------------------------- MODULE MCRateLimiter ---------------------------
(* Model checking RateLimiter: two policies; idle time and sweeps at every unit. *)
EXTENDS RateLimiter, TLC

CONSTANTS x, y, c, d

\* Two policies with one window, longer than the idle time.
SameLimit  == x :> 2 @@ y :> 1
SameWindow == x :> 2 @@ y :> 2

\* A short window beside a long one.
MixedLimit  == x :> 1 @@ y :> 1
MixedWindow == x :> 1 @@ y :> 6

Calls == Permutations({c, d})
=============================================================================
