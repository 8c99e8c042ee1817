---------------------------- MODULE MCQueryCache ----------------------------
(* Model checking QueryCache. *)
EXTENDS QueryCache, TLC

CONSTANTS k1, k2, k3, list, view, pinned, a, b, w2

MCQueryOf == k1 :> list @@ k2 :> view @@ k3 :> pinned

\* list leaves its TTL out (0: the default), view states it, pinned caches for ever.
ThreeTtls == list :> 0 @@ view :> 1 @@ pinned :> -2

OneCommand == w2 :> {list, pinned}
=============================================================================
