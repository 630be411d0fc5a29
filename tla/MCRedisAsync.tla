---------------------------- MODULE MCRedisAsync ----------------------------
(***************************************************************************)
(* RedisAsync on small instances: two worker processes of one consumer     *)
(* each, and the jobs `fast' (hosted, may fall back), `strong' and `empty' *)
(* (its audio has no window).                                              *)
(***************************************************************************)
EXTENDS RedisAsync, TLC

CONSTANTS fast, strong, empty, p1, p2, c1, c2

MCProcessOf == c1 :> p1 @@ c2 :> p2

\* The instances take the jobs they need from these tables.
OfJobs(table) == [j \in Job |-> table[j]]
MCChunkCount == OfJobs(fast :> 2 @@ strong :> 1 @@ empty :> 0)
MCTierOf == OfJobs(fast :> "fast" @@ strong :> "strong" @@ empty :> "fast")
MCBackendOf == OfJobs(fast :> "hosted" @@ strong :> "hosted" @@ empty :> "local")

MCSettings(token, fallback) == [token |-> token, fallbackToLocal |-> fallback]
MCFull == MCSettings(TRUE, TRUE)

\* The settings of p1 and p2: all alike, fallback in one, the token in one.
MCAlike == p1 :> MCFull @@ p2 :> MCFull
MCFallbackOnOne == p1 :> MCFull @@ p2 :> MCSettings(TRUE, FALSE)
MCTokenOnOne == p1 :> MCSettings(TRUE, FALSE) @@ p2 :> MCSettings(FALSE, TRUE)

=============================================================================
