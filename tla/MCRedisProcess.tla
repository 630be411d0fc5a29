--------------------------- MODULE MCRedisProcess ---------------------------
(***************************************************************************)
(* RedisAsync on the smallest instance in which a fault of one process may *)
(* strand several jobs and spare another: one process, two consumers, and  *)
(* three jobs of one chunk each.                                           *)
(***************************************************************************)
EXTENDS RedisAsync, TLC

CONSTANTS p1

MCProcessOf == [c \in Consumer |-> p1]
MCOneChunkEach == [j \in Job |-> 1]
MCAllFast == [j \in Job |-> "fast"]
MCAllLocal == [j \in Job |-> "local"]
MCSettings == [token |-> FALSE, fallbackToLocal |-> FALSE]
MCAlike == [p \in Process |-> MCSettings]

=============================================================================
