----------------------------- MODULE MCBackends -----------------------------
(***************************************************************************)
(* Backends with more calls than permits and threads: a strong call, a     *)
(* hosted one that may fall back, and two local ones.  The pool has one    *)
(* thread less than there are calls that may want it.                      *)
(***************************************************************************)
EXTENDS Backends, TLC

CONSTANTS strong, fast, l1, l2, tiny, base, t1, t2

MCModelOf == fast :> tiny @@ l1 :> tiny @@ l2 :> base @@ strong :> tiny

=============================================================================
