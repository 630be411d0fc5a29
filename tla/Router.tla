------------------------------- MODULE Router -------------------------------
(***************************************************************************)
(* BackendRouter.plan: the (tier, requested backend) of a job resolved     *)
(* into the backend that is tried first, the model it runs, and whether a  *)
(* failed chunk may be retried on the local backend.                       *)
(*                                                                         *)
(* `token' is HostedBackend.available() (an HF token is configured) and    *)
(* `fallback' is Settings.fallback_to_local.  The plan is computed once by *)
(* the API when a job is prepared and again by every worker for every      *)
(* chunk, each from its own settings.                                      *)
(***************************************************************************)

Tier == {"fast", "strong"}
Backend == {"hosted", "local"}

\* The settings of a process that its plans depend on: whether there is an HF token,
\* and fallback_to_local.
Settings == [token : BOOLEAN, fallbackToLocal : BOOLEAN]

\* What `raise BackendUnavailable' leaves the caller with: no plan.
Unavailable ==
  [backend |-> "none", model |-> "none", allowLocalFallback |-> FALSE]

HostedPlan(allow) ==
  [backend |-> "hosted", model |-> "strong", allowLocalFallback |-> allow]

LocalPlan ==
  [backend |-> "local", model |-> "fast", allowLocalFallback |-> FALSE]

\* Variant: the strong tier honours the fallback setting like the fast one.
PlanStrongFallsBack(token, fallback, tier, requested) ==
  CASE tier = "strong" /\ token -> HostedPlan(fallback)
    [] tier = "fast" /\ requested = "hosted" /\ token -> HostedPlan(fallback)
    [] tier = "fast" /\ (requested = "local" \/ (~token /\ fallback)) -> LocalPlan
    [] OTHER -> Unavailable

\* Variant: without a token both tiers fall back to the local model.
PlanStrongLocally(token, fallback, tier, requested) ==
  CASE tier = "strong" /\ token -> HostedPlan(FALSE)
    [] tier = "fast" /\ requested = "hosted" /\ token -> HostedPlan(fallback)
    [] (tier = "fast" /\ requested = "local") \/ (~token /\ fallback) -> LocalPlan
    [] OTHER -> Unavailable

Plan(token, fallback, tier, requested) ==
  CASE tier = "strong" /\ token -> HostedPlan(FALSE)
    [] tier = "fast" /\ requested = "hosted" /\ token -> HostedPlan(fallback)
    [] tier = "fast" /\ (requested = "local" \/ (~token /\ fallback)) -> LocalPlan
    [] OTHER -> Unavailable

Servable(plan) == plan.backend # "none"

=============================================================================
