----------------------------- MODULE OperationTtl -----------------------------
(***************************************************************************)
(* How long an operation row is kept (operation/operation-ttl.util.ts):    *)
(* the durations a tenant may override, and the expiry of a row as a       *)
(* function of its state, its creation and its first view.  Time is        *)
(* counted in the units of the durations.                                  *)
(***************************************************************************)
EXTENDS StateMapping, Integers

\* A timestamp that is not set (viewed_at IS NULL).
Never == -1

TtlKeys == {"completedViewed", "completedUnviewed", "failedViewed",
            "failedUnviewed", "pendingStale"}

\* parseDurationMs: a duration that is not positive is no duration.
parseDuration(value) == IF value > 0 THEN value ELSE Never

\* resolveOperationTtlMs: the tenant's override of a key where it has a usable
\* one, the default otherwise.  An absent key is Never.
resolveOperationTtl(config, defaults) ==
    [k \in TtlKeys |-> IF parseDuration(config[k]) = Never
                       THEN defaults[k] ELSE config[k]]

isTerminalOperationState(state) == state \in TerminalStates

computeOperationExpiresAt(state, created, viewed, ttl, createdTtl) ==
    CASE state = "pending"    -> created + ttl.pendingStale
      [] state = "processing" -> created + createdTtl
      [] state = "completed"  -> IF viewed = Never THEN created + ttl.completedUnviewed
                                 ELSE viewed + ttl.completedViewed
      [] OTHER                -> IF viewed = Never THEN created + ttl.failedUnviewed
                                 ELSE viewed + ttl.failedViewed

=============================================================================
