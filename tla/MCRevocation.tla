---------------------------- MODULE MCRevocation ----------------------------
(* An instance of Revocation for TLC.  A unit of time is three days, so the *)
(* default durations are 1 h, 72 h, 24 h, 7 d and 24 h rounded down; the     *)
(* tenant overrides one of them and misconfigures another.                  *)
EXTENDS Revocation

MCTtlDefaults == [completedViewed |-> 0, completedUnviewed |-> 1, failedViewed |-> 0,
                  failedUnviewed |-> 2, pendingStale |-> 0]
MCTtlConfig == [completedViewed |-> Never, completedUnviewed |-> 2, failedViewed |-> Never,
                failedUnviewed |-> 0, pendingStale |-> Never]

=============================================================================
