---------------------------- MODULE MCTenantUsers ----------------------------
(* An instance of TenantUsers for TLC. *)
EXTENDS TenantUsers, TLC

Symmetry ==
    Permutations(Users) \cup Permutations(Identities) \cup Permutations(Requests)

\* Bound: nothing is said of what follows a flag that went over a newer row.
FlagNotLost == "flag" \notin lost

\* Bound: a request changes the role or the status, not both.
OneField == \A q \in Requests :
    tx[q].pc # "idle" => None \in {tx[q].role, tx[q].status}

=============================================================================
