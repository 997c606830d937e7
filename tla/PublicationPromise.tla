------------------------- MODULE PublicationPromise -------------------------
(***************************************************************************)
(* What the publication of registry artifacts promises to the ledger: an   *)
(* artifact is submitted by one definition at a time, a submission that    *)
(* the backend took is the last one, and only one that it conclusively     *)
(* rejected is followed by another.                                        *)
(***************************************************************************)
CONSTANT Artifacts

VARIABLE artifact   \* what has become of each artifact

Init == artifact = [a \in Artifacts |-> "unclaimed"]

Claim(a) ==
    /\ artifact[a] \in {"unclaimed", "rejected"}
    /\ artifact' = [artifact EXCEPT ![a] = "claimed"]

\* The backend takes the submission, whether or not its answer arrives.
Take(a) ==
    /\ artifact[a] = "claimed"
    /\ artifact' = [artifact EXCEPT ![a] = "taken"]

\* Only a submission the backend did not take may be given up.
Reject(a) ==
    /\ artifact[a] = "claimed"
    /\ artifact' = [artifact EXCEPT ![a] = "rejected"]

Next == \E a \in Artifacts : Claim(a) \/ Take(a) \/ Reject(a)

Spec == Init /\ [][Next]_artifact

=============================================================================
