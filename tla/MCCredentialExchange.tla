------------------------ MODULE MCCredentialExchange ------------------------
(* Instances of CredentialExchange for TLC. *)
EXTENDS CredentialExchange, TLC

\* Job runs are interchangeable, and so are issuance requests and the holder's
\* requests of one kind.
Symmetry ==
    Permutations(Workers) \cup Permutations(IssueCalls)
      \cup Permutations(AcceptCalls) \cup Permutations(RejectCalls)

\* Two of the holder's requests are made.
TwoHolders == Cardinality({c \in HolderCalls : proc[c].pc # "idle"}) <= 2

=============================================================================
