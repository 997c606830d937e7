---------------------------- MODULE StateMapping ----------------------------
(***************************************************************************)
(* The state tables shared by every writer of an Operation, a Credential   *)
(* or a credential exchange row: which states exist, which ones a guarded  *)
(* "UPDATE ... WHERE state IN (...)" may move from, and what a protocol    *)
(* state reported by the agent means for the three rows.                   *)
(*                                                                         *)
(* Sources: protocol-state-change/state-mapping.ts and the rank table of   *)
(* credential-exchange/credential-exchange.repository.ts.                  *)
(***************************************************************************)
EXTENDS Naturals

\* "no such state / no such event": a field the code leaves undefined.
None == "none"

-----------------------------------------------------------------------------
(* Operation rows *)

InFlightStates == {"pending", "processing"}
TerminalStates == {"completed", "failed"}
OperationStates == InFlightStates \cup TerminalStates

OPERATION_STATE_RANK(s) ==
    CASE s = "pending"    -> 0
      [] s = "processing" -> 1
      [] OTHER            -> 2

operationStatesBelow(target) ==
    {s \in OperationStates :
        OPERATION_STATE_RANK(s) < OPERATION_STATE_RANK(target)}

-----------------------------------------------------------------------------
(* Credential rows: an explicit matrix, not a rank *)

CredentialStates == {"offered", "issued", "revoked", "expired", "failed"}

\* Mutant: a credential can still fail after it was issued.
credentialStatesBelow_Failing(target) ==
    CASE target \in {"issued", "expired"} -> {"offered"}
      [] target = "failed"                -> {"offered", "issued"}
      [] target = "revoked"               -> {"issued"}
      [] OTHER                            -> {}

credentialStatesBelow(target) ==
    CASE target \in {"issued", "failed", "expired"} -> {"offered"}
      [] target = "revoked"                         -> {"issued"}
      [] OTHER                                      -> {}

-----------------------------------------------------------------------------
(* Credential exchanges *)

\* The protocol states an agent reports on topic issue_credential.
ProtocolStates ==
    {"proposal-sent", "offer-sent", "offer-received", "request-sent",
     "request-received", "credential-issued", "credential-received",
     "done", "abandoned"}

\* Two more states exist only in the local row.
ExchangeStates == ProtocolStates \cup {"pending", "failed"}

STATE_RANK(s) ==
    CASE s = "pending"                                   -> 0
      [] s = "proposal-sent"                             -> 1
      [] s \in {"offer-sent", "offer-received"}          -> 2
      [] s \in {"request-sent", "request-received"}      -> 3
      [] s \in {"credential-issued", "credential-received"} -> 4
      [] OTHER                                           -> 5

-----------------------------------------------------------------------------
(* What a reported issue_credential state means locally.  A state that is  *)
(* known but not in the outcome table only moves the Operation to          *)
(* processing.                                                             *)

\* Mutant: an unlisted state is stored as it came.
IssueCredentialOutcome_Raw(s) ==
    CASE s \in {"credential-issued", "done"} ->
            [op |-> "completed", cred |-> "issued", event |-> "credential.issued"]
      [] s = "abandoned" ->
            [op |-> "failed", cred |-> "failed", event |-> "credential.rejected"]
      [] OTHER -> [op |-> s, cred |-> None, event |-> None]

IssueCredentialOutcome(s) ==
    CASE s \in {"credential-issued", "done"} ->
            [op |-> "completed", cred |-> "issued", event |-> "credential.issued"]
      [] s = "abandoned" ->
            [op |-> "failed", cred |-> "failed", event |-> "credential.rejected"]
      [] OTHER ->
            [op |-> "processing", cred |-> None, event |-> None]

=============================================================================
