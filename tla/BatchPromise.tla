---------------------------- MODULE BatchPromise ----------------------------
(***************************************************************************)
(* What the settlement of a batch promises to a client that polls the      *)
(* batch operation: it ends in the very step in which its last child ends, *)
(* failed if any child failed and completed otherwise, and the tenant is   *)
(* told once.                                                              *)
(***************************************************************************)
EXTENDS StateMapping

CONSTANT Children

VARIABLES
    child,   \* the state of each child operation
    parent,  \* the state of the batch operation
    told     \* how many webhook.dispatch jobs reported its end

\* What the states of the children make of the parent.
Verdict(states) ==
    IF \E c \in Children : states[c] \in InFlightStates THEN "processing"
    ELSE IF \E c \in Children : states[c] = "failed" THEN "failed" ELSE "completed"

Init ==
    /\ child = [c \in Children |-> "pending"]
    /\ parent = "processing"
    /\ told = 0

\* A child moves forward, and the parent follows.
Settle(c, state) ==
    /\ child[c] \in operationStatesBelow(state)
    /\ child' = [child EXCEPT ![c] = state]
    /\ parent' = Verdict(child')
    /\ told' = IF parent' = "processing" THEN told ELSE told + 1

Next == \E c \in Children, state \in OperationStates : Settle(c, state)

Spec == Init /\ [][Next]_<<child, parent, told>>

=============================================================================
