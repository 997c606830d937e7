--------------------------- MODULE BatchSettlement ---------------------------
(***************************************************************************)
(* The settlement of a batch operation by the protocol.state-change runs   *)
(* of its children (ProtocolStateChangeService.applyOperationOutcome and   *)
(* settleBatchParent), statement by statement under READ COMMITTED: what a *)
(* transaction writes is seen by itself at once and by the others at its   *)
(* commit, and a row lock is held until then.                              *)
(*                                                                         *)
(* A batch, its children all created and its parent processing, is where   *)
(* the model starts: no code of this repository creates one yet.           *)
(***************************************************************************)
EXTENDS StateMapping

CONSTANTS
    Children,  \* the child operations of the batch
    Actions,   \* those whose exchange also has a newer holder or issue operation
    Runs,      \* concurrent protocol.state-change job runs
    NoOne      \* a row that is not locked

\* A batch has children, and NoOne is neither a run nor a child.
ASSUME BatchAssumption ==
    /\ Children # {}
    /\ Actions \subseteq Children
    /\ NoOne \notin Runs \cup Children

VARIABLES
    child,       \* committed states of the children
    parent,      \* committed state of the batch operation
    told,        \* committed operation.batch.* dispatch jobs
    childLock,   \* who holds the row lock of each child
    parentLock,  \* who holds the row lock of the batch operation
    run          \* each run: where it is, the child and state of its job,
                 \* whether it found the newer operation, and what it writes
                 \* into the parent

vars == <<child, parent, told, childLock, parentLock, run>>

Run == [pc : {"idle", "update", "lock", "count", "commit"},
        op : Children \cup {NoOne}, state : OperationStates \cup {None},
        mirror : BOOLEAN, settle : OperationStates \cup {None}]

Idle == [pc |-> "idle", op |-> NoOne, state |-> None, mirror |-> FALSE, settle |-> None]

TypeOK ==
    /\ child \in [Children -> OperationStates]
    /\ parent \in OperationStates
    /\ told \in Nat
    /\ childLock \in [Children -> Runs \cup {NoOne}]
    /\ parentLock \in Runs \cup {NoOne}
    /\ run \in [Runs -> Run]

P == INSTANCE BatchPromise WITH
        Children <- Children, child <- child, parent <- parent, told <- told

Init ==
    /\ P!Init
    /\ childLock = [c \in Children |-> NoOne]
    /\ parentLock = NoOne
    /\ run = [r \in Runs |-> Idle]

-----------------------------------------------------------------------------

\* A job for child c is taken, any number of times and in any order.  The
\* operation it resolves to is the newest in flight of the exchange: the child
\* itself, or the holder's accept or reject or the explicit issue, whose end
\* is mirrored onto the child.
Take(r, c, state, mirror) ==
    /\ run[r].pc = "idle"
    /\ child[c] \in InFlightStates
    /\ mirror => c \in Actions /\ state \in TerminalStates
    /\ run' = [run EXCEPT ![r] = [pc |-> "update", op |-> c, state |-> state,
                                  mirror |-> mirror, settle |-> None]]
    /\ UNCHANGED <<child, parent, told, childLock, parentLock>>

\* Mutant: the guard is a value read earlier, the write takes no notice of a
\* concurrent one.
Update_Stale(r) ==
    /\ run[r].pc = "update"
    /\ childLock' = [childLock EXCEPT ![run[r].op] = r]
    /\ run' = [run EXCEPT ![r].pc = IF run[r].mirror THEN "commit" ELSE "lock"]
    /\ UNCHANGED <<child, parent, told, parentLock>>

\* transitionStateIfForward on the child: waits for the row lock and checks
\* the guard again after the wait.  A guard that is lost ends the run.  Only
\* applyOperationOutcome goes on to settleBatchParent, settleRelatedOffer-
\* Operation does not.
Update(r) ==
    LET c == run[r].op
    IN  /\ run[r].pc = "update"
        /\ childLock[c] = NoOne
        /\ IF child[c] \in operationStatesBelow(run[r].state)
           THEN /\ childLock' = [childLock EXCEPT ![c] = r]
                /\ run' = [run EXCEPT ![r].pc = IF run[r].mirror THEN "commit" ELSE "lock"]
           ELSE /\ run' = [run EXCEPT ![r] = Idle]
                /\ UNCHANGED childLock
        /\ UNCHANGED <<child, parent, told, parentLock>>

\* Mutant: the recount is not serialized.
LockParent_Unlocked(r) ==
    /\ run[r].pc = "lock"
    /\ run' = [run EXCEPT ![r].pc = "count"]
    /\ UNCHANGED <<child, parent, told, childLock, parentLock>>

\* lockBatchParent: SELECT ... FOR UPDATE on the parent.
LockParent(r) ==
    /\ run[r].pc = "lock"
    /\ parentLock = NoOne
    /\ parentLock' = r
    /\ run' = [run EXCEPT ![r].pc = "count"]
    /\ UNCHANGED <<child, parent, told, childLock>>

\* What the transaction of run r sees: committed rows and its own write.
View(r) == [child EXCEPT ![run[r].op] = run[r].state]

\* Mutant: settles without looking for children in flight.
Count_Early(r) ==
    /\ run[r].pc = "count"
    /\ run' = [run EXCEPT ![r].pc = "commit",
                          ![r].settle = IF parent # "processing" THEN None
                                        ELSE IF \E c \in Children : View(r)[c] = "failed"
                                             THEN "failed" ELSE "completed"]
    /\ UNCHANGED <<child, parent, told, childLock, parentLock>>

\* countByBatchGroupedByState, the decision, and claimBatchSettlement, which
\* matches only a parent that is processing.
Count(r) ==
    LET final == P!Verdict(View(r))
    IN  /\ run[r].pc = "count"
        /\ run' = [run EXCEPT ![r].pc = "commit",
                              ![r].settle = IF final # "processing" /\ parent = "processing"
                                            THEN final ELSE None]
        /\ UNCHANGED <<child, parent, told, childLock, parentLock>>

\* The end of a transaction, whichever way: its row locks are free again.
Release(r) ==
    /\ childLock' = [c \in Children |-> IF childLock[c] = r THEN NoOne ELSE childLock[c]]
    /\ parentLock' = IF parentLock = r THEN NoOne ELSE parentLock
    /\ run' = [run EXCEPT ![r] = Idle]

\* The child, the parent and the dispatch job become visible together.
Commit(r) ==
    /\ run[r].pc = "commit"
    /\ child' = View(r)
    /\ parent' = IF run[r].settle = None THEN parent ELSE run[r].settle
    /\ told' = IF run[r].settle = None THEN told ELSE told + 1
    /\ Release(r)

\* The transaction fails and the job is delivered again.
Rollback(r) ==
    /\ run[r].pc \in {"update", "lock", "count", "commit"}
    /\ Release(r)
    /\ UNCHANGED <<child, parent, told>>

Step(r) == Update(r) \/ LockParent(r) \/ Count(r) \/ Commit(r) \/ Rollback(r)

Next ==
    \E r \in Runs :
        \/ Step(r)
        \/ \E c \in Children, state \in OperationStates \ {"pending"}, mirror \in BOOLEAN :
              Take(r, c, state, mirror)

Spec == Init /\ [][Next]_vars

-----------------------------------------------------------------------------
(* Properties *)

\* A run between its UPDATE and its commit holds the rows it has decided on:
\* the child still is where the guard found it, and once the parent is locked
\* no sibling commits, so the decision still is the right one at the commit.
DecisionHolds ==
    /\ TypeOK
    /\ \A r \in Runs :
          /\ run[r].pc # "idle" => run[r].op \in Children /\ run[r].state \in OperationStates
          /\ run[r].pc \in {"lock", "count", "commit"} =>
                /\ childLock[run[r].op] = r
                /\ child[run[r].op] \in operationStatesBelow(run[r].state)
          /\ run[r].pc \in {"count", "commit"} /\ ~run[r].mirror => parentLock = r
          /\ run[r].pc # "commit" => run[r].settle = None
          /\ run[r].pc = "commit" /\ ~run[r].mirror =>
                run[r].settle = (IF P!Verdict(View(r)) = "processing" THEN None
                                 ELSE P!Verdict(View(r)))

\* In every committed state the batch operation is what its children make it:
\* it is not left processing after the last of them ended (the race
\* lockBatchParent is there for), and never ends before it.
ParentFollowsChildren == parent = P!Verdict(child)

\* The settlement, with its locks, recounts, retries and rollbacks, does what
\* one atomic step per child would do.
Implements == P!Spec

=============================================================================
