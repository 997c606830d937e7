----------------------- MODULE BatchSettlementProofs -----------------------
(***************************************************************************)
(* For any number of children and of concurrent runs: the batch operation  *)
(* never ends before its children and its end is told once; and when no    *)
(* child of the batch has a newer operation on its exchange, it ends with  *)
(* them, and the settlement implements BatchPromise.                       *)
(***************************************************************************)
EXTENDS BatchSettlement, TLAPS

\* Zenon is tried first; arithmetic and most of the sequences are left to SMT.
USE ZenonT(15), SMTT(30)

\* The inductive invariant: decisions hold until the commit, the committed
\* parent follows the committed children, and no run mirrors.
BatchInv ==
    /\ DecisionHolds
    /\ ParentFollowsChildren
    /\ \A r \in Runs : ~run[r].mirror

\* Below a terminal or a processing state lie states in flight only.
LEMMA BelowInFlight ==
    \A state \in OperationStates : operationStatesBelow(state) \subseteq InFlightStates
  BY DEF operationStatesBelow, OPERATION_STATE_RANK, OperationStates,
         InFlightStates, TerminalStates

\* A verdict is an operation state.
LEMMA VerdictType ==
    ASSUME NEW states
    PROVE  P!Verdict(states) \in OperationStates /\ P!Verdict(states) # None
  BY DEF P!Verdict, OperationStates, InFlightStates, TerminalStates, None

\* The promise reads the same state tables.
LEMMA SameTables ==
    /\ P!InFlightStates = InFlightStates
    /\ P!OperationStates = OperationStates
    /\ \A state : P!operationStatesBelow(state) = operationStatesBelow(state)
  BY DEF P!InFlightStates, InFlightStates, P!TerminalStates, TerminalStates,
         P!OperationStates, OperationStates, P!operationStatesBelow, operationStatesBelow,
         P!OPERATION_STATE_RANK, OPERATION_STATE_RANK

\* While a child is in flight the verdict is processing.
LEMMA InFlightVerdict ==
    ASSUME NEW states, NEW c \in Children, states[c] \in InFlightStates
    PROVE  P!Verdict(states) = "processing"
  BY SameTables DEF P!Verdict

\* A run that has won its child holds it in flight, so the parent is still
\* processing.
LEMMA StillProcessing ==
    ASSUME BatchInv, NEW r \in Runs, run[r].pc \in {"lock", "count", "commit"}
    PROVE  /\ run[r].op \in Children /\ run[r].state \in OperationStates
           /\ parent = "processing"
<1>1. /\ run[r].op \in Children /\ run[r].state \in OperationStates
      /\ child[run[r].op] \in operationStatesBelow(run[r].state)
  BY DEF BatchInv, DecisionHolds
<1>2. child[run[r].op] \in InFlightStates
  BY <1>1, BelowInFlight
<1>3. QED
  BY <1>1, <1>2, InFlightVerdict DEF BatchInv, ParentFollowsChildren

\* A new batch satisfies the invariant.
LEMMA BatchInit == Init => BatchInv
<1> SUFFICES ASSUME Init PROVE BatchInv
  OBVIOUS
<1>1. /\ child = [c \in Children |-> "pending"] /\ parent = "processing" /\ told = 0
      /\ childLock = [c \in Children |-> NoOne] /\ parentLock = NoOne
      /\ run = [r \in Runs |-> Idle]
  BY DEF Init, P!Init
<1>2. TypeOK
  BY <1>1 DEF TypeOK, Run, Idle, OperationStates, InFlightStates, TerminalStates, None
<1>3. \A r \in Runs : run[r].pc = "idle" /\ run[r].settle = None /\ ~run[r].mirror
  BY <1>1 DEF Idle
<1>4. parent = P!Verdict(child)
  <2>1. PICK c \in Children : TRUE
    BY BatchAssumption
  <2>2. child[c] \in InFlightStates
    BY <1>1 DEF InFlightStates
  <2>3. QED
    BY <1>1, <2>2, InFlightVerdict
<1>5. QED
  BY <1>2, <1>3, <1>4 DEF BatchInv, DecisionHolds, ParentFollowsChildren

\* The rows of the runs that an action leaves alone, and the actor's own.
RunStep(r, new) == run' = [run EXCEPT ![r] = new]

\* One run moves and the committed rows do not change: the invariant is kept
\* when it holds for the moving run and the locks of the others stay.
LEMMA LocalStep ==
    ASSUME BatchInv, NEW r \in Runs, NEW new \in Run, RunStep(r, new),
           UNCHANGED <<child, parent, told>>,
           childLock' \in [Children -> Runs \cup {NoOne}],
           parentLock' \in Runs \cup {NoOne},
           \A c \in Children : childLock[c] \in Runs \ {r} => childLock'[c] = childLock[c],
           parentLock \in Runs \ {r} => parentLock' = parentLock,
           ~new.mirror,
           new.pc # "idle" => new.op \in Children /\ new.state \in OperationStates,
           new.pc \in {"lock", "count", "commit"} =>
              /\ childLock'[new.op] = r
              /\ child[new.op] \in operationStatesBelow(new.state),
           new.pc \in {"count", "commit"} => parentLock' = r,
           new.pc # "commit" => new.settle = None,
           new.pc = "commit" =>
              LET verdict == P!Verdict([child EXCEPT ![new.op] = new.state])
              IN  new.settle = IF verdict = "processing" THEN None ELSE verdict
    PROVE  BatchInv'
<1>1. TypeOK
  BY DEF BatchInv, DecisionHolds
<1>2. run' \in [Runs -> Run] /\ run'[r] = new /\ \A q \in Runs : q # r => run'[q] = run[q]
  BY <1>1 DEF TypeOK, RunStep
<1>3. TypeOK'
  BY <1>1, <1>2 DEF TypeOK
<1>4. ParentFollowsChildren'
  BY DEF BatchInv, ParentFollowsChildren
<1>5. \A q \in Runs : ~run'[q].mirror
  BY <1>2 DEF BatchInv
<1>6. ASSUME NEW q \in Runs
      PROVE  /\ run'[q].pc # "idle" => run'[q].op \in Children /\ run'[q].state \in OperationStates
             /\ run'[q].pc \in {"lock", "count", "commit"} =>
                   /\ childLock'[run'[q].op] = q
                   /\ child'[run'[q].op] \in operationStatesBelow(run'[q].state)
             /\ run'[q].pc \in {"count", "commit"} /\ ~run'[q].mirror => parentLock' = q
             /\ run'[q].pc # "commit" => run'[q].settle = None
             /\ run'[q].pc = "commit" /\ ~run'[q].mirror =>
                   run'[q].settle = (IF P!Verdict(View(q)') = "processing" THEN None
                                     ELSE P!Verdict(View(q)'))
  <2>1. CASE q = r
    BY <1>2, <2>1 DEF View
  <2>2. CASE q # r
    <3>1. run'[q] = run[q] /\ View(q)' = View(q)
      BY <1>2, <2>2 DEF View
    <3>2. QED
      BY <2>2, <3>1 DEF BatchInv, DecisionHolds
  <2>3. QED
    BY <2>1, <2>2
<1>7. QED
  BY <1>3, <1>4, <1>5, <1>6 DEF BatchInv, DecisionHolds

\* A commit keeps the invariant, and it is a step of the promise: the run
\* holds the parent, so no sibling is past its own recount.
LEMMA CommitStep ==
    ASSUME BatchInv, NEW r \in Runs, Commit(r)
    PROVE  BatchInv' /\ P!Settle(run[r].op, run[r].state)
<1> DEFINE c == run[r].op
           verdict == P!Verdict(View(r))
<1>1. TypeOK /\ \A q \in Runs : ~run[q].mirror
  BY DEF BatchInv, DecisionHolds
<1>2. run[r].pc = "commit"
  BY DEF Commit
<1>3. /\ c \in Children /\ run[r].state \in OperationStates /\ parent = "processing"
  BY <1>2, StillProcessing
<1>4. /\ childLock[c] = r /\ child[c] \in operationStatesBelow(run[r].state)
      /\ parentLock = r
      /\ run[r].settle = IF verdict = "processing" THEN None ELSE verdict
  BY <1>1, <1>2 DEF BatchInv, DecisionHolds
<1>5. verdict \in OperationStates /\ verdict # None
  BY VerdictType
<1>6. /\ child' = View(r) /\ parent' = verdict
      /\ told' = IF verdict = "processing" THEN told ELSE told + 1
  <2> HIDE DEF verdict
  <2>1. QED
    BY <1>3, <1>4, <1>5 DEF Commit
<1>7. /\ run' \in [Runs -> Run] /\ run'[r] = Idle
      /\ \A q \in Runs : q # r => run'[q] = run[q]
  BY <1>1 DEF Commit, Release, TypeOK, Run, Idle, None
<1>8. TypeOK'
  <2>1. child' \in [Children -> OperationStates]
    BY <1>1, <1>3, <1>6 DEF View, TypeOK
  <2>2. childLock' \in [Children -> Runs \cup {NoOne}] /\ parentLock' \in Runs \cup {NoOne}
    BY <1>1 DEF Commit, Release, TypeOK
  <2>3. told' \in Nat
    BY <1>1, <1>6 DEF TypeOK
  <2>4. QED
    BY <1>5, <1>6, <1>7, <2>1, <2>2, <2>3 DEF TypeOK
<1>9. ASSUME NEW q \in Runs, q # r
      PROVE  /\ run[q].pc \notin {"count", "commit"}
             /\ run[q].pc = "lock" =>
                   /\ childLock'[run[q].op] = q
                   /\ child'[run[q].op] = child[run[q].op]
  <2>1. run[q].pc \notin {"count", "commit"}
    BY <1>1, <1>4, <1>9 DEF BatchInv, DecisionHolds
  <2>2. ASSUME run[q].pc = "lock"
        PROVE  childLock'[run[q].op] = q /\ child'[run[q].op] = child[run[q].op]
    <3>1. run[q].op \in Children /\ childLock[run[q].op] = q
      BY <2>2 DEF BatchInv, DecisionHolds
    <3>2. run[q].op # c
      BY <1>4, <1>9, <3>1
    <3>3. QED
      BY <1>1, <1>6, <1>9, <3>1, <3>2 DEF Commit, Release, View, TypeOK
  <2>3. QED
    BY <2>1, <2>2
<1>10. DecisionHolds'
  <2>1. ASSUME NEW q \in Runs
        PROVE  /\ run'[q].pc # "idle" => run'[q].op \in Children /\ run'[q].state \in OperationStates
               /\ run'[q].pc \in {"lock", "count", "commit"} =>
                     /\ childLock'[run'[q].op] = q
                     /\ child'[run'[q].op] \in operationStatesBelow(run'[q].state)
               /\ run'[q].pc \notin {"count", "commit"}
               /\ run'[q].settle = None
    <3>1. CASE q = r
      BY <1>7, <3>1 DEF Idle
    <3>2. CASE q # r
      BY <1>7, <1>9, <3>2 DEF BatchInv, DecisionHolds
    <3>3. QED
      BY <3>1, <3>2
  <2>2. QED
    BY <1>8, <2>1 DEF DecisionHolds
<1>11. ParentFollowsChildren' /\ \A q \in Runs : ~run'[q].mirror
  BY <1>1, <1>6, <1>7 DEF ParentFollowsChildren, Idle
<1>12. P!Settle(c, run[r].state)
  BY <1>3, <1>4, <1>6, SameTables DEF P!Settle, View
<1>13. QED
  BY <1>10, <1>11, <1>12 DEF BatchInv

\* Every other action changes no committed row and keeps the invariant.
LEMMA BatchNext ==
    ASSUME Actions = {}, BatchInv, [Next]_vars
    PROVE  BatchInv' /\ [P!Next]_<<child, parent, told>>
<1>t. TypeOK /\ \A q \in Runs : run[q] \in Run /\ ~run[q].mirror
  BY DEF BatchInv, DecisionHolds, TypeOK
<1>1. CASE UNCHANGED vars
  BY <1>1 DEF vars, BatchInv, DecisionHolds, TypeOK, ParentFollowsChildren, View
<1>2. ASSUME NEW r \in Runs, NEW c \in Children, NEW state \in OperationStates \ {"pending"},
             NEW mirror \in BOOLEAN, Take(r, c, state, mirror)
      PROVE  BatchInv' /\ UNCHANGED <<child, parent, told>>
  <2> DEFINE new == [pc |-> "update", op |-> c, state |-> state,
                     mirror |-> mirror, settle |-> None]
  <2>1. ~mirror /\ RunStep(r, new) /\ new \in Run
    BY <1>2 DEF Take, RunStep, Run, None
  <2>2. QED
    BY <1>2, <1>t, <2>1, LocalStep DEF Take, TypeOK
<1>3. ASSUME NEW r \in Runs, Update(r)
      PROVE  BatchInv' /\ UNCHANGED <<child, parent, told>>
  <2>1. CASE child[run[r].op] \in operationStatesBelow(run[r].state)
    <3> DEFINE new == [run[r] EXCEPT !.pc = "lock"]
    <3>1. RunStep(r, new) /\ new \in Run
      BY <1>3, <1>t, <2>1 DEF Update, RunStep, Run
    <3>2. /\ run[r].op \in Children /\ run[r].state \in OperationStates
          /\ run[r].settle = None /\ childLock[run[r].op] = NoOne
          /\ childLock' = [childLock EXCEPT ![run[r].op] = r]
      BY <1>3, <2>1 DEF Update, BatchInv, DecisionHolds
    <3>3. /\ new.pc = "lock" /\ new.op = run[r].op /\ new.state = run[r].state
          /\ new.settle = None /\ ~new.mirror
      BY <1>t, <3>2 DEF Run
    <3>4. /\ childLock' \in [Children -> Runs \cup {NoOne}]
          /\ childLock'[run[r].op] = r
          /\ \A d \in Children : childLock[d] \in Runs \ {r} => childLock'[d] = childLock[d]
      BY <1>t, <3>2, BatchAssumption DEF TypeOK
    <3> HIDE DEF new
    <3>5. QED
      BY <1>3, <1>t, <2>1, <3>1, <3>2, <3>3, <3>4, LocalStep DEF Update, TypeOK
  <2>2. CASE child[run[r].op] \notin operationStatesBelow(run[r].state)
    <3>1. RunStep(r, Idle) /\ Idle \in Run
      BY <1>3, <2>2 DEF Update, RunStep, Run, Idle, None
    <3>2. Idle.pc = "idle" /\ Idle.settle = None /\ ~Idle.mirror
      BY DEF Idle
    <3>3. QED
      BY <1>3, <1>t, <2>2, <3>1, <3>2, LocalStep DEF Update, TypeOK
  <2>3. QED
    BY <2>1, <2>2
<1>4. ASSUME NEW r \in Runs, LockParent(r)
      PROVE  BatchInv' /\ UNCHANGED <<child, parent, told>>
  <2> DEFINE new == [run[r] EXCEPT !.pc = "count"]
  <2>1. RunStep(r, new) /\ new \in Run
    BY <1>4, <1>t DEF LockParent, RunStep, Run
  <2>2. /\ run[r].op \in Children /\ run[r].state \in OperationStates
        /\ run[r].settle = None /\ childLock[run[r].op] = r
        /\ child[run[r].op] \in operationStatesBelow(run[r].state)
    BY <1>4 DEF LockParent, BatchInv, DecisionHolds
  <2>3. /\ new.pc = "count" /\ new.op = run[r].op /\ new.state = run[r].state
        /\ new.settle = None /\ ~new.mirror
    BY <1>t, <2>2 DEF Run
  <2>4. parentLock = NoOne /\ parentLock' = r /\ UNCHANGED <<child, parent, told, childLock>>
    BY <1>4 DEF LockParent
  <2> HIDE DEF new
  <2>5. QED
    BY <1>t, <2>1, <2>2, <2>3, <2>4, BatchAssumption, LocalStep DEF TypeOK
<1>5. ASSUME NEW r \in Runs, Count(r)
      PROVE  BatchInv' /\ UNCHANGED <<child, parent, told>>
  <2> DEFINE verdict == P!Verdict(View(r))
             settle == IF verdict = "processing" THEN None ELSE verdict
             new == [run[r] EXCEPT !.pc = "commit", !.settle = settle]
  <2>1. run[r].pc = "count" /\ parent = "processing"
    BY <1>5, StillProcessing DEF Count
  <2>2. settle \in OperationStates \cup {None}
    BY VerdictType
  <2>3. RunStep(r, new)
    BY <1>5, <1>t, <2>1 DEF Count, RunStep, Run, TypeOK
  <2>4. /\ run[r].op \in Children /\ run[r].state \in OperationStates
        /\ childLock[run[r].op] = r /\ parentLock = r
        /\ child[run[r].op] \in operationStatesBelow(run[r].state)
    BY <1>t, <2>1 DEF BatchInv, DecisionHolds
  <2>5. UNCHANGED <<child, parent, told, childLock, parentLock>>
    BY <1>5 DEF Count
  <2>6. View(r) = [child EXCEPT ![run[r].op] = run[r].state]
    BY DEF View
  <2> HIDE DEF settle
  <2>7. /\ new \in Run
        /\ new.pc = "commit" /\ new.op = run[r].op /\ new.state = run[r].state
        /\ new.settle = settle /\ ~new.mirror
    BY <1>t, <2>2 DEF Run
  <2> HIDE DEF new
  <2>8. new.settle = IF P!Verdict([child EXCEPT ![new.op] = new.state]) = "processing"
                     THEN None ELSE P!Verdict([child EXCEPT ![new.op] = new.state])
    BY <2>6, <2>7 DEF settle
  <2>9. QED
    BY <1>t, <2>3, <2>4, <2>5, <2>7, <2>8, LocalStep DEF TypeOK
<1>6. ASSUME NEW r \in Runs, Rollback(r)
      PROVE  BatchInv' /\ UNCHANGED <<child, parent, told>>
  <2>1. RunStep(r, Idle) /\ Idle \in Run
    BY <1>6 DEF Rollback, Release, RunStep, Run, Idle, None
  <2>2. Idle.pc = "idle" /\ Idle.settle = None /\ ~Idle.mirror
    BY DEF Idle
  <2>3. /\ childLock' \in [Children -> Runs \cup {NoOne}]
        /\ parentLock' \in Runs \cup {NoOne}
        /\ \A d \in Children : childLock[d] \in Runs \ {r} => childLock'[d] = childLock[d]
        /\ parentLock \in Runs \ {r} => parentLock' = parentLock
    BY <1>6, <1>t DEF Rollback, Release, TypeOK
  <2>4. UNCHANGED <<child, parent, told>>
    BY <1>6 DEF Rollback
  <2>5. QED
    BY <2>1, <2>2, <2>3, <2>4, LocalStep
<1>7. ASSUME NEW r \in Runs, Commit(r)
      PROVE  BatchInv' /\ P!Next
  <2>1. run[r].op \in Children /\ run[r].state \in OperationStates
    BY <1>7, StillProcessing DEF Commit
  <2>2. QED
    BY <1>7, <2>1, CommitStep, SameTables DEF P!Next
<1>8. QED
  BY <1>1, <1>2, <1>3, <1>4, <1>5, <1>6, <1>7 DEF Next, Step, vars

\* When no child's exchange has a newer operation, the batch operation is in
\* every committed state what its children make it, whatever runs race.
THEOREM ParentFollows == ASSUME Actions = {} PROVE Spec => []ParentFollowsChildren
<1>1. BatchInv /\ [Next]_vars => BatchInv'
  BY BatchNext
<1>2. BatchInv => ParentFollowsChildren
  BY DEF BatchInv
<1>3. QED
  BY <1>1, <1>2, BatchInit, PTL DEF Spec

\* And the settlement, statement by statement, implements the atomic one.
THEOREM BatchRefines == ASSUME Actions = {} PROVE Spec => Implements
<1>1. BatchInv /\ [Next]_vars => BatchInv' /\ [P!Next]_<<child, parent, told>>
  BY BatchNext
<1>2. Init => P!Init
  BY DEF Init
<1>3. QED
  BY <1>1, <1>2, BatchInit, PTL DEF Spec, Implements, P!Spec

\* Nor does the decision of any run go stale between its recount and its
\* commit: the rows it was made on are locked until then.
THEOREM DecisionsHold == ASSUME Actions = {} PROVE Spec => []DecisionHolds
<1>1. BatchInv /\ [Next]_vars => BatchInv'
  BY BatchNext
<1>2. BatchInv => DecisionHolds
  BY DEF BatchInv
<1>3. QED
  BY <1>1, <1>2, BatchInit, PTL DEF Spec

-----------------------------------------------------------------------------
(* With newer operations *)

\* The batch operation has ended only if every child has, and as they did; and
\* its end is told once.  That it ends with the last of them is what a child
\* settled through a newer operation prevents.
EndsAfterChildren ==
    /\ parent # "processing" => parent = P!Verdict(child)
    /\ told = IF parent = "processing" THEN 0 ELSE 1

\* What a run that may mirror is still sure of: it holds the child it writes,
\* and a settlement it decided on is what the children will be at its commit.
HeldInv ==
    /\ TypeOK
    /\ \A r \in Runs :
          /\ run[r].pc # "idle" => run[r].op \in Children /\ run[r].state \in OperationStates
          /\ run[r].pc \in {"lock", "count", "commit"} =>
                /\ childLock[run[r].op] = r
                /\ child[run[r].op] \in operationStatesBelow(run[r].state)
          /\ run[r].settle # None =>
                /\ run[r].pc = "commit"
                /\ P!Verdict(View(r)) = run[r].settle
                /\ run[r].settle # "processing"

\* While a run holds a child it is in flight, and so is the batch.
LEMMA HeldInFlight ==
    ASSUME HeldInv, EndsAfterChildren, NEW r \in Runs,
           run[r].pc \in {"lock", "count", "commit"}
    PROVE  /\ run[r].op \in Children /\ run[r].state \in OperationStates
           /\ childLock[run[r].op] = r /\ child[run[r].op] \in InFlightStates
           /\ parent = "processing"
<1>1. /\ run[r].op \in Children /\ run[r].state \in OperationStates
      /\ childLock[run[r].op] = r
      /\ child[run[r].op] \in operationStatesBelow(run[r].state)
  BY DEF HeldInv
<1>2. child[run[r].op] \in InFlightStates
  BY <1>1, BelowInFlight
<1>3. QED
  BY <1>1, <1>2, InFlightVerdict DEF EndsAfterChildren

\* A run that moves without committing keeps both when it holds what it needs.
LEMMA HeldLocal ==
    ASSUME HeldInv, EndsAfterChildren, NEW r \in Runs, NEW new \in Run, RunStep(r, new),
           UNCHANGED <<child, parent, told>>,
           childLock' \in [Children -> Runs \cup {NoOne}],
           parentLock' \in Runs \cup {NoOne},
           \A c \in Children : childLock[c] \in Runs \ {r} => childLock'[c] = childLock[c],
           new.pc # "idle" => new.op \in Children /\ new.state \in OperationStates,
           new.pc \in {"lock", "count", "commit"} =>
              /\ childLock'[new.op] = r
              /\ child[new.op] \in operationStatesBelow(new.state),
           new.settle # None =>
              /\ new.pc = "commit"
              /\ P!Verdict([child EXCEPT ![new.op] = new.state]) = new.settle
              /\ new.settle # "processing"
    PROVE  HeldInv' /\ EndsAfterChildren'
<1>1. TypeOK
  BY DEF HeldInv
<1>2. run' \in [Runs -> Run] /\ run'[r] = new /\ \A q \in Runs : q # r => run'[q] = run[q]
  BY <1>1 DEF TypeOK, RunStep
<1>3. TypeOK'
  BY <1>1, <1>2 DEF TypeOK
<1>4. EndsAfterChildren'
  BY DEF EndsAfterChildren
<1>5. ASSUME NEW q \in Runs
      PROVE  /\ run'[q].pc # "idle" => run'[q].op \in Children /\ run'[q].state \in OperationStates
             /\ run'[q].pc \in {"lock", "count", "commit"} =>
                   /\ childLock'[run'[q].op] = q
                   /\ child'[run'[q].op] \in operationStatesBelow(run'[q].state)
             /\ run'[q].settle # None =>
                   /\ run'[q].pc = "commit"
                   /\ P!Verdict(View(q)') = run'[q].settle
                   /\ run'[q].settle # "processing"
  <2>1. CASE q = r
    BY <1>2, <2>1 DEF View
  <2>2. CASE q # r
    <3>1. run'[q] = run[q] /\ View(q)' = View(q)
      BY <1>2, <2>2 DEF View
    <3>2. QED
      BY <2>2, <3>1 DEF HeldInv
  <2>3. QED
    BY <2>1, <2>2
<1>6. QED
  BY <1>3, <1>4, <1>5 DEF HeldInv

\* A commit keeps both: when a run is about to settle the batch no other run
\* holds a child, for that child would be in flight.
LEMMA HeldCommit ==
    ASSUME HeldInv, EndsAfterChildren, NEW r \in Runs, Commit(r)
    PROVE  HeldInv' /\ EndsAfterChildren'
<1> DEFINE c == run[r].op
           settle == run[r].settle
<1>1. TypeOK /\ run[r].pc = "commit"
  BY DEF HeldInv, Commit
<1>2. /\ c \in Children /\ run[r].state \in OperationStates /\ childLock[c] = r
      /\ child[c] \in InFlightStates /\ parent = "processing" /\ told = 0
  BY <1>1, HeldInFlight DEF EndsAfterChildren
<1>3. settle # None =>
         P!Verdict(View(r)) = settle /\ settle # "processing" /\ settle \in OperationStates
  BY <1>1 DEF HeldInv, TypeOK, Run
<1>4. /\ child' = View(r)
      /\ parent' = IF settle = None THEN parent ELSE settle
      /\ told' = IF settle = None THEN told ELSE told + 1
  BY DEF Commit
<1>5. /\ run' \in [Runs -> Run] /\ run'[r] = Idle
      /\ \A q \in Runs : q # r => run'[q] = run[q]
  BY <1>1 DEF Commit, Release, TypeOK, Run, Idle, None
<1>6. EndsAfterChildren'
  <2> HIDE DEF settle
  <2>1. P!Verdict(child)' = P!Verdict(View(r))
    BY <1>4 DEF P!Verdict
  <2>2. QED
    BY <1>2, <1>3, <1>4, <2>1 DEF EndsAfterChildren
<1>7. TypeOK'
  <2>1. child' \in [Children -> OperationStates]
    BY <1>1, <1>2, <1>4 DEF View, TypeOK
  <2>2. childLock' \in [Children -> Runs \cup {NoOne}] /\ parentLock' \in Runs \cup {NoOne}
    BY <1>1 DEF Commit, Release, TypeOK
  <2>3. told' \in Nat /\ parent' \in OperationStates
    <3> HIDE DEF settle
    <3>1. QED
      BY <1>1, <1>2, <1>3, <1>4 DEF TypeOK
  <2>4. QED
    BY <1>5, <2>1, <2>2, <2>3 DEF TypeOK
<1>8. ASSUME NEW q \in Runs, q # r
      PROVE  /\ run[q].pc \in {"lock", "count", "commit"} =>
                   /\ childLock'[run[q].op] = q
                   /\ child'[run[q].op] = child[run[q].op]
             /\ run[q].settle = None
  <2>1. ASSUME run[q].pc \in {"lock", "count", "commit"}
        PROVE  childLock'[run[q].op] = q /\ child'[run[q].op] = child[run[q].op]
    <3>1. run[q].op \in Children /\ childLock[run[q].op] = q
      BY <2>1, HeldInFlight
    <3>2. run[q].op # c
      BY <1>2, <1>8, <3>1
    <3>3. QED
      BY <1>1, <1>4, <1>8, <3>1, <3>2 DEF Commit, Release, View, TypeOK
  <2>2. ASSUME run[q].settle # None PROVE FALSE
    <3>1. /\ run[q].pc = "commit" /\ P!Verdict(View(q)) = run[q].settle
          /\ run[q].settle # "processing"
      BY <2>2 DEF HeldInv
    <3>2. run[q].op \in Children /\ childLock[run[q].op] = q
      BY <3>1, HeldInFlight
    <3>3. View(q)[c] = child[c]
      BY <1>1, <1>2, <1>8, <3>2 DEF View, TypeOK
    <3>4. P!Verdict(View(q)) = "processing"
      BY <1>2, <3>3, InFlightVerdict
    <3>5. QED
      BY <3>1, <3>4
  <2>3. QED
    BY <2>1, <2>2
<1>9. HeldInv'
  <2>1. ASSUME NEW q \in Runs
        PROVE  /\ run'[q].pc # "idle" => run'[q].op \in Children /\ run'[q].state \in OperationStates
               /\ run'[q].pc \in {"lock", "count", "commit"} =>
                     /\ childLock'[run'[q].op] = q
                     /\ child'[run'[q].op] \in operationStatesBelow(run'[q].state)
               /\ run'[q].settle = None
    <3>1. CASE q = r
      BY <1>5, <3>1 DEF Idle
    <3>2. CASE q # r
      BY <1>5, <1>8, <3>2 DEF HeldInv
    <3>3. QED
      BY <3>1, <3>2
  <2>2. QED
    BY <1>7, <2>1 DEF HeldInv
<1>10. QED
  BY <1>6, <1>9

\* Every step keeps both.
LEMMA HeldNext ==
    ASSUME HeldInv, EndsAfterChildren, [Next]_vars
    PROVE  HeldInv' /\ EndsAfterChildren'
<1>t. TypeOK /\ \A q \in Runs : run[q] \in Run
  BY DEF HeldInv, TypeOK
<1>1. CASE UNCHANGED vars
  BY <1>1 DEF vars, HeldInv, EndsAfterChildren, TypeOK, View
<1>2. ASSUME NEW r \in Runs, NEW c \in Children, NEW state \in OperationStates \ {"pending"},
             NEW mirror \in BOOLEAN, Take(r, c, state, mirror)
      PROVE  HeldInv' /\ EndsAfterChildren'
  <2> DEFINE new == [pc |-> "update", op |-> c, state |-> state,
                     mirror |-> mirror, settle |-> None]
  <2>1. RunStep(r, new) /\ new \in Run
    BY <1>2 DEF Take, RunStep, Run, None
  <2>2. QED
    BY <1>2, <1>t, <2>1, HeldLocal DEF Take, TypeOK
<1>3. ASSUME NEW r \in Runs, Update(r) PROVE HeldInv' /\ EndsAfterChildren'
  <2>0. run[r].op \in Children /\ run[r].state \in OperationStates /\ run[r].settle = None
    BY <1>3 DEF Update, HeldInv
  <2>1. CASE child[run[r].op] \in operationStatesBelow(run[r].state)
    <3> DEFINE next == IF run[r].mirror THEN "commit" ELSE "lock"
               new == [run[r] EXCEPT !.pc = next]
    <3>1. RunStep(r, new) /\ new \in Run
      BY <1>3, <1>t, <2>1 DEF Update, RunStep, Run
    <3>2. /\ childLock[run[r].op] = NoOne
          /\ childLock' = [childLock EXCEPT ![run[r].op] = r]
      BY <1>3, <2>1 DEF Update
    <3>3. /\ new.op = run[r].op /\ new.state = run[r].state /\ new.settle = None
      BY <1>t, <2>0 DEF Run
    <3>4. /\ childLock' \in [Children -> Runs \cup {NoOne}]
          /\ childLock'[run[r].op] = r
          /\ \A d \in Children : childLock[d] \in Runs \ {r} => childLock'[d] = childLock[d]
      BY <1>t, <2>0, <3>2, BatchAssumption DEF TypeOK
    <3> HIDE DEF new
    <3>5. QED
      BY <1>3, <1>t, <2>0, <2>1, <3>1, <3>3, <3>4, HeldLocal DEF Update, TypeOK
  <2>2. CASE child[run[r].op] \notin operationStatesBelow(run[r].state)
    <3>1. RunStep(r, Idle) /\ Idle \in Run
      BY <1>3, <2>2 DEF Update, RunStep, Run, Idle, None
    <3>2. Idle.pc = "idle" /\ Idle.settle = None
      BY DEF Idle
    <3>3. QED
      BY <1>3, <1>t, <2>2, <3>1, <3>2, HeldLocal DEF Update, TypeOK
  <2>3. QED
    BY <2>1, <2>2
<1>4. ASSUME NEW r \in Runs, LockParent(r) PROVE HeldInv' /\ EndsAfterChildren'
  <2> DEFINE new == [run[r] EXCEPT !.pc = "count"]
  <2>1. RunStep(r, new) /\ new \in Run /\ run[r].pc = "lock"
    BY <1>4, <1>t DEF LockParent, RunStep, Run
  <2>2. /\ run[r].op \in Children /\ run[r].state \in OperationStates
        /\ run[r].settle = None /\ childLock[run[r].op] = r
        /\ child[run[r].op] \in operationStatesBelow(run[r].state)
    BY <2>1 DEF HeldInv
  <2>3. /\ new.pc = "count" /\ new.op = run[r].op /\ new.state = run[r].state
        /\ new.settle = None
    BY <1>t, <2>2 DEF Run
  <2> HIDE DEF new
  <2>4. QED
    BY <1>4, <1>t, <2>1, <2>2, <2>3, HeldLocal DEF LockParent, TypeOK
<1>5. ASSUME NEW r \in Runs, Count(r) PROVE HeldInv' /\ EndsAfterChildren'
  <2> DEFINE verdict == P!Verdict(View(r))
             settle == IF verdict = "processing" THEN None ELSE verdict
             new == [run[r] EXCEPT !.pc = "commit", !.settle = settle]
  <2>1. run[r].pc = "count" /\ parent = "processing"
    BY <1>5, HeldInFlight DEF Count
  <2>2. settle \in OperationStates \cup {None} /\ verdict # None
    BY VerdictType
  <2>3. RunStep(r, new)
    BY <1>5, <1>t, <2>1 DEF Count, RunStep, Run, TypeOK
  <2>4. /\ run[r].op \in Children /\ run[r].state \in OperationStates
        /\ childLock[run[r].op] = r
        /\ child[run[r].op] \in operationStatesBelow(run[r].state)
    BY <2>1 DEF HeldInv
  <2>5. UNCHANGED <<child, parent, told, childLock, parentLock>>
    BY <1>5 DEF Count
  <2>6. View(r) = [child EXCEPT ![run[r].op] = run[r].state]
    BY DEF View
  <2> HIDE DEF settle
  <2>7. /\ new \in Run
        /\ new.pc = "commit" /\ new.op = run[r].op /\ new.state = run[r].state
        /\ new.settle = settle
    BY <1>t, <2>2 DEF Run
  <2> HIDE DEF new
  <2>8. new.settle # None =>
           /\ P!Verdict([child EXCEPT ![new.op] = new.state]) = new.settle
           /\ new.settle # "processing"
    BY <2>6, <2>7 DEF settle
  <2>9. QED
    BY <1>t, <2>3, <2>4, <2>5, <2>7, <2>8, HeldLocal DEF TypeOK
<1>6. ASSUME NEW r \in Runs, Rollback(r) PROVE HeldInv' /\ EndsAfterChildren'
  <2>1. RunStep(r, Idle) /\ Idle \in Run
    BY <1>6 DEF Rollback, Release, RunStep, Run, Idle, None
  <2>2. Idle.pc = "idle" /\ Idle.settle = None
    BY DEF Idle
  <2>3. /\ childLock' \in [Children -> Runs \cup {NoOne}]
        /\ parentLock' \in Runs \cup {NoOne}
        /\ \A d \in Children : childLock[d] \in Runs \ {r} => childLock'[d] = childLock[d]
    BY <1>6, <1>t DEF Rollback, Release, TypeOK
  <2>4. UNCHANGED <<child, parent, told>>
    BY <1>6 DEF Rollback
  <2>5. QED
    BY <2>1, <2>2, <2>3, <2>4, HeldLocal
<1>7. QED
  BY <1>1, <1>2, <1>3, <1>4, <1>5, <1>6, HeldCommit DEF Next, Step

\* Whatever newer operations the children have, the batch operation never ends
\* before the last of them, nor otherwise than they make it, and the tenant is
\* told of its end once.
THEOREM NeverEarly == Spec => []EndsAfterChildren
<1>1. Init => HeldInv /\ EndsAfterChildren
  <2>1. SUFFICES ASSUME Init PROVE HeldInv /\ EndsAfterChildren
    OBVIOUS
  <2>2. TypeOK /\ \A r \in Runs : run[r].pc = "idle" /\ run[r].settle = None
    BY <2>1, BatchInit DEF Init, Idle, BatchInv, DecisionHolds
  <2>3. parent = "processing" /\ told = 0
    BY <2>1 DEF Init, P!Init
  <2>4. QED
    BY <2>2, <2>3 DEF HeldInv, EndsAfterChildren
<1>2. HeldInv /\ EndsAfterChildren /\ [Next]_vars => (HeldInv /\ EndsAfterChildren)'
  BY HeldNext
<1>3. QED
  BY <1>1, <1>2, PTL DEF Spec

=============================================================================
