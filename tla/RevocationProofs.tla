-------------------------- MODULE RevocationProofs ---------------------------
(***************************************************************************)
(* For any number of revoke calls, job runs, readers and operations, and   *)
(* any durations: what each of them has in hand stays true, operation and  *)
(* credential agree, and what a client was shown stands.                   *)
(***************************************************************************)
EXTENDS Revocation, TLAPS, WellFoundedInduction, FiniteSetTheorems

\* Zenon is tried first; arithmetic and most of the sequences are left to SMT.
USE ZenonT(15), SMTT(30)

OpRow == [state : OperationStates, created : Nat,
          viewed : Nat \cup {Never}, expires : Nat, gone : BOOLEAN]

\* What a request, a run and a reader hold.
ReqFacts(q) ==
    /\ q.pc \in {"call", "revoked", "failed"} => q.op \in DOMAIN ops
    /\ q.pc = "revoked" => agent
WorkFacts(k) ==
    /\ k.pc = "apply" => agent
    /\ k.op # NoOp => k.op \in DOMAIN ops
ReadFacts(c) ==
    c # IdleRead => c.op \in DOMAIN ops /\ c.state \in TerminalStates /\ ops[c.op].state = c.state

\* The inductive invariant.  A credential is never expired or failed here.
RevInv ==
    /\ TypeOK /\ ops \in Seq(OpRow)
    /\ cred \in {"offered", "issued", "revoked"}
    /\ job => agent
    /\ \A r \in Callers : ReqFacts(req[r])
    /\ \A w \in Workers : WorkFacts(work[w])
    /\ \A c \in Readers : ReadFacts(read[c])
    /\ CompletedMeansRevoked /\ ExpiryFollowsState /\ ShownEndStands

-----------------------------------------------------------------------------

\* The newest of a set of operations is one of them.
LEMMA NewestIsOne == ASSUME NEW S \in SUBSET Ids PROVE S = {} \/ Newest(S) \in S
<1>1. SUFFICES ASSUME S # {} PROVE \E o \in S : \A p \in S : p <= o
  BY DEF Newest
<1> USE RevocationAssumption
<1> DEFINE T == {n \in Nat : MaxOps - n \in S}
<1>2. T # {}
  <2>1. PICK o \in S : TRUE
    BY <1>1
  <2>2. o \in 1..MaxOps
    BY DEF Ids
  <2>3. MaxOps - o \in Nat /\ MaxOps - (MaxOps - o) = o
    BY <2>2
  <2>4. QED
    BY <2>1, <2>3
<1>3. PICK n \in T : \A m \in T : ~(<<m, n>> \in OpToRel(<, Nat))
  <2>1. T \subseteq Nat
    OBVIOUS
  <2> HIDE DEF T
  <2>2. QED
    BY <1>2, <2>1, WFMin, NatLessThanWellFounded
<1>4. \A m \in T : ~(m < n)
  BY <1>3 DEF OpToRel
<1>5. ASSUME NEW p \in S PROVE p <= MaxOps - n
  <2>1. p \in 1..MaxOps
    BY DEF Ids
  <2>2. MaxOps - p \in T
    <3>1. MaxOps - p \in Nat /\ MaxOps - (MaxOps - p) = p
      BY <2>1
    <3>2. QED
      BY <3>1
  <2>3. ~(MaxOps - p < n)
    BY <1>4, <2>2
  <2>4. n \in Nat
    OBVIOUS
  <2>5. QED
    BY <2>1, <2>3, <2>4
<1>6. QED
  BY <1>3, <1>5

\* An expiry is a time.
LEMMA ExpiryType ==
    ASSUME NEW state \in OperationStates, NEW created \in Nat, NEW viewed \in Nat \cup {Never}
    PROVE  ExpiresAt(state, created, viewed) \in Nat
<1>1. \A k \in TtlKeys : Ttl[k] \in Nat
  BY RevocationAssumption DEF Ttl, resolveOperationTtl, parseDuration, Never
<1>2. /\ Ttl.pendingStale \in Nat /\ Ttl.completedUnviewed \in Nat /\ Ttl.completedViewed \in Nat
      /\ Ttl.failedUnviewed \in Nat /\ Ttl.failedViewed \in Nat
  BY <1>1 DEF TtlKeys
<1> HIDE DEF Ttl
<1>3. QED
  BY <1>2, RevocationAssumption DEF ExpiresAt, computeOperationExpiresAt, Never

\* Nothing has been called, reported or read.
LEMMA RevInit == Init => RevInv
<1> SUFFICES ASSUME Init PROVE RevInv
  OBVIOUS
<1>1. ops = <<>> /\ ops \in Seq(OpRow) /\ Len(ops) = 0 /\ DOMAIN ops = {}
  BY DEF Init
<1>2. TypeOK
  <2>1. now \in 0..MaxNow /\ Len(ops) <= MaxOps
    BY <1>1, RevocationAssumption DEF Init
  <2>2. /\ \A o \in DOMAIN ops : ops[o] \in OpRow
        /\ cred \in CredentialStates
        /\ agent \in BOOLEAN /\ job \in BOOLEAN /\ early \in BOOLEAN
        /\ shown \subseteq Ids \X TerminalStates /\ doomed \subseteq Ids
        /\ told \in [revoked : Nat, failed : Nat] /\ offerViewed \in Nat \cup {Never}
    BY <1>1 DEF Init, CredentialStates
  <2>3. /\ req \in [Callers -> [pc : {"idle", "create", "winner", "call", "revoked", "failed"},
                                op : Ids \cup {NoOp}]]
        /\ work \in [Workers -> [pc : {"idle", "apply"}, op : Ids \cup {NoOp}]]
        /\ read \in [Readers -> [op : Ids \cup {NoOp}, state : TerminalStates \cup {None}]]
    BY DEF Init, IdleReq, IdleWork, IdleRead
  <2>4. QED
    BY <2>1, <2>2, <2>3 DEF TypeOK, OpRow
<1>3. QED
  BY <1>1, <1>2 DEF Init, RevInv, ReqFacts, WorkFacts, ReadFacts, IdleReq, IdleWork, IdleRead,
     CompletedMeansRevoked, ExpiryFollowsState, ShownEndStands, Rows

\* A step that takes no row away and lets every end stand keeps what is held.
LEMMA HandsStep ==
    ASSUME RevInv, agent => agent', DOMAIN ops \subseteq DOMAIN ops',
           \A o \in DOMAIN ops : ops[o].state \in TerminalStates => ops'[o].state = ops[o].state
    PROVE  /\ \A q : ReqFacts(q) => ReqFacts(q)'
           /\ \A q : WorkFacts(q) => WorkFacts(q)'
           /\ \A q : ReadFacts(q) => ReadFacts(q)'
BY DEF ReqFacts, WorkFacts, ReadFacts

\* The rows are numbered.
LEMMA RowsKnown ==
    ASSUME RevInv
    PROVE  /\ ops \in Seq(OpRow) /\ DOMAIN ops = 1..Len(ops) /\ Len(ops) \in Nat /\ Len(ops) <= MaxOps
           /\ DOMAIN ops \subseteq Ids /\ Rows \subseteq DOMAIN ops /\ InFlight \subseteq Rows
           /\ \A o \in DOMAIN ops : ops[o] \in OpRow
           /\ NoOp \notin DOMAIN ops
<1>1. ops \in Seq(OpRow) /\ Len(ops) <= MaxOps
  BY DEF RevInv, TypeOK
<1>2. DOMAIN ops = 1..Len(ops) /\ Len(ops) \in Nat /\ \A o \in DOMAIN ops : ops[o] \in OpRow
  BY <1>1
<1>3. DOMAIN ops \subseteq Ids /\ NoOp \notin DOMAIN ops
  BY <1>1, <1>2, RevocationAssumption DEF Ids, NoOp
<1>4. QED
  BY <1>1, <1>2, <1>3 DEF Rows, InFlight

\* A step that writes neither row.
LEMMA QuietStep ==
    ASSUME RevInv, TypeOK', UNCHANGED <<ops, cred, shown, early>>,
           agent => agent', job' => agent',
           \A r \in Callers : req'[r] = req[r] \/ ReqFacts(req[r])',
           \A w \in Workers : work'[w] = work[w] \/ WorkFacts(work[w])',
           \A c \in Readers : read'[c] = read[c] \/ ReadFacts(read[c])'
    PROVE  RevInv'
<1>1. \A r \in Callers : ReqFacts(req[r])'
  BY DEF RevInv, ReqFacts
<1>2. \A w \in Workers : WorkFacts(work[w])'
  BY DEF RevInv, WorkFacts
<1>3. \A c \in Readers : ReadFacts(read[c])'
  BY DEF RevInv, ReadFacts
<1>4. CompletedMeansRevoked' /\ ExpiryFollowsState' /\ ShownEndStands'
  BY DEF RevInv, CompletedMeansRevoked, ExpiryFollowsState, ShownEndStands, Rows, ExpiresAt
<1>5. QED
  BY <1>1, <1>2, <1>3, <1>4 DEF RevInv

\* A request moves on, holding what it holds.
LEMMA RequestStep ==
    ASSUME RevInv, NEW r \in Callers,
           NEW q \in [pc : {"idle", "create", "winner", "call", "revoked", "failed"},
                      op : Ids \cup {NoOp}],
           req' = [req EXCEPT ![r] = q], ReqFacts(q)',
           agent' \in BOOLEAN, agent => agent', job' \in BOOLEAN, job' => agent',
           UNCHANGED <<now, ops, cred, work, read, shown, doomed, told, early, offerViewed>>
    PROVE  RevInv'
<1>1. req \in [Callers -> [pc : {"idle", "create", "winner", "call", "revoked", "failed"},
                          op : Ids \cup {NoOp}]]
  BY DEF RevInv, TypeOK
<1>2. TypeOK'
  BY <1>1 DEF RevInv, TypeOK
<1>3. \A s \in Callers : req'[s] = IF s = r THEN q ELSE req[s]
  BY <1>1
<1>4. ReqFacts(req[r])'
  BY <1>3 DEF ReqFacts
<1>5. QED
  BY <1>2, <1>3, <1>4, QuietStep

\* A call looks for the operation in flight, or takes that of the winner.
LEMMA RevokeStep == ASSUME RevInv, NEW r \in Callers, Revoke(r) \/ TakeWinner(r) PROVE RevInv'
<1>1. UNCHANGED <<now, ops, cred, agent, job, work, read, shown, doomed, told, early, offerViewed>>
  BY DEF Revoke, TakeWinner
<1>2. (job => agent) /\ agent \in BOOLEAN /\ job \in BOOLEAN
  BY DEF RevInv, TypeOK
<1>3. ASSUME NEW q \in {IdleReq, [IdleReq EXCEPT !.pc = "create"]}, req' = [req EXCEPT ![r] = q]
      PROVE  RevInv'
  <2>1. q.pc \in {"idle", "create"} /\ q.op = NoOp
        /\ q \in [pc : {"idle", "create", "winner", "call", "revoked", "failed"},
                  op : Ids \cup {NoOp}]
    BY <1>3 DEF IdleReq
  <2>2. ReqFacts(q)'
    BY <2>1 DEF ReqFacts
  <2>3. QED
    BY <1>1, <1>2, <1>3, <2>1, <2>2, RequestStep
<1>4. ASSUME NEW S, S = InFlight \/ S = Rows, Newest(S) # NoOp,
             req' = [req EXCEPT ![r] = [IdleReq EXCEPT !.pc = "call", !.op = Newest(S)]]
      PROVE  RevInv'
  <2> DEFINE q == [IdleReq EXCEPT !.pc = "call", !.op = Newest(S)]
  <2>1. S \in SUBSET Ids /\ S \subseteq DOMAIN ops
    BY <1>4, RowsKnown
  <2>2. Newest(S) \in DOMAIN ops /\ Newest(S) \in Ids
    BY <1>4, <2>1, NewestIsOne DEF Newest
  <2>3. q.pc = "call" /\ q.op = Newest(S)
        /\ q \in [pc : {"idle", "create", "winner", "call", "revoked", "failed"},
                  op : Ids \cup {NoOp}]
    BY <2>2 DEF IdleReq
  <2>4. req' = [req EXCEPT ![r] = q]
    BY <1>4
  <2> HIDE DEF q
  <2>5. PICK o \in DOMAIN ops : o = Newest(S)
    BY <2>2
  <2>6. ReqFacts(q)'
    BY <1>1, <2>3, <2>5 DEF ReqFacts
  <2>7. QED
    BY <1>1, <1>2, <2>3, <2>4, <2>6, RequestStep
<1>5. CASE Revoke(r)
  BY <1>3, <1>4, <1>5 DEF Revoke
<1>6. CASE TakeWinner(r)
  BY <1>3, <1>4, <1>6 DEF TakeWinner
<1>7. QED
  BY <1>5, <1>6

\* The agent's answer: one that says revoked is true.
LEMMA CallStep ==
    ASSUME RevInv, NEW r \in Callers, NEW answer \in Answers, CallAgent(r, answer) PROVE RevInv'
<1>1. /\ UNCHANGED <<now, ops, cred, work, read, shown, doomed, told, early, offerViewed>>
      /\ req[r].pc = "call" /\ job' = (job \/ (agent' /\ ~agent))
  BY DEF CallAgent
<1>2. (job => agent) /\ agent \in BOOLEAN /\ job \in BOOLEAN
  BY DEF RevInv, TypeOK
<1>3. /\ agent' \in BOOLEAN /\ (agent => agent')
      /\ answer = "revoked" => agent'
  BY <1>2 DEF CallAgent, Answers
<1>4. job' \in BOOLEAN /\ (job' => agent')
  BY <1>1, <1>2, <1>3
<1>5. /\ req \in [Callers -> [pc : {"idle", "create", "winner", "call", "revoked", "failed"},
                              op : Ids \cup {NoOp}]]
      /\ ReqFacts(req[r])
  BY DEF RevInv, TypeOK
<1>6. PICK i \in DOMAIN ops : i = req[r].op
  BY <1>1, <1>5 DEF ReqFacts
<1>7. PICK q \in [pc : {"idle", "create", "winner", "call", "revoked", "failed"},
                  op : Ids \cup {NoOp}] :
        /\ req' = [req EXCEPT ![r] = q]
        /\ \/ q.pc = "idle"
           \/ q.pc = "failed" /\ q.op = i
           \/ q.pc = "revoked" /\ q.op = i /\ answer = "revoked"
  <2>1. CASE answer = "otherError"
    <3>1. req' = [req EXCEPT ![r] = IdleReq]
      BY <2>1 DEF CallAgent
    <3>2. IdleReq \in [pc : {"idle", "create", "winner", "call", "revoked", "failed"},
                       op : Ids \cup {NoOp}] /\ IdleReq.pc = "idle"
      BY DEF IdleReq
    <3>3. QED
      BY <3>1, <3>2
  <2>2. CASE answer = "revoked"
    <3> DEFINE q == [req[r] EXCEPT !.pc = "revoked"]
    <3>1. req' = [req EXCEPT ![r] = q]
      BY <1>5, <2>2 DEF CallAgent
    <3>2. q \in [pc : {"idle", "create", "winner", "call", "revoked", "failed"},
                 op : Ids \cup {NoOp}] /\ q.pc = "revoked" /\ q.op = i
      BY <1>5, <1>6
    <3> HIDE DEF q
    <3>3. QED
      BY <2>2, <3>1, <3>2
  <2>3. CASE answer \in {"refused", "adapterError"}
    <3> DEFINE q == [req[r] EXCEPT !.pc = "failed"]
    <3>1. req' = [req EXCEPT ![r] = q]
      BY <1>5, <2>3 DEF CallAgent
    <3>2. q \in [pc : {"idle", "create", "winner", "call", "revoked", "failed"},
                 op : Ids \cup {NoOp}] /\ q.pc = "failed" /\ q.op = i
      BY <1>5, <1>6
    <3> HIDE DEF q
    <3>3. QED
      BY <3>1, <3>2
  <2>4. QED
    BY <2>1, <2>2, <2>3 DEF Answers
<1>8. ReqFacts(q)'
  BY <1>1, <1>3, <1>6, <1>7 DEF ReqFacts
<1>9. QED
  BY <1>1, <1>3, <1>4, <1>7, <1>8, RequestStep

\* The clock is a number.
LEMMA ClockType == ASSUME RevInv PROVE now \in Nat
<1>1. now \in 0..MaxNow
  BY DEF RevInv, TypeOK
<1>2. QED
  BY <1>1, RevocationAssumption

\* A report is posted again, the clock runs, the offer is viewed, a purge selects.
LEMMA OutsideStep ==
    ASSUME RevInv, Receive \/ Tick \/ ViewOffer \/ SelectExpired PROVE RevInv'
<1>1. UNCHANGED <<ops, cred, shown, early, agent, req, work, read, told>>
  BY DEF Receive, Tick, ViewOffer, SelectExpired
<1>2. (job => agent) /\ agent \in BOOLEAN /\ job \in BOOLEAN
  BY DEF RevInv, TypeOK
<1>3. job' \in BOOLEAN /\ (job' => agent')
  <2>1. CASE Receive
    BY <1>1, <2>1 DEF Receive
  <2>2. CASE Tick \/ ViewOffer \/ SelectExpired
    <3>1. job' = job
      BY <2>2 DEF Tick, ViewOffer, SelectExpired
    <3>2. QED
      BY <1>1, <1>2, <3>1
  <2>3. QED
    BY <2>1, <2>2
<1>4. now' \in 0..MaxNow /\ doomed' \subseteq Ids /\ offerViewed' \in Nat \cup {Never}
  <2>1. /\ now \in 0..MaxNow /\ doomed \subseteq Ids /\ MaxNow \in Nat
        /\ offerViewed \in Nat \cup {Never}
    BY RevocationAssumption DEF RevInv, TypeOK
  <2>2. CASE Receive
    BY <2>1, <2>2 DEF Receive
  <2>3. CASE Tick
    BY <2>1, <2>3 DEF Tick
  <2>4. CASE ViewOffer
    BY <2>1, <2>4, ClockType DEF ViewOffer
  <2>5. CASE SelectExpired
    BY <2>1, <2>5, RowsKnown DEF SelectExpired, Expired, Rows
  <2>6. QED
    BY <2>2, <2>3, <2>4, <2>5
<1>5. TypeOK'
  BY <1>1, <1>3, <1>4 DEF RevInv, TypeOK
<1>6. QED
  BY <1>1, <1>3, <1>5, QuietStep

\* A run looks for the operation in flight.
LEMMA FindStep == ASSUME RevInv, NEW w \in Workers, FindOperation(w) PROVE RevInv'
<1>1. job /\ UNCHANGED <<now, ops, cred, agent, job, req, read, shown, doomed, told, early, offerViewed>>
  BY DEF FindOperation
<1>2. PICK i : i = Newest(InFlight)
  OBVIOUS
<1>3. i = NoOp \/ i \in DOMAIN ops
  BY <1>2, RowsKnown, NewestIsOne DEF Newest
<1>4. i \in Ids \cup {NoOp}
  BY <1>3, RowsKnown
<1> DEFINE k == [pc |-> "apply", op |-> i]
<1>5. work' = [work EXCEPT ![w] = k] /\ k.pc = "apply" /\ k.op = i
      /\ k \in [pc : {"idle", "apply"}, op : Ids \cup {NoOp}]
  BY <1>2, <1>4 DEF FindOperation
<1> HIDE DEF k
<1>6. work \in [Workers -> [pc : {"idle", "apply"}, op : Ids \cup {NoOp}]] /\ (job => agent)
  BY DEF RevInv, TypeOK
<1>7. TypeOK'
  <2>1. work' \in [Workers -> [pc : {"idle", "apply"}, op : Ids \cup {NoOp}]]
    BY <1>5, <1>6
  <2>2. QED
    BY <1>1, <2>1 DEF RevInv, TypeOK
<1>8. \A v \in Workers : work'[v] = IF v = w THEN k ELSE work[v]
  BY <1>5, <1>6
<1>9. WorkFacts(work[w])'
  BY <1>1, <1>3, <1>5, <1>6, <1>8 DEF WorkFacts
<1>10. QED
  BY <1>1, <1>6, <1>7, <1>8, <1>9, QuietStep

\* A reader finds an operation that has ended.
LEMMA ReadStep ==
    ASSUME RevInv, NEW c \in Readers, NEW o \in Ids, ReadOperation(c, o) PROVE RevInv'
<1>1. /\ o \in Rows /\ ops[o].state \in TerminalStates
      /\ UNCHANGED <<now, ops, cred, agent, job, req, work, shown, doomed, told, early, offerViewed>>
  BY DEF ReadOperation, isTerminalOperationState
<1>2. PICK s \in TerminalStates : s = ops[o].state
  BY <1>1
<1> DEFINE k == [op |-> o, state |-> s]
<1>3. read' = [read EXCEPT ![c] = k] /\ k.op = o /\ k.state = s
      /\ k \in [op : Ids \cup {NoOp}, state : TerminalStates \cup {None}]
  BY <1>2 DEF ReadOperation
<1> HIDE DEF k
<1>4. read \in [Readers -> [op : Ids \cup {NoOp}, state : TerminalStates \cup {None}]]
      /\ (job => agent)
  BY DEF RevInv, TypeOK
<1>5. TypeOK'
  <2>1. read' \in [Readers -> [op : Ids \cup {NoOp}, state : TerminalStates \cup {None}]]
    BY <1>3, <1>4
  <2>2. QED
    BY <1>1, <2>1 DEF RevInv, TypeOK
<1>6. \A d \in Readers : read'[d] = IF d = c THEN k ELSE read[d]
  BY <1>3, <1>4
<1>7. o \in DOMAIN ops
  BY <1>1 DEF Rows
<1>8. ReadFacts(read[c])'
  BY <1>1, <1>2, <1>3, <1>6, <1>7 DEF ReadFacts
<1>9. QED
  BY <1>1, <1>4, <1>5, <1>6, <1>8, QuietStep

\* The issue is reported: what was completed before was completed early.
LEMMA IssuedStep == ASSUME RevInv, ReportIssued PROVE RevInv'
<1>1. /\ cred' = "issued" /\ cred # "revoked"
      /\ UNCHANGED <<now, ops, agent, job, req, work, read, shown, doomed, told, early, offerViewed>>
  BY DEF ReportIssued, credentialStatesBelow
<1>2. TypeOK'
  BY <1>1 DEF RevInv, TypeOK, CredentialStates
<1>3. CompletedMeansRevoked'
  BY <1>1 DEF RevInv, CompletedMeansRevoked
<1>4. ExpiryFollowsState' /\ ShownEndStands'
  BY <1>1 DEF RevInv, ExpiryFollowsState, ShownEndStands, Rows, ExpiresAt
<1>5. /\ \A r \in Callers : ReqFacts(req[r])'
      /\ \A w \in Workers : WorkFacts(work[w])'
      /\ \A c \in Readers : ReadFacts(read[c])'
  BY <1>1 DEF RevInv, ReqFacts, WorkFacts, ReadFacts
<1>6. QED
  BY <1>1, <1>2, <1>3, <1>4, <1>5 DEF RevInv

\* A step that writes rows and lets every end stand.
LEMMA WriteStep ==
    ASSUME RevInv, TypeOK', ops' \in Seq(OpRow), cred' \in {"offered", "issued", "revoked"},
           agent => agent', job' => agent', DOMAIN ops \subseteq DOMAIN ops',
           \A o \in DOMAIN ops : ops[o].state \in TerminalStates => ops'[o].state = ops[o].state,
           \A r \in Callers : req'[r] = req[r] \/ ReqFacts(req[r])',
           \A w \in Workers : work'[w] = work[w] \/ WorkFacts(work[w])',
           \A c \in Readers : read'[c] = read[c] \/ ReadFacts(read[c])',
           CompletedMeansRevoked', ExpiryFollowsState', ShownEndStands'
    PROVE  RevInv'
<1>1. \A r \in Callers : ReqFacts(req[r])'
  BY DEF RevInv, ReqFacts
<1>2. \A w \in Workers : WorkFacts(work[w])'
  BY DEF RevInv, WorkFacts
<1>3. \A c \in Readers : ReadFacts(read[c])'
  BY DEF RevInv, ReadFacts
<1>4. QED
  BY <1>1, <1>2, <1>3 DEF RevInv

\* The guarded UPDATE: the row it moves was in flight, so nobody has seen its end.
LEMMA TransitionStep ==
    ASSUME RevInv, NEW o \in DOMAIN ops, NEW s \in TerminalStates,
           CanTransition(o, s), ops' = Transitioned(o, s), UNCHANGED shown
    PROVE  /\ ops' \in Seq(OpRow) /\ Len(ops') = Len(ops) /\ DOMAIN ops' = DOMAIN ops
           /\ \A p \in DOMAIN ops : ops'[p] \in OpRow
           /\ ops'[o].state = s /\ ops[o].state \notin TerminalStates
           /\ \A p \in DOMAIN ops : p # o => ops'[p] = ops[p]
           /\ \A p \in DOMAIN ops :
                 ops[p].state \in TerminalStates => ops'[p].state = ops[p].state
           /\ ExpiryFollowsState' /\ ShownEndStands'
<1>1. /\ ops \in Seq(OpRow) /\ DOMAIN ops = 1..Len(ops) /\ ops[o] \in OpRow
      /\ \A p \in DOMAIN ops : ops[p] \in OpRow
  BY RowsKnown
<1>2. ops[o].state \notin TerminalStates /\ ~ops[o].gone
  BY DEF CanTransition, operationStatesBelow, OPERATION_STATE_RANK, TerminalStates
<1>3. PICK e \in Nat : e = ExpiresAt(s, ops[o].created, ops[o].viewed)
  <2>1. ops[o].created \in Nat /\ ops[o].viewed \in Nat \cup {Never} /\ s \in OperationStates
    BY <1>1 DEF OpRow, OperationStates
  <2>2. QED
    BY <2>1, ExpiryType
<1> DEFINE row == [ops[o] EXCEPT !.state = s, !.expires = e]
<1>4. row \in OpRow /\ row.state = s /\ row.expires = e /\ row.gone = ops[o].gone
      /\ row.created = ops[o].created /\ row.viewed = ops[o].viewed
  BY <1>1 DEF OpRow, OperationStates
<1>5. ops' = [ops EXCEPT ![o] = row]
  BY <1>1, <1>3 DEF Transitioned, OpRow
<1> HIDE DEF row
<1>6. /\ ops' \in Seq(OpRow) /\ Len(ops') = Len(ops) /\ DOMAIN ops' = DOMAIN ops
      /\ \A p \in DOMAIN ops : ops'[p] = IF p = o THEN row ELSE ops[p]
  BY <1>1, <1>4, <1>5
<1>7. /\ ops'[o].state = s
      /\ \A p \in DOMAIN ops : p # o => ops'[p] = ops[p]
      /\ \A p \in DOMAIN ops : ops'[p] \in OpRow
      /\ \A p \in DOMAIN ops :
            ops[p].state \in TerminalStates => ops'[p].state = ops[p].state
  BY <1>1, <1>2, <1>4, <1>6
<1>8. ExpiryFollowsState'
  <2>1. SUFFICES ASSUME NEW p \in DOMAIN ops, ~ops'[p].gone
                 PROVE  ops'[p].expires = ExpiresAt(ops'[p].state, ops'[p].created, ops'[p].viewed)
    BY <1>6 DEF ExpiryFollowsState, Rows, ExpiresAt
  <2>2. CASE p = o
    BY <1>3, <1>4, <1>6, <2>2
  <2>3. CASE p # o
    BY <1>7, <2>1, <2>3 DEF RevInv, ExpiryFollowsState, Rows
  <2>4. QED
    BY <2>2, <2>3
<1>9. ShownEndStands'
  <2>1. ASSUME NEW x \in shown
        PROVE  x[1] \in DOMAIN ops /\ x[1] # o /\ ~ops[x[1]].gone
               /\ ops[x[1]].state = x[2] /\ ops[x[1]].viewed # Never
    <3>1. x[2] \in TerminalStates
      BY DEF RevInv, TypeOK
    <3>2. x[1] \in Rows /\ ops[x[1]].state = x[2] /\ ops[x[1]].viewed # Never
      BY DEF RevInv, ShownEndStands
    <3>3. QED
      BY <1>2, <3>1, <3>2 DEF Rows
  <2>2. QED
    BY <1>6, <1>7, <2>1 DEF ShownEndStands, Rows
<1>10. QED
  BY <1>2, <1>6, <1>7, <1>8, <1>9

\* A request records the agent's answer.
LEMMA SettleStep ==
    ASSUME RevInv, NEW r \in Callers, SettleRevoked(r) \/ SettleFailed(r) PROVE RevInv'
<1>1. /\ UNCHANGED <<now, agent, job, work, read, shown, doomed, early, offerViewed>>
      /\ req' = [req EXCEPT ![r] = IdleReq] /\ req[r].pc \in {"revoked", "failed"}
  BY DEF SettleRevoked, SettleFailed
<1>2. /\ req \in [Callers -> [pc : {"idle", "create", "winner", "call", "revoked", "failed"},
                              op : Ids \cup {NoOp}]]
      /\ ReqFacts(req[r]) /\ told \in [revoked : Nat, failed : Nat]
      /\ (job => agent) /\ cred \in {"offered", "issued", "revoked"}
  BY DEF RevInv, TypeOK
<1>3. /\ IdleReq \in [pc : {"idle", "create", "winner", "call", "revoked", "failed"},
                      op : Ids \cup {NoOp}]
      /\ IdleReq.pc = "idle"
  BY DEF IdleReq
<1>4. /\ req' \in [Callers -> [pc : {"idle", "create", "winner", "call", "revoked", "failed"},
                               op : Ids \cup {NoOp}]]
      /\ \A q \in Callers : req'[q] = IF q = r THEN IdleReq ELSE req[q]
  BY <1>1, <1>2, <1>3
<1>5. \A q \in Callers : req'[q] = req[q] \/ ReqFacts(req[q])'
  BY <1>3, <1>4 DEF ReqFacts
<1>6. PICK o \in DOMAIN ops : o = req[r].op
  BY <1>1, <1>2 DEF ReqFacts
<1>7. CASE UNCHANGED <<ops, cred, told>>
  <2>1. TypeOK'
    BY <1>1, <1>4, <1>7 DEF RevInv, TypeOK
  <2>2. QED
    BY <1>1, <1>2, <1>5, <1>7, <2>1, QuietStep
<1>8. ASSUME NEW s \in TerminalStates, CanTransition(o, s), ops' = Transitioned(o, s),
             told' \in [revoked : Nat, failed : Nat],
             \/ s = "completed" /\ agent /\ cred' = "revoked"
             \/ s # "completed" /\ cred' = cred
      PROVE  RevInv'
  <2>1. /\ ops' \in Seq(OpRow) /\ Len(ops') = Len(ops) /\ DOMAIN ops' = DOMAIN ops
        /\ \A p \in DOMAIN ops : ops'[p] \in OpRow
        /\ ops'[o].state = s
        /\ \A p \in DOMAIN ops : p # o => ops'[p] = ops[p]
        /\ \A p \in DOMAIN ops :
              ops[p].state \in TerminalStates => ops'[p].state = ops[p].state
        /\ ExpiryFollowsState' /\ ShownEndStands'
    BY <1>1, <1>8, TransitionStep
  <2>2. CompletedMeansRevoked'
    BY <1>1, <1>8, <2>1 DEF RevInv, CompletedMeansRevoked
  <2>3. cred' \in {"offered", "issued", "revoked"}
    BY <1>2, <1>8
  <2>4. TypeOK'
    <3>1. Len(ops') <= MaxOps /\ \A p \in DOMAIN ops' : ops'[p] \in OpRow
      BY <2>1 DEF RevInv, TypeOK
    <3>2. cred' \in CredentialStates
      BY <2>3 DEF CredentialStates
    <3>3. QED
      BY <1>1, <1>4, <1>8, <3>1, <3>2 DEF RevInv, TypeOK, OpRow
  <2>5. QED
    BY <1>1, <1>2, <1>5, <2>1, <2>2, <2>3, <2>4, WriteStep
<1>9. CASE SettleRevoked(r)
  <2>1. agent
    BY <1>2, <1>9 DEF SettleRevoked, ReqFacts
  <2>2. CASE ~ UNCHANGED <<ops, cred, told>>
    <3>1. /\ CanTransition(o, "completed") /\ ops' = Transitioned(o, "completed")
          /\ cred' = "revoked" /\ told' = [told EXCEPT !.revoked = @ + 1]
      BY <1>6, <1>9, <2>2 DEF SettleRevoked
    <3>2. told' \in [revoked : Nat, failed : Nat]
      BY <1>2, <3>1
    <3>3. "completed" \in TerminalStates
      BY DEF TerminalStates
    <3>4. QED
      BY <1>8, <2>1, <3>1, <3>2, <3>3
  <2>3. QED
    BY <1>7, <2>2
<1>10. CASE SettleFailed(r)
  <2>1. cred' = cred
    BY <1>10 DEF SettleFailed
  <2>2. CASE ~ UNCHANGED <<ops, cred, told>>
    <3>1. /\ CanTransition(o, "failed") /\ ops' = Transitioned(o, "failed")
          /\ told' = [told EXCEPT !.failed = @ + 1]
      BY <1>6, <1>10, <2>1, <2>2 DEF SettleFailed
    <3>2. told' \in [revoked : Nat, failed : Nat]
      BY <1>2, <3>1
    <3>3. "failed" \in TerminalStates /\ "failed" # "completed"
      BY DEF TerminalStates
    <3>4. QED
      BY <1>8, <2>1, <3>1, <3>2, <3>3
  <2>3. QED
    BY <1>7, <2>2
<1>11. QED
  BY <1>9, <1>10

\* A run applies the report.
LEMMA ApplyStep == ASSUME RevInv, NEW w \in Workers, ApplyReport(w) PROVE RevInv'
<1>1. /\ UNCHANGED <<now, agent, req, read, shown, doomed, offerViewed>> /\ job' = FALSE
      /\ work' = [work EXCEPT ![w] = IdleWork] /\ work[w].pc = "apply"
      /\ early' = (early \/ cred = "offered")
      /\ cred' = IF Revokes(w) THEN "revoked" ELSE cred
  BY DEF ApplyReport
<1>2. /\ work \in [Workers -> [pc : {"idle", "apply"}, op : Ids \cup {NoOp}]]
      /\ WorkFacts(work[w]) /\ told \in [revoked : Nat, failed : Nat]
      /\ cred \in {"offered", "issued", "revoked"} /\ early \in BOOLEAN
  BY DEF RevInv, TypeOK
<1>3. /\ IdleWork \in [pc : {"idle", "apply"}, op : Ids \cup {NoOp}]
      /\ IdleWork.pc = "idle" /\ IdleWork.op = NoOp
  BY DEF IdleWork
<1>4. /\ work' \in [Workers -> [pc : {"idle", "apply"}, op : Ids \cup {NoOp}]]
      /\ \A v \in Workers : work'[v] = IF v = w THEN IdleWork ELSE work[v]
  BY <1>1, <1>2, <1>3
<1>5. \A v \in Workers : work'[v] = work[v] \/ WorkFacts(work[v])'
  BY <1>3, <1>4 DEF WorkFacts
<1>6. agent
  BY <1>1, <1>2 DEF WorkFacts
<1>7. cred' \in {"offered", "issued", "revoked"} /\ cred' \in CredentialStates
      /\ (cred = "revoked" => cred' = "revoked")
  BY <1>1, <1>2 DEF CredentialStates
<1>8. early' \in BOOLEAN /\ (early => early') /\ (cred = "offered" => early')
  BY <1>1, <1>2
<1>9. told' \in [revoked : Nat, failed : Nat]
  BY <1>2 DEF ApplyReport
<1>10. CASE ~Settles(w)
  <2>1. ops' = ops
    BY <1>10 DEF ApplyReport
  <2>2. TypeOK'
    BY <1>1, <1>4, <1>7, <1>8, <1>9, <2>1 DEF RevInv, TypeOK
  <2>3. CompletedMeansRevoked'
    BY <1>1, <1>6, <1>7, <1>8, <2>1 DEF RevInv, CompletedMeansRevoked
  <2>4. ExpiryFollowsState' /\ ShownEndStands'
    BY <1>1, <2>1 DEF RevInv, ExpiryFollowsState, ShownEndStands, Rows, ExpiresAt
  <2>5. ops' \in Seq(OpRow)
    BY <2>1 DEF RevInv
  <2>6. QED
    BY <1>1, <1>5, <1>7, <2>1, <2>2, <2>3, <2>4, <2>5, WriteStep
<1>11. CASE Settles(w)
  <2>1. PICK o \in DOMAIN ops : o = work[w].op
    BY <1>2, <1>11 DEF Settles, WorkFacts
  <2>2. /\ CanTransition(o, "completed") /\ ops' = Transitioned(o, "completed")
        /\ "completed" \in TerminalStates
    BY <1>11, <2>1 DEF ApplyReport, Settles, TerminalStates
  <2>3. /\ ops' \in Seq(OpRow) /\ Len(ops') = Len(ops) /\ DOMAIN ops' = DOMAIN ops
        /\ \A p \in DOMAIN ops : ops'[p] \in OpRow
        /\ \A p \in DOMAIN ops :
              ops[p].state \in TerminalStates => ops'[p].state = ops[p].state
        /\ ExpiryFollowsState' /\ ShownEndStands'
    BY <1>1, <2>2, TransitionStep
  <2>4. cred' = "revoked" \/ early'
    BY <1>1, <1>2, <1>8, <1>11 DEF Revokes, Follows, credentialStatesBelow
  <2>5. CompletedMeansRevoked'
    BY <1>1, <1>6, <2>4 DEF CompletedMeansRevoked
  <2>6. TypeOK'
    <3>1. Len(ops') <= MaxOps /\ \A p \in DOMAIN ops' : ops'[p] \in OpRow
      BY <2>3 DEF RevInv, TypeOK
    <3>2. QED
      BY <1>1, <1>4, <1>7, <1>8, <1>9, <3>1 DEF RevInv, TypeOK, OpRow
  <2>7. QED
    BY <1>1, <1>5, <1>7, <2>3, <2>5, <2>6, WriteStep
<1>12. QED
  BY <1>10, <1>11

\* A call inserts a pending operation, or loses to another in flight.
LEMMA CreateStep == ASSUME RevInv, NEW r \in Callers, CreateOperation(r) PROVE RevInv'
<1>1. /\ UNCHANGED <<now, cred, agent, job, work, read, shown, doomed, told, early, offerViewed>>
      /\ req[r].pc = "create"
  BY DEF CreateOperation
<1>2. /\ req \in [Callers -> [pc : {"idle", "create", "winner", "call", "revoked", "failed"},
                              op : Ids \cup {NoOp}]]
      /\ now \in Nat /\ (job => agent) /\ agent \in BOOLEAN /\ job \in BOOLEAN
      /\ cred \in {"offered", "issued", "revoked"}
  BY ClockType DEF RevInv, TypeOK
<1>3. CASE InFlight # {}
  <2> DEFINE q == [req[r] EXCEPT !.pc = "winner"]
  <2>1. req' = [req EXCEPT ![r] = q] /\ ops' = ops
    BY <1>2, <1>3 DEF CreateOperation
  <2>2. q.pc = "winner"
        /\ q \in [pc : {"idle", "create", "winner", "call", "revoked", "failed"},
                  op : Ids \cup {NoOp}]
    BY <1>2
  <2> HIDE DEF q
  <2>3. PICK k \in [pc : {"idle", "create", "winner", "call", "revoked", "failed"},
                    op : Ids \cup {NoOp}] : k = q
    BY <2>2
  <2>4. ReqFacts(k)'
    BY <2>2, <2>3 DEF ReqFacts
  <2>5. QED
    BY <1>1, <1>2, <2>1, <2>3, <2>4, RequestStep
<1>4. CASE InFlight = {}
  <2>1. PICK e \in Nat : e = ExpiresAt("pending", now, Never)
    <3>1. "pending" \in OperationStates
      BY DEF OperationStates, InFlightStates
    <3>2. QED
      BY <1>2, <3>1, ExpiryType
  <2> DEFINE row == [state |-> "pending", created |-> now, viewed |-> Never,
                     expires |-> e, gone |-> FALSE]
  <2>2. /\ row \in OpRow /\ row.state = "pending" /\ row.expires = e
        /\ row.created = now /\ row.viewed = Never
    BY <1>2 DEF OpRow, OperationStates, InFlightStates
  <2>3. /\ Len(ops) < MaxOps /\ ops' = Append(ops, row)
        /\ req' = [req EXCEPT ![r].pc = "call", ![r].op = Len(ops')]
    BY <1>4, <2>1 DEF CreateOperation
  <2> HIDE DEF row
  <2>4. /\ ops \in Seq(OpRow) /\ DOMAIN ops = 1..Len(ops) /\ Len(ops) \in Nat
        /\ \A p \in DOMAIN ops : ops[p] \in OpRow
    BY RowsKnown
  <2>5. PICK n \in Nat : n = Len(ops)
    BY <2>4
  <2>6. /\ ops' \in Seq(OpRow) /\ Len(ops') = n + 1 /\ DOMAIN ops' = 1..(n + 1)
        /\ ops'[n + 1] = row /\ \A p \in 1..n : ops'[p] = ops[p]
    BY <2>2, <2>3, <2>4, <2>5
  <2>7. /\ DOMAIN ops \subseteq DOMAIN ops' /\ n + 1 \in DOMAIN ops'
        /\ \A p \in DOMAIN ops : ops'[p] = ops[p]
        /\ \A p \in DOMAIN ops' : p = n + 1 \/ p \in DOMAIN ops
        /\ \A p \in DOMAIN ops' : ops'[p] \in OpRow
        /\ Len(ops') <= MaxOps /\ n + 1 \in Ids
    BY <2>2, <2>3, <2>4, <2>5, <2>6, RevocationAssumption DEF Ids
  <2> DEFINE q == [req[r] EXCEPT !.pc = "call", !.op = n + 1]
  <2>8. /\ q \in [pc : {"idle", "create", "winner", "call", "revoked", "failed"},
                   op : Ids \cup {NoOp}]
        /\ q.pc = "call" /\ q.op = n + 1
    BY <1>2, <2>7
  <2>9. req' = [req EXCEPT ![r] = q]
    BY <1>2, <2>3, <2>6
  <2> HIDE DEF q
  <2>10. /\ req' \in [Callers -> [pc : {"idle", "create", "winner", "call", "revoked", "failed"},
                                  op : Ids \cup {NoOp}]]
         /\ \A s \in Callers : req'[s] = IF s = r THEN q ELSE req[s]
    BY <1>2, <2>8, <2>9
  <2>11. \A s \in Callers : req'[s] = req[s] \/ ReqFacts(req[s])'
    BY <2>7, <2>8, <2>10 DEF ReqFacts
  <2>12. TypeOK'
    BY <1>1, <2>7, <2>10 DEF RevInv, TypeOK, OpRow
  <2>13. CompletedMeansRevoked'
    BY <1>1, <2>2, <2>6, <2>7 DEF RevInv, CompletedMeansRevoked
  <2>14. ExpiryFollowsState'
    <3>1. SUFFICES ASSUME NEW p \in DOMAIN ops', ~ops'[p].gone
                   PROVE  ops'[p].expires
                            = ExpiresAt(ops'[p].state, ops'[p].created, ops'[p].viewed)
      BY DEF ExpiryFollowsState, Rows, ExpiresAt
    <3>2. CASE p = n + 1
      BY <2>1, <2>2, <2>6, <3>2
    <3>3. CASE p \in DOMAIN ops
      BY <2>7, <3>1, <3>3 DEF RevInv, ExpiryFollowsState, Rows
    <3>4. QED
      BY <2>7, <3>2, <3>3
  <2>15. ShownEndStands'
    BY <1>1, <2>7 DEF RevInv, ShownEndStands, Rows
  <2>16. QED
    BY <1>1, <1>2, <2>6, <2>7, <2>11, <2>12, <2>13, <2>14, <2>15, WriteStep
<1>5. QED
  BY <1>3, <1>4

\* The first view: the row has the end the reader has read, so the expiry
\* computed from the copy is the one of the row.
LEMMA ViewStep == ASSUME RevInv, NEW c \in Readers, View(c) PROVE RevInv'
<1>1. /\ UNCHANGED <<now, cred, agent, job, req, work, doomed, told, early, offerViewed>>
      /\ read' = [read EXCEPT ![c] = IdleRead] /\ read[c] # IdleRead
  BY DEF View
<1>2. /\ read \in [Readers -> [op : Ids \cup {NoOp}, state : TerminalStates \cup {None}]]
      /\ ReadFacts(read[c]) /\ now \in Nat /\ (job => agent)
      /\ cred \in {"offered", "issued", "revoked"} /\ shown \subseteq Ids \X TerminalStates
  BY ClockType DEF RevInv, TypeOK
<1>3. PICK o \in DOMAIN ops : o = read[c].op
  BY <1>1, <1>2 DEF ReadFacts
<1>4. PICK s \in TerminalStates : s = read[c].state /\ s = ops[o].state
  BY <1>1, <1>2, <1>3 DEF ReadFacts
<1>5. /\ ops \in Seq(OpRow) /\ DOMAIN ops = 1..Len(ops) /\ ops[o] \in OpRow
      /\ (\A p \in DOMAIN ops : ops[p] \in OpRow) /\ o \in Ids
  BY RowsKnown
<1>6. /\ IdleRead \in [op : Ids \cup {NoOp}, state : TerminalStates \cup {None}]
  BY DEF IdleRead
<1>7. /\ read' \in [Readers -> [op : Ids \cup {NoOp}, state : TerminalStates \cup {None}]]
      /\ \A d \in Readers : read'[d] = IF d = c THEN IdleRead ELSE read[d]
  BY <1>1, <1>2, <1>6
<1>8. \A d \in Readers : read'[d] = read[d] \/ ReadFacts(read[d])'
  BY <1>7 DEF ReadFacts
<1>9. shown' \subseteq shown \cup {<<o, s>>} /\ (ops[o].gone => shown' \subseteq shown)
  BY <1>3, <1>4 DEF View
<1>10. shown' \subseteq Ids \X TerminalStates
  BY <1>2, <1>4, <1>5, <1>9
<1>11. \A x \in shown : x[1] \in DOMAIN ops /\ ~ops[x[1]].gone
                       /\ ops[x[1]].state = x[2] /\ ops[x[1]].viewed # Never
  BY DEF RevInv, ShownEndStands, Rows
<1>12. CASE ~ops[o].gone /\ ops[o].viewed = Never
  <2>1. PICK e \in Nat : e = ExpiresAt(s, ops[o].created, now)
    <3>1. s \in OperationStates /\ ops[o].created \in Nat
      BY <1>5 DEF OperationStates, OpRow
    <3>2. QED
      BY <1>2, <3>1, ExpiryType
  <2> DEFINE row == [ops[o] EXCEPT !.viewed = now, !.expires = e]
  <2>2. /\ row \in OpRow /\ row.state = s /\ row.expires = e /\ row.gone = ops[o].gone
        /\ row.created = ops[o].created /\ row.viewed = now
    BY <1>2, <1>4, <1>5 DEF OpRow
  <2>3. ops' = [ops EXCEPT ![o] = row]
    BY <1>3, <1>4, <1>5, <1>12, <2>1 DEF View, OpRow
  <2> HIDE DEF row
  <2>4. /\ ops' \in Seq(OpRow) /\ Len(ops') = Len(ops) /\ DOMAIN ops' = DOMAIN ops
        /\ \A p \in DOMAIN ops : ops'[p] = IF p = o THEN row ELSE ops[p]
    BY <1>5, <2>2, <2>3
  <2>5. /\ \A p \in DOMAIN ops : ops'[p] \in OpRow
        /\ \A p \in DOMAIN ops : ops'[p].state = ops[p].state /\ ops'[p].gone = ops[p].gone
    BY <1>4, <1>5, <2>2, <2>4
  <2>6. TypeOK'
    <3>1. Len(ops') <= MaxOps /\ \A p \in DOMAIN ops' : ops'[p] \in OpRow
      BY <2>4, <2>5 DEF RevInv, TypeOK
    <3>2. QED
      BY <1>1, <1>7, <1>10, <3>1 DEF RevInv, TypeOK, OpRow
  <2>7. CompletedMeansRevoked'
    BY <1>1, <2>4, <2>5 DEF RevInv, CompletedMeansRevoked
  <2>8. ExpiryFollowsState'
    <3>1. SUFFICES ASSUME NEW p \in DOMAIN ops, ~ops'[p].gone
                   PROVE  ops'[p].expires
                            = ExpiresAt(ops'[p].state, ops'[p].created, ops'[p].viewed)
      BY <2>4 DEF ExpiryFollowsState, Rows, ExpiresAt
    <3>2. CASE p = o
      BY <2>1, <2>2, <2>4, <3>2
    <3>3. CASE p # o
      BY <2>4, <3>1, <3>3 DEF RevInv, ExpiryFollowsState, Rows
    <3>4. QED
      BY <3>2, <3>3
  <2>9. ShownEndStands'
    <3>1. row.viewed # Never
      BY <1>2, <2>2 DEF Never
    <3>2. ASSUME NEW x \in shown'
          PROVE  x[1] \in DOMAIN ops /\ ~ops'[x[1]].gone /\ ops'[x[1]].state = x[2]
                 /\ ops'[x[1]].viewed # Never
      <4>1. CASE x \in shown
        BY <1>11, <2>4, <2>5, <3>1, <4>1
      <4>2. CASE x = <<o, s>>
        BY <1>12, <2>2, <2>4, <3>1, <4>2
      <4>3. QED
        BY <1>9, <4>1, <4>2
    <3>3. QED
      BY <2>4, <3>2 DEF ShownEndStands, Rows
  <2>10. QED
    BY <1>1, <1>2, <1>8, <2>4, <2>5, <2>6, <2>7, <2>8, <2>9, WriteStep
<1>13. CASE ops[o].gone \/ ops[o].viewed # Never
  <2>1. ops' = ops
    BY <1>3, <1>13 DEF View
  <2>2. TypeOK'
    BY <1>1, <1>7, <1>10, <2>1 DEF RevInv, TypeOK
  <2>3. CompletedMeansRevoked' /\ ExpiryFollowsState'
    BY <1>1, <2>1 DEF RevInv, CompletedMeansRevoked, ExpiryFollowsState, Rows, ExpiresAt
  <2>4. ShownEndStands'
    <3>1. ASSUME NEW x \in shown'
          PROVE  x[1] \in DOMAIN ops /\ ~ops[x[1]].gone /\ ops[x[1]].state = x[2]
                 /\ ops[x[1]].viewed # Never
      <4>1. CASE x \in shown
        BY <1>11, <4>1
      <4>2. CASE x \notin shown
        BY <1>4, <1>9, <1>13, <4>2
      <4>3. QED
        BY <4>1, <4>2
    <3>2. QED
      BY <2>1, <3>1 DEF ShownEndStands, Rows
  <2>5. ops' \in Seq(OpRow)
    BY <1>5, <2>1
  <2>6. QED
    BY <1>1, <1>2, <1>8, <2>1, <2>2, <2>3, <2>4, <2>5, WriteStep
<1>14. QED
  BY <1>12, <1>13

\* The purge: what it deletes is no longer shown, and no end changes.
LEMMA DeleteStep == ASSUME RevInv, DeleteExpired PROVE RevInv'
<1>1. /\ UNCHANGED <<now, cred, agent, job, req, work, read, told, early, offerViewed>>
      /\ doomed' = {} /\ shown' = {s \in shown : s[1] \notin doomed}
  BY DEF DeleteExpired
<1>2. /\ ops \in Seq(OpRow) /\ DOMAIN ops = 1..Len(ops) /\ Len(ops) \in Nat
      /\ \A p \in DOMAIN ops : ops[p] \in OpRow
  BY RowsKnown
<1>3. DOMAIN ops' = DOMAIN ops
  BY DEF DeleteExpired
<1>4. ASSUME NEW p \in DOMAIN ops
      PROVE  /\ ops'[p] \in OpRow /\ ops'[p].state = ops[p].state
             /\ p \in doomed => ops'[p].gone
             /\ p \notin doomed => ops'[p] = ops[p]
  <2>1. ops'[p] = IF p \in doomed
                  THEN [ops[p] EXCEPT !.gone = TRUE, !.viewed = Never, !.expires = 0]
                  ELSE ops[p]
    BY DEF DeleteExpired
  <2>2. CASE p \in doomed
    <3>1. PICK row \in OpRow : row = ops[p]
      BY <1>2
    <3> DEFINE n == [row EXCEPT !.gone = TRUE, !.viewed = Never, !.expires = 0]
    <3>2. ops'[p] = n
      BY <2>1, <2>2, <3>1
    <3>3. n \in OpRow /\ n.state = row.state
      BY DEF OpRow
    <3>4. n.gone = TRUE
      BY DEF OpRow
    <3> HIDE DEF n
    <3>5. ops'[p].gone
      BY <3>2, <3>4
    <3>6. QED
      BY <2>2, <3>1, <3>2, <3>3, <3>5
  <2>3. CASE p \notin doomed
    BY <1>2, <2>1, <2>3
  <2>4. QED
    BY <2>2, <2>3
<1>5. ops' \in Seq(OpRow) /\ Len(ops') = Len(ops)
  <2>1. ops' \in [1..Len(ops) -> OpRow]
    <3>1. ops' = [p \in DOMAIN ops |-> ops'[p]]
      BY DEF DeleteExpired
    <3>2. QED
      BY <1>2, <1>4, <3>1
  <2>2. QED
    BY <1>2, <2>1
<1>6. TypeOK'
  <2>1. Len(ops') <= MaxOps /\ \A p \in DOMAIN ops' : ops'[p] \in OpRow
    BY <1>3, <1>4, <1>5 DEF RevInv, TypeOK
  <2>2. shown' \subseteq Ids \X TerminalStates /\ doomed' \subseteq Ids
    BY <1>1 DEF RevInv, TypeOK
  <2>3. QED
    BY <1>1, <2>1, <2>2 DEF RevInv, TypeOK, OpRow
<1>7. CompletedMeansRevoked'
  BY <1>1, <1>3, <1>4 DEF RevInv, CompletedMeansRevoked
<1>8. ExpiryFollowsState'
  <2>1. SUFFICES ASSUME NEW p \in DOMAIN ops, ~ops'[p].gone
                 PROVE  ops'[p].expires = ExpiresAt(ops'[p].state, ops'[p].created, ops'[p].viewed)
    BY <1>3 DEF ExpiryFollowsState, Rows, ExpiresAt
  <2>2. ops'[p] = ops[p]
    BY <1>4, <2>1
  <2>3. QED
    BY <2>1, <2>2 DEF RevInv, ExpiryFollowsState, Rows
<1>9. ShownEndStands'
  <2>1. ASSUME NEW x \in shown'
        PROVE  x[1] \in DOMAIN ops /\ ~ops'[x[1]].gone /\ ops'[x[1]].state = x[2]
               /\ ops'[x[1]].viewed # Never
    <3>1. x \in shown /\ x[1] \notin doomed
      BY <1>1
    <3>2. x[1] \in DOMAIN ops /\ ~ops[x[1]].gone /\ ops[x[1]].state = x[2]
          /\ ops[x[1]].viewed # Never
      BY <3>1 DEF RevInv, ShownEndStands, Rows
    <3>3. QED
      BY <1>4, <3>1, <3>2
  <2>2. QED
    BY <1>3, <2>1 DEF ShownEndStands, Rows
<1>10. cred' \in {"offered", "issued", "revoked"} /\ (job' => agent')
  BY <1>1 DEF RevInv
<1>11. QED
  BY <1>1, <1>3, <1>4, <1>5, <1>6, <1>7, <1>8, <1>9, <1>10, WriteStep

\* Every step keeps the invariant.
LEMMA RevNext == RevInv /\ [Next]_vars => RevInv'
<1> SUFFICES ASSUME RevInv, [Next]_vars PROVE RevInv'
  OBVIOUS
<1>1. CASE UNCHANGED vars
  <2>1. TypeOK'
    BY <1>1 DEF vars, RevInv, TypeOK
  <2>2. job' => agent'
    BY <1>1 DEF vars, RevInv
  <2>3. QED
    BY <1>1, <2>1, <2>2, QuietStep DEF vars
<1>2. CASE \E r \in Callers : Revoke(r) \/ TakeWinner(r)
  BY <1>2, RevokeStep
<1>3. CASE \E r \in Callers : CreateOperation(r)
  BY <1>3, CreateStep
<1>4. CASE \E r \in Callers : \E answer \in Answers : CallAgent(r, answer)
  BY <1>4, CallStep
<1>5. CASE \E r \in Callers : SettleRevoked(r) \/ SettleFailed(r)
  BY <1>5, SettleStep
<1>6. CASE Receive \/ Tick \/ ViewOffer \/ SelectExpired
  BY <1>6, OutsideStep
<1>7. CASE ReportIssued
  BY <1>7, IssuedStep
<1>8. CASE \E w \in Workers : FindOperation(w) \/ ApplyReport(w)
  BY <1>8, FindStep, ApplyStep
<1>9. CASE \E c \in Readers : View(c) \/ \E o \in Ids : ReadOperation(c, o)
  BY <1>9, ViewStep, ReadStep
<1>10. CASE DeleteExpired
  BY <1>10, DeleteStep
<1>11. CASE PurgeFails
  BY <1>1, <1>11 DEF PurgeFails
<1>12. QED
  BY <1>1, <1>2, <1>3, <1>4, <1>5, <1>6, <1>7, <1>8, <1>9, <1>10, <1>11 DEF Next

\* The invariant of the revocation of a credential.
LEMMA RevAlways == Spec => []RevInv
<1>1. QED
  BY RevInit, RevNext, PTL DEF Spec

-----------------------------------------------------------------------------
(* Counting the dispatches *)

Ended(state) == {o \in DOMAIN ops : ops[o].state = state}

\* Until the credential is revoked there is one dispatch per completed
\* operation; the report that revokes it alone adds one.
ToldInv ==
    /\ told.failed = Cardinality(Ended("failed"))
    /\ \/ told.revoked = Cardinality(Ended("completed"))
       \/ cred = "revoked" /\ told.revoked = Cardinality(Ended("completed")) + 1
    /\ cred = "revoked" => told.revoked > 0

\* Each count is a number.
LEMMA EndedFinite ==
    ASSUME RevInv, NEW s
    PROVE  IsFiniteSet(Ended(s)) /\ Cardinality(Ended(s)) \in Nat
<1>1. IsFiniteSet(Ids)
  BY FS_Interval, RevocationAssumption DEF Ids
<1>2. Ended(s) \in SUBSET Ids
  BY RowsKnown DEF Ended
<1>3. QED
  BY <1>1, <1>2, FS_Subset, FS_CardinalityType

\* A transition adds its row to the rows with its end, and to no others.
LEMMA EndedGrows ==
    ASSUME RevInv, NEW o \in DOMAIN ops, NEW s \in TerminalStates,
           CanTransition(o, s), ops' = Transitioned(o, s), UNCHANGED shown
    PROVE  /\ Cardinality(Ended(s)') = Cardinality(Ended(s)) + 1
           /\ \A u \in TerminalStates : u # s => Ended(u)' = Ended(u)
<1>1. /\ DOMAIN ops' = DOMAIN ops
      /\ ops'[o].state = s /\ ops[o].state \notin TerminalStates
      /\ \A p \in DOMAIN ops : p # o => ops'[p] = ops[p]
  BY TransitionStep
<1>2. Ended(s)' = Ended(s) \cup {o} /\ o \notin Ended(s)
  BY <1>1 DEF Ended
<1>3. \A u \in TerminalStates : u # s => Ended(u)' = Ended(u)
  BY <1>1 DEF Ended
<1>4. IsFiniteSet(Ended(s))
  BY EndedFinite
<1>5. QED
  BY <1>2, <1>3, <1>4, FS_AddElement

\* A row appended to the others.
LEMMA AppendRow ==
    ASSUME NEW s \in Seq(OpRow), NEW x \in OpRow
    PROVE  /\ DOMAIN Append(s, x) = DOMAIN s \cup {Len(s) + 1}
           /\ Append(s, x)[Len(s) + 1] = x
           /\ \A p \in DOMAIN s : Append(s, x)[p] = s[p]
<1>1. Len(s) \in Nat /\ DOMAIN s = 1..Len(s)
  OBVIOUS
<1>2. /\ DOMAIN Append(s, x) = 1..(Len(s) + 1) /\ Append(s, x)[Len(s) + 1] = x
      /\ \A p \in 1..Len(s) : Append(s, x)[p] = s[p]
  OBVIOUS
<1>3. 1..(Len(s) + 1) = 1..Len(s) \cup {Len(s) + 1}
  BY <1>1
<1>4. QED
  BY <1>1, <1>2, <1>3

\* A row that is created, viewed or deleted ends nothing.
LEMMA EndedKept ==
    ASSUME RevInv,
           \/ ops' = ops
           \/ \E r \in Callers : CreateOperation(r)
           \/ \E c \in Readers : View(c)
           \/ DeleteExpired
    PROVE  \A u \in TerminalStates : Ended(u)' = Ended(u)
<1>1. /\ ops \in Seq(OpRow) /\ DOMAIN ops = 1..Len(ops) /\ Len(ops) \in Nat
      /\ \A p \in DOMAIN ops : ops[p] \in OpRow
  BY RowsKnown
<1>2. CASE DOMAIN ops' = DOMAIN ops /\ \A p \in DOMAIN ops : ops'[p].state = ops[p].state
  BY <1>2 DEF Ended
<1>3. CASE ops' = ops
  BY <1>2, <1>3
<1>4. CASE DeleteExpired
  <2>1. DOMAIN ops' = DOMAIN ops
    BY <1>4 DEF DeleteExpired
  <2>2. ASSUME NEW p \in DOMAIN ops PROVE ops'[p].state = ops[p].state
    BY <1>1, <1>4 DEF DeleteExpired, OpRow
  <2>3. QED
    BY <1>2, <2>1, <2>2
<1>5. ASSUME NEW c \in Readers, View(c), ops' # ops PROVE DOMAIN ops' = DOMAIN ops
        /\ \A p \in DOMAIN ops : ops'[p].state = ops[p].state
  <2>1. PICK o, e : ops' = [ops EXCEPT ![o].viewed = now, ![o].expires = e]
    BY <1>5 DEF View
  <2>2. DOMAIN ops' = DOMAIN ops
    BY <2>1
  <2>3. ASSUME NEW p \in DOMAIN ops PROVE ops'[p].state = ops[p].state
    <3>1. ops[p] \in OpRow
      BY <1>1
    <3>2. QED
      BY <2>1, <3>1 DEF OpRow
  <2>4. QED
    BY <2>2, <2>3
<1>6. ASSUME NEW r \in Callers, CreateOperation(r), ops' # ops
      PROVE  \A u \in TerminalStates : Ended(u)' = Ended(u)
  <2>1. PICK e \in Nat :
           ops' = Append(ops, [state |-> "pending", created |-> now, viewed |-> Never,
                               expires |-> e, gone |-> FALSE])
    <3>1. now \in Nat /\ "pending" \in OperationStates
      BY ClockType DEF OperationStates, InFlightStates
    <3>2. ExpiresAt("pending", now, Never) \in Nat
      BY <3>1, ExpiryType
    <3>3. QED
      BY <1>6, <3>2 DEF CreateOperation
  <2> DEFINE row == [state |-> "pending", created |-> now, viewed |-> Never,
                     expires |-> e, gone |-> FALSE]
  <2>2. row.state = "pending" /\ row \in OpRow /\ ops' = Append(ops, row)
    <3>1. now \in Nat
      BY ClockType
    <3>2. QED
      BY <2>1, <3>1 DEF OpRow, OperationStates, InFlightStates
  <2> HIDE DEF row
  <2>3. PICK i : i = Len(ops) + 1
    OBVIOUS
  <2>4. /\ DOMAIN ops' = DOMAIN ops \cup {i} /\ ops'[i] = row
        /\ \A p \in DOMAIN ops : ops'[p] = ops[p]
    BY <1>1, <2>2, <2>3, AppendRow
  <2>5. ops'[i].state = "pending"
    BY <2>2, <2>4
  <2>6. "pending" \notin TerminalStates
    BY DEF TerminalStates
  <2>7. QED
    BY <2>4, <2>5, <2>6 DEF Ended
<1>7. QED
  BY <1>2, <1>3, <1>4, <1>5, <1>6

\* A step that ends nothing and dispatches nothing.
LEMMA SilentStep ==
    ASSUME RevInv, ToldInv, told' = told, cred' = cred \/ (cred # "revoked" /\ cred' # "revoked"),
           \A u \in TerminalStates : Ended(u)' = Ended(u)
    PROVE  ToldInv'
<1>1. Ended("failed")' = Ended("failed") /\ Ended("completed")' = Ended("completed")
  BY DEF TerminalStates
<1>2. QED
  BY <1>1 DEF ToldInv

\* A request tells of the end it has written.
LEMMA SettleTold ==
    ASSUME RevInv, ToldInv, NEW r \in Callers, SettleRevoked(r) \/ SettleFailed(r)
    PROVE  ToldInv'
<1>1. /\ req[r].pc \in {"revoked", "failed"} /\ shown' = shown
      /\ "completed" \in TerminalStates /\ "failed" \in TerminalStates
  BY DEF SettleRevoked, SettleFailed, TerminalStates
<1>2. PICK o \in DOMAIN ops : o = req[r].op
  BY <1>1 DEF RevInv, ReqFacts
<1>3. told \in [revoked : Nat, failed : Nat]
  BY DEF RevInv, TypeOK
<1>4. CASE UNCHANGED <<ops, cred, told>>
  BY <1>4, EndedKept, SilentStep
<1>5. PICK c \in Nat : c = Cardinality(Ended("completed"))
  BY EndedFinite
<1>6. PICK f \in Nat : f = Cardinality(Ended("failed"))
  BY EndedFinite
<1>7. CASE SettleRevoked(r) /\ ~ UNCHANGED <<ops, cred, told>>
  <2>1. /\ CanTransition(o, "completed") /\ ops' = Transitioned(o, "completed")
        /\ cred' = "revoked" /\ cred # "revoked" /\ told' = [told EXCEPT !.revoked = @ + 1]
    BY <1>2, <1>7 DEF SettleRevoked, credentialStatesBelow
  <2>2. told'.revoked = told.revoked + 1 /\ told'.failed = told.failed
    BY <1>3, <2>1
  <2>3. Cardinality(Ended("completed")') = c + 1 /\ Ended("failed")' = Ended("failed")
    BY <1>1, <1>5, <2>1, EndedGrows
  <2>4. told.revoked = c
    BY <1>5, <2>1 DEF ToldInv
  <2>5. QED
    BY <1>5, <2>1, <2>2, <2>3, <2>4 DEF ToldInv
<1>8. CASE SettleFailed(r) /\ ~ UNCHANGED <<ops, cred, told>>
  <2>1. /\ CanTransition(o, "failed") /\ ops' = Transitioned(o, "failed")
        /\ cred' = cred /\ told' = [told EXCEPT !.failed = @ + 1]
    BY <1>2, <1>8 DEF SettleFailed
  <2>2. told'.failed = told.failed + 1 /\ told'.revoked = told.revoked
    BY <1>3, <2>1
  <2>3. Cardinality(Ended("failed")') = f + 1 /\ Ended("completed")' = Ended("completed")
    BY <1>1, <1>6, <2>1, EndedGrows
  <2>4. QED
    BY <1>6, <2>1, <2>2, <2>3 DEF ToldInv
<1>9. QED
  BY <1>4, <1>7, <1>8

\* A run tells of what it has written, once for both rows.
LEMMA ApplyTold ==
    ASSUME RevInv, ToldInv, NEW w \in Workers, ApplyReport(w) PROVE ToldInv'
<1>1. /\ shown' = shown /\ "completed" \in TerminalStates /\ "failed" \in TerminalStates
      /\ cred' = IF Revokes(w) THEN "revoked" ELSE cred
      /\ told' = IF Dispatches(w) THEN [told EXCEPT !.revoked = @ + 1] ELSE told
  BY DEF ApplyReport, TerminalStates
<1>2. told \in [revoked : Nat, failed : Nat]
  BY DEF RevInv, TypeOK
<1>3. PICK c \in Nat : c = Cardinality(Ended("completed"))
  BY EndedFinite
<1>4. Revokes(w) => cred # "revoked"
  BY DEF Revokes, credentialStatesBelow
<1>5. CASE Settles(w)
  <2>1. PICK o \in DOMAIN ops : o = work[w].op
    BY <1>5 DEF Settles, RevInv, WorkFacts
  <2>2. CanTransition(o, "completed") /\ ops' = Transitioned(o, "completed")
    BY <1>5, <2>1 DEF ApplyReport, Settles
  <2>3. Cardinality(Ended("completed")') = c + 1 /\ Ended("failed")' = Ended("failed")
    BY <1>1, <1>3, <2>2, EndedGrows
  <2>4. told'.revoked = told.revoked + 1 /\ told'.failed = told.failed
    BY <1>1, <1>2, <1>5 DEF Dispatches
  <2>5. told.revoked \in Nat /\ (cred = "revoked" => cred' = "revoked")
    BY <1>1, <1>2
  <2>6. QED
    BY <1>3, <2>3, <2>4, <2>5 DEF ToldInv
<1>6. CASE ~Settles(w) /\ Revokes(w)
  <2>1. \A u \in TerminalStates : Ended(u)' = Ended(u)
    BY <1>6, EndedKept DEF ApplyReport
  <2>2. Ended("completed")' = Ended("completed") /\ Ended("failed")' = Ended("failed")
    BY <1>1, <2>1
  <2>3. told'.revoked = told.revoked + 1 /\ told'.failed = told.failed /\ told.revoked \in Nat
    BY <1>1, <1>2, <1>6 DEF Dispatches
  <2>4. cred # "revoked" /\ cred' = "revoked"
    BY <1>1, <1>4, <1>6
  <2>5. QED
    BY <1>3, <2>2, <2>3, <2>4 DEF ToldInv
<1>7. CASE ~Settles(w) /\ ~Revokes(w)
  <2>1. ops' = ops /\ told' = told /\ cred' = cred
    BY <1>1, <1>7 DEF ApplyReport, Dispatches
  <2>2. QED
    BY <2>1, EndedKept, SilentStep
<1>8. QED
  BY <1>5, <1>6, <1>7

\* Every step keeps the counts.
LEMMA ToldNext == RevInv /\ ToldInv /\ [Next]_vars => ToldInv'
<1> SUFFICES ASSUME RevInv, ToldInv, [Next]_vars PROVE ToldInv'
  OBVIOUS
<1>1. CASE UNCHANGED <<ops, told, cred>>
  BY <1>1, EndedKept, SilentStep
<1>2. CASE UNCHANGED vars
  BY <1>1, <1>2 DEF vars
<1>3. CASE \E r \in Callers : Revoke(r) \/ TakeWinner(r)
                            \/ \E answer \in Answers : CallAgent(r, answer)
  BY <1>1, <1>3 DEF Revoke, TakeWinner, CallAgent
<1>4. CASE \E r \in Callers : CreateOperation(r)
  <2>1. told' = told /\ cred' = cred
    BY <1>4 DEF CreateOperation
  <2>2. QED
    BY <1>4, <2>1, EndedKept, SilentStep
<1>5. CASE \E r \in Callers : SettleRevoked(r) \/ SettleFailed(r)
  BY <1>5, SettleTold
<1>6. CASE Receive \/ Tick \/ ViewOffer \/ SelectExpired
  BY <1>1, <1>6 DEF Receive, Tick, ViewOffer, SelectExpired
<1>7. CASE ReportIssued
  <2>1. told' = told /\ ops' = ops /\ cred # "revoked" /\ cred' # "revoked"
    BY <1>7 DEF ReportIssued, credentialStatesBelow
  <2>2. QED
    BY <2>1, EndedKept, SilentStep
<1>8. CASE \E w \in Workers : FindOperation(w)
  BY <1>1, <1>8 DEF FindOperation
<1>9. CASE \E w \in Workers : ApplyReport(w)
  BY <1>9, ApplyTold
<1>10. CASE \E c \in Readers : View(c)
  <2>1. told' = told /\ cred' = cred
    BY <1>10 DEF View
  <2>2. QED
    BY <1>10, <2>1, EndedKept, SilentStep
<1>11. CASE \E c \in Readers : \E o \in Ids : ReadOperation(c, o)
  BY <1>1, <1>11 DEF ReadOperation
<1>12. CASE DeleteExpired
  <2>1. told' = told /\ cred' = cred
    BY <1>12 DEF DeleteExpired
  <2>2. QED
    BY <1>12, <2>1, EndedKept, SilentStep
<1>13. CASE PurgeFails
  BY <1>2, <1>13 DEF PurgeFails
<1>14. QED
  BY <1>2, <1>3, <1>4, <1>5, <1>6, <1>7, <1>8, <1>9, <1>10, <1>11, <1>12, <1>13 DEF Next

-----------------------------------------------------------------------------
(* Theorems *)

\* Whatever a revoke call, a job run or a reader holds across a pause is still
\* true when it acts on it (CredentialRevokeService.revoke,
\* ProtocolStateChangeService.process, OperationService.applyViewed).
THEOREM HandsStayTrue == Spec => []HandsAgree
<1>1. RevInv => HandsAgree
  BY DEF RevInv, HandsAgree, ReqFacts, WorkFacts, ReadFacts
<1>2. QED
  BY <1>1, RevAlways, PTL

\* A revoke operation that completed means a credential the agent revoked, and
\* revoked here too unless the report overtook the issue
\* (CredentialRevokeService's transaction, applyOperationOutcome).
THEOREM CompletedRevoked == Spec => []CompletedMeansRevoked
<1>1. RevInv => CompletedMeansRevoked
  BY DEF RevInv
<1>2. QED
  BY <1>1, RevAlways, PTL

\* The stored expiry is that of the row's own state and first view, for any
\* durations (computeOperationExpiresAt, transitionStateIfForward,
\* markFirstView).
THEOREM ExpiryAlwaysFollows == Spec => []ExpiryFollowsState
<1>1. RevInv => ExpiryFollowsState
  BY DEF RevInv
<1>2. QED
  BY <1>1, RevAlways, PTL

\* The end of an operation a client was shown stays its end and is recorded as
\* viewed, for as long as the row can be read (prepareForRead, applyViewed,
\* purgeExpiredBatch).
THEOREM ShownStands == Spec => []ShownEndStands
<1>1. RevInv => ShownEndStands
  BY DEF RevInv
<1>2. QED
  BY <1>1, RevAlways, PTL

\* One dispatch for the end of every operation, and none missing for a revoked
\* credential, for any number of calls, reports and retries
\* (the transactions of CredentialRevokeService and of process).
THEOREM EndsAreTold == Spec => []EveryEndTold
<1>1. Init => ToldInv
  <2>1. SUFFICES ASSUME Init PROVE ToldInv
    OBVIOUS
  <2>2. Ended("failed") = {} /\ Ended("completed") = {}
    BY <2>1 DEF Init, Ended
  <2>3. Cardinality({}) = 0
    BY FS_EmptySet
  <2>4. cred # "revoked" /\ told.failed = 0 /\ told.revoked = 0
    BY <2>1 DEF Init
  <2>5. QED
    BY <2>2, <2>3, <2>4 DEF ToldInv
<1>2. RevInv /\ ToldInv => EveryEndTold
  <2>1. SUFFICES ASSUME RevInv, ToldInv PROVE EveryEndTold
    OBVIOUS
  <2>2. PICK c \in Nat : c = Cardinality(Ended("completed"))
    BY <2>1, EndedFinite
  <2>3. told.revoked \in c..(c + 1)
    BY <2>1, <2>2 DEF ToldInv
  <2>4. QED
    BY <2>1, <2>2, <2>3 DEF ToldInv, EveryEndTold, Ended
<1>3. QED
  BY <1>1, <1>2, ToldNext, RevAlways, PTL DEF Spec

=============================================================================
