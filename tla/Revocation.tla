------------------------------ MODULE Revocation ------------------------------
(***************************************************************************)
(* The revocation of one credential: concurrent and repeated revoke calls  *)
(* (CredentialRevokeService), the agent they call, the revocation_registry *)
(* reports the agent sends (ProtocolStateChangeService.process), and the   *)
(* life of the credential.revoke operation rows: clients that read or long *)
(* poll them (OperationService), their expiry and the hourly purge         *)
(* (OperationPurgeService).                                                *)
(*                                                                         *)
(* A transaction is one step: every writer touches the operation row and   *)
(* then the credential row, and each write is guarded again when it is     *)
(* made.  A read made before the transaction is a step of its own.         *)
(***************************************************************************)
EXTENDS OperationTtl, FiniteSets, Sequences

CONSTANTS
    Callers,      \* revoke requests that may run at the same time
    Workers,      \* protocol.state-change job runs
    Readers,      \* clients reading an operation
    TtlConfig,    \* tenant.config.operation_ttl
    TtlDefaults,  \* DEFAULT_OPERATION_TTL_MS
    CreatedTtl,   \* DEFAULT_CREATED_TTL_MS
    MaxOps,       \* bound: operations created
    Watched,      \* bound: the operations that readers read
    MaxCreate,    \* bound: the last time at which an operation is created
    MaxNow        \* bound: the clock

ASSUME RevocationAssumption ==
    /\ MaxOps \in Nat /\ Watched \subseteq Nat
    /\ MaxCreate \in Nat /\ MaxNow \in Nat
    /\ CreatedTtl \in Nat
    /\ TtlConfig \in [TtlKeys -> Int]
    /\ TtlDefaults \in [TtlKeys -> Nat]

VARIABLES
    now,      \* the clock
    ops,      \* the operation rows, in the order of their creation
    cred,     \* the state of the credential row
    agent,    \* has the agent revoked the credential
    job,      \* is there a protocol.state-change job with the report
    req,      \* each revoke request: where it is and its operation
    work,     \* each job run: where it is and the operation it found
    read,     \* each reader: the operation it is reading and the state it has read
    shown,    \* the ends of operations that readers were shown and may read again
    doomed,   \* operations the running purge statement has selected
    told,     \* committed webhook.dispatch jobs, by event
    early,    \* has a report been applied to a credential not yet issued here
    offerViewed   \* when the operation of the offer was first viewed

vars == <<now, ops, cred, agent, job, req, work, read, shown, doomed, told, early,
          offerViewed>>

Ids == 1..MaxOps
NoOp == 0

Answers == {"revoked", "refused", "adapterError", "otherError"}

TypeOK ==
    /\ now \in 0..MaxNow
    /\ Len(ops) <= MaxOps
    /\ \A o \in DOMAIN ops :
          ops[o] \in [state : OperationStates, created : Nat,
                      viewed : Nat \cup {Never}, expires : Nat, gone : BOOLEAN]
    /\ cred \in CredentialStates
    /\ agent \in BOOLEAN /\ job \in BOOLEAN /\ early \in BOOLEAN
    /\ req \in [Callers -> [pc : {"idle", "create", "winner", "call", "revoked", "failed"},
                            op : Ids \cup {NoOp}]]
    /\ work \in [Workers -> [pc : {"idle", "apply"}, op : Ids \cup {NoOp}]]
    /\ read \in [Readers -> [op : Ids \cup {NoOp}, state : TerminalStates \cup {None}]]
    /\ shown \subseteq Ids \X TerminalStates
    /\ doomed \subseteq Ids
    /\ offerViewed \in Nat \cup {Never}
    /\ told \in [revoked : Nat, failed : Nat]

Ttl == resolveOperationTtl(TtlConfig, TtlDefaults)

ExpiresAt(state, created, viewed) ==
    computeOperationExpiresAt(state, created, viewed, Ttl, CreatedTtl)

\* Rows a query finds, and those in flight (the partial unique index
\* uq_operation_inflight_revoke allows one).
Rows == {o \in DOMAIN ops : ~ops[o].gone}
InFlight == {o \in Rows : ops[o].state \in InFlightStates}

\* ORDER BY created_at DESC LIMIT 1.
Newest(S) == IF S = {} THEN NoOp ELSE CHOOSE o \in S : \A p \in S : p <= o

IdleReq == [pc |-> "idle", op |-> NoOp]
IdleWork == [pc |-> "idle", op |-> NoOp]
IdleRead == [op |-> NoOp, state |-> None]

\* The credential has the agent's exchange id and a revocable format; its issue
\* may not have been reported yet.
Init ==
    /\ now = 0 /\ ops = <<>>
    /\ cred \in {"offered", "issued"}
    /\ agent = FALSE /\ job = FALSE /\ early = FALSE
    /\ req = [r \in Callers |-> IdleReq]
    /\ work = [w \in Workers |-> IdleWork]
    /\ read = [c \in Readers |-> IdleRead]
    /\ shown = {} /\ doomed = {}
    /\ told = [revoked |-> 0, failed |-> 0]
    /\ offerViewed = Never

-----------------------------------------------------------------------------
(* transitionStateIfForward: one guarded UPDATE of state and expiry *)

CanTransition(o, state) ==
    ~ops[o].gone /\ ops[o].state \in operationStatesBelow(state)

\* Mutant: the state moves and the expiry stays that of a pending row.
Transitioned_StaleExpiry(o, state) == [ops EXCEPT ![o].state = state]

Transitioned(o, state) ==
    [ops EXCEPT ![o].state = state,
                ![o].expires = ExpiresAt(state, ops[o].created, ops[o].viewed)]

-----------------------------------------------------------------------------
(* POST /credentials/:id/revoke *)

\* The in-flight revoke of this credential, if there is one: a processing one
\* is returned, a pending one is executed again.
Revoke(r) ==
    LET o == Newest(InFlight)
    IN  /\ req[r].pc = "idle"
        /\ req' = [req EXCEPT ![r] =
              IF o = NoOp THEN [IdleReq EXCEPT !.pc = "create"]
              ELSE IF ops[o].state = "processing" THEN IdleReq
              ELSE [IdleReq EXCEPT !.pc = "call", !.op = o]]
        /\ UNCHANGED <<now, ops, cred, agent, job, work, read, shown, doomed, told, early, offerViewed>>

\* createOperation: the INSERT fails where another revoke is in flight.
CreateOperation(r) ==
    /\ req[r].pc = "create"
    /\ IF InFlight = {}
       THEN /\ Len(ops) < MaxOps /\ now <= MaxCreate
            /\ ops' = Append(ops, [state |-> "pending", created |-> now, viewed |-> Never,
                                   expires |-> ExpiresAt("pending", now, Never),
                                   gone |-> FALSE])
            /\ req' = [req EXCEPT ![r].pc = "call", ![r].op = Len(ops')]
       ELSE /\ req' = [req EXCEPT ![r].pc = "winner"]
            /\ UNCHANGED ops
    /\ UNCHANGED <<now, cred, agent, job, work, read, shown, doomed, told, early, offerViewed>>

\* findLatestByExternalIdAndTypeForTenant, whatever its state by now.
TakeWinner(r) ==
    LET o == Newest(Rows)
    IN  /\ req[r].pc = "winner"
        /\ req' = [req EXCEPT ![r] =
              IF o # NoOp /\ ops[o].state = "pending"
              THEN [IdleReq EXCEPT !.pc = "call", !.op = o] ELSE IdleReq]
        /\ UNCHANGED <<now, ops, cred, agent, job, work, read, shown, doomed, told, early, offerViewed>>

\* adapter.revoke: a call that fails may have been carried out all the same.  A
\* refusal and an AdapterError go on to fail the operation; any other error is
\* rethrown and leaves it in flight, as does a pod that dies here.  An agent
\* that has revoked sends a report, before or after its answer.
CallAgent(r, answer) ==
    /\ req[r].pc = "call"
    /\ agent' \in CASE answer = "revoked" -> {TRUE}
                    [] answer = "refused" -> {agent}
                    [] OTHER              -> {agent, TRUE}
    /\ job' = (job \/ (agent' /\ ~agent))
    /\ req' = [req EXCEPT ![r] =
          CASE answer = "revoked"    -> [@ EXCEPT !.pc = "revoked"]
            [] answer = "otherError" -> IdleReq
            [] OTHER                 -> [@ EXCEPT !.pc = "failed"]]
    /\ UNCHANGED <<now, ops, cred, work, read, shown, doomed, told, early, offerViewed>>

\* Mutant: the outcome of the credential write is not looked at.
SettleRevoked_Unchecked(r) ==
    LET o == req[r].op
    IN  /\ req[r].pc = "revoked"
        /\ IF CanTransition(o, "completed")
           THEN /\ ops' = Transitioned(o, "completed")
                /\ cred' = IF cred \in credentialStatesBelow("revoked") THEN "revoked" ELSE cred
                /\ told' = [told EXCEPT !.revoked = @ + 1]
           ELSE UNCHANGED <<ops, cred, told>>
        /\ req' = [req EXCEPT ![r] = IdleReq]
        /\ UNCHANGED <<now, agent, job, work, read, shown, doomed, early, offerViewed>>

\* One transaction: the operation is completed, the credential revoked and the
\* tenant told.  Where the credential cannot be revoked it all rolls back, and
\* the operation stays as it was.
SettleRevoked(r) ==
    LET o == req[r].op
    IN  /\ req[r].pc = "revoked"
        /\ IF CanTransition(o, "completed") /\ cred \in credentialStatesBelow("revoked")
           THEN /\ ops' = Transitioned(o, "completed")
                /\ cred' = "revoked"
                /\ told' = [told EXCEPT !.revoked = @ + 1]
           ELSE UNCHANGED <<ops, cred, told>>
        /\ req' = [req EXCEPT ![r] = IdleReq]
        /\ UNCHANGED <<now, agent, job, work, read, shown, doomed, early, offerViewed>>

\* Mutant: a plain transitionState, which may take back a completion.
SettleFailed_Unguarded(r) ==
    LET o == req[r].op
    IN  /\ req[r].pc = "failed"
        /\ IF ~ops[o].gone
           THEN /\ ops' = Transitioned(o, "failed")
                /\ told' = [told EXCEPT !.failed = @ + 1]
           ELSE UNCHANGED <<ops, told>>
        /\ req' = [req EXCEPT ![r] = IdleReq]
        /\ UNCHANGED <<now, cred, agent, job, work, read, shown, doomed, early, offerViewed>>

\* A refusal and an AdapterError fail the operation, unless it has ended.
SettleFailed(r) ==
    LET o == req[r].op
    IN  /\ req[r].pc = "failed"
        /\ IF CanTransition(o, "failed")
           THEN /\ ops' = Transitioned(o, "failed")
                /\ told' = [told EXCEPT !.failed = @ + 1]
           ELSE UNCHANGED <<ops, told>>
        /\ req' = [req EXCEPT ![r] = IdleReq]
        /\ UNCHANGED <<now, cred, agent, job, work, read, shown, doomed, early, offerViewed>>

-----------------------------------------------------------------------------
(* Reports: issuer_cred_rev webhooks, ingested as protocol.state-change jobs *)

\* The agent posts its report again, as often as it likes.
Receive ==
    /\ agent /\ ~job
    /\ job' = TRUE
    /\ UNCHANGED <<now, ops, cred, agent, req, work, read, shown, doomed, told, early, offerViewed>>

\* Mutant: the newest operation is taken, whether it has ended or not.
FindOperation_AnyState(w) ==
    /\ job
    /\ work' = [work EXCEPT ![w] = [pc |-> "apply", op |-> Newest(Rows)]]
    /\ UNCHANGED <<now, ops, cred, agent, job, req, read, shown, doomed, told, early, offerViewed>>

\* findByExternalIdForTenant, on a connection of its own.  A run that fails is
\* followed by another, which looks for the operation again.
FindOperation(w) ==
    /\ job
    /\ work' = [work EXCEPT ![w] = [pc |-> "apply", op |-> Newest(InFlight)]]
    /\ UNCHANGED <<now, ops, cred, agent, job, req, read, shown, doomed, told, early, offerViewed>>

\* applyOperationOutcome: the operation the run found is completed, unless it
\* has ended since.
Settles(w) == work[w].op # NoOp /\ CanTransition(work[w].op, "completed")

\* Mutant: a report whose operation is gone or was never made is dropped.
Follows_Matched(w) == Settles(w)

\* The credential follows when the operation moved or none was found.
Follows(w) == work[w].op = NoOp \/ Settles(w)

\* applyCredentialOutcome.
Revokes(w) == Follows(w) /\ cred \in credentialStatesBelow("revoked")

\* Mutant: the dispatch goes with the operation alone.
Dispatches_Operation(w) == Settles(w)

\* Every transition is dispatched, that of an operation or of a credential.
Dispatches(w) == Settles(w) \/ Revokes(w)

\* The transaction of process().  An operation purged since it was found is an
\* error, and the run fails.
ApplyReport(w) ==
    LET o == work[w].op
    IN  /\ work[w].pc = "apply"
        /\ o # NoOp => ~ops[o].gone
        /\ ops' = IF Settles(w) THEN Transitioned(o, "completed") ELSE ops
        /\ cred' = IF Revokes(w) THEN "revoked" ELSE cred
        /\ told' = IF Dispatches(w) THEN [told EXCEPT !.revoked = @ + 1] ELSE told
        /\ early' = (early \/ cred = "offered")
        /\ job' = FALSE
        /\ work' = [work EXCEPT ![w] = IdleWork]
        /\ UNCHANGED <<now, agent, req, read, shown, doomed, offerViewed>>

\* The report of the issue arrives, in whatever order.
ReportIssued ==
    /\ cred \in credentialStatesBelow("issued")
    /\ cred' = "issued"
    /\ UNCHANGED <<now, ops, agent, job, req, work, read, shown, doomed, told, early, offerViewed>>

-----------------------------------------------------------------------------
(* GET /operations/:id *)

\* findByIdForTenant.  A row in flight is shown as it is; a long poll reads
\* again until the row has ended or its deadline passes.  A row that has ended
\* goes on to prepareForRead.
ReadOperation(c, o) ==
    /\ read[c] = IdleRead /\ o \in Watched
    /\ o \in Rows /\ isTerminalOperationState(ops[o].state)
    /\ read' = [read EXCEPT ![c] = [op |-> o, state |-> ops[o].state]]
    /\ UNCHANGED <<now, ops, cred, agent, job, req, work, shown, doomed, told, early, offerViewed>>

\* applyViewed: the first view is recorded once, with the expiry of the state
\* that was read.  When the UPDATE matches no row, the row is read again, and
\* is shown as it is or, if it was purged, not at all.
View(c) ==
    LET o == read[c].op
        first == ~ops[o].gone /\ ops[o].viewed = Never
    IN  /\ read[c] # IdleRead
        /\ ops' = IF first
                  THEN [ops EXCEPT ![o].viewed = now,
                                   ![o].expires = ExpiresAt(read[c].state, ops[o].created, now)]
                  ELSE ops
        /\ shown' = CASE first       -> shown \cup {<<o, read[c].state>>}
                      [] ops[o].gone -> shown
                      [] OTHER       -> shown \cup {<<o, ops[o].state>>}
        /\ read' = [read EXCEPT ![c] = IdleRead]
        /\ UNCHANGED <<now, cred, agent, job, req, work, doomed, told, early, offerViewed>>

\* The same for the operation of the offer, made at time 0: it is in flight until
\* the issue is reported and completed from then on, so that the copy that was
\* read is never out of date.
OfferState == IF cred = "offered" THEN "processing" ELSE "completed"

ViewOffer ==
    /\ offerViewed = Never /\ isTerminalOperationState(OfferState)
    /\ now <= MaxCreate
    /\ offerViewed' = now
    /\ UNCHANGED <<now, ops, cred, agent, job, req, work, read, shown, doomed, told, early>>

-----------------------------------------------------------------------------
(* Time and the purge *)

Tick ==
    /\ now < MaxNow
    /\ now' = now + 1
    /\ UNCHANGED <<ops, cred, agent, job, req, work, read, shown, doomed, told, early, offerViewed>>

\* Mutant: only operations that have ended are purged.
Expired_Ended == {o \in Rows : ops[o].expires < now /\ ops[o].state \in TerminalStates}

Expired == {o \in Rows : ops[o].expires < now}

OfferExpired == ExpiresAt(OfferState, 0, offerViewed) < now

\* purgeExpiredBatch deletes expired operations of every type in one statement,
\* and credential.operation_id refers to the operation of the offer ON DELETE
\* RESTRICT: a batch that holds this one fails as a whole, the error is logged
\* and rethrown, and the next run meets it again.
PurgeFails ==
    /\ doomed = {} /\ OfferExpired
    /\ UNCHANGED vars

\* The sub-select of the DELETE.  A batch is larger than the rows there are here.
SelectExpired ==
    /\ doomed = {} /\ ~OfferExpired /\ Expired # {}
    /\ doomed' = Expired
    /\ UNCHANGED <<now, ops, cred, agent, job, req, work, read, shown, told, early, offerViewed>>

\* The DELETE, which looks at the ids only: a row settled or viewed since, in a
\* transaction it had to wait for, goes as well.  Of a row that is gone the
\* model keeps the state.
DeleteExpired ==
    /\ doomed # {}
    /\ ops' = [o \in DOMAIN ops |->
                 IF o \in doomed
                 THEN [ops[o] EXCEPT !.gone = TRUE, !.viewed = Never, !.expires = 0]
                 ELSE ops[o]]
    /\ shown' = {s \in shown : s[1] \notin doomed}
    /\ doomed' = {}
    /\ UNCHANGED <<now, cred, agent, job, req, work, read, told, early, offerViewed>>

-----------------------------------------------------------------------------

Next ==
    \/ \E r \in Callers :
          \/ Revoke(r) \/ CreateOperation(r) \/ TakeWinner(r)
          \/ \E answer \in Answers : CallAgent(r, answer)
          \/ SettleRevoked(r) \/ SettleFailed(r)
    \/ Receive \/ ReportIssued
    \/ \E w \in Workers : FindOperation(w) \/ ApplyReport(w)
    \/ \E c \in Readers : View(c) \/ \E o \in Ids : ReadOperation(c, o)
    \/ ViewOffer \/ Tick \/ SelectExpired \/ DeleteExpired \/ PurgeFails

\* The clock runs, a purge is run every hour, whether the last one failed or not,
\* and pg-boss delivers a job until a run of it succeeds.
Fairness ==
    /\ WF_vars(Tick)
    /\ WF_vars(SelectExpired \/ DeleteExpired)
    /\ \A w \in Workers : WF_vars(FindOperation(w) \/ ApplyReport(w))

Spec == Init /\ [][Next]_vars /\ Fairness

-----------------------------------------------------------------------------
(* Properties *)

\* What a request, a job run or a reader has in hand is still true when it acts
\* on it, however long the pause: an answer "revoked" and a report mean that
\* the agent has revoked, and an end that was read is the end of the row.
HandsAgree ==
    /\ TypeOK
    /\ job => agent
    /\ \A r \in Callers :
          /\ req[r].pc \in {"call", "revoked", "failed"} => req[r].op \in DOMAIN ops
          /\ req[r].pc = "revoked" => agent
    /\ \A w \in Workers :
          /\ work[w].pc = "apply" => agent
          /\ work[w].op # NoOp => work[w].op \in DOMAIN ops
    /\ \A c \in Readers :
          read[c] # IdleRead =>
             /\ read[c].op \in DOMAIN ops
             /\ read[c].state \in TerminalStates
             /\ ops[read[c].op].state = read[c].state

\* A revoke operation is completed, and a credential revoked, only when the
\* agent has revoked it; and a completed operation leaves the credential
\* revoked, whichever of the call and the report won.  The one exception is a
\* report applied before the credential was known here to be issued.
CompletedMeansRevoked ==
    /\ cred = "revoked" => agent
    /\ \A o \in DOMAIN ops :
          ops[o].state = "completed" => agent /\ (cred = "revoked" \/ early)

\* The tenant is told of the end of every operation once, in the transaction
\* that ends it, and no credential is revoked silently: retries, concurrent
\* calls, repeated reports and rolled back runs neither lose a dispatch nor
\* add one.
EveryEndTold ==
    LET Ended(state) == Cardinality({o \in DOMAIN ops : ops[o].state = state})
    IN  /\ told.failed = Ended("failed")
        /\ told.revoked \in Ended("completed") .. (Ended("completed") + 1)
        /\ cred = "revoked" => told.revoked > 0

\* The expiry stored in a row is the one its state and its first view give,
\* although the first view is computed from a copy read before and each
\* transition from another.
ExpiryFollowsState ==
    \A o \in Rows :
        ops[o].expires = ExpiresAt(ops[o].state, ops[o].created, ops[o].viewed)

\* What a client was shown as the end of an operation stays its end: no late
\* answer, report or retry contradicts it, and what is shown has been recorded
\* as viewed, so that its expiry counts from there.  A row that is purged is
\* not shown from a copy.
ShownEndStands ==
    \A s \in shown : s[1] \in Rows /\ ops[s[1]].state = s[2] /\ ops[s[1]].viewed # Never

\* No revoke operation is in flight for ever: a call that died after its
\* INSERT, or whose transaction can never commit, leaves a row that nothing
\* but a retry or the purge ends.  The purge ends it as long as it is not held
\* up by the operation of an offer that has expired.
InFlightEnds ==
    \A o \in Ids : (o \in InFlight) ~> (o \notin InFlight \/ OfferExpired)

\* What the agent has revoked is revoked here in the end, by the call or by the
\* report.  It is not when an operation was failed, since a report that loses
\* the operation to that failure leaves the credential alone, nor when the
\* report came before the issue.
RevocationArrives ==
    agent ~> (cred = "revoked" \/ early \/ \E o \in DOMAIN ops : ops[o].state = "failed")

\* No such loss is final: once the issue is known here, an agent that goes on
\* reporting gets its revocation through, whatever calls failed meanwhile and
\* whichever operations the lost reports had found.
RepeatedReportRevokes ==
    []<>job => ((agent /\ cred = "issued") ~> (cred = "revoked"))

\* "Repeatedly deletes batches of expired operations (expires_at < now()) ...
\* until either the backlog is drained or the per-run batch cap is reached"
\* (purgeExpiredOperations): an operation that has expired is purged in the end,
\* unless its expiry moves.  It is not once an operation that a credential refers
\* to has expired too.
ExpiredArePurged ==
    \A o \in Ids : (o \in Expired) ~> (o \notin Expired)

=============================================================================
