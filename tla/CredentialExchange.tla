------------------------- MODULE CredentialExchange -------------------------
(***************************************************************************)
(* One credential offer of one tenant, from the request that creates it to *)
(* its settlement, with every writer of its rows running concurrently:     *)
(*                                                                         *)
(*   - the offer request           (CredentialOfferService.offer)          *)
(*   - protocol.state-change jobs  (ProtocolStateChangeService.process)    *)
(*   - explicit issuance requests  (CredentialExchangeService.issue)       *)
(*   - reconcile requests          (CredentialExchangeService.reconcile)   *)
(*   - holder accept and reject    (CredentialActionService.perform)       *)
(*   - the agent                   (external, behind the adapter)          *)
(*                                                                         *)
(* A database transaction is one action that takes effect at its commit;   *)
(* what the code reads before the transaction, or before a row lock, is    *)
(* read in an earlier action.  The row lock on the exchange, which process *)
(* holds from its first statement to its commit, is explicit.              *)
(***************************************************************************)
EXTENDS StateMapping, Sequences, FiniteSets

CONSTANTS
    Offerer,        \* the request that makes the offer
    Workers,        \* concurrent protocol.state-change job runs
    Reconcilers,    \* clients that reconcile the exchange
    IssueCalls,     \* explicit issuance requests
    AcceptCalls,    \* holder accept requests
    RejectCalls,    \* holder reject requests
    NoOne,          \* the exchange row is not locked
    EarlyWebhooks   \* may a job run before the offer's external id is stored?

HolderCalls == AcceptCalls \cup RejectCalls
Actors == {Offerer} \cup Workers \cup Reconcilers \cup IssueCalls \cup HolderCalls

\* The five kinds of caller are different requests.
ASSUME ActorsDistinct ==
    /\ EarlyWebhooks \in BOOLEAN
    /\ NoOne \notin Actors
    /\ Offerer \notin Workers \cup Reconcilers \cup IssueCalls \cup HolderCalls
    /\ Workers \cap (Reconcilers \cup IssueCalls \cup HolderCalls) = {}
    /\ Reconcilers \cap (IssueCalls \cup HolderCalls) = {}
    /\ IssueCalls \cap HolderCalls = {}
    /\ AcceptCalls \cap RejectCalls = {}

OperationTypes == {"offer", "issue", "accept", "reject"}
Submissions == {"not-submitted", "submitting", "submitted", "uncertain"}

\* webhook.dispatch jobs by event name.  The resource id is left out: each
\* event of one exchange has one kind of resource.
Events ==
    {"credential-exchange.request-received", "credential.issued",
     "credential.accepted", "credential.rejected", "issue_credential.progress",
     "operation.offer.settled", "operation.issue.failed",
     "credential.offer.failed", "credential.accept.failed",
     "credential.reject.failed"}

VARIABLES
    remote,      \* the agent's record of the exchange, None before the offer
    issued,      \* history: how many times the agent accepted issueCredential
    queue,       \* reported states not yet acknowledged: waiting as
                 \* protocol.state-change jobs, being retried, or dead-lettered
    exchange,    \* the credential_exchange row
    credential,  \* the credential row
    ops,         \* the operation rows, in creation order; the offer is ops[1]
    lock,        \* who holds the row lock on the exchange
    outbox,      \* how many webhook.dispatch jobs each event has had
    told,        \* history: how many of them report each operation's settlement
    proc         \* each actor's local state

agent == <<remote, issued>>
rows == <<exchange, credential, ops, lock>>
jobs == <<outbox, told>>
vars == <<agent, queue, rows, jobs, proc>>

-----------------------------------------------------------------------------
(* Rows *)

\* ext: is the agent's exchange id stored in the row?
Operation == [type : OperationTypes, state : OperationStates, ext : BOOLEAN]

ProcStates ==
    {"idle", "lookup", "apply", "offering", "offered", "record", "failed",
     "claim", "issuing", "answered", "refused", "uncertain", "insert",
     "winner", "calling", "settle", "settle-failed", "done"}

TypeOK ==
    /\ remote \in ProtocolStates \cup {None}
    /\ issued \in Nat
    /\ queue \subseteq ProtocolStates
    /\ exchange \in [state : ExchangeStates, ext : BOOLEAN,
                     sub : Submissions, issueOp : Nat]
    /\ credential \in [state : CredentialStates, ext : BOOLEAN]
    /\ ops \in Seq(Operation)
    /\ lock \in Actors \cup {NoOne}
    /\ outbox \in [Events -> Nat]
    /\ told \in [DOMAIN ops -> Nat]
    /\ proc \in [Actors -> [pc : ProcStates, st : ProtocolStates \cup {None},
                            corr : BOOLEAN, op : Nat, then : ProcStates]]

Idle == [pc |-> "idle", st |-> None, corr |-> FALSE, op |-> 0, then |-> "idle"]

Init ==
    /\ remote = None
    /\ issued = 0
    /\ queue = {}
    /\ exchange = [state |-> "pending", ext |-> FALSE,
                   sub |-> "not-submitted", issueOp |-> 0]
    /\ credential = [state |-> "offered", ext |-> FALSE]
    /\ ops = <<>>
    /\ lock = NoOne
    /\ outbox = [e \in Events |-> 0]
    /\ told = <<>>
    /\ proc = [p \in Actors |-> Idle]

\* Actor p goes on to pc, with protocol state st and operation op in hand.
GoOn(p, pc, st, op) ==
    proc' = [proc EXCEPT ![p] = [@ EXCEPT !.pc = pc, !.st = st, !.op = op]]

Goto(p, pc) == GoOn(p, pc, proc[p].st, proc[p].op)

\* A finished job run or reconcile request is ready for the next one; a
\* finished request of another kind is over.
Finished(p) == IF p \in Workers \cup Reconcilers THEN "idle" ELSE "done"
Finish(p) ==
    proc' = [proc EXCEPT ![p] = [Idle EXCEPT !.pc = Finished(p)]]

\* JobsService.sendInTransaction, once for each event of the transaction;
\* settled are the operations whose settlement one of the jobs reports.
sendInTransaction(events, settled) ==
    /\ outbox' = [e \in Events |-> outbox[e] + (IF e \in events THEN 1 ELSE 0)]
    /\ told' = [i \in DOMAIN told |-> told[i] + (IF i \in settled THEN 1 ELSE 0)]

-----------------------------------------------------------------------------
(* Repositories *)

\* Mutant: the oldest operation in flight instead of the newest.
findByExternalId_Oldest(types) ==
    LET hits == {i \in DOMAIN ops : /\ ops[i].ext
                                    /\ ops[i].type \in types
                                    /\ ops[i].state \in InFlightStates}
    IN  IF hits = {} THEN 0 ELSE CHOOSE i \in hits : \A j \in hits : j >= i

\* OperationRepository.findByExternalIdForTenant, 0 when there is none.
findByExternalId(types) ==
    LET hits == {i \in DOMAIN ops : /\ ops[i].ext
                                    /\ ops[i].type \in types
                                    /\ ops[i].state \in InFlightStates}
    IN  IF hits = {} THEN 0 ELSE CHOOSE i \in hits : \A j \in hits : j <= i

\* OperationRepository.findLatestByExternalIdAndTypeForTenant.
findLatestByExternalIdAndType(types) ==
    LET hits == {i \in DOMAIN ops : ops[i].ext /\ ops[i].type \in types}
    IN  IF hits = {} THEN 0 ELSE CHOOSE i \in hits : \A j \in hits : j <= i

\* CredentialExchangeRepository.advance: the state the row moves to.
advance(from, next) ==
    IF \/ STATE_RANK(next) <= STATE_RANK(from)
       \/ next \in {"failed", "abandoned"} /\ STATE_RANK(from) >= 4
    THEN from
    ELSE next

\* CredentialExchangeRepository.observe on the one exchange.
observe(s) ==
    LET to == advance(exchange.state, s)
    IN  [exchange EXCEPT
            !.ext   = TRUE,
            !.state = to,
            !.sub   = IF /\ to \in {"credential-issued", "credential-received", "done"}
                         /\ exchange.sub # "not-submitted"
                      THEN "submitted" ELSE exchange.sub]

\* Mutant: announces a request whenever it is seen.
requestReceived_Repeats(s) ==
    IF s = "request-received" THEN {"credential-exchange.request-received"} ELSE {}

\* The dispatch that follows an observation which reached request-received.
requestReceived(s) ==
    IF /\ advance(exchange.state, s) # exchange.state
       /\ s = "request-received"
    THEN {"credential-exchange.request-received"} ELSE {}

\* Mutant: an UPDATE without the WHERE state IN (...) guard.
isForward_Unguarded(i, state) == TRUE

\* OperationService.transitionStateIfForward: would the guarded UPDATE match?
isForward(i, state) == ops[i].state \in operationStatesBelow(state)

\* The rows of the set moved to state.
transition(set, state) ==
    [i \in DOMAIN ops |-> IF i \in set THEN [ops[i] EXCEPT !.state = state] ELSE ops[i]]

-----------------------------------------------------------------------------
(* CredentialOfferService.offer and executeOffer *)

\* The transaction that creates the exchange, the offer operation and the
\* credential, after every check that can refuse the request.
CreateOffer ==
    /\ proc[Offerer].pc = "idle"
    /\ ops' = <<[type |-> "offer", state |-> "pending", ext |-> FALSE]>>
    /\ told' = <<0>>
    /\ Goto(Offerer, "offering")
    /\ UNCHANGED <<agent, queue, exchange, credential, lock, outbox>>

\* adapter.offerCredential reaches the agent, which opens its own record.
AgentOffer ==
    /\ proc[Offerer].pc = "offering"
    /\ remote' = "offer-sent"
    /\ queue' = queue \cup {"offer-sent"}
    /\ Goto(Offerer, "offered")
    /\ UNCHANGED <<issued, rows, jobs>>

\* The agent's answer carries the state of its record at that moment.
OfferAnswer ==
    /\ proc[Offerer].pc = "offered"
    /\ GoOn(Offerer, "record", remote, 0)
    /\ UNCHANGED <<agent, queue, rows, jobs>>

\* An AdapterError, whether or not the agent took the offer.
OfferError ==
    /\ proc[Offerer].pc \in {"offering", "offered"}
    /\ Goto(Offerer, "failed")
    /\ UNCHANGED <<agent, queue, rows, jobs>>

\* The transaction after an answer.  When the operation is won but the
\* credential guard is lost the code throws and everything rolls back.
RecordOffer ==
    LET s == proc[Offerer].st
        o == IssueCredentialOutcome(s)
        won == isForward(1, o.op)
        credWon == o.cred # None /\ credential.state \in credentialStatesBelow(o.cred)
        final == won /\ o.op \in TerminalStates
    IN  /\ proc[Offerer].pc = "record"
        /\ lock = NoOne
        /\ Finish(Offerer)
        /\ IF won /\ o.cred # None /\ ~credWon
           THEN UNCHANGED <<exchange, credential, ops, jobs>>
           ELSE /\ exchange' = observe(s)
                /\ ops' = IF won THEN [transition({1}, o.op) EXCEPT ![1].ext = TRUE] ELSE ops
                /\ credential' = IF won
                                 THEN [ext |-> TRUE,
                                       state |-> IF credWon THEN o.cred ELSE credential.state]
                                 ELSE credential
                /\ sendInTransaction(
                      requestReceived(s) \cup (IF final THEN {o.event} ELSE {}),
                      IF final THEN {1} ELSE {})
        /\ UNCHANGED <<agent, queue, lock>>

\* The transaction after an AdapterError, with markFailed on the exchange.
RecordOfferFailure ==
    LET won == isForward(1, "failed")
    IN  /\ proc[Offerer].pc = "failed"
        /\ lock = NoOne
        /\ Finish(Offerer)
        /\ IF won /\ credential.state \notin credentialStatesBelow("failed")
           THEN UNCHANGED <<exchange, credential, ops, jobs>>
           ELSE /\ exchange' = [exchange EXCEPT !.state = advance(@, "failed")]
                /\ ops' = IF won THEN transition({1}, "failed") ELSE ops
                /\ credential' = IF won THEN [credential EXCEPT !.state = "failed"]
                                 ELSE credential
                /\ sendInTransaction(IF won THEN {"credential.offer.failed"} ELSE {},
                                     IF won THEN {1} ELSE {})
        /\ UNCHANGED <<agent, queue, lock>>

-----------------------------------------------------------------------------
(* ProtocolStateChangeService.process.  A run starts in one of three ways; *)
(* from then on it is the same transaction.                                *)

\* Actor p starts a run that applies state s, with or without the exchange,
\* and goes on to next after it.
Run(p, s, corr, next) ==
    proc' = [proc EXCEPT ![p] = [pc |-> "lookup", st |-> s, op |-> 0,
                                 corr |-> corr, then |-> next]]

\* A protocol.state-change job: the run first looks for a credential with
\* the external id, and touches the exchange only when there is one.  The job
\* stays queued until its run is acknowledged, so it can be delivered again.
StartJob(w) ==
    \E s \in queue :
        /\ proc[w].pc = "idle"
        /\ EarlyWebhooks \/ credential.ext
        /\ Run(w, s, credential.ext, "idle")
        /\ UNCHANGED <<agent, queue, rows, jobs>>

\* CredentialExchangeService.synchronize: a run with the exchange given.
synchronize(p, s, next) == Run(p, s, TRUE, next)

\* CredentialExchangeService.reconcile: read the agent's record, apply it.
reconcile(r) ==
    /\ proc[r].pc = "idle"
    /\ exchange.ext
    /\ synchronize(r, remote, "idle")
    /\ UNCHANGED <<agent, queue, rows, jobs>>

\* Lock the exchange row when there is one to observe, then look for the
\* newest operation in flight under the external id.  This lookup does not
\* run on the transaction's connection and takes no lock.
LookUp(p) ==
    /\ proc[p].pc = "lookup"
    /\ proc[p].corr => lock = NoOne
    /\ lock' = IF proc[p].corr THEN p ELSE lock
    /\ GoOn(p, "apply", proc[p].st, findByExternalId(OperationTypes))
    /\ UNCHANGED <<agent, queue, exchange, credential, ops, jobs>>

\* applyOperationOutcome, settleRelatedOfferOperation and
\* applyCredentialOutcome, the dispatch jobs, and the commit.
Apply(p) ==
    LET s == proc[p].st
        o == IssueCredentialOutcome(s)
        found == proc[p].op
        final == o.op \in TerminalStates
        opWon == found # 0 /\ isForward(found, o.op)
        offerWon == /\ opWon /\ final /\ ops[found].type \in {"accept", "issue", "reject"}
                    /\ credential.ext /\ isForward(1, o.op)
        credWon == /\ found = 0 \/ opWon
                   /\ o.cred # None /\ credential.ext
                   /\ credential.state \in credentialStatesBelow(o.cred)
        event == CASE o.event = None -> "issue_credential.progress"
                   [] /\ o.event = "credential.issued"
                      /\ found # 0 /\ ops[found].type = "accept" -> "credential.accepted"
                   [] OTHER -> o.event
    IN  /\ proc[p].pc = "apply"
        /\ exchange' = IF proc[p].corr THEN observe(s) ELSE exchange
        /\ ops' = transition((IF opWon THEN {found} ELSE {}) \cup
                             (IF offerWon THEN {1} ELSE {}), o.op)
        /\ credential' = IF credWon THEN [credential EXCEPT !.state = o.cred] ELSE credential
        /\ sendInTransaction(
              (IF proc[p].corr THEN requestReceived(s) ELSE {}) \cup
              (IF offerWon THEN {"operation.offer.settled"} ELSE {}) \cup
              (IF opWon \/ credWon THEN {event} ELSE {}),
              (IF opWon /\ final THEN {found} ELSE {}) \cup (IF offerWon THEN {1} ELSE {}))
        /\ lock' = IF proc[p].corr THEN NoOne ELSE lock
        /\ IF p \in Workers THEN queue' \in {queue, queue \ {s}} ELSE queue' = queue
        /\ IF proc[p].then = "claim"
           THEN GoOn(p, "claim", s, 0)
           ELSE Finish(p)
        /\ UNCHANGED agent

\* The transaction fails (a lost connection, a pg-boss insert that fails):
\* nothing of it remains.  The job stays unacknowledged; an issuance that had
\* been answered is left uncertain.
Rollback(p) ==
    /\ proc[p].pc = "apply"
    /\ lock' = IF proc[p].corr THEN NoOne ELSE lock
    /\ IF p \in IssueCalls /\ proc[p].then = "done"
       THEN Goto(p, "uncertain")
       ELSE Finish(p)
    /\ UNCHANGED <<agent, queue, exchange, credential, ops, jobs>>

-----------------------------------------------------------------------------
(* CredentialExchangeService.issue *)

\* A request that finds the exchange already submitted returns the retained
\* operation; otherwise it first brings the exchange up to date.
IssueStart(c) ==
    /\ proc[c].pc = "idle"
    /\ exchange.ext
    /\ IF exchange.sub # "not-submitted"
       THEN Finish(c)
       ELSE synchronize(c, remote, "claim")
    /\ UNCHANGED <<agent, queue, rows, jobs>>

\* Mutant: the claim does not look at the submission state.
IssueClaim_Resubmits(c) ==
    /\ proc[c].pc = "claim"
    /\ lock = NoOne
    /\ IF \/ exchange.state # "request-received"
          \/ proc[c].st # "request-received"
       THEN /\ Finish(c)
            /\ UNCHANGED <<exchange, ops, told>>
       ELSE /\ ops' = Append(ops, [type |-> "issue", state |-> "processing", ext |-> TRUE])
            /\ told' = Append(told, 0)
            /\ exchange' = [exchange EXCEPT !.sub = "submitting",
                                            !.issueOp = Len(ops) + 1]
            /\ GoOn(c, "issuing", proc[c].st, Len(ops) + 1)
    /\ UNCHANGED <<agent, queue, credential, lock, outbox>>

\* The claim, under the row lock: st still is the state the agent reported
\* before the lock was taken.
IssueClaim(c) ==
    /\ proc[c].pc = "claim"
    /\ lock = NoOne
    /\ IF \/ exchange.sub # "not-submitted"
          \/ exchange.state # "request-received"
          \/ proc[c].st # "request-received"
       THEN /\ Finish(c)
            /\ UNCHANGED <<exchange, ops, told>>
       ELSE /\ ops' = Append(ops, [type |-> "issue", state |-> "processing", ext |-> TRUE])
            /\ told' = Append(told, 0)
            /\ exchange' = [exchange EXCEPT !.sub = "submitting",
                                            !.issueOp = Len(ops) + 1]
            /\ GoOn(c, "issuing", proc[c].st, Len(ops) + 1)
    /\ UNCHANGED <<agent, queue, credential, lock, outbox>>

\* adapter.issueCredential is accepted; the answer may be lost or unusable.
AgentIssue(c) ==
    /\ proc[c].pc = "issuing"
    /\ issued' = issued + 1
    /\ remote' = IF remote = "request-received" THEN "credential-issued" ELSE remote
    /\ queue' = queue \cup {remote'}
    /\ \/ GoOn(c, "answered", remote', proc[c].op)
       \/ Goto(c, "uncertain")
    /\ UNCHANGED <<rows, jobs>>

\* SubmissionRejectedError: the agent certainly did not issue.
IssueRefused(c) ==
    /\ proc[c].pc = "issuing"
    /\ Goto(c, "refused")
    /\ UNCHANGED <<agent, queue, rows, jobs>>

\* Any other error of a call the agent did not take.
IssueUnanswered(c) ==
    /\ proc[c].pc = "issuing"
    /\ Goto(c, "uncertain")
    /\ UNCHANGED <<agent, queue, rows, jobs>>

\* setSubmission writes only over 'submitting', waiting for the row lock.
setSubmission(sub) ==
    /\ lock = NoOne
    /\ exchange' = IF exchange.sub = "submitting"
                   THEN [exchange EXCEPT !.sub = sub] ELSE exchange

\* After an answer: either its correlation is wrong, or the submission is
\* stored and the answered state applied.
IssueAnswered(c) ==
    /\ proc[c].pc = "answered"
    /\ \/ /\ Goto(c, "uncertain")
          /\ UNCHANGED exchange
       \/ /\ setSubmission("submitted")
          /\ synchronize(c, proc[c].st, "done")
    /\ UNCHANGED <<agent, queue, credential, ops, lock, jobs>>

\* The issuance is left for reconciliation and will not be sent again.
IssueUncertain(c) ==
    /\ proc[c].pc = "uncertain"
    /\ setSubmission("uncertain")
    /\ Finish(c)
    /\ UNCHANGED <<agent, queue, credential, ops, lock, jobs>>

\* Mutant: the refusal is written without re-reading the locked rows.
IssueReopen_Unchecked(c) ==
    /\ proc[c].pc = "refused"
    /\ lock = NoOne
    /\ Finish(c)
    /\ ops' = transition({proc[c].op}, "failed")
    /\ exchange' = [exchange EXCEPT !.sub = "not-submitted"]
    /\ sendInTransaction({"operation.issue.failed"}, {proc[c].op})
    /\ UNCHANGED <<agent, queue, credential, lock>>

\* The transaction after a refusal: only the claim's own operation, and only
\* while it is still the one submitting, is failed and the exchange reopened.
IssueReopen(c) ==
    LET mine == proc[c].op
        won == /\ exchange.sub = "submitting"
               /\ exchange.issueOp = mine
               /\ ops[mine].state = "processing"
    IN  /\ proc[c].pc = "refused"
        /\ lock = NoOne
        /\ Finish(c)
        /\ ops' = IF won THEN transition({mine}, "failed") ELSE ops
        /\ exchange' = IF won THEN [exchange EXCEPT !.sub = "not-submitted"] ELSE exchange
        /\ sendInTransaction(IF won THEN {"operation.issue.failed"} ELSE {},
                             IF won THEN {mine} ELSE {})
        /\ UNCHANGED <<agent, queue, credential, lock>>

-----------------------------------------------------------------------------
(* CredentialActionService.perform and executeAction *)

ActionType(c) == IF c \in AcceptCalls THEN "accept" ELSE "reject"

\* The offer must be known to the agent.  An action of this type in flight is
\* returned when processing, and executed again when still pending.
PerformStart(c) ==
    LET found == findByExternalId({ActionType(c)})
    IN  /\ proc[c].pc = "idle"
        /\ ops # <<>> /\ ops[1].ext
        /\ IF found # 0 /\ ops[found].state = "processing"
           THEN Finish(c)
           ELSE GoOn(c, IF found = 0 THEN "insert" ELSE "calling", None, found)
        /\ UNCHANGED <<agent, queue, rows, jobs>>

\* The insert, decided by the unique index uq_operation_inflight_holder_action.
PerformInsert(c) ==
    /\ proc[c].pc = "insert"
    /\ IF findByExternalId({"accept", "reject"}) = 0
       THEN /\ ops' = Append(ops, [type |-> ActionType(c), state |-> "pending", ext |-> TRUE])
            /\ told' = Append(told, 0)
            /\ GoOn(c, "calling", None, Len(ops) + 1)
       ELSE /\ Goto(c, "winner")
            /\ UNCHANGED <<ops, told>>
    /\ UNCHANGED <<agent, queue, exchange, credential, lock, outbox>>

\* The loser of the insert looks up the winner: a conflict when it is the
\* other action, executed again when pending, returned otherwise.
PerformWinner(c) ==
    LET winner == findLatestByExternalIdAndType({"accept", "reject"})
    IN  /\ proc[c].pc = "winner"
        /\ IF winner # 0 /\ ops[winner].type = ActionType(c) /\ ops[winner].state = "pending"
           THEN GoOn(c, "calling", None, winner)
           ELSE Finish(c)
        /\ UNCHANGED <<agent, queue, rows, jobs>>

\* adapter.acceptOffer or rejectOffer takes effect and is answered: accept
\* may end at once or go on, reject abandons the agent's record.  This is the
\* contract of HolderPort; with the Traction adapter, which implements neither
\* yet, every call is an ActionError.
AgentAction(c) ==
    /\ proc[c].pc = "calling"
    /\ remote \in (IF c \in AcceptCalls THEN {"offer-sent"}
                   ELSE {"offer-sent", "request-received"})
    /\ remote' \in (IF c \in AcceptCalls THEN {"request-received", "done"} ELSE {"abandoned"})
    /\ queue' = queue \cup {remote'}
    /\ \/ GoOn(c, "settle", remote', proc[c].op)
       \/ Goto(c, "settle-failed")
    /\ UNCHANGED <<issued, rows, jobs>>

\* An AdapterError of a call without effect.
ActionError(c) ==
    /\ proc[c].pc = "calling"
    /\ Goto(c, "settle-failed")
    /\ UNCHANGED <<agent, queue, rows, jobs>>

\* completeAccept and completeReject: what the agent's answer means.
ActionOutcome(c) ==
    IF c \in RejectCalls \/ proc[c].st = "done" THEN "completed" ELSE "processing"

\* The guarded transaction after an answer.
SettleAction(c) ==
    LET mine == proc[c].op
        state == ActionOutcome(c)
        won == isForward(mine, state)
        final == won /\ state = "completed"
    IN  /\ proc[c].pc = "settle"
        /\ ops' = IF won THEN transition({mine}, state) ELSE ops
        /\ sendInTransaction(
              IF final THEN {IF c \in AcceptCalls THEN "credential.accepted"
                             ELSE "credential.rejected"} ELSE {},
              IF final THEN {mine} ELSE {})
        /\ Finish(c)
        /\ UNCHANGED <<agent, queue, exchange, credential, lock>>

\* The guarded transaction after an AdapterError.
SettleActionFailure(c) ==
    LET mine == proc[c].op
        won == isForward(mine, "failed")
    IN  /\ proc[c].pc = "settle-failed"
        /\ ops' = IF won THEN transition({mine}, "failed") ELSE ops
        /\ sendInTransaction(
              IF won THEN {IF c \in AcceptCalls THEN "credential.accept.failed"
                           ELSE "credential.reject.failed"} ELSE {},
              IF won THEN {mine} ELSE {})
        /\ Finish(c)
        /\ UNCHANGED <<agent, queue, exchange, credential, lock>>

-----------------------------------------------------------------------------
(* The environment *)

\* The agent's record moves on its own: the holder requests, the agent issues
\* on its own (auto_issue) and confirms, or one side gives up.
AgentMoves(from, to) ==
    /\ remote = from
    /\ remote' = to
    /\ queue' = queue \cup {to}
    /\ UNCHANGED <<issued, rows, jobs, proc>>

AgentSteps ==
    {<<"offer-sent", "request-received">>, <<"request-received", "credential-issued">>,
     <<"credential-issued", "done">>, <<"offer-sent", "abandoned">>,
     <<"request-received", "abandoned">>, <<"credential-issued", "abandoned">>}

\* A request dies where it stands: the process is killed, or an error that is
\* not an AdapterError is rethrown.  Its transaction, if open, rolls back.
Crash(p) ==
    /\ p \notin Workers \cup Reconcilers
    /\ proc[p].pc \notin {"idle", "done"}
    /\ lock' = IF lock = p THEN NoOne ELSE lock
    /\ Finish(p)
    /\ UNCHANGED <<agent, queue, exchange, credential, ops, jobs>>

-----------------------------------------------------------------------------
Process(p) == LookUp(p) \/ Apply(p) \/ Rollback(p)

Offer ==
    \/ CreateOffer \/ AgentOffer \/ OfferAnswer \/ OfferError
    \/ RecordOffer \/ RecordOfferFailure

Issue(c) ==
    \/ IssueStart(c) \/ IssueClaim(c) \/ AgentIssue(c) \/ IssueRefused(c)
    \/ IssueUnanswered(c) \/ IssueAnswered(c) \/ IssueUncertain(c) \/ IssueReopen(c)

Perform(c) ==
    \/ PerformStart(c) \/ PerformInsert(c) \/ PerformWinner(c) \/ AgentAction(c)
    \/ ActionError(c) \/ SettleAction(c) \/ SettleActionFailure(c)

Next ==
    \/ Offer
    \/ \E w \in Workers : StartJob(w)
    \/ \E r \in Reconcilers : reconcile(r)
    \/ \E p \in Workers \cup Reconcilers \cup IssueCalls : Process(p)
    \/ \E c \in IssueCalls : Issue(c)
    \/ \E c \in HolderCalls : Perform(c)
    \/ \E m \in AgentSteps : AgentMoves(m[1], m[2])
    \/ \E p \in Actors : Crash(p)

Spec == Init /\ [][Next]_vars

-----------------------------------------------------------------------------
(* Properties *)

\* No writer ever moves an operation backwards or out of a terminal state: the
\* guarded UPDATE of transitionStateIfForward holds against every interleaving
\* of job runs, requests and answers.  (Only the purge removes rows, and it is
\* part of Revocation.)
OperationsMoveForward ==
    [][/\ DOMAIN ops \subseteq DOMAIN ops'
       /\ \A i \in DOMAIN ops :
             ops'[i].state # ops[i].state =>
                ops[i].state \in operationStatesBelow(ops'[i].state)]_vars

\* Every settlement is dispatched to the tenant exactly once, whichever of the
\* racing writers settled the operation: the state write and the
\* webhook.dispatch job are one transaction, and a losing writer sends nothing.
SettlementToldOnce ==
    \A i \in DOMAIN ops :
        told[i] = (IF ops[i].state \in TerminalStates THEN 1 ELSE 0)

\* However many issuance requests race, crash or are refused, the agent is
\* made to issue at most once: a submission whose outcome is not known to be
\* a refusal is never sent again.
IssuedAtMostOnce == issued <= 1

\* The credential row and the offer operation a client polls end together and
\* the same way.
CredentialAgreesWithOffer ==
    ops # <<>> =>
        /\ credential.state = "issued" <=> ops[1].state = "completed"
        /\ credential.state = "failed" <=> ops[1].state = "failed"

\* When the agent has finished, every report of it has been processed and no
\* request is under way, nothing the agent knows of is still in flight: the
\* operation a client polls does not stay processing for ever.
SettledWhenDrained ==
    (/\ remote \in {"done", "abandoned"}
     /\ queue = {}
     /\ \A p \in Actors : proc[p].pc \in {"idle", "done"})
    => \A i \in DOMAIN ops : ops[i].ext => ops[i].state \in TerminalStates

\* The same of the offer operation alone, the one a client holds from the 202
\* response: it does not stay in flight once the exchange has concluded, also
\* when a holder's action took the report that would have settled it.
OfferSettledWhenDrained ==
    (/\ remote \in {"done", "abandoned"}
     /\ queue = {}
     /\ \A p \in Actors : proc[p].pc \in {"idle", "done"}
     /\ ops # <<>> /\ ops[1].ext)
    => ops[1].state \in TerminalStates

\* A tenant is never told both that the credential was issued and that it was
\* rejected, even when the agent's reports are late, repeated or reordered.
OutcomeNotContradicted ==
    outbox["credential.issued"] = 0 \/ outbox["credential.rejected"] = 0

\* The holder's request, on which explicit issuance waits, is announced at
\* most once although it is seen by job runs, reconciles and issue requests.
RequestAnnouncedOnce == outbox["credential-exchange.request-received"] <= 1

=============================================================================
