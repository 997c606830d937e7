# Digital Trust Common Service: a TLA+ model

The service (`apps/digital-trust-common-service`) offers tenants an HTTP API over
external credential agents.  A request creates durable rows in PostgreSQL, calls
the agent through an adapter, and is completed later by what the agent reports
in webhooks.  Nothing runs in one transaction from end to end: several pods run
requests and pg-boss job workers concurrently, jobs are delivered at least once
and in any order, and agent calls can be lost.  The modules here model these
workflows, TLC checks them on small instances, and TLAPS proves the main safety
properties for any number of actors.

All paths below are relative to `src/apps/digital-trust-common-service/src/`.

## Parts of the system

| Part | State | Operations | What is hard about it |
|---|---|---|---|
| Credential offer (`credential/credential-offer.service.ts`) | operation, credential and exchange rows | create, call the agent, record the answer or the error | the agent may report before the answer is stored; answer lost; one of two guards lost |
| Credential exchange (`credential-exchange/`) | exchange row: state, external id, submission marker, issue operation | reconcile, explicit issue, observe | an issuance may not be sent twice; refusal, timeout and crash mean different things |
| Holder accept / reject (`credential/credential-action.service.ts`) | action operation rows | perform, recover a pending action | insert race under a partial unique index; the report races the answer |
| Protocol state changes (`protocol-state-change/`) | none of its own; writes operation, credential, connection, exchange | process a reported state, mirror it, settle a batch | duplicated, late and reordered reports against all of the above |
| Batches (`settleBatchParent`, `operation.repository.ts`) | parent and child operations | lock, recount, claim | recounts under READ COMMITTED miss each other |
| Operations (`operation/`) | operation rows: state, result, expiry, first view | create, guarded transition, read, list, long-poll, purge | expiry recomputed from stale reads; purge against late reports; one row that cannot be deleted fails the purge |
| Job queue (`jobs/`, `src/libs/pg-boss`) | pg-boss tables | send, send in a transaction, run | at-least-once delivery, singleton keys, queues without retries |
| Revocation (`credential/credential-revoke.service.ts`) | revoke operation, credential | revoke, recover a pending revocation | insert race; the call, its report and the purge race on one row |
| Connections (`connection/`) | connection row, create operation | invite, accept, reconcile, apply a reported state, delete, abandon | unguarded saves next to guarded ones; reusable invitations |
| Definition registration (`credential-definition/`) | definition, publication intents, operation | draft, create or continue, advance, publish, wait, fail, deactivate | publish at most once across crashes and definitions; bounded polling |
| Tenants and OAuth clients (`tenant/`, `oauth-client/`) | tenant status, clients | change the status, cascade by job, revoke, restore, edit | unlocked reads, reordered jobs |
| Tenant users (`tenant-user/`) | membership rows | invite, claim at sign-in, update, delete, operator flag | the last owner; claims and flags outside the lock |
| Presentation requests, profiles, roles and scopes, rate limits, token cache, audit, OIDC, administration, UI | | | not modelled, see the end |

They meet in a few places: every workflow owns an *operation* row that a client
polls; the agent's exchange id (the *external id*) correlates reports with
rows; every guarded write is an `UPDATE ... WHERE state IN (...)`; every
notification is a `webhook.dispatch` job inserted in the transaction of the
write it reports.

## Modules

| Module | Models |
|---|---|
| `StateMapping` | state enums, rank tables, guard windows, and the meaning of a reported state (`state-mapping.ts`, `STATE_RANK` of `credential-exchange.repository.ts`) |
| `CredentialExchange` | one offer with all of its writers: offer request, job runs, reconciles, explicit issuances, accepts, rejects, and the agent |
| `CredentialExchangeTypes` | lemmas about the lookups, the guarded writes and one actor's moves; every action keeps the types |
| `CredentialExchangeSafety` | what holds of every exchange: settlements, one issuance, one announcement |
| `CredentialExchangeOutcomes` | how an exchange ends: credential and offer, what is left in flight, what the tenant is told |
| `BatchPromise` | what a batch operation promises to a client, one atomic step per child |
| `BatchSettlement` | how it is done, statement by statement with row locks, and the refinement of `BatchPromise` |
| `BatchSettlementProofs` | its invariants, theorems and the refinement |
| `OperationTtl` | how long an operation is kept: durations, overrides, expiry by state and first view |
| `Revocation` | the revocation of one credential, with the readers, the expiry and the purge of its operations |
| `RevocationProofs` | its invariants and theorems |
| `PublicationPromise` | what the registration promises of an artifact on the ledger |
| `Registration` | definitions that register, their jobs and runs, the intents, and the refinement of `PublicationPromise` |
| `RegistrationProofs` | its invariant, theorems and the refinement |
| `Connections`, `ConnectionsProofs` | connections of three kinds and the reports on them; invariant and theorems |
| `TenantLifecycle` | the status of a tenant, its jobs and its OAuth clients |
| `TenantUsers`, `TenantUsersProofs` | the members of a tenant; invariant and theorems |
| `MC...` | instances for TLC: model values, symmetry sets, state constraints |

### CredentialExchange

The rows are `exchange`, `credential` and the sequence `ops` of operations in
creation order, `ops[1]` being the offer.  A row's `ext` says whether the
external id is stored in it; there is one exchange, so there is one id.  `lock`
is the row lock on the exchange.  `outbox` counts `webhook.dispatch` jobs per
event; `told` and `issued` are history variables: the dispatches that reported
each operation's settlement, and the issuances the agent carried out.  `queue`
holds the reports that are not acknowledged; a job run may leave its report
there, which is redelivery.  Each actor has a record in `proc`: where it is
(`pc`), the protocol state (`st`) and operation (`op`) it has in hand, whether it
correlates an exchange (`corr`), and where it goes after a state-change run (`then`).

A transaction is one action, at its commit, except `ProtocolStateChangeService.
process`: its operation lookup runs outside the transaction's connection, so
`LookUp` (lock the exchange, look the operation up) and `Apply` (everything
written, and the commit) are two actions, and other writers come between them.
What a request reads before a transaction, and each agent call, is an action of
its own.  Two reads are merged with the step after them: `IssueStart` reads the
submission marker together with the agent's record (the claim checks the marker
again under the lock), and `reconcile` reads the external id together with the
record (a stored id never changes).

| Code | Actions |
|---|---|
| `CredentialOfferService.offer`, `executeOffer` | `CreateOffer`, `AgentOffer`, `OfferAnswer`, `OfferError`, `RecordOffer`, `RecordOfferFailure` |
| `ProtocolStateChangeService.process` | `StartJob` / `synchronize`, `LookUp`, `Apply`, `Rollback` |
| `CredentialExchangeService.reconcile` | `reconcile`, then the run above |
| `CredentialExchangeService.issue` | `IssueStart`, `IssueClaim`, `AgentIssue`, `IssueRefused`, `IssueUnanswered`, `IssueAnswered`, `IssueUncertain`, `IssueReopen` |
| `CredentialActionService.perform`, `executeAction` | `PerformStart`, `PerformInsert`, `PerformWinner`, `AgentAction`, `ActionError`, `SettleAction`, `SettleActionFailure` |
| external agent | `AgentMoves` and the agent's part of the calls |
| process killed, unexpected error | `Crash` |

The agent is external: it moves its record along the issue-credential protocol,
on its own or when called, and reports every state it reaches.  A call may take
effect and its answer be lost.  The calls of a holder follow the contract of
`HolderPort`, for which `CredentialActionService` is written: the only adapter
there is, Traction's, rejects `acceptOffer` and `rejectOffer` as not implemented,
so with it `AgentAction` is always followed by `ActionError`, and what the runs show
of the races with a successful accept or reject is latent.  Left out: payloads, results, audit records,
in-process events, the validations that refuse a request before it writes, and
the topics other than `issue_credential`.

`EarlyWebhooks` says whether a report may be processed before the offer's answer
has been stored.  The code does not prevent it and a comment accepts it as a
known window; the runs that pass set it to FALSE and so check what holds outside
that window, and `early_webhook` sets it to TRUE.  The theorems of
`CredentialExchangeTypes` and `CredentialExchangeSafety` hold for both; those of
`CredentialExchangeOutcomes` assume FALSE.

### BatchSettlement

Children start pending and the parent processing; no code creates batches yet,
so this is where the model begins.  A run takes a report for a child, performs
the guarded update (row lock on the child until the end of the transaction), locks the
parent, recounts what it can see (committed rows and its own write), decides,
and commits or rolls back.  `Actions` are the children whose exchange also has an
accept, reject or issue operation: for them the report can end the child
through `settleRelatedOfferOperation`, which does not recount.

### Revocation and OperationTtl

`ops` is the sequence of credential.revoke operations in creation order, with
state, creation, first view, expiry and whether the purge has taken the row.
`agent` says whether the agent has revoked, `job` whether a report is queued.
Requests, job runs and readers carry what they read over a pause in `req`,
`work` and `read`.  `shown`, `told` and `early` are history variables.
`offerViewed` is the first view of one more operation, that of the offer, which the
credential row refers to.

| Code | Actions |
|---|---|
| `CredentialRevokeService.revoke` | `Revoke`, `CreateOperation`, `TakeWinner` |
| `executeRevoke` | `CallAgent`, `SettleRevoked`, `SettleFailed` |
| `TractionWebhookController.receive` | `Receive` |
| `ProtocolStateChangeService.process`, topic revocation_registry | `FindOperation`, `ApplyReport`; a run that fails is a later `FindOperation` |
| the issue report of the same credential | `ReportIssued` |
| `OperationService.getForTenant`, `waitForStatusForTenant`, `applyViewed` | `ReadOperation`, `View`; of the offer's operation, `ViewOffer` |
| `purgeExpiredBatch`, `OperationPurgeService` | `SelectExpired`, `DeleteExpired`, `PurgeFails` |
| time | `Tick` |

The Traction adapter rejects `revoke` as not implemented, so `CallAgent` follows
the contract of `RevocationPort`: revoked, refused, an adapter error, or another
error, with the errors possibly after the agent has acted.  The purge is a
selection and a deletion, because under READ COMMITTED the DELETE looks at the
ids only: a row that was settled or viewed meanwhile goes too.  It deletes the
expired operations of every type, and `credential.operation_id` is a foreign key ON
DELETE RESTRICT: once the offer's operation has expired (`OfferExpired`) the
statement fails, `purgeExpiredOperations` logs and rethrows, and so does every
later run (`PurgeFails`).  A batch is taken to hold all that has expired; with
more rows than its limit, the batches before the one that fails still succeed.

What the properties leave open is what the code does: a revocation of a
credential that is not known to be issued, or is revoked already, wins the
operation's guard and loses the credential's, rolls back, and stays pending until
the purge, and for good when the purge is blocked; a report that is delivered again completes a newer operation and is
dispatched again; a report that comes before the issue completes the operation
and leaves the credential (`early`); a report that finds the operation failed
leaves the credential alone, which is the exception in `RevocationArrives`; by
`RepeatedReportRevokes` a later report of the agent still revokes it.

### Registration and PublicationPromise

All definitions name the same schema, issuer and tag, so that they meet on two
artifacts.  `row` and `op` are the definition and the operation it names,
`queued` the waiting job (a number of checks) and `run` the active one, which
the stately queue policy and the singleton key allow one of each.  `intent` is
the `anoncreds_publication_intent` table and `ledger` what the backend took.

| Code | Actions |
|---|---|
| `createDraft`, `createOrContinue`, `continueExisting`, `delete` | `CreateDraft`, `Create`, `Continue`, `Deactivate` |
| worker `process`, `advanceSchema`, `advance` | `Start`, `Lookup` |
| `publishArtifact`, `recordPublication` | `Claim`, `Publish`, `SaveSubmission` |
| `verifyRevocation` | `Verify` |
| `persistWaiting`, `persistFailure`, `persistOutcome` | `Persist` |
| pod killed; the queue has no retries | `Die` |
| operation purge; endorser | `PurgeOperation`, `Endorse` |

Recording the outcome in the intent and saving the progress are two transactions
that `SaveSubmission` merges: an intent that is submitted without progress is as
closed to a new claim as one that is publishing.  A failed and a rejected
progress are both recorded as None, since `hasSubmission` treats them as absence.
A failing issuer lookup is a failing branch of `Lookup`.  A run of a definition
never overlaps another of the same definition; two definitions' runs do.  When a
run is lost and its operation purged, the definition stays pending and a POST is
refused; `PendingHasJob` names that case (`lost`).  `RegistrationEnds` is what the
worker does, which is not what `docs/DEVELOPER.md` says (see the disagreements).

### Connections

A connection is named by the agent's id for it; the row of a reusable invitation
is `Template`.  `req` is the request that creates the row, `job` the report of each
state, queued or with what its run has found, and `told` counts the
connection.established dispatches.

| Code | Actions |
|---|---|
| `create`, `createInvitation`, `acceptInvitation`, `applyInvitationResult` | `CreateConnection`, `CreateTemplate`, `CallAdapter`, `Read`, `SaveResult` |
| `create`'s catch, `markAbandoned` | `FailRequest`, `MarkAbandoned` |
| `applyConnectionOutcome`, `applyProtocolStateIfForward`, `createFromInvitationTemplate` | `Find`, `Apply` |
| `reconcile`, `resolveIdentity` | `Reconcile`, `ResolveIdentity` |
| `delete` | `DeleteAtAgent`, `DeleteRow` |
| `abandonAllForTenant` | `AbandonAll` |
| agent and other party | `UseInvitation`, `MoveOn` |

Also true of the code, and visible in the exceptions the properties make: a
report on an acceptance that runs before the request has stored the agent's id is
spent; an acceptance that the agent answers as active is adopted without a
dispatch; the save of a creating request revives a row that the tenant's
deactivation abandoned or a request deleted; a late report makes the row of a
deleted party again.

### TenantLifecycle

`ReadStatus` and `WriteStatus` are the two halves of `updateStatus`; each change
queues a job whose writes (`Handle`) are independent, and which runs again from
the start when one fails (`Retry`).  A revocation for cause is a read that checks that
the client is active (`revokeClient`) and an update without a guard (`revoke`).
It, `reactivateClient`, and the read and the save of `update` and `rotateSecret` come
at any time.  The module has
one run, which is violated; what it also shows on the way is that a revocation for
cause of a client that the deactivation has tagged is forgotten, and that the save
of a client read before its revocation takes the revocation back.

### TenantUsers

`update` and `delete` take the lock on the tenant row, read the member (`Begin`),
count (`Check`) and write (`Save`).  The counts are separate queries under that
lock, merged into one step.  Sign-ins (`FindInvite`, `claimInvited`) and
`setPlatformOperator` (`ReadFlag`, `SaveFlag`) do not take it.  `lost` remembers
which writes went over a row that had changed since it was read: a claim between
the read and the write of an update is overwritten, and the flag's save can put
back an earlier role or a removed member.  The properties say what holds apart
from these.

## Runs

Deadlock is not checked: a client may stop calling and the agent may stop
reporting, so every workflow may end.

| Run | Instance | Shows |
|---|---|---|
| `exchange_issue` | one worker, one reconciler, two issuance requests | rows, dispatches and the agent stay consistent on the issuer's side |
| `exchange_holders` | one worker, two holder requests of two accepts and a reject | transitions only go forward and are dispatched once; the shared unique index and the guards keep accept and reject straight |
| `batch` | three children, three runs | the refinement of `BatchPromise` |
| `revocation` | two callers, one worker, one reader, two operations, two instants | what a writer carries over a pause stays true, each end is told, expiry and views agree, nothing is in flight for ever unless the purge is blocked, the revocation arrives, and if not by this report then by a later one |
| `registration` | two definitions, one of them disturbed, one follow-up check | definition and operation agree, the wait ends, the refinement of `PublicationPromise` |
| `connections` | one connection of any kind, and a template | established is told once and always, ends are final, a handshake arrives |
| `tenant_users` | two members, two subjects, two requests, one flag | the tenant keeps an owner and an administrator; claims stand |
| `early_webhook` | one worker, early reports | **violated**: the credential can end without the offer operation |
| `accept_race` | one worker, one accept | **violated**: the offer operation can stay in flight for good |
| `batch_mirror` | two children, one with a holder action | **violated**: the batch can stay processing after its last child ended |
| `purge_blocked` | one caller, one operation, two instants | **violated**: an expired operation is never purged once the operation of an offer has expired |
| `tenant_lifecycle` | one client, two requests, two changes | **violated**: an active tenant can keep clients revoked by its deactivation |

Bounds.  Two issuance requests are enough for a claim to be contested, refused
and retried; two holder requests for the insert race, the loser's lookup and the
recovery of a pending action (constraint `TwoHolders` cuts the states in which a
third has begun).  One worker runs any number of jobs one after the other and,
with the requests, already gives two runs at the same time.  Three children are
needed for two concurrent last ones next to one that has ended.  In `revocation`
`MaxOps` 2 gives a retry after an end or a purge, `MaxNow` 1 a row that expires;
`MaxCreate` keeps every operation, and the first view of the offer's, within reach of the clock, and only the operations of
`Watched`, here the first, are polled: a poll touches one row.  In `registration`
`MAX_WAIT_CHECKS` is 1, so that a check can be followed up and can be the last, and
only the definitions of `Disturbed`, here one, are POSTed again, deleted, or lose
their operation while they register.  The
connections do not share a row except for the template, so one of them meets
every race of its own kind; the theorems are for any number.  In `tenant_users` two members
are enough for each to be the other's last owner, and constraint `FlagNotLost`
ends a behaviour where the flag overwrote a newer row, of which the properties
say nothing more; constraint `OneField` leaves out the requests that change role and
status together, which the theorems include.  `MAX_CHANGES` bounds the changes of a tenant's status.

Fairness and liveness.

- `Revocation`: the clock runs, the purge is scheduled every hour, also after a run
  that failed, and a job is delivered until a run succeeds; nothing is assumed of
  requests, readers or the agent.  Under that `InFlightEnds` and
  `RevocationArrives` hold; `InFlightEnds` makes an exception of a purge that is
  blocked, and `ExpiredArePurged`, which makes none, is violated.
  `RepeatedReportRevokes` assumes, in its own statement, that reports keep
  coming.  Delivery is assumed beyond the retry limit of the queue, that is, outages are shorter than it.
- `Registration`: a queued job is taken and a run that does not die goes on, as
  every call it makes has a timeout; `Die` may end any run.  `RegistrationEnds`.
- `Connections`: the report of a completed handshake is delivered until it is
  applied, with the same remark on the retry limit; no other report is.
  `HandshakeArrives`.
- `CredentialExchange`, `BatchSettlement` and `TenantUsers` assume no fairness.  For the exchange,
  what should eventually happen is `SettledWhenDrained`: once there is
  nothing left to process, nothing may be left in flight.

### The six disagreements

Each of the first five is a violation run that checks one statement that a comment of
the code makes; the findings in PROJECT.json quote it.

1. `early_webhook`.  A run looks for the operation before, and for the credential
   after, the commit that stores the external id in both.  It finds only the
   credential.  The comment says such a report is dropped.
2. `accept_race`.  A run finds the accept operation in flight, the accept request
   completes it from a synchronous answer, and the run's guarded write then matches
   nothing, so it neither mirrors the outcome onto the offer nor moves the credential.
   It was the last report.  Latent until an adapter implements `acceptOffer`.
3. `batch_mirror`.  Latent until batches are created.
4. `purge_blocked`.  The offer's operation is viewed and expires, the credential
   still refers to it, and from then on no purge succeeds: a revocation that was
   never answered has expired as well and stays.  The comment says that expired
   operations are deleted until the backlog is drained.
5. `tenant_lifecycle`.  The jobs of a deactivation and of the reactivation that
   follows run in the other order: the first finds nothing to restore, the second
   revokes the clients of a tenant that is active.
6. `registration`, which passes.  `docs/DEVELOPER.md` says that the operation
   remains PROCESSING when the window of checks ends and that another POST queues
   another check; `persistWaiting` fails it, which is why `RegistrationEnds` holds.
   What the document describes is the mutant `TimedOut_Never`, and it violates the
   property.

`OutcomeNotContradicted` is checked on the issuer's side only; with holder actions
in play `credential.rejected` can also name the holder's own action, as the comment at
`domainEventName` says, and the event names alone no longer decide it.

## Proofs

Apart from the assumptions a theorem names, the theorems assume only what the
modules ASSUME: the sets of actors are disjoint (`ActorsDistinct`), a batch has a child and `NoOne` is not a run or
child (`BatchAssumption`), the bounds and TTLs are numbers
(`RevocationAssumption`, `RegistrationAssumption`), the template is not a
connection of the agent (`ConnectionsAssumption`), and the members are finitely
many, as they are counted (`UsersAssumption`).  The other sets may be of any size,
also infinite.

`TypeCorrect` (`Spec => []TypeOK`).  `TypeOK` alone is not inductive: an actor that
applies the agent's state needs the agent to have one.  `TypeInv` adds
`AgentKnown`: without a record at the agent there is no report, no stored
external id and no actor past the offer's call, and an actor about to apply a
protocol state has one in hand.
That a lookup by newest row returns a row of the table needs a largest index
among the candidates.  The lemmas assume it as `LatestExists`, and
`CredentialExchangeTypes` proves it from the well-foundedness of `<` on Nat.

`SettlementDispatched`, `MoveForward` and `IssuedOnce` rest on
`TypeInv /\ SafetyInv`, and `SafetyInv` has two parts.  `OpsInv`: the operation an
actor has in hand exists, and the offer exists before the agent hears of it.
Each write to `ops` is then guarded by the state it overwrites, which is what lemma
`GuardedWrite` needs: it moves forward and is told exactly when it ends in a
terminal state.  `IssueInv`: at most one claim is open; while one is, and once
the agent has issued, the exchange is not `not-submitted`; and a request about to
submit, or refused, is not one after an issuance.  It is needed because
`issued <= 1` says nothing about who may still issue.

`RequestAnnounced` rests on `AnnounceInv`: once the holder's request has been
announced, the exchange has reached it.  The announcement is made by the run that
moves the row there under the row lock, and rank never falls, so a redelivered
report, or a reconcile that reads the same state, finds the row moved and is silent.

`CredentialAgrees` (`EarlyWebhooks = FALSE`, any accepts and rejects) rests on
`AgreeInv`, which is `CredentialAgreesWithOffer` with the stages of an exchange
(`StageInv`).  Two transactions write the credential and the offer, and each guards
the two rows separately; that both guards succeed or neither does is what has to be
shown.  `StageInv` gives it: until the answer is stored nobody but the offer
request is at work on rows that are as it created them; then a run holds the exchange
row from its lookup to its commit, has found nothing only if the offer has ended,
and a request that writes an operation of its own never has the offer in hand.
Run `early_webhook` shows that the assumption is needed.

`SettledAtTheEnd`, `OneOutcome` and `OfferSettles` are about an exchange without
holder requests (`HolderCalls = {}`, `EarlyWebhooks = FALSE`), with any number of job
runs, reconciles and issuance requests, which crash, are refused or lose their
answers.  `CurrentInv` says that only the issue operation that is claimed is in flight beside the
offer, and that what a run looked up before its transaction is still what it
would find at the commit.  `EndInv` says that the agent's last state is queued until the
exchange is `Closed` (row at its end, nothing under the external id in
flight), that the tenant is told an end only when it is, and at most once.
Without `HolderCalls = {}` they fail: `CurrentInv` is what `accept_race` breaks,
since the accept settles without the exchange row's lock; and an accept
inserted after credential.issued is an operation in flight that an abandoned
report then ends with credential.rejected.

`ParentFollows`, `BatchRefines` and `DecisionsHold` rest on `BatchInv`: a run between update and
commit owns its rows, and its decision is the verdict on its view
(`DecisionHolds`), together with the parent being the verdict on the committed
children.  The commit of a run maps to a `Settle` step of the promise and every
other step to a stutter.  They assume `Actions = {}`, that is, no mirrored
outcomes: run `batch_mirror` shows that the parent need not follow without it, and a
decision to leave the parent alone is stale when a mirrored outcome, which takes no
lock on the parent, commits after the recount.  What remains with mirrored outcomes
is `NeverEarly`: the parent never ends before its last child or with another verdict
than theirs, and its end is told once.  Its invariant `HeldInv` keeps of `BatchInv`
what does not need the lock: a run holds the child it writes, and a decision to settle
is the verdict on its view, which nobody can change any more because all
children in it have ended.

`RevocationProofs` shows `RevInv`, then `ToldInv` on top of it.  `RevInv` joins the
types, `HandsAgree`, `CompletedMeansRevoked`, `ExpiryFollowsState` and
`ShownEndStands`: a guarded UPDATE moves a row in flight only, so it never moves
one whose end a reader holds or was shown, and a first view, which computes the
expiry from a copy, has a copy whose state is the row's.  `ToldInv` counts the
dispatches against the ended rows, which needs the cardinality of a set that grows by one.

`RegistrationProofs` shows `RegInv`: a run that is past its start belongs to a
pending definition with an operation in flight or purged; a run past its claim
owns the open intent, alone; the ledger took an artifact once if its intent is not
open to claims, and a progress of finished means that it is visible.
`PublicationRefines` maps a claim, a submission the backend takes, and a
conclusive rejection to the steps of the promise and all else to stutters.

`ConnectionsProofs` shows `ConnInv`: until the creating request has saved, and
after it has failed, nothing correlates a report with its row; a dispatch means
that the row is active or beyond; and a run that has found a row has found one
that correlates.

`TenantUsersProofs` shows `UsersInv`: one request at most holds the lock; what it
counted still holds when it writes, since only the holder demotes or removes and
the others only add, unless `lost`.

Every safety property of the passing runs is proved, under the assumptions
above.  Only model-checked are the liveness properties `InFlightEnds`,
`RevocationArrives`, `RepeatedReportRevokes`, `RegistrationEnds` and
`HandshakeArrives`, since the prover does not reach fairness and ENABLED.
`ExpiredArePurged` and `ReactivationRestores` are violated and have no theorem;
`TenantLifecycle` has none.

## Not modelled

- Presentation requests: an operation that a call creates and a report settles
  by the same guarded transition as a revocation's, with the window of
  `early_webhook`; the Traction adapter's call is a stub that always fails.
- Profiles: guarded transitions of a record no job or report writes.  A PATCH
  that read a draft can save it over a publication; it is listed as a hazard.
- Roles and scopes: a mapping written under an advisory lock.  The grants that race
  it are written by the OIDC library outside the code's transactions.
- Rate limits: a count and an insert, approximate under concurrency by design.
- Connectors and the token cache, beyond the cascade of a tenant's deactivation:
  configuration, and a map in each process.
- Of tenants: approval, names, configuration, default connector, deletion.  Of
  definitions: PATCH, and the formats that are not registered.  Of users: e-mail
  addresses.
- The pool of database connections, of which `process` may need two at a time: its
  size is configuration and its queue is the driver's.
- OIDC, authentication and authorisation checks, which only refuse a request;
  audit records, which nothing reads back; administration, health, start and
  stop; the web client.
- Payloads, validation and formatting throughout.
