---------------------------- MODULE Registration ----------------------------
(***************************************************************************)
(* The registration of AnonCreds credential definitions: POST and DELETE   *)
(* (CredentialDefinitionService), the singleton-keyed jobs of the          *)
(* credential-definition.register queue and the runs that work on them     *)
(* (AnonCredsCredentialDefinitionRegistrationWorker), the publication      *)
(* intents they share, and the backend that publishes and endorses         *)
(* (TractionDefinitionRegistrationService).                                *)
(*                                                                         *)
(* All definitions name the same schema, issuer and tag, so that they meet *)
(* on the same two artifacts.                                              *)
(***************************************************************************)
EXTENDS StateMapping

CONSTANTS
    Defs,             \* credential definitions, by (name, format)
    MAX_WAIT_CHECKS,  \* follow-up checks of one registration
    Disturbed         \* bound: the definitions that are POSTed again or deleted
                      \* while they register, or whose operation is purged

ASSUME RegistrationAssumption == MAX_WAIT_CHECKS \in Nat /\ Disturbed \subseteq Defs

VARIABLES
    row,      \* the credential_definition rows
    op,       \* the state of the registration operation a row names
    queued,   \* the checks of the queued job of each definition, or NoJob
    run,      \* the run of each definition: where it is and what it carries
    lost,     \* definitions whose job died with its run
    intent,   \* the anoncreds_publication_intent rows
    ledger    \* what the backend has of each artifact

vars == <<row, op, queued, run, lost, intent, ledger>>

Artifacts == {"schema", "definition"}
NoJob == MAX_WAIT_CHECKS + 1

\* ArtifactProgress.state; None before the first answer and after a failure.
Progress == {None, "wait", "finished"}
Registrations == [Artifacts -> Progress]

RegistrationStates == {"unverified", "pending", "ready", "failed"}

NoRow == [exists |-> FALSE, active |-> FALSE, state |-> "unverified",
          reg |-> [a \in Artifacts |-> None]]
Idle == [pc |-> "idle", checks |-> 0, art |-> "schema",
         reg |-> [a \in Artifacts |-> None], out |-> None]

Row == [exists : BOOLEAN, active : BOOLEAN, state : RegistrationStates, reg : Registrations]
Run == [pc : {"idle", "lookup", "claim", "publish", "save", "verify", "persist"},
        checks : 0..MAX_WAIT_CHECKS, art : Artifacts, reg : Registrations,
        out : Progress \cup {"rejected", "lost", "failed", "ready"}]

TypeOK ==
    /\ row \in [Defs -> Row]
    /\ op \in [Defs -> OperationStates \cup {None}]
    /\ queued \in [Defs -> 0..NoJob]
    /\ run \in [Defs -> Run]
    /\ lost \subseteq Defs
    /\ intent \in [Artifacts -> {None, "publishing", "submitted", "rejected"}]
    /\ ledger \in [Artifacts -> [taken : Nat, visible : BOOLEAN]]

Init ==
    /\ row = [d \in Defs |-> NoRow]
    /\ op = [d \in Defs |-> None]
    /\ queued = [d \in Defs |-> NoJob]
    /\ run = [d \in Defs |-> Idle]
    /\ lost = {}
    /\ intent = [a \in Artifacts |-> None]
    /\ ledger = [a \in Artifacts |-> [taken |-> 0, visible |-> FALSE]]

-----------------------------------------------------------------------------
(* Jobs.  The queue's policy is stately and the key is the definition: one  *)
(* job of a definition may wait and one may be active; a send that finds    *)
(* one waiting is dropped.                                                  *)

Sent(d, checks) == IF queued[d] = NoJob THEN [queued EXCEPT ![d] = checks] ELSE queued

-----------------------------------------------------------------------------
(* The API *)

\* createDraft: saved here, nothing is registered.
CreateDraft(d) ==
    /\ ~row[d].exists
    /\ row' = [row EXCEPT ![d] = [NoRow EXCEPT !.exists = TRUE, !.active = TRUE]]
    /\ UNCHANGED <<op, queued, run, lost, intent, ledger>>

\* Mutant: a registration that starts again keeps its operation.
StartRegistration_SameOperation(d, changed) ==
    /\ row' = [row EXCEPT ![d] = changed]
    /\ op' = [op EXCEPT ![d] = IF @ = None THEN "pending" ELSE @]
    /\ queued' = Sent(d, 0)
    /\ lost' = lost \ {d}

\* A new operation for the row, and the first job with it, in one transaction.
StartRegistration(d, changed) ==
    /\ row' = [row EXCEPT ![d] = changed]
    /\ op' = [op EXCEPT ![d] = "pending"]
    /\ queued' = Sent(d, 0)
    /\ lost' = lost \ {d}

\* createOrContinue for a name that is new, with an inline schema or with the
\* id of one that the ledger has.
Create(d, byId) ==
    /\ ~row[d].exists
    /\ byId => ledger["schema"].visible
    /\ StartRegistration(d, [exists |-> TRUE, active |-> TRUE,
                             state |-> "pending",
                             reg |-> [a \in Artifacts |->
                                        IF byId /\ a = "schema" THEN "finished" ELSE None]])
    /\ UNCHANGED <<run, intent, ledger>>

\* continueExisting with settings that match, under the lock of the row.  A
\* local draft and a failed registration start again, the latter from its
\* progress; a pending one gets another job; all else is a 409 or a no-op.
Continue(d) ==
    /\ d \in Disturbed /\ row[d].exists
    /\ \/ /\ \/ row[d].active /\ row[d].state = "unverified"
             \/ row[d].state = "failed"
          /\ StartRegistration(d, [row[d] EXCEPT !.active = TRUE, !.state = "pending"])
       \/ /\ row[d].active /\ row[d].state = "pending"
          /\ op[d] \notin {None, "failed"}
          /\ queued' = Sent(d, 0)
          /\ lost' = lost \ {d}
          /\ UNCHANGED <<row, op>>
    /\ UNCHANGED <<run, intent, ledger>>

\* delete: the row is deactivated, whatever its run is doing.
Deactivate(d) ==
    /\ d \in Disturbed /\ row[d].active
    /\ row' = [row EXCEPT ![d].active = FALSE]
    /\ UNCHANGED <<op, queued, run, lost, intent, ledger>>

\* The purge takes an operation that has expired.
PurgeOperation(d) ==
    /\ d \in Disturbed /\ op[d] # None
    /\ op' = [op EXCEPT ![d] = None]
    /\ UNCHANGED <<row, queued, run, lost, intent, ledger>>

-----------------------------------------------------------------------------
(* The backend *)

\* An endorser signs, and the artifact can be looked up.
Endorse(a) ==
    /\ ledger[a].taken > 0 /\ ~ledger[a].visible
    /\ ledger' = [ledger EXCEPT ![a].visible = TRUE]
    /\ UNCHANGED <<row, op, queued, run, lost, intent>>

-----------------------------------------------------------------------------
(* process() *)

Go(d, pc) == run' = [run EXCEPT ![d].pc = pc]
End(d, out) ==
    run' = [run EXCEPT ![d].pc = "persist", ![d].art = "schema", ![d].out = out]

\* A job is taken.  It is done at once when the row is no longer pending, and
\* fails the row when the operation has failed or is gone.  Otherwise the
\* operation is processing from here on, unless the definition, its connector
\* or its issuer is refused.
Start(d) ==
    /\ run[d] = Idle /\ queued[d] # NoJob
    /\ queued' = [queued EXCEPT ![d] = NoJob]
    /\ IF row[d].state # "pending" THEN UNCHANGED <<row, op, run>>
       ELSE IF op[d] \in {None, "failed"}
       THEN /\ row' = [row EXCEPT ![d].state = "failed"]
            /\ UNCHANGED <<op, run>>
       ELSE \/ /\ row[d].active
               /\ op' = [op EXCEPT ![d] = "processing"]
               /\ run' = [run EXCEPT ![d] = [Idle EXCEPT !.pc = "lookup",
                                                !.checks = queued[d], !.reg = row[d].reg]]
               /\ UNCHANGED row
            \/ /\ run' = [run EXCEPT ![d] = [Idle EXCEPT !.pc = "persist",
                                                !.checks = queued[d], !.reg = row[d].reg,
                                                !.out = "failed"]]
               /\ UNCHANGED <<row, op>>
    /\ UNCHANGED <<lost, intent, ledger>>

\* hasSubmission: something was answered, and it was no failure.
HasSubmission(progress) == progress # None

\* Where a run goes once it has the id of the artifact.
Onward(d, reg) ==
    run' = [run EXCEPT ![d].reg = reg, ![d].art = "definition", ![d].out = None,
                       ![d].pc = IF run[d].art = "schema" THEN "lookup" ELSE "verify"]

\* saveProgress, which matches an active row only: the run keeps what it could
\* not save, and fails with it.
SaveProgress(d, reg) ==
    IF row[d].active
        THEN /\ row' = [row EXCEPT ![d].reg = reg]
             /\ Onward(d, reg)
        ELSE /\ run' = [run EXCEPT ![d].reg = reg, ![d].pc = "persist", ![d].art = "schema",
                                   ![d].out = "failed"]
             /\ UNCHANGED row

\* advanceSchema and advance, up to the publication: what is finished is
\* resolved, what the ledger has is adopted, what was submitted is waited for,
\* and the rest is published.  Any call may fail.
Lookup(d) ==
    LET a == run[d].art
        reg == run[d].reg
        resolved == a = "schema" /\ reg[a] = "finished"
    IN  /\ run[d].pc = "lookup"
        /\ \/ End(d, "failed") /\ UNCHANGED row
           \/ /\ resolved
              /\ Onward(d, reg) /\ UNCHANGED row
           \/ /\ ~resolved /\ ledger[a].visible
              /\ SaveProgress(d, [reg EXCEPT ![a] = "finished"])
           \/ /\ ~resolved /\ ~ledger[a].visible /\ HasSubmission(reg[a])
              /\ End(d, "wait") /\ UNCHANGED row
           \/ /\ ~resolved /\ ~ledger[a].visible /\ ~HasSubmission(reg[a])
              /\ Go(d, "claim") /\ UNCHANGED row
        /\ UNCHANGED <<op, queued, lost, intent, ledger>>

\* Mutant: an intent that was left open is taken over.
Claimable_Publishing(a) == intent[a] \in {None, "rejected", "publishing"}

\* INSERT ... ON CONFLICT DO UPDATE ... WHERE state = 'rejected'.
Claimable(a) == intent[a] \in {None, "rejected"}

\* publishArtifact: without the claim the run waits for the artifact of another.
Claim(d) ==
    LET a == run[d].art
    IN  /\ run[d].pc = "claim"
        /\ IF Claimable(a)
           THEN /\ intent' = [intent EXCEPT ![a] = "publishing"]
                /\ Go(d, "publish")
           ELSE /\ End(d, "wait")
                /\ UNCHANGED intent
        /\ UNCHANGED <<row, op, queued, lost, ledger>>

\* publishSchema and publishDefinition, a POST that is not repeated.  The
\* backend takes it, and answers that it is finished or waits for an endorser,
\* or the answer is lost or indeterminate; or it does not take it, and says so,
\* with a state of failed or a status that is conclusive, or not.
Publish(d, answer) ==
    LET a == run[d].art
    IN  /\ run[d].pc = "publish"
        /\ \/ /\ answer \in {"finished", "wait", "lost"}
              /\ ledger' = [ledger EXCEPT ![a] = [taken |-> @.taken + 1,
                                                  visible |-> @.visible \/ answer = "finished"]]
           \/ /\ answer \in {"rejected", "lost"}
              /\ UNCHANGED ledger
        /\ run' = [run EXCEPT ![d].pc = "save", ![d].out = answer]
        /\ UNCHANGED <<row, op, queued, lost, intent>>

\* Mutant: every error counts as a rejection.
Outcome_AnyError(answer) ==
    IF answer \in {"finished", "wait"} THEN "submitted" ELSE "rejected"

\* recordPublication: what becomes of the intent.  A failed publication and a
\* 4xx, save 408 and 429, are conclusive; no answer leaves it closed.
Outcome(answer) ==
    CASE answer \in {"finished", "wait"}  -> "submitted"
      [] answer = "rejected"              -> "rejected"
      [] OTHER                            -> "publishing"

\* The answer is recorded in the intent and, unless it was an error, saved as
\* progress: a finished artifact leads on, one that waits for its endorsement
\* ends the run.
SaveSubmission(d) ==
    LET a == run[d].art
        answer == run[d].out
        next == [run[d].reg EXCEPT ![a] = answer]
    IN  /\ run[d].pc = "save"
        /\ intent' = [intent EXCEPT ![a] = Outcome(answer)]
        /\ \/ /\ answer \in {"rejected", "lost"}
              /\ End(d, "failed") /\ UNCHANGED row
           \/ /\ answer = "finished"
              /\ SaveProgress(d, next)
           \/ /\ answer = "wait"
              /\ row' = IF row[d].active THEN [row EXCEPT ![d].reg = next] ELSE row
              /\ run' = [run EXCEPT ![d].reg = next, ![d].pc = "persist", ![d].art = "schema",
                                    ![d].out = IF row[d].active THEN "wait" ELSE "failed"]
        /\ UNCHANGED <<op, queued, lost, ledger>>

\* verifyRevocation: the revocation registry is ready, is not yet, or the call
\* fails.  A definition without revocation is ready.
Verify(d, out) ==
    /\ run[d].pc = "verify"
    /\ End(d, out)
    /\ UNCHANGED <<row, op, queued, lost, intent, ledger>>

\* Mutant: the last check fails nothing.
TimedOut_Never(d) == FALSE

\* persistWaiting: the last check fails the registration.
TimedOut(d) == run[d].out = "wait" /\ run[d].checks >= MAX_WAIT_CHECKS

\* Mutant: a run that waits counts on the client to ask again.
FollowUp_None(d) == queued

FollowUp(d) ==
    IF run[d].out = "wait" /\ run[d].checks < MAX_WAIT_CHECKS
    THEN Sent(d, run[d].checks + 1) ELSE queued

\* persistOutcome: row, operation and follow-up job, in one transaction and
\* whatever their state.  An operation that is gone is an error, also for the
\* handler of that error, and the job dies.
Persist(d) ==
    LET out == IF TimedOut(d) THEN "failed" ELSE run[d].out
    IN  /\ run[d].pc = "persist"
        /\ IF op[d] = None
           THEN /\ lost' = IF queued[d] = NoJob THEN lost \cup {d} ELSE lost
                /\ UNCHANGED <<row, op, queued>>
           ELSE /\ row' = [row EXCEPT ![d].reg = run[d].reg,
                                      ![d].state = IF out = "wait" THEN "pending" ELSE out]
                /\ op' = [op EXCEPT ![d] = CASE out = "ready" -> "completed"
                                             [] out = "wait"  -> "processing"
                                             [] OTHER         -> "failed"]
                /\ queued' = FollowUp(d)
                /\ UNCHANGED lost
        /\ run' = [run EXCEPT ![d] = Idle]
        /\ UNCHANGED <<intent, ledger>>

\* The pod dies, anywhere.  The queue has no retries: the job is lost.
Die(d) ==
    /\ run[d] # Idle
    /\ lost' = IF queued[d] = NoJob THEN lost \cup {d} ELSE lost
    /\ run' = [run EXCEPT ![d] = Idle]
    /\ UNCHANGED <<row, op, queued, intent, ledger>>

-----------------------------------------------------------------------------

Work(d) ==
    \/ Lookup(d) \/ Claim(d) \/ SaveSubmission(d) \/ Persist(d)
    \/ \E answer \in {"finished", "wait", "lost", "rejected"} : Publish(d, answer)
    \/ \E out \in {"ready", "wait", "failed"} : Verify(d, out)

Api(d) ==
    \/ CreateDraft(d) \/ (\E byId \in BOOLEAN : Create(d, byId)) \/ Continue(d)
    \/ Deactivate(d) \/ PurgeOperation(d)

Next ==
    \/ \E d \in Defs : Api(d) \/ Start(d) \/ Work(d) \/ Die(d)
    \/ \E a \in Artifacts : Endorse(a)

\* pg-boss hands every queued job to a worker, and a run that does not die
\* comes to its end: every call it makes has a timeout.
Fairness ==
    \A d \in Defs : WF_vars(Start(d) \/ Work(d))

Spec == Init /\ [][Next]_vars /\ Fairness

-----------------------------------------------------------------------------
(* Properties *)

\* A definition and the operation a client polls for it say the same: pending
\* with an operation in flight, ready with a completed one, failed with a
\* failed one.  persistOutcome and startExistingRegistration write both
\* together, without a guard on either.
RowAndOperationAgree ==
    /\ TypeOK
    /\ \A d \in Defs :
          /\ op[d] \in InFlightStates => row[d].state = "pending"
          /\ op[d] = "completed" => row[d].state = "ready"
          /\ op[d] = "failed" => row[d].state = "failed"

\* A definition is ready only when the ledger has its schema and itself, each
\* submitted once: whoever submitted them, and whatever answers were lost.
ReadyIsPublished ==
    \A d \in Defs : row[d].state = "ready" =>
        \A a \in Artifacts : ledger[a].taken = 1 /\ ledger[a].visible
                             /\ row[d].reg[a] = "finished"

\* A pending registration has a job, waiting or active, unless the run of its
\* last job died: a follow-up that the queue drops because a repeated POST is
\* waiting already is not missed.
PendingHasJob ==
    \A d \in Defs : row[d].state = "pending" =>
        queued[d] # NoJob \/ run[d] # Idle \/ d \in lost

\* A registration that is being worked on ends ready or failed, unless it is
\* POSTed again, which queues a check that counts from 0, or the run of its
\* last job dies: the wait for an endorser is bounded, and the last check ends it
\* as failed.  docs/DEVELOPER.md says otherwise, that the operation then remains
\* PROCESSING; that is the mutant TimedOut_Never, which violates this.
RegistrationEnds ==
    \A d \in Defs :
        row[d].state = "pending" /\ run[d] # Idle
            ~> row[d].state # "pending" \/ queued[d] = 0 \/ d \in lost

\* The intents and the ledger together, as PublicationPromise sees an artifact.
ArtifactState(a) ==
    IF ledger[a].taken > 1 THEN "duplicated"
    ELSE IF intent[a] = "rejected" THEN "rejected"
    ELSE IF ledger[a].taken = 1 THEN "taken"
    ELSE IF intent[a] = "publishing" THEN "claimed"
    ELSE "unclaimed"

Promise == INSTANCE PublicationPromise
    WITH Artifacts <- Artifacts, artifact <- [a \in Artifacts |-> ArtifactState(a)]

\* Publication keeps its promise: two definitions that share an artifact, runs
\* that die and answers that are lost never make the backend take it twice,
\* and one that was taken is never given up.
PublishedOnce == Promise!Spec

=============================================================================
