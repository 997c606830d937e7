--------------------- MODULE CredentialExchangeOutcomes ---------------------
(*****************************************************************************)
(* What holds of CredentialExchange when jobs wait until the offer's         *)
(* external id is stored: the credential and the offer end together and the  *)
(* same way, for any number of workers, reconcilers, issuance requests and   *)
(* holder requests; and without holder requests everything the agent knows   *)
(* of is settled once its last report is processed, and at most one end is   *)
(* told.                                                                     *)
(*****************************************************************************)
EXTENDS CredentialExchangeSafety

\* Zenon is tried first; arithmetic and most of the sequences are left to SMT.
USE ZenonT(15), SMTT(30)

-----------------------------------------------------------------------------
(* The actions keep the agreement *)

\* The answer's transaction stores the external id and settles both rows alike.
LEMMA AgreeRecordOffer ==
    ASSUME TypeInv, OpsInv, AgreeInv, RecordOffer
    PROVE  AgreeInv'
<1> DEFINE s == proc[Offerer].st
           o == IssueCredentialOutcome(s)
           t == transition({1}, o.op)
<1>1. /\ proc[Offerer].pc = "record" /\ ops # <<>> /\ 1 \in DOMAIN ops
      /\ \A i \in DOMAIN ops : ops[i].type = "offer" <=> i = 1
      /\ \A p \in Actors : p # Offerer => proc[p].pc = "idle"
  <2>1. proc[Offerer].pc = "record"
    BY DEF RecordOffer
  <2>2. ops # <<>> /\ 1 \in DOMAIN ops
    BY <2>1, OpsFacts DEF OpsInv
  <2>3. QED
    BY <2>1, <2>2 DEF AgreeInv, StageInv
<1>2. /\ ops' = [t EXCEPT ![1].ext = TRUE]
      /\ credential' = [ext |-> TRUE, state |-> IF o.cred # None THEN o.cred ELSE "offered"]
  BY OfferRecorded
<1>3. /\ t \in Seq(Operation) /\ DOMAIN t = DOMAIN ops
      /\ \A i \in DOMAIN ops : t[i].type = ops[i].type
      /\ t[1].state = o.op
  <2>1. o.op \in OperationStates /\ ops \in Seq(Operation)
    BY OutcomeType, OpsFacts
  <2> HIDE DEF o
  <2>2. QED
    BY <1>1, <2>1, TransitionRows
<1>4. /\ DOMAIN ops' = DOMAIN ops /\ ops'[1].state = o.op /\ ops'[1].ext
      /\ \A i \in DOMAIN ops' : ops'[i].type = "offer" <=> i = 1
  <2> HIDE DEF t, o
  <2>1. /\ DOMAIN ops' = DOMAIN ops /\ ops'[1].state = o.op
        /\ \A i \in DOMAIN ops' : ops'[i].type = ops[i].type
    BY <1>1, <1>2, <1>3, StoreExternalId
  <2>2. ops'[1] = [t[1] EXCEPT !.ext = TRUE] /\ t[1] \in Operation
    BY <1>1, <1>2, <1>3
  <2>3. ops'[1].ext
    BY <2>2 DEF Operation
  <2>4. QED
    BY <1>1, <2>1, <2>3
<1>5. proc'[Offerer].pc = "done" /\ \A p \in Actors : p # Offerer => proc'[p].pc = "idle"
  BY ProcTyped, FinishStep, OffererFacts, <1>1 DEF RecordOffer
<1>6. credential'.ext /\ credential'.state = IF o.cred # None THEN o.cred ELSE "offered"
  BY <1>2
<1>7. StageInv'
  <2> HIDE DEF o, t
  <2>1. QED
    BY <1>1, <1>4, <1>5, <1>6 DEF StageInv
<1>8. ops' # <<>>
  BY <1>1, <1>4
<1>9. QED
  BY <1>4, <1>6, <1>7, <1>8, Meanings, Guards DEF AgreeInv, CredentialAgreesWithOffer

\* After an AdapterError both rows fail and no external id is stored.
LEMMA AgreeRecordOfferFailure ==
    ASSUME TypeInv, OpsInv, AgreeInv, RecordOfferFailure
    PROVE  AgreeInv'
<1>1. /\ proc[Offerer].pc = "failed" /\ ops # <<>> /\ 1 \in DOMAIN ops
      /\ ~credential.ext /\ credential.state = "offered" /\ ops[1].state = "pending"
      /\ ops \in Seq(Operation) /\ "failed" \in OperationStates
      /\ credential \in [state : CredentialStates, ext : BOOLEAN]
  <2>1. proc[Offerer].pc = "failed"
    BY DEF RecordOfferFailure
  <2>2. ops # <<>> /\ 1 \in DOMAIN ops
    BY <2>1, OpsFacts DEF OpsInv
  <2>3. QED
    BY <2>1, <2>2, OpsFacts, TypeFacts, Constants DEF AgreeInv, StageInv, RowsType
<1>2. isForward(1, "failed") /\ credential.state \in credentialStatesBelow("failed")
  BY <1>1, Guards DEF isForward
<1>3. /\ ops' = transition({1}, "failed")
      /\ credential' = [credential EXCEPT !.state = "failed"]
      /\ exchange'.ext = exchange.ext
  BY <1>2, ExchangeFacts DEF RecordOfferFailure
<1>4. /\ DOMAIN ops' = DOMAIN ops /\ ops'[1].state = "failed"
      /\ \A i \in DOMAIN ops : ops'[i].type = ops[i].type /\ ops'[i].ext = ops[i].ext
  BY <1>1, <1>3, TransitionRows
<1>5. credential'.ext = credential.ext /\ credential'.state = "failed"
  BY <1>1, <1>3
<1>6. /\ proc'[Offerer].pc = "done"
      /\ \A p \in Actors : p # Offerer => proc'[p] = proc[p]
  BY ProcTyped, FinishStep, OffererFacts DEF RecordOfferFailure
<1>7. \A p \in Actors : p # Offerer => proc[p].pc = "idle" /\ proc'[p].pc = "idle"
  BY <1>1, <1>6 DEF AgreeInv, StageInv
<1>8. StageInv'
  BY <1>1, <1>3, <1>4, <1>5, <1>6, <1>7 DEF AgreeInv, StageInv
<1>9. ops' # <<>>
  BY <1>1, <1>4
<1>10. QED
  BY <1>4, <1>5, <1>8, <1>9 DEF AgreeInv, CredentialAgreesWithOffer

\* What the commit of a run does to the offer and the credential: it settles
\* both while the offer is in flight, or neither.
LEMMA RunWrites ==
    ASSUME TypeInv, OpsInv, AgreeInv,
           NEW p \in Workers \cup Reconcilers \cup IssueCalls, Apply(p)
    PROVE  /\ credential.ext /\ credential'.ext
           /\ ops' \in Seq(Operation) /\ DOMAIN ops' = DOMAIN ops /\ 1 \in DOMAIN ops
           /\ \A i \in DOMAIN ops : ops'[i].type = ops[i].type /\ ops'[i].ext = ops[i].ext
           /\ \/ ops'[1].state = ops[1].state /\ credential'.state = credential.state
              \/ /\ ops[1].state \in InFlightStates /\ ops'[1].state \in InFlightStates
                 /\ credential'.state = credential.state
              \/ /\ ops[1].state \in InFlightStates /\ credential.state = "offered"
                 /\ \/ ops'[1].state = "completed" /\ credential'.state = "issued"
                    \/ ops'[1].state = "failed" /\ credential'.state = "failed"
<1> DEFINE o == IssueCredentialOutcome(proc[p].st)
           found == proc[p].op
           final == o.op \in TerminalStates
           opWon == found # 0 /\ isForward(found, o.op)
           offerWon == /\ opWon /\ final
                       /\ ops[found].type \in {"accept", "issue", "reject"}
                       /\ credential.ext /\ isForward(1, o.op)
           credWon == /\ found = 0 \/ opWon
                      /\ o.cred # None /\ credential.ext
                      /\ credential.state \in credentialStatesBelow(o.cred)
           S == (IF opWon THEN {found} ELSE {}) \cup (IF offerWon THEN {1} ELSE {})
<1>1. p \in Actors /\ p # Offerer /\ proc[p].pc = "apply"
  BY ActorsOf DEF Apply
<1>2. /\ ops' = transition(S, o.op)
      /\ credential' = IF credWon THEN [credential EXCEPT !.state = o.cred] ELSE credential
  BY DEF Apply
<1>3. /\ credential.ext /\ 1 \in DOMAIN ops
      /\ \A i \in DOMAIN ops : ops[i].type = "offer" <=> i = 1
      /\ found = 0 => ops[1].state \in TerminalStates
      /\ credential \in [state : CredentialStates, ext : BOOLEAN]
      /\ ops \in Seq(Operation) /\ \A i \in DOMAIN ops : ops[i] \in Operation
  <2>1. credential.ext
    BY <1>1, StoredFor DEF AgreeInv
  <2>2. QED
    BY <1>1, <2>1, TypeFacts DEF AgreeInv, StageInv, RowsType
<1>4. found # 0 => found \in DOMAIN ops /\
                   (found # 1 <=> ops[found].type \in {"accept", "issue", "reject"})
  <2>1. found \in 0..Len(ops)
    BY <1>1 DEF OpsInv
  <2>2. found # 0 => found \in DOMAIN ops
    BY <2>1, OpsFacts
  <2> HIDE DEF found
  <2>3. QED
    BY <1>3, <2>2 DEF Operation, OperationTypes
<1>5. o.op \in OperationStates
  BY OutcomeType
<1>6. ops # <<>> /\ ops[1].state \in OperationStates
      /\ credential.state \in {"offered", "issued", "failed"} /\ CredentialAgreesWithOffer
  BY <1>3 DEF AgreeInv, Operation
<1>7. ops[1].state \in InFlightStates <=> credential.state = "offered"
  BY <1>6, Guards, Constants DEF CredentialAgreesWithOffer
<1> HIDE DEF o, found
<1>8. /\ credential'.ext = credential.ext
      /\ credential'.state = IF credWon THEN o.cred ELSE credential.state
  <2> HIDE DEF credWon
  <2>1. QED
    BY <1>2, <1>3
<1>9. /\ ops' \in Seq(Operation) /\ DOMAIN ops' = DOMAIN ops
      /\ \A i \in DOMAIN ops : /\ ops'[i].type = ops[i].type /\ ops'[i].ext = ops[i].ext
                               /\ ops'[i].state = IF i \in S THEN o.op ELSE ops[i].state
  <2> HIDE DEF S
  <2>1. QED
    BY <1>2, <1>3, <1>5, TransitionRows
<1>10. ops'[1].state = IF 1 \in S THEN o.op ELSE ops[1].state
  BY <1>3, <1>9
<1>11. CASE found = 0
  <2>1. ~opWon /\ ~offerWon /\ credential.state # "offered"
    BY <1>3, <1>7, <1>11, Guards
  <2>2. ~credWon
    BY <2>1, Guards, Meanings DEF o
  <2>3. QED
    BY <1>3, <1>8, <1>9, <1>10, <2>1, <2>2
<1>12. CASE found # 0 /\ ~opWon
  <2>1. ~offerWon /\ ~credWon /\ 1 \notin S
    BY <1>12
  <2>2. QED
    BY <1>3, <1>8, <1>9, <1>10, <2>1
<1>13. CASE opWon /\ ~final
  <2>1. o.op = "processing" /\ o.cred = None
    BY <1>13, Meanings, Guards DEF o
  <2>2. ~offerWon /\ ~credWon
    BY <1>13, <2>1
  <2>3. 1 \in S => ops[1].state \in InFlightStates /\ ops'[1].state \in InFlightStates
    BY <1>10, <1>13, <2>1, <2>2, Guards DEF isForward
  <2>4. QED
    BY <1>3, <1>8, <1>9, <1>10, <2>2, <2>3
<1>14. CASE opWon /\ final
  <2>1. \/ o.op = "completed" /\ o.cred = "issued"
        \/ o.op = "failed" /\ o.cred = "failed"
    BY <1>14, Meanings, Guards DEF o
  <2>2. isForward(1, o.op) <=> ops[1].state \in InFlightStates
    BY <2>1, Guards DEF isForward
  <2>3. credWon <=> ops[1].state \in InFlightStates
    BY <1>3, <1>7, <1>14, <2>1, Guards
  <2>4. 1 \in S <=> ops[1].state \in InFlightStates
    <3>1. CASE found = 1
      BY <1>14, <2>2, <3>1
    <3>2. CASE found # 1
      BY <1>3, <1>4, <1>14, <2>2, <3>2
    <3>3. QED
      BY <3>1, <3>2
  <2>5. QED
    <3> HIDE DEF S, credWon, opWon, offerWon
    <3>1. CASE ops[1].state \in InFlightStates
      BY <1>3, <1>7, <1>8, <1>9, <1>10, <2>1, <2>3, <2>4, <3>1
    <3>2. CASE ops[1].state \notin InFlightStates
      BY <1>3, <1>8, <1>9, <1>10, <2>3, <2>4, <3>2
    <3>3. QED
      BY <3>1, <3>2
<1>15. QED
  <2> HIDE DEF S, credWon, offerWon
  <2>1. QED
    BY <1>11, <1>12, <1>13, <1>14

\* The commit of a run keeps the agreement.
LEMMA AgreeApply ==
    ASSUME TypeInv, OpsInv, AgreeInv,
           NEW p \in Workers \cup Reconcilers \cup IssueCalls, Apply(p)
    PROVE  AgreeInv'
<1>0. p \in Actors /\ p # Offerer /\ proc[p].pc = "apply"
  BY ActorsOf DEF Apply
<1>1. Outside(p)
  <2>1. Finish(p) \/ GoOn(p, "claim", proc[p].st, 0)
    BY DEF Apply
  <2>2. QED
    BY <1>0, <2>1, FinishOutside, GoOnOutside
<1>2. lock = p /\ \A i \in DOMAIN ops : ops[i].type = "offer" <=> i = 1
  BY <1>0 DEF AgreeInv, StageInv
<1>3. 1 \in DOMAIN ops' /\ ops'[1].ext /\ \A i \in DOMAIN ops' : ops'[i].type = "offer" <=> i = 1
  <2>1. credential.ext /\ DOMAIN ops' = DOMAIN ops /\ 1 \in DOMAIN ops
        /\ \A i \in DOMAIN ops : ops'[i].type = ops[i].type /\ ops'[i].ext = ops[i].ext
    BY RunWrites
  <2>2. ops[1].ext
    BY <2>1 DEF AgreeInv, StageInv
  <2>3. QED
    BY <1>2, <2>1, <2>2
<1>4. ops[1].state \in TerminalStates => ops'[1].state \in TerminalStates
  BY RunWrites, Below
<1>5. StageInv'
  <2>1. credential.ext /\ credential'.ext
    BY RunWrites
  <2>2. \A q \in Actors : q # p /\ lock = q => lock' = q
    BY <1>2
  <2>3. QED
    BY <1>0, <1>1, <1>3, <1>4, <2>1, <2>2, StageStep DEF Outside, AgreeInv
<1>6. credential'.state \in {"offered", "issued", "failed"} /\ CredentialAgreesWithOffer'
  <2>1. ops # <<>> /\ credential.state \in {"offered", "issued", "failed"}
    BY RunWrites DEF AgreeInv
  <2>2. /\ credential.state = "issued" <=> ops[1].state = "completed"
        /\ credential.state = "failed" <=> ops[1].state = "failed"
    BY <2>1 DEF AgreeInv, CredentialAgreesWithOffer
  <2>3. QED
    BY <2>1, <2>2, RunWrites, Guards DEF CredentialAgreesWithOffer
<1>7. QED
  BY <1>5, <1>6 DEF AgreeInv

\* A run's start, its lookup and its failure keep the agreement.
LEMMA AgreeRuns ==
    ASSUME TypeInv, OpsInv, AgreeInv, EarlyWebhooks = FALSE,
           \/ \E w \in Workers : StartJob(w)
           \/ \E r \in Reconcilers : reconcile(r)
           \/ \E p \in Workers \cup Reconcilers \cup IssueCalls : LookUp(p) \/ Rollback(p)
    PROVE  AgreeInv'
<1>1. ASSUME NEW w \in Workers, StartJob(w) PROVE AgreeInv'
  <2>1. w \in Actors /\ w # Offerer /\ credential.ext
    BY <1>1, ActorsOf DEF StartJob
  <2>2. PICK s \in queue : Run(w, s, credential.ext, "idle")
    BY <1>1 DEF StartJob
  <2>3. Inside(w)
    BY <2>1, <2>2, Started DEF Inside
  <2>4. UNCHANGED <<credential, ops, lock>>
    BY <1>1 DEF StartJob, rows
  <2>5. QED
    BY <2>1, <2>3, <2>4, AgreeInside
<1>2. ASSUME NEW r \in Reconcilers, reconcile(r) PROVE AgreeInv'
  <2>1. r \in Actors /\ r # Offerer
    BY ActorsOf
  <2>2. exchange.ext /\ credential.ext
    BY <1>2 DEF reconcile, AgreeInv, StageInv
  <2>3. Inside(r)
    BY <1>2, <2>1, Started DEF reconcile, synchronize, Inside
  <2>4. UNCHANGED <<credential, ops, lock>>
    BY <1>2 DEF reconcile, rows
  <2>5. QED
    BY <2>1, <2>2, <2>3, <2>4, AgreeInside
<1>3. ASSUME NEW p \in Workers \cup Reconcilers \cup IssueCalls, LookUp(p) PROVE AgreeInv'
  <2> DEFINE f == findByExternalId(OperationTypes)
  <2>1. p \in Actors /\ p # Offerer /\ proc[p].pc = "lookup"
    BY <1>3, ActorsOf DEF LookUp
  <2>2. StageInv /\ credential.ext /\ proc[p].corr
    BY <2>1, StoredFor DEF AgreeInv, StageInv
  <2>3. /\ 1 \in DOMAIN ops /\ ops[1].ext
        /\ \A i \in DOMAIN ops : ops[i].type = "offer" <=> i = 1
    BY <2>2 DEF StageInv
  <2>4. lock = NoOne /\ lock' = p /\ UNCHANGED <<credential, ops>> /\ GoOn(p, "apply", proc[p].st, f)
    BY <1>3, <2>2 DEF LookUp
  <2>5. f = 0 => ops[1].state \in TerminalStates
    BY <2>3, LookUpNewest
  <2> HIDE DEF f
  <2>6. Alone(p) /\ proc'[p].pc = "apply" /\ proc'[p].op = f /\ proc'[p].corr
    BY <2>1, <2>2, <2>4, Moved
  <2>7. NoOne \notin Actors
    BY ActorsDistinct
  <2>8. StageInv'
    BY <2>1, <2>2, <2>3, <2>4, <2>5, <2>6, <2>7, StageStep
  <2>9. QED
    BY <2>4, <2>8 DEF AgreeInv, CredentialAgreesWithOffer
<1>4. ASSUME NEW p \in Workers \cup Reconcilers \cup IssueCalls, Rollback(p) PROVE AgreeInv'
  <2>1. p \in Actors /\ p # Offerer /\ proc[p].pc = "apply" /\ UNCHANGED <<credential, ops>>
    BY <1>4, ActorsOf DEF Rollback
  <2>2. credential.ext /\ lock = p
    BY <2>1, StoredFor DEF AgreeInv, StageInv
  <2>3. Finish(p) \/ GoOn(p, "uncertain", proc[p].st, proc[p].op)
    BY <1>4 DEF Rollback, Goto
  <2>4. Outside(p)
    BY <2>1, <2>3, FinishOutside, GoOnOutside
  <2>5. QED
    BY <2>1, <2>2, <2>4, RowsSame, AgreeOutside
<1>5. QED
  BY <1>1, <1>2, <1>3, <1>4

\* The steps of an issuance request keep the agreement.
LEMMA AgreeIssue ==
    ASSUME TypeInv, OpsInv, AgreeInv, NEW c \in IssueCalls, Issue(c)
    PROVE  AgreeInv'
<1>0. c \in Actors /\ c # Offerer
  BY ActorsOf
<1>1. credential.ext
  <2>1. proc[c].pc # "idle" \/ exchange.ext
    BY DEF Issue, IssueStart, IssueClaim, AgentIssue, IssueRefused, IssueUnanswered,
           IssueAnswered, IssueUncertain, IssueReopen
  <2>2. QED
    BY <1>0, <2>1, StoredFor DEF AgreeInv, StageInv
<1>2. lock' = lock /\ credential' = credential
  BY DEF Issue, IssueStart, IssueClaim, AgentIssue, IssueRefused, IssueUnanswered,
         IssueAnswered, IssueUncertain, IssueReopen, rows
<1>3. proc[c].pc \in {"issuing", "refused"} => proc[c].op # 1
  BY <1>0 DEF AgreeInv, StageInv
<1>4. ASSUME UNCHANGED ops, Outside(c) PROVE AgreeInv'
  BY <1>0, <1>1, <1>2, <1>4, RowsSame, AgreeOutside
<1>5. CASE IssueStart(c)
  <2>1. UNCHANGED ops /\ (Finish(c) \/ Run(c, remote, TRUE, "claim"))
    BY <1>5 DEF IssueStart, synchronize, rows
  <2>2. CASE Finish(c)
    BY <1>0, <1>4, <2>1, <2>2, FinishOutside
  <2>3. CASE Run(c, remote, TRUE, "claim")
    BY <1>0, <1>1, <1>2, <2>1, <2>3, Started, AgreeInside DEF Inside
  <2>4. QED
    BY <2>1, <2>2, <2>3
<1>6. CASE IssueClaim(c)
  <2> DEFINE row == [type |-> "issue", state |-> "processing", ext |-> TRUE]
             k == Len(ops) + 1
  <2>1. \/ UNCHANGED ops /\ Finish(c)
        \/ ops' = Append(ops, row) /\ GoOn(c, "issuing", proc[c].st, k)
    BY <1>6 DEF IssueClaim
  <2>2. row \in Operation /\ row.type # "offer"
    BY Constants DEF Operation, OperationTypes
  <2> HIDE DEF row
  <2>3. CASE UNCHANGED ops /\ Finish(c)
    BY <1>0, <1>4, <2>3, FinishOutside
  <2>4. CASE ops' = Append(ops, row) /\ GoOn(c, "issuing", proc[c].st, k)
    <3>1. SameOffer /\ k # 1
      BY <1>1, <1>2, <2>2, <2>4, InsertSame
    <3> HIDE DEF k
    <3>2. Outside(c)
      BY <1>0, <2>4, <3>1, GoOnOutside
    <3>3. QED
      BY <1>0, <1>1, <1>2, <3>1, <3>2, AgreeOutside
  <2>5. QED
    BY <2>1, <2>3, <2>4
<1>7. CASE AgentIssue(c) \/ IssueRefused(c) \/ IssueUnanswered(c)
  <2>1. UNCHANGED ops /\ proc[c].op # 1
        /\ \E st : \E pc \in {"answered", "uncertain", "refused"} : GoOn(c, pc, st, proc[c].op)
    BY <1>3, <1>7 DEF AgentIssue, IssueRefused, IssueUnanswered, Goto, rows
  <2>2. QED
    BY <1>0, <1>4, <2>1, GoOnOutside
<1>8. CASE IssueAnswered(c)
  <2>1. /\ UNCHANGED ops
        /\ \/ GoOn(c, "uncertain", proc[c].st, proc[c].op)
           \/ Run(c, proc[c].st, TRUE, "done")
    BY <1>8 DEF IssueAnswered, Goto, synchronize, rows
  <2>2. CASE GoOn(c, "uncertain", proc[c].st, proc[c].op)
    BY <1>0, <1>4, <2>1, <2>2, GoOnOutside
  <2>3. CASE Run(c, proc[c].st, TRUE, "done")
    BY <1>0, <1>1, <1>2, <2>1, <2>3, Started, AgreeInside DEF Inside
  <2>4. QED
    BY <2>1, <2>2, <2>3
<1>9. CASE IssueUncertain(c)
  <2>1. UNCHANGED ops /\ Finish(c)
    BY <1>9 DEF IssueUncertain
  <2>2. QED
    BY <1>0, <1>4, <2>1, FinishOutside
<1>10. CASE IssueReopen(c)
  <2>1. /\ Finish(c) /\ proc[c].op # 1 /\ "failed" \in OperationStates
        /\ ops' = ops \/ ops' = transition({proc[c].op}, "failed")
    BY <1>3, <1>10, Constants DEF IssueReopen
  <2>2. SameOffer
    BY <1>1, <1>2, <2>1, WriteSame
  <2>3. QED
    BY <1>0, <1>1, <1>2, <2>1, <2>2, FinishOutside, AgreeOutside
<1>11. QED
  BY <1>5, <1>6, <1>7, <1>8, <1>9, <1>10 DEF Issue

\* The steps of a holder's request keep the agreement: it never holds the offer.
LEMMA AgreePerform ==
    ASSUME TypeInv, OpsInv, AgreeInv, NEW c \in HolderCalls, Perform(c)
    PROVE  AgreeInv'
<1>0. c \in Actors /\ c # Offerer /\ ActionType(c) \in {"accept", "reject"}
  BY ActorsOf DEF ActionType
<1>1. credential.ext
  <2>1. proc[c].pc # "idle" \/ (ops # <<>> /\ ops[1].ext)
    BY DEF Perform, PerformStart, PerformInsert, PerformWinner, AgentAction, ActionError,
           SettleAction, SettleActionFailure
  <2>2. ops # <<>> => 1 \in DOMAIN ops
    BY OpsFacts
  <2>3. QED
    BY <1>0, <2>1, <2>2, StoredFor DEF AgreeInv, StageInv
<1>2. lock' = lock /\ credential' = credential
  BY DEF Perform, PerformStart, PerformInsert, PerformWinner, AgentAction, ActionError,
         SettleAction, SettleActionFailure, rows
<1>3. proc[c].pc \in {"calling", "settle", "settle-failed"} => proc[c].op # 1
  BY <1>0 DEF AgreeInv, StageInv
<1>4. ASSUME UNCHANGED ops, Outside(c) PROVE AgreeInv'
  BY <1>0, <1>1, <1>2, <1>4, RowsSame, AgreeOutside
<1>5. 1 \in DOMAIN ops /\ ops[1].type = "offer"
  BY <1>1 DEF AgreeInv, StageInv
<1>6. CASE PerformStart(c)
  <2> DEFINE f == findByExternalId({ActionType(c)})
             pc == IF f = 0 THEN "insert" ELSE "calling"
  <2>1. UNCHANGED ops /\ (Finish(c) \/ GoOn(c, pc, None, f))
    BY <1>6 DEF PerformStart, rows
  <2>2. f # 1
    BY <1>0, <1>5, Latest, OpsFacts, LookUpResult
  <2>3. pc \notin {"lookup", "apply"}
    OBVIOUS
  <2> HIDE DEF f, pc
  <2>4. QED
    BY <1>0, <1>4, <2>1, <2>2, <2>3, FinishOutside, GoOnOutside
<1>7. CASE PerformInsert(c)
  <2> DEFINE row == [type |-> ActionType(c), state |-> "pending", ext |-> TRUE]
             k == Len(ops) + 1
  <2>1. \/ UNCHANGED ops /\ GoOn(c, "winner", proc[c].st, proc[c].op)
        \/ ops' = Append(ops, row) /\ GoOn(c, "calling", None, k)
    BY <1>7 DEF PerformInsert, Goto
  <2>2. row \in Operation /\ row.type # "offer"
    BY <1>0, Constants DEF Operation, OperationTypes
  <2> HIDE DEF row
  <2>3. CASE UNCHANGED ops /\ GoOn(c, "winner", proc[c].st, proc[c].op)
    BY <1>0, <1>4, <2>3, GoOnOutside
  <2>4. CASE ops' = Append(ops, row) /\ GoOn(c, "calling", None, k)
    <3>1. SameOffer /\ k # 1
      BY <1>1, <1>2, <2>2, <2>4, InsertSame
    <3> HIDE DEF k
    <3>2. Outside(c)
      BY <1>0, <2>4, <3>1, GoOnOutside
    <3>3. QED
      BY <1>0, <1>1, <1>2, <3>1, <3>2, AgreeOutside
  <2>5. QED
    BY <2>1, <2>3, <2>4
<1>8. CASE PerformWinner(c)
  <2> DEFINE f == findLatestByExternalIdAndType({"accept", "reject"})
  <2>1. UNCHANGED ops /\ (Finish(c) \/ (ops[f].type = ActionType(c) /\ GoOn(c, "calling", None, f)))
    BY <1>8 DEF PerformWinner, rows
  <2> HIDE DEF f
  <2>2. ops[f].type = ActionType(c) => f # 1
    BY <1>0, <1>5
  <2>3. QED
    BY <1>0, <1>4, <2>1, <2>2, FinishOutside, GoOnOutside
<1>9. CASE AgentAction(c) \/ ActionError(c)
  <2>1. UNCHANGED ops /\ proc[c].op # 1
        /\ \E st : \E pc \in {"settle", "settle-failed"} : GoOn(c, pc, st, proc[c].op)
    BY <1>3, <1>9 DEF AgentAction, ActionError, Goto, rows
  <2>2. QED
    BY <1>0, <1>4, <2>1, GoOnOutside
<1>10. CASE SettleAction(c) \/ SettleActionFailure(c)
  <2>1. /\ Finish(c) /\ proc[c].op # 1
        /\ ActionOutcome(c) \in OperationStates /\ "failed" \in OperationStates
        /\ \/ ops' = ops \/ ops' = transition({proc[c].op}, ActionOutcome(c))
           \/ ops' = transition({proc[c].op}, "failed")
    BY <1>3, <1>10, Constants DEF SettleAction, SettleActionFailure, ActionOutcome
  <2>2. SameOffer
    BY <1>1, <1>2, <2>1, WriteSame
  <2>3. QED
    BY <1>0, <1>1, <1>2, <2>1, <2>2, FinishOutside, AgreeOutside
<1>11. QED
  BY <1>6, <1>7, <1>8, <1>9, <1>10 DEF Perform

\* A request that dies keeps the agreement, wherever it stood.
LEMMA AgreeCrash ==
    ASSUME TypeInv, OpsInv, AgreeInv, NEW p \in Actors, Crash(p)
    PROVE  AgreeInv'
<1>1. /\ UNCHANGED <<credential, ops, exchange>> /\ Finish(p) /\ proc[p].pc # "idle"
      /\ lock' = IF lock = p THEN NoOne ELSE lock
  BY DEF Crash
<1>2. CASE p # Offerer
  <2>1. credential.ext
    BY <1>1, <1>2, StoredFor DEF AgreeInv
  <2>2. QED
    BY <1>1, <1>2, <2>1, FinishOutside, RowsSame, AgreeOutside
<1>3. CASE p = Offerer
  <2>1. proc'[p].pc = "done" /\ Alone(p)
    BY <1>1, <1>3, ProcTyped, FinishStep, OffererFacts DEF Alone
  <2>2. StageInv'
    BY <1>1, <1>3, <2>1 DEF AgreeInv, StageInv, Alone
  <2>3. QED
    BY <1>1, <2>2 DEF AgreeInv, CredentialAgreesWithOffer
<1>4. QED
  BY <1>2, <1>3

\* Every step keeps the agreement when no job runs early.
LEMMA AgreeNext ==
    ASSUME EarlyWebhooks = FALSE, TypeInv, OpsInv, AgreeInv, [Next]_vars
    PROVE  AgreeInv'
<1>1. CASE UNCHANGED vars \/ \E m \in AgentSteps : AgentMoves(m[1], m[2])
  <2>1. UNCHANGED <<credential, ops, exchange, lock, proc>>
    BY <1>1 DEF vars, AgentMoves, rows
  <2>2. QED
    BY <2>1 DEF AgreeInv, StageInv, CredentialAgreesWithOffer
<1>2. QED
  BY <1>1, AgreeCreateOffer, AgreeOffering, AgreeRecordOffer, AgreeRecordOfferFailure,
     AgreeApply, AgreeRuns, AgreeIssue, AgreePerform, AgreeCrash
     DEF Next, Offer, Process

\* It holds before the offer request.
LEMMA AgreeInit == Init => AgreeInv
<1> SUFFICES ASSUME Init PROVE AgreeInv
  OBVIOUS
<1>1. /\ ~credential.ext /\ ~exchange.ext /\ credential.state = "offered" /\ ops = <<>>
      /\ \A p \in Actors : proc[p].pc = "idle"
  BY DEF Init, Idle
<1>2. QED
  BY <1>1 DEF AgreeInv, StageInv, CredentialAgreesWithOffer

\* When jobs wait until the external id is stored, the credential and the
\* offer end together and the same way, for any number of job runs, reconciles,
\* issuance requests and holder requests.
THEOREM CredentialAgrees ==
    ASSUME EarlyWebhooks = FALSE PROVE Spec => []CredentialAgreesWithOffer
<1>1. TypeInv /\ SafetyInv /\ AgreeInv /\ [Next]_vars => AgreeInv'
  BY AgreeNext DEF SafetyInv
<1>2. AgreeInv => CredentialAgreesWithOffer
  BY DEF AgreeInv
<1>3. QED
  BY <1>1, <1>2, AgreeInit, Reachable, PTL DEF Spec

-----------------------------------------------------------------------------
(* The end of an exchange without holder requests *)

\* Only the claimed issue operation, while it is claimed, is in flight beside
\* the offer; and what a run looked up is still what it would find, because
\* every writer of the operations waits for the exchange row.
CurrentInv ==
    /\ \A i \in DOMAIN ops : i > 1 /\ ops[i].state \in InFlightStates =>
          i = exchange.issueOp /\ exchange.sub # "not-submitted"
    /\ \A p \in Actors :
          proc[p].pc = "apply" => proc[p].op = findByExternalId(OperationTypes)

\* The exchange is over here: its row has reached the end and nothing under
\* the external id is in flight.
Closed ==
    /\ credential.ext
    /\ STATE_RANK(exchange.state) >= 4
    /\ \A i \in DOMAIN ops : ops[i].ext => ops[i].state \in TerminalStates

\* How many jobs told the tenant how the credential ended.
Ends == outbox["credential.issued"] + outbox["credential.rejected"]

\* The agent's last report is queued until the exchange is over here, the
\* tenant is told an end only then, and only once.
EndInv ==
    /\ remote # None /\ ~credential.ext => remote \in queue
    /\ remote \in {"done", "abandoned"} /\ remote \notin queue => Closed
    /\ Ends > 0 => Closed
    /\ Ends <= 1

\* A step that leaves the operations and the claim alone.
LEMMA CurrentStep ==
    ASSUME CurrentInv, NEW p \in Actors, Alone(p), UNCHANGED ops,
           exchange'.issueOp = exchange.issueOp,
           exchange.sub # "not-submitted" => exchange'.sub # "not-submitted",
           proc'[p].pc = "apply" => proc'[p].op = findByExternalId(OperationTypes)
    PROVE  CurrentInv'
<1>1. findByExternalId(OperationTypes)' = findByExternalId(OperationTypes)
  BY DEF findByExternalId
<1>2. \A q \in Actors : proc'[q].pc = "apply" => proc'[q].op = findByExternalId(OperationTypes)
  BY DEF CurrentInv, Alone
<1>3. QED
  BY <1>1, <1>2 DEF CurrentInv

\* A step of an actor for whom the exchange row is free, or its own.
LEMMA NooneApplies ==
    ASSUME AgreeInv, NEW p \in Actors, Alone(p), lock \in {NoOne, p}, proc'[p].pc # "apply"
    PROVE  \A q \in Actors : proc'[q].pc # "apply"
<1>1. NoOne \notin Actors
  BY ActorsDistinct
<1>2. QED
  BY <1>1 DEF AgreeInv, StageInv, Alone

\* Operations that do not move back cannot be in flight again.
LEMMA StaysSettled ==
    ASSUME TypeInv, TypeInv', Forward, NEW i \in DOMAIN ops
    PROVE  /\ ops[i].state \in TerminalStates => ops'[i].state \in TerminalStates
           /\ ops'[i].state \in InFlightStates => ops[i].state \in InFlightStates
<1>1. ops[i].state \in OperationStates
  BY TypeFacts DEF Operation
<1>2. i \in DOMAIN ops' /\ ops' \in Seq(Operation)
  BY TypeSplitNext DEF TypeInv, Forward, RowsType
<1>3. ops'[i].state \in OperationStates
  <2>1. ops'[i] \in Operation
    BY <1>2
  <2>2. QED
    BY <2>1 DEF Operation
<1>4. QED
  BY <1>1, <1>3, Below DEF Forward

\* The offer request's steps keep CurrentInv.
LEMMA CurrentOffer ==
    ASSUME TypeInv, OpsInv, AgreeInv, AgreeInv', CurrentInv, Offer
    PROVE  CurrentInv'
<1>1. /\ proc[Offerer].pc # "done" /\ Alone(Offerer)
      /\ proc'[Offerer].pc \notin {"lookup", "apply"}
  <2>1. proc[Offerer].pc # "done"
    BY DEF Offer, CreateOffer, AgentOffer, OfferAnswer, OfferError, RecordOffer,
                      RecordOfferFailure
  <2>2. \/ Finish(Offerer)
        \/ \E st, op : \E pc \in {"offering", "offered", "record", "failed"} :
              GoOn(Offerer, pc, st, op)
    BY DEF Offer, CreateOffer, AgentOffer, OfferAnswer, OfferError, RecordOffer,
                      RecordOfferFailure, Goto
  <2>3. QED
    BY <2>1, <2>2, OffererFacts, FinishOutside, Moved DEF Outside
<1>2. \A p \in Actors : proc'[p].pc # "apply"
  BY <1>1 DEF AgreeInv, StageInv, Alone
<1>3. \A i \in DOMAIN ops' : i = 1
  <2>1. \A i \in DOMAIN ops : i = 1
    BY <1>1 DEF AgreeInv, StageInv
  <2>2. DOMAIN ops' = DOMAIN ops \/ DOMAIN ops' = {1}
    <3>1. CASE CreateOffer
      BY <3>1 DEF CreateOffer
    <3>2. CASE AgentOffer \/ OfferAnswer \/ OfferError
      BY <3>2 DEF AgentOffer, OfferAnswer, OfferError, rows
    <3>3. CASE RecordOffer
      <4> DEFINE st == IssueCredentialOutcome(proc[Offerer].st).op
      <4>1. st \in OperationStates
        BY OutcomeType
      <4>2. ops' = ops \/ ops' = [transition({1}, st) EXCEPT ![1].ext = TRUE]
        BY <3>3 DEF RecordOffer
      <4> HIDE DEF st
      <4>3. QED
        BY <4>1, <4>2, OpsFacts, TransitionRows, StoreExternalId
    <3>4. CASE RecordOfferFailure
      BY <3>4, OpsFacts, TransitionRows, Constants DEF RecordOfferFailure
    <3>5. QED
      BY <3>1, <3>2, <3>3, <3>4 DEF Offer
  <2>3. QED
    BY <2>1, <2>2
<1>4. QED
  BY <1>2, <1>3 DEF CurrentInv

\* The steps of a run keep it.
LEMMA CurrentProcess ==
    ASSUME TypeInv, TypeInv', OpsInv, AgreeInv, CurrentInv, Forward,
           NEW p \in Workers \cup Reconcilers \cup IssueCalls, Process(p)
    PROVE  CurrentInv'
<1>0. p \in Actors /\ p # Offerer
  BY ActorsOf
<1>1. CASE LookUp(p)
  <2> DEFINE f == findByExternalId(OperationTypes)
  <2>1. GoOn(p, "apply", proc[p].st, f) /\ UNCHANGED <<ops, exchange>>
    BY <1>1 DEF LookUp
  <2> HIDE DEF f
  <2>2. Alone(p) /\ proc'[p].op = f
    BY <1>0, <2>1, Moved
  <2>3. QED
    BY <1>0, <2>1, <2>2, CurrentStep DEF f
<1>2. CASE Rollback(p)
  <2>1. UNCHANGED <<ops, exchange>> /\ (Finish(p) \/ GoOn(p, "uncertain", proc[p].st, proc[p].op))
    BY <1>2 DEF Rollback, Goto
  <2>2. Outside(p)
    BY <1>0, <2>1, FinishOutside, GoOnOutside
  <2>3. QED
    BY <1>0, <2>1, <2>2, CurrentStep DEF Outside
<1>3. CASE Apply(p)
  <2>1. proc[p].pc = "apply" /\ (Finish(p) \/ GoOn(p, "claim", proc[p].st, 0))
    BY <1>3 DEF Apply
  <2>2. Outside(p) /\ lock = p /\ proc[p].corr
    BY <1>0, <2>1, FinishOutside, GoOnOutside DEF AgreeInv, StageInv
  <2>3. \A q \in Actors : proc'[q].pc # "apply"
    BY <1>0, <2>2, NooneApplies DEF Outside
  <2>4. /\ exchange'.issueOp = exchange.issueOp
        /\ exchange.sub # "not-submitted" => exchange'.sub # "not-submitted"
    <3>1. proc[p].st \in ProtocolStates
      BY <1>0, <2>1, TypeFacts DEF AgentKnown
    <3>2. exchange' = observe(proc[p].st)
      BY <1>3, <2>2 DEF Apply
    <3>3. QED
      BY <3>1, <3>2, Observed
  <2>5. DOMAIN ops' = DOMAIN ops
    BY <1>3, RunWrites
  <2>6. QED
    BY <2>3, <2>4, <2>5, StaysSettled DEF CurrentInv
<1>4. QED
  BY <1>1, <1>2, <1>3 DEF Process

\* The steps of an issuance request keep it: a claim adds the one operation
\* and needs that none was claimed, a refusal fails it before it reopens.
LEMMA CurrentIssue ==
    ASSUME TypeInv, OpsInv, AgreeInv, CurrentInv, NEW c \in IssueCalls, Issue(c)
    PROVE  CurrentInv'
<1>0. /\ c \in Actors /\ c # Offerer
      /\ exchange \in [state : ExchangeStates, ext : BOOLEAN, sub : Submissions, issueOp : Nat]
  BY ActorsOf, ExchangeFacts
<1>1. CASE IssueClaim(c)
  <2> DEFINE row == [type |-> "issue", state |-> "processing", ext |-> TRUE]
             k == Len(ops) + 1
  <2>1. /\ lock = NoOne
        /\ \/ UNCHANGED <<ops, exchange>> /\ Finish(c)
           \/ /\ exchange.sub = "not-submitted"
              /\ ops' = Append(ops, row)
              /\ exchange' = [exchange EXCEPT !.sub = "submitting", !.issueOp = k]
              /\ GoOn(c, "issuing", proc[c].st, k)
    BY <1>1 DEF IssueClaim
  <2>2. CASE UNCHANGED <<ops, exchange>> /\ Finish(c)
    BY <1>0, <2>2, FinishOutside, CurrentStep DEF Outside
  <2>3. CASE /\ exchange.sub = "not-submitted"
             /\ ops' = Append(ops, row)
             /\ exchange' = [exchange EXCEPT !.sub = "submitting", !.issueOp = k]
             /\ GoOn(c, "issuing", proc[c].st, k)
    <3>1. row \in Operation
      BY Constants DEF Operation, OperationTypes
    <3>2. /\ ops \in Seq(Operation) /\ told \in [DOMAIN ops -> Nat]
          /\ Len(ops) \in Nat /\ DOMAIN ops = 1..Len(ops)
      BY TypeFacts DEF RowsType
    <3> HIDE DEF row
    <3>3. DOMAIN ops' = 1..k /\ \A i \in DOMAIN ops : ops'[i] = ops[i]
      BY <2>3, <3>1, <3>2, AppendType
    <3>4. exchange'.issueOp = k /\ exchange'.sub = "submitting"
      <4> HIDE DEF k
      <4>1. QED
        BY <1>0, <2>3
    <3>5. \A i \in DOMAIN ops' : i \in DOMAIN ops \/ i = k
      BY <3>2, <3>3
    <3> HIDE DEF k
    <3>6. Alone(c) /\ proc'[c].pc = "issuing"
      BY <1>0, <2>3, Moved
    <3>7. \A q \in Actors : proc'[q].pc # "apply"
      BY <1>0, <2>1, <3>6, NooneApplies
    <3>8. QED
      BY <2>3, <3>3, <3>4, <3>5, <3>7 DEF CurrentInv
  <2>4. QED
    BY <2>1, <2>2, <2>3
<1>2. CASE IssueReopen(c)
  <2> DEFINE mine == proc[c].op
  <2>1. /\ lock = NoOne /\ Finish(c)
        /\ \/ UNCHANGED <<ops, exchange>>
           \/ /\ exchange.issueOp = mine
              /\ ops' = transition({mine}, "failed")
              /\ exchange' = [exchange EXCEPT !.sub = "not-submitted"]
    BY <1>2 DEF IssueReopen
  <2>2. Outside(c)
    BY <1>0, <2>1, FinishOutside
  <2>3. CASE UNCHANGED <<ops, exchange>>
    BY <1>0, <2>2, <2>3, CurrentStep DEF Outside
  <2>4. CASE /\ exchange.issueOp = mine
             /\ ops' = transition({mine}, "failed")
    <3>1. \A q \in Actors : proc'[q].pc # "apply"
      BY <1>0, <2>1, <2>2, NooneApplies DEF Outside
    <3> HIDE DEF mine
    <3>2. /\ DOMAIN ops' = DOMAIN ops
          /\ \A i \in DOMAIN ops :
                ops'[i].state = IF i \in {mine} THEN "failed" ELSE ops[i].state
      BY <2>4, OpsFacts, TransitionRows, Constants
    <3>3. \A i \in DOMAIN ops' : i > 1 => ops'[i].state \notin InFlightStates
      BY <2>4, <3>2, Guards DEF CurrentInv
    <3>4. QED
      BY <3>1, <3>3 DEF CurrentInv
  <2>5. QED
    BY <2>1, <2>3, <2>4
<1>3. CASE \/ IssueStart(c) \/ AgentIssue(c) \/ IssueRefused(c) \/ IssueUnanswered(c)
           \/ IssueAnswered(c) \/ IssueUncertain(c)
  <2>1. /\ UNCHANGED ops /\ exchange'.issueOp = exchange.issueOp
        /\ exchange.sub # "not-submitted" => exchange'.sub # "not-submitted"
    BY <1>0, <1>3 DEF IssueStart, AgentIssue, IssueRefused, IssueUnanswered, IssueAnswered,
                      IssueUncertain, setSubmission, rows
  <2>2. \/ Finish(c) \/ (\E s, next : Run(c, s, TRUE, next))
        \/ \E st, op : \E pc \in {"answered", "uncertain", "refused"} : GoOn(c, pc, st, op)
    BY <1>3
       DEF IssueStart, AgentIssue, IssueRefused, IssueUnanswered, IssueAnswered,
           IssueUncertain, Goto, synchronize
  <2>3. Alone(c) /\ proc'[c].pc # "apply"
    <3>1. CASE Finish(c)
      BY <1>0, <3>1, FinishOutside DEF Outside
    <3>2. CASE \E s, next : Run(c, s, TRUE, next)
      BY <1>0, <3>2, Started
    <3>3. CASE \E st, op : \E pc \in {"answered", "uncertain", "refused"} : GoOn(c, pc, st, op)
      BY <1>0, <3>3, Moved
    <3>4. QED
      BY <2>2, <3>1, <3>2, <3>3
  <2>4. QED
    BY <1>0, <2>1, <2>3, CurrentStep
<1>4. QED
  BY <1>1, <1>2, <1>3 DEF Issue

\* Every step keeps it when there is no holder request.
LEMMA CurrentNext ==
    ASSUME EarlyWebhooks = FALSE, HolderCalls = {}, TypeInv, TypeInv', OpsInv,
           AgreeInv, AgreeInv', CurrentInv, Forward, [Next]_vars
    PROVE  CurrentInv'
<1>1. CASE UNCHANGED vars \/ \E m \in AgentSteps : AgentMoves(m[1], m[2])
  <2>1. UNCHANGED <<ops, exchange, proc>>
    BY <1>1 DEF vars, AgentMoves, rows
  <2>2. QED
    BY <2>1 DEF CurrentInv, findByExternalId
<1>2. CASE \/ \E w \in Workers : StartJob(w)
           \/ \E r \in Reconcilers : reconcile(r)
           \/ \E p \in Actors : Crash(p)
  <2>1. UNCHANGED <<ops, exchange>>
    BY <1>2 DEF StartJob, reconcile, Crash, rows
  <2>2. \E p \in Actors : Finish(p) \/ (\E s, corr, next : Run(p, s, corr, next))
    BY <1>2, ActorsOf DEF StartJob, reconcile, Crash, synchronize
  <2>3. \E p \in Actors : Alone(p) /\ proc'[p].pc # "apply"
    BY <2>2, FinishOutside, Started DEF Outside
  <2>4. QED
    BY <2>1, <2>3, CurrentStep
<1>3. QED
  BY <1>1, <1>2, CurrentOffer, CurrentProcess, CurrentIssue DEF Next

\* A report means an end exactly from the states that end the exchange row.
LEMMA EndReports ==
    ASSUME NEW s
    PROVE  /\ IssueCredentialOutcome(s).op \in TerminalStates => STATE_RANK(s) >= 4
           /\ s \in {"done", "abandoned"} => IssueCredentialOutcome(s).op \in TerminalStates
  BY Ranks DEF IssueCredentialOutcome, TerminalStates

\* The two events that tell an end are events, and counted.
LEMMA EndsType ==
    ASSUME TypeInv
    PROVE  /\ {"credential.issued", "credential.rejected"} \subseteq Events
           /\ outbox["credential.issued"] \in Nat /\ outbox["credential.rejected"] \in Nat
           /\ Ends \in Nat
<1>1. outbox \in [Events -> Nat]
  BY TypeFacts DEF RowsType
<1>2. {"credential.issued", "credential.rejected"} \subseteq Events
  BY DEF Events
<1>3. QED
  BY <1>1, <1>2 DEF Ends

\* A transaction that tells neither end.
LEMMA NoEndSent ==
    ASSUME TypeInv, NEW E, NEW S, sendInTransaction(E, S),
           E \cap {"credential.issued", "credential.rejected"} = {}
    PROVE  Ends' = Ends
<1>1. /\ outbox'["credential.issued"] = outbox["credential.issued"]
      /\ outbox'["credential.rejected"] = outbox["credential.rejected"]
  BY EndsType, Sent
<1>2. QED
  BY <1>1 DEF Ends

\* A transaction that tells at most one.
LEMMA OneEndSent ==
    ASSUME TypeInv, NEW E, NEW S, sendInTransaction(E, S),
           ~ ({"credential.issued", "credential.rejected"} \subseteq E)
    PROVE  Ends' <= Ends + 1
<1>1. /\ outbox'["credential.issued"] =
            IF "credential.issued" \in E THEN outbox["credential.issued"] + 1
            ELSE outbox["credential.issued"]
      /\ outbox'["credential.rejected"] =
            IF "credential.rejected" \in E THEN outbox["credential.rejected"] + 1
            ELSE outbox["credential.rejected"]
  BY EndsType, Sent
<1>2. QED
  BY <1>1, EndsType DEF Ends

\* A step that reports nothing, acknowledges nothing and tells no end.
LEMMA EndStep ==
    ASSUME EndInv, UNCHANGED <<remote, queue>>, Ends' = Ends, Closed => Closed',
           credential.ext => credential'.ext
    PROVE  EndInv'
  BY DEF EndInv

\* What is over stays over while no operation is added and the row moves up.
LEMMA ClosedStays ==
    ASSUME TypeInv, TypeInv', Forward, Closed, credential'.ext, DOMAIN ops' = DOMAIN ops,
           \A i \in DOMAIN ops : ops'[i].ext = ops[i].ext,
           STATE_RANK(exchange'.state) >= STATE_RANK(exchange.state)
    PROVE  Closed'
<1>1. STATE_RANK(exchange'.state) \in 0..5 /\ STATE_RANK(exchange.state) \in 0..5
  BY Ranks
<1>2. \A i \in DOMAIN ops' : ops'[i].ext => ops'[i].state \in TerminalStates
  BY StaysSettled DEF Closed
<1>3. QED
  BY <1>1, <1>2 DEF Closed

\* The offer's answer ends the exchange, and tells it, when it reports an end.
LEMMA EndRecordOffer ==
    ASSUME TypeInv, OpsInv, AgreeInv, AgreeInv', EndInv, RecordOffer
    PROVE  EndInv'
<1> DEFINE s == proc[Offerer].st
           o == IssueCredentialOutcome(s)
           E == requestReceived(s) \cup (IF o.op \in TerminalStates THEN {o.event} ELSE {})
<1>1. /\ s \in ProtocolStates /\ exchange' = observe(s)
      /\ ops' = [transition({1}, o.op) EXCEPT ![1].ext = TRUE]
      /\ credential' = [ext |-> TRUE, state |-> IF o.cred # None THEN o.cred ELSE "offered"]
      /\ \E S : sendInTransaction(E, S)
  BY OfferRecorded
<1>2. /\ ~credential.ext /\ credential'.ext /\ UNCHANGED <<remote, queue>>
      /\ \A i \in DOMAIN ops : i = 1
  <2>1. proc[Offerer].pc = "record" /\ UNCHANGED <<remote, queue>>
    BY DEF RecordOffer, agent
  <2>2. credential'.ext
    BY <1>1
  <2>3. QED
    BY <2>1, <2>2 DEF AgreeInv, StageInv
<1>3. Ends = 0 /\ (remote # None => remote \in queue)
  BY <1>2, EndsType DEF EndInv, Closed
<1>4. Ends' <= 1
  <2>1. ~ ({"credential.issued", "credential.rejected"} \subseteq E)
    BY DEF requestReceived
  <2> HIDE DEF E
  <2>2. QED
    BY <1>1, <1>3, <2>1, OneEndSent
<1>5. CASE o.op \in TerminalStates
  <2>1. STATE_RANK(exchange'.state) >= 4
    BY <1>1, <1>5, EndReports, Observed
  <2>2. \A i \in DOMAIN ops' : ops'[i].state \in TerminalStates
    <3>1. o.op \in OperationStates
      BY OutcomeType
    <3> DEFINE t == transition({1}, o.op)
    <3> HIDE DEF o
    <3>2. /\ t \in Seq(Operation) /\ DOMAIN t = DOMAIN ops
          /\ \A i \in DOMAIN ops : t[i].state = IF i \in {1} THEN o.op ELSE ops[i].state
      BY <3>1, OpsFacts, TransitionRows
    <3>3. ops' = [t EXCEPT ![1].ext = TRUE]
      BY <1>1
    <3> HIDE DEF t
    <3>4. QED
      BY <1>2, <1>5, <3>2, <3>3, StoreExternalId
  <2>3. Closed'
    BY <1>2, <2>1, <2>2 DEF Closed
  <2>4. QED
    BY <1>2, <1>4, <2>3 DEF EndInv
<1>6. CASE o.op \notin TerminalStates
  <2>1. E \cap {"credential.issued", "credential.rejected"} = {}
    BY <1>6 DEF requestReceived
  <2> HIDE DEF E
  <2>2. Ends' = 0
    BY <1>1, <1>3, <2>1, NoEndSent
  <2>3. remote \notin {"done", "abandoned"} \/ remote \in queue
    BY <1>3 DEF None
  <2>4. QED
    BY <1>2, <2>2, <2>3 DEF EndInv
<1>7. QED
  BY <1>5, <1>6

\* The other steps of the offer request tell no end.
LEMMA EndOffering ==
    ASSUME TypeInv, OpsInv, AgreeInv, AgreeInv', EndInv,
           \/ CreateOffer \/ AgentOffer \/ OfferAnswer \/ OfferError \/ RecordOfferFailure
    PROVE  EndInv'
<1>1. ~credential.ext /\ ~Closed
  <2>1. proc[Offerer].pc # "done"
    BY DEF CreateOffer, AgentOffer, OfferAnswer, OfferError, RecordOfferFailure
  <2>2. QED
    BY <2>1 DEF AgreeInv, StageInv, Closed
<1>2. Ends' = Ends
  <2>1. CASE RecordOfferFailure
    <3>1. \/ UNCHANGED outbox
          \/ \E E, S : /\ E \cap {"credential.issued", "credential.rejected"} = {}
                       /\ sendInTransaction(E, S)
      BY <2>1 DEF RecordOfferFailure, jobs
    <3>2. QED
      BY <3>1, NoEndSent DEF Ends
  <2>2. CASE CreateOffer \/ AgentOffer \/ OfferAnswer \/ OfferError
    BY <2>2 DEF CreateOffer, AgentOffer, OfferAnswer, OfferError, jobs, Ends
  <2>3. QED
    BY <2>1, <2>2
<1>3. \/ UNCHANGED <<remote, queue>>
      \/ remote' = "offer-sent" /\ queue' = queue \cup {"offer-sent"}
  BY DEF CreateOffer, AgentOffer, OfferAnswer, OfferError, RecordOfferFailure, agent
<1>4. CASE UNCHANGED <<remote, queue>>
  BY <1>1, <1>2, <1>4, EndStep
<1>5. CASE remote' = "offer-sent" /\ queue' = queue \cup {"offer-sent"}
  BY <1>1, <1>2, <1>5 DEF EndInv
<1>6. QED
  BY <1>3, <1>4, <1>5

\* The commit of a run that reports an end leaves nothing in flight under the
\* external id: it settles the operation it found, which is still the newest,
\* and with it the offer, and beside those two there is none.
LEMMA RunEnds ==
    ASSUME TypeInv, OpsInv, AgreeInv, CurrentInv,
           NEW p \in Workers \cup Reconcilers \cup IssueCalls, Apply(p),
           IssueCredentialOutcome(proc[p].st).op \in TerminalStates
    PROVE  \A i \in DOMAIN ops' : ops'[i].ext => ops'[i].state \in TerminalStates
<1> DEFINE o == IssueCredentialOutcome(proc[p].st)
           found == proc[p].op
           opWon == found # 0 /\ isForward(found, o.op)
           offerWon == /\ opWon /\ o.op \in TerminalStates
                       /\ ops[found].type \in {"accept", "issue", "reject"}
                       /\ credential.ext /\ isForward(1, o.op)
           S == (IF opWon THEN {found} ELSE {}) \cup (IF offerWon THEN {1} ELSE {})
<1>1. p \in Actors /\ p # Offerer /\ proc[p].pc = "apply" /\ ops' = transition(S, o.op)
  BY ActorsOf DEF Apply
<1>2. /\ credential.ext /\ 1 \in DOMAIN ops
      /\ \A i \in DOMAIN ops : ops[i].type = "offer" <=> i = 1
      /\ ops \in Seq(Operation) /\ \A i \in DOMAIN ops : ops[i] \in Operation
      /\ \A i \in DOMAIN ops : i \in Nat /\ i >= 1
  <2>1. credential.ext
    BY <1>1, StoredFor DEF AgreeInv
  <2>2. 1 \in DOMAIN ops /\ \A i \in DOMAIN ops : ops[i].type = "offer" <=> i = 1
    BY <2>1 DEF AgreeInv, StageInv
  <2>3. \A i \in DOMAIN ops : ops[i] \in Operation
    BY TypeFacts
  <2>4. ops \in Seq(Operation) /\ \A i \in DOMAIN ops : i \in Nat /\ i >= 1
    BY OpsFacts
  <2>5. QED
    BY <2>1, <2>2, <2>3, <2>4
<1>3. /\ found = 0 => \A i \in DOMAIN ops : ops[i].ext => ops[i].state \in TerminalStates
      /\ found # 0 => /\ found \in DOMAIN ops /\ ops[found].state \in InFlightStates
                      /\ \A i \in DOMAIN ops :
                            ops[i].ext /\ ops[i].state \in InFlightStates => i <= found
  <2>1. found = findByExternalId(OperationTypes)
    BY <1>1 DEF CurrentInv
  <2>2. QED
    BY <2>1, LookUpNewest
<1>4. o.op \in OperationStates /\ o.op \in TerminalStates
  BY OutcomeType
<1>5. \A i : isForward(i, o.op) <=> ops[i].state \in InFlightStates
  BY <1>4, Below DEF isForward
<1> HIDE DEF o, found
<1>6. /\ DOMAIN ops' = DOMAIN ops
      /\ \A i \in DOMAIN ops : /\ ops'[i].ext = ops[i].ext
                               /\ ops'[i].state = IF i \in S THEN o.op ELSE ops[i].state
  <2> HIDE DEF S
  <2>1. ops \in Seq(Operation) /\ ops' = transition(S, o.op) /\ o.op \in OperationStates
    BY <1>1, <1>2, <1>4
  <2>2. QED
    BY <2>1, TransitionRows
<1>7. ASSUME NEW i \in DOMAIN ops, ops[i].ext, ops[i].state \in InFlightStates
      PROVE  i \in S
  <2>1. found # 0
    BY <1>3, <1>7, Below
  <2>2. opWon /\ found \in DOMAIN ops /\ ops[found].state \in InFlightStates /\ i <= found
    BY <1>3, <1>5, <1>7, <2>1
  <2>3. CASE i = found
    BY <2>2, <2>3
  <2>4. CASE i # found
    <3>1. found > 1 /\ found = exchange.issueOp
      BY <1>2, <2>2, <2>4 DEF CurrentInv
    <3>2. i = 1
      BY <1>2, <1>7, <2>4, <3>1 DEF CurrentInv
    <3>3. ops[found].type \in {"accept", "issue", "reject"}
      BY <1>2, <2>2, <3>1 DEF Operation, OperationTypes
    <3>4. offerWon
      BY <1>2, <1>4, <1>5, <1>7, <2>2, <3>2, <3>3
    <3>5. QED
      BY <3>2, <3>4
  <2>5. QED
    BY <2>3, <2>4
<1>8. ASSUME NEW i \in DOMAIN ops', ops'[i].ext PROVE ops'[i].state \in TerminalStates
  <2>1. i \in DOMAIN ops /\ ops[i].ext
        /\ (ops[i].state \in TerminalStates \/ ops[i].state \in InFlightStates)
    BY <1>2, <1>6, <1>8, Below DEF Operation
  <2> HIDE DEF S
  <2>2. QED
    BY <1>4, <1>6, <1>7, <2>1
<1>9. QED
  BY <1>8

\* After the end a run finds nothing to settle and tells nothing.
LEMMA RunTells ==
    ASSUME TypeInv, OpsInv, AgreeInv, CurrentInv,
           NEW p \in Workers \cup Reconcilers \cup IssueCalls, Apply(p)
    PROVE  /\ Closed => Ends' = Ends
           /\ IssueCredentialOutcome(proc[p].st).op \notin TerminalStates => Ends' = Ends
           /\ Ends' <= Ends + 1
<1> DEFINE s == proc[p].st
           o == IssueCredentialOutcome(s)
           found == proc[p].op
           final == o.op \in TerminalStates
           opWon == found # 0 /\ isForward(found, o.op)
           offerWon == /\ opWon /\ final
                       /\ ops[found].type \in {"accept", "issue", "reject"}
                       /\ credential.ext /\ isForward(1, o.op)
           credWon == /\ found = 0 \/ opWon
                      /\ o.cred # None /\ credential.ext
                      /\ credential.state \in credentialStatesBelow(o.cred)
           event == CASE o.event = None -> "issue_credential.progress"
                      [] /\ o.event = "credential.issued"
                         /\ found # 0 /\ ops[found].type = "accept" -> "credential.accepted"
                      [] OTHER -> o.event
           E == (IF proc[p].corr THEN requestReceived(s) ELSE {}) \cup
                (IF offerWon THEN {"operation.offer.settled"} ELSE {}) \cup
                (IF opWon \/ credWon THEN {event} ELSE {})
           Both == {"credential.issued", "credential.rejected"}
<1>1. p \in Actors /\ proc[p].pc = "apply" /\ \E T : sendInTransaction(E, T)
  BY ActorsOf DEF Apply
<1>2. Both \cap E \subseteq {event} /\ (~opWon /\ ~credWon => Both \cap E = {})
  <2> HIDE DEF opWon, credWon, offerWon, event
  <2>1. QED
    BY DEF requestReceived
<1>3. ~final => event \notin Both
  BY Meanings, Guards
<1>4. Closed => ~opWon /\ ~credWon
  <2>1. SUFFICES ASSUME Closed PROVE ~opWon /\ ~credWon
    OBVIOUS
  <2>2. found = findByExternalId(OperationTypes)
    BY <1>1 DEF CurrentInv
  <2>3. found = 0
    BY <2>1, <2>2, LookUpNewest, Below DEF Closed
  <2>4. credential.state # "offered"
    <3>1. 1 \in DOMAIN ops /\ ops[1].ext /\ ops # <<>>
      BY <2>1 DEF Closed, AgreeInv, StageInv
    <3>2. ops[1].state \in {"completed", "failed"}
      BY <2>1, <3>1, Guards DEF Closed
    <3>3. QED
      BY <3>1, <3>2 DEF AgreeInv, CredentialAgreesWithOffer
  <2>5. QED
    BY <2>3, <2>4, Meanings, Guards
<1> HIDE DEF E, event, opWon, credWon
<1>5. ~ (Both \subseteq E)
  BY <1>2
<1>6. (Closed \/ ~final) => E \cap Both = {}
  BY <1>2, <1>3, <1>4
<1> HIDE DEF final
<1>7. (Closed \/ ~final) => Ends' = Ends
  BY <1>1, <1>6, NoEndSent
<1>8. Ends' <= Ends + 1
  BY <1>1, <1>5, OneEndSent
<1>9. QED
  BY <1>7, <1>8 DEF final

\* The commit of a run keeps EndInv: it acknowledges the agent's last report
\* only after the exchange is over here, and tells an end only then.
LEMMA EndApply ==
    ASSUME TypeInv, TypeInv', OpsInv, AgreeInv, AgreeInv', CurrentInv, EndInv, Forward,
           NEW p \in Workers \cup Reconcilers \cup IssueCalls, Apply(p)
    PROVE  EndInv'
<1> DEFINE s == proc[p].st
           final == IssueCredentialOutcome(s).op \in TerminalStates
<1>1. p \in Actors /\ proc[p].pc = "apply" /\ UNCHANGED remote /\ queue \ {s} \subseteq queue'
  <2>1. p \in Actors /\ proc[p].pc = "apply" /\ UNCHANGED remote
    BY ActorsOf DEF Apply, agent
  <2>2. queue' \in {queue, queue \ {s}}
    BY DEF Apply
  <2>3. QED
    BY <2>1, <2>2
<1>2. s \in ProtocolStates /\ proc[p].corr
  BY <1>1, TypeFacts DEF AgentKnown, AgreeInv, StageInv
<1>3. exchange' = observe(s)
  BY <1>2 DEF Apply
<1>4. /\ credential.ext /\ credential'.ext /\ DOMAIN ops' = DOMAIN ops
      /\ \A i \in DOMAIN ops : ops'[i].ext = ops[i].ext
  BY RunWrites
<1>5. Closed => Closed'
  BY <1>2, <1>3, <1>4, Observed, ClosedStays
<1>6. final => Closed'
  BY <1>2, <1>3, <1>4, EndReports, Observed, RunEnds DEF Closed
<1>7. /\ Closed => Ends' = Ends
      /\ ~final => Ends' = Ends
      /\ Ends' <= Ends + 1
  BY RunTells
<1>8. s \in {"done", "abandoned"} => final
  BY EndReports
<1> HIDE DEF s, final
<1>9. Ends' > 0 => Closed'
  BY <1>5, <1>6, <1>7, EndsType DEF EndInv
<1>10. Ends' <= 1
  BY <1>7, EndsType DEF EndInv
<1>11. remote' \in {"done", "abandoned"} /\ remote' \notin queue' => Closed'
  BY <1>1, <1>5, <1>6, <1>8 DEF EndInv
<1>12. QED
  BY <1>4, <1>9, <1>10, <1>11 DEF EndInv

\* The start, the lookup and the failure of a run, and a crash, write no row.
LEMMA EndRuns ==
    ASSUME EndInv,
           \/ \E w \in Workers : StartJob(w)
           \/ \E r \in Reconcilers : reconcile(r)
           \/ \E p \in Workers \cup Reconcilers \cup IssueCalls : LookUp(p) \/ Rollback(p)
           \/ \E p \in Actors : Crash(p)
    PROVE  EndInv'
<1>1. UNCHANGED <<remote, queue, exchange, credential, ops, outbox>>
  BY DEF StartJob, reconcile, LookUp, Rollback, Crash, agent, rows, jobs
<1>2. QED
  BY <1>1 DEF EndInv, Closed, Ends

\* An issuance request tells no end, and claims nothing after one: the claim
\* needs a row that still stands at the holder's request.
LEMMA EndIssue ==
    ASSUME TypeInv, TypeInv', OpsInv, AgreeInv, EndInv, Forward,
           NEW c \in IssueCalls, Issue(c)
    PROVE  EndInv'
<1>0. /\ c \in Actors /\ c # Offerer
      /\ exchange \in [state : ExchangeStates, ext : BOOLEAN, sub : Submissions, issueOp : Nat]
  BY ActorsOf, ExchangeFacts
<1>1. CASE IssueClaim(c)
  <2>1. UNCHANGED <<remote, queue, credential, outbox>>
    BY <1>1 DEF IssueClaim, agent
  <2>2. Closed => UNCHANGED <<exchange, ops>>
    BY <1>1, Ranks DEF IssueClaim, Closed
  <2>3. QED
    BY <2>1, <2>2, EndStep DEF Closed, Ends
<1>2. CASE AgentIssue(c)
  <2>1. /\ UNCHANGED <<exchange, credential, ops, outbox>> /\ remote' \in queue'
    BY <1>2 DEF AgentIssue, rows, jobs
  <2>2. QED
    BY <2>1 DEF EndInv, Closed, Ends
<1>3. CASE IssueReopen(c)
  <2> DEFINE mine == proc[c].op
  <2>1. /\ UNCHANGED <<remote, queue, credential>>
        /\ ops' = ops \/ ops' = transition({mine}, "failed")
        /\ exchange'.state = exchange.state
        /\ \E E, S : /\ sendInTransaction(E, S)
                     /\ E \cap {"credential.issued", "credential.rejected"} = {}
    BY <1>0, <1>3 DEF IssueReopen, agent
  <2>2. Ends' = Ends
    BY <2>1, NoEndSent
  <2> HIDE DEF mine
  <2>3. DOMAIN ops' = DOMAIN ops /\ \A i \in DOMAIN ops : ops'[i].ext = ops[i].ext
    BY <2>1, OpsFacts, TransitionRows, Constants
  <2>4. Closed => Closed'
    <3>1. Closed => credential'.ext
      BY <2>1 DEF Closed
    <3>2. STATE_RANK(exchange'.state) >= STATE_RANK(exchange.state)
      BY <2>1, Ranks
    <3>3. QED
      BY <2>3, <3>1, <3>2, ClosedStays
  <2>5. QED
    BY <2>1, <2>2, <2>4, EndStep
<1>4. CASE \/ IssueStart(c) \/ IssueRefused(c) \/ IssueUnanswered(c)
           \/ IssueAnswered(c) \/ IssueUncertain(c)
  <2>1. UNCHANGED <<remote, queue, credential, ops, outbox>> /\ exchange'.state = exchange.state
    BY <1>0, <1>4 DEF IssueStart, IssueRefused, IssueUnanswered, IssueAnswered,
                      IssueUncertain, setSubmission, agent, rows, jobs
  <2>2. QED
    BY <2>1, EndStep DEF Closed, Ends
<1>5. QED
  BY <1>1, <1>2, <1>3, <1>4 DEF Issue

\* Every step keeps EndInv when there is no holder request.
LEMMA EndNext ==
    ASSUME HolderCalls = {}, TypeInv, TypeInv', OpsInv,
           AgreeInv, AgreeInv', CurrentInv, EndInv, Forward, [Next]_vars
    PROVE  EndInv'
<1>1. CASE UNCHANGED vars
  <2>1. UNCHANGED <<remote, queue, exchange, credential, ops, outbox>>
    BY <1>1 DEF vars, agent, rows, jobs
  <2>2. QED
    BY <2>1 DEF EndInv, Closed, Ends
<1>2. ASSUME NEW m \in AgentSteps, AgentMoves(m[1], m[2]) PROVE EndInv'
  <2>1. UNCHANGED <<exchange, credential, ops, outbox>> /\ remote' \in queue'
    BY <1>2 DEF AgentMoves, rows, jobs
  <2>2. QED
    BY <2>1 DEF EndInv, Closed, Ends
<1>3. QED
  BY <1>1, <1>2, EndRecordOffer, EndOffering, EndApply, EndRuns, EndIssue
     DEF Next, Offer, Process

\* CurrentInv and EndInv hold before the offer request.
LEMMA EndInit == Init => CurrentInv /\ EndInv
<1> SUFFICES ASSUME Init PROVE CurrentInv /\ EndInv
  OBVIOUS
<1>1. /\ ~credential.ext /\ remote = None /\ ops = <<>>
      /\ \A p \in Actors : proc[p].pc = "idle"
  BY DEF Init, Idle
<1>2. outbox["credential.issued"] = 0 /\ outbox["credential.rejected"] = 0
  BY DEF Init, Events
<1>3. QED
  BY <1>1, <1>2 DEF CurrentInv, EndInv, Ends, None

\* All of it holds in every reachable state.
LEMMA Concluded ==
    ASSUME EarlyWebhooks = FALSE, HolderCalls = {}
    PROVE  Spec => [](TypeInv /\ AgreeInv /\ CurrentInv /\ EndInv)
<1> DEFINE I == AgreeInv /\ CurrentInv /\ EndInv
<1>1. Init => I
  BY AgreeInit, EndInit
<1>2. TypeInv /\ SafetyInv /\ SettlementToldOnce /\ I /\ TypeInv' /\ [Next]_vars => I'
  <2>1. SUFFICES ASSUME TypeInv, SafetyInv, SettlementToldOnce, I, TypeInv', [Next]_vars
                 PROVE  I'
    OBVIOUS
  <2>2. OpsInv
    BY <2>1 DEF SafetyInv
  <2>3. Forward
    BY <2>1, <2>2, SettlementStep
  <2>4. AgreeInv'
    BY <2>1, <2>2, AgreeNext
  <2>5. CurrentInv'
    BY <2>1, <2>2, <2>3, <2>4, CurrentNext
  <2>6. EndInv'
    BY <2>1, <2>2, <2>3, <2>4, EndNext
  <2>7. QED
    BY <2>4, <2>5, <2>6
<1> HIDE DEF I
<1>3. Spec => []I
  BY <1>1, <1>2, Reachable, SettlementDispatched, PTL DEF Spec
<1>4. I <=> AgreeInv /\ CurrentInv /\ EndInv
  BY DEF I
<1>5. QED
  BY <1>3, <1>4, Reachable, PTL

\* Without holder requests, and when jobs wait until the external id is
\* stored, nothing the agent knows of stays in flight once its last report is
\* processed, for any number of job runs, reconciles and issuance requests.
THEOREM SettledAtTheEnd ==
    ASSUME EarlyWebhooks = FALSE, HolderCalls = {} PROVE Spec => []SettledWhenDrained
<1>1. EndInv => SettledWhenDrained
  BY DEF EndInv, Closed, SettledWhenDrained
<1>2. QED
  BY <1>1, Concluded, PTL

\* Nor is the tenant then told two ends of one credential.
THEOREM OneOutcome ==
    ASSUME EarlyWebhooks = FALSE, HolderCalls = {} PROVE Spec => []OutcomeNotContradicted
<1>1. TypeInv /\ EndInv => OutcomeNotContradicted
  BY EndsType DEF EndInv, Ends, OutcomeNotContradicted
<1>2. QED
  BY <1>1, Concluded, PTL

\* In particular the offer a client polls settles: what an accept of the
\* holder's can prevent happens whenever there is none.
THEOREM OfferSettles ==
    ASSUME EarlyWebhooks = FALSE, HolderCalls = {} PROVE Spec => []OfferSettledWhenDrained
<1>1. TypeInv /\ SettledWhenDrained => OfferSettledWhenDrained
  <2>1. TypeInv /\ ops # <<>> => 1 \in DOMAIN ops
    BY TypeFacts DEF RowsType
  <2>2. QED
    BY <2>1 DEF SettledWhenDrained, OfferSettledWhenDrained
<1>2. QED
  BY <1>1, Concluded, SettledAtTheEnd, PTL

=============================================================================
