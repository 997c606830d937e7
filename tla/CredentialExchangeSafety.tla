---------------------- MODULE CredentialExchangeSafety ----------------------
(*****************************************************************************)
(* What holds of CredentialExchange for any number of workers, reconcilers,  *)
(* issuance requests and holder requests, and for jobs that run before the   *)
(* offer's external id is stored as well as after: operations only move      *)
(* forward and every settlement is told exactly once, the agent is made to   *)
(* issue at most once, and the holder's request is announced at most once.   *)
(* It ends with the stages an exchange passes when jobs wait for that id.    *)
(*****************************************************************************)
EXTENDS CredentialExchangeTypes

\* Zenon is tried first; arithmetic and most of the sequences are left to SMT.
USE ZenonT(15), SMTT(30)

-----------------------------------------------------------------------------
(* Issuance *)

\* The issuance request whose claim is still open: it has claimed the
\* exchange and has not yet written what became of the submission.
Claimer(c) ==
    \/ proc[c].pc \in {"issuing", "answered", "refused", "uncertain"}
    \/ proc[c].pc \in {"lookup", "apply"} /\ proc[c].then = "done"

\* At most one claim is open; while one is, and once the agent has issued, the
\* exchange is not open to another; and a request that is about to submit, or
\* was refused, is not one after an issuance.
IssueInv ==
    /\ \A c, d \in IssueCalls : Claimer(c) /\ Claimer(d) => c = d
    /\ \A c \in IssueCalls : Claimer(c) => exchange.sub # "not-submitted"
    /\ issued > 0 => exchange.sub # "not-submitted"
    /\ \A c \in IssueCalls : proc[c].pc \in {"issuing", "refused"} => issued = 0
    /\ issued <= 1

\* Once the agent has a record the offer's row exists.
LEMMA OfferExists ==
    ASSUME TypeInv, OpsInv, remote # None
    PROVE  proc[Offerer].pc # "idle" /\ Len(ops) \in Nat /\ Len(ops) >= 1
<1>1. ops \in Seq(Operation) /\ Len(ops) \in Nat
  BY TypeFacts DEF RowsType
<1>2. ops # <<>>
  BY DEF OpsInv
<1>3. QED
  BY <1>1, <1>2 DEF OpsInv

\* A step of an actor other than the offer request keeps OpsInv when it keeps
\* the operations and p holds one of them wherever it needs to.
LEMMA OpsStep ==
    ASSUME TypeInv, OpsInv, remote # None, NEW p \in Actors, p # Offerer,
           \A q \in Actors : q # p => proc'[q] = proc[q],
           ops' \in Seq(Operation), Len(ops') \in Nat, Len(ops) <= Len(ops'),
           proc'[p].op \in 0..Len(ops'),
           proc'[p].pc \in {"issuing", "refused", "calling", "settle", "settle-failed"} =>
              proc'[p].op # 0
    PROVE  OpsInv'
<1>1. proc[Offerer].pc # "idle" /\ Len(ops) \in Nat /\ Len(ops) >= 1
  BY OfferExists
<1>2. ops' # <<>>
  BY <1>1
<1>3. proc'[Offerer] = proc[Offerer]
  BY Constants
<1>4. ASSUME NEW q \in Actors
      PROVE  /\ proc'[q].op \in 0..Len(ops')
             /\ proc'[q].pc \in {"issuing", "refused", "calling", "settle",
                                 "settle-failed"} => proc'[q].op # 0
  <2>1. CASE q = p
    BY <2>1
  <2>2. CASE q # p
    BY <1>1, <2>2 DEF OpsInv
  <2>3. QED
    BY <2>1, <2>2
<1>5. QED
  BY <1>1, <1>2, <1>3, <1>4 DEF OpsInv

\* A step that issues nothing, opens no claim and reopens no exchange keeps
\* IssueInv.
LEMMA IssueStep ==
    ASSUME IssueInv, NEW p \in Actors,
           \A q \in Actors : q # p => proc'[q] = proc[q],
           issued' = issued,
           exchange.sub # "not-submitted" => exchange'.sub # "not-submitted",
           p \in IssueCalls => /\ Claimer(p)' => Claimer(p)
                               /\ proc'[p].pc \in {"issuing", "refused"} => issued = 0
    PROVE  IssueInv'
<1>1. IssueCalls \subseteq Actors
  BY Constants
<1>2. \A c \in IssueCalls : Claimer(c)' => Claimer(c)
  <2>1. ASSUME NEW c \in IssueCalls, c # p PROVE Claimer(c)' => Claimer(c)
    BY <1>1, <2>1 DEF Claimer
  <2>2. QED
    BY <2>1
<1>3. \A c \in IssueCalls : proc'[c].pc \in {"issuing", "refused"} => issued = 0
  BY <1>1 DEF IssueInv
<1> HIDE DEF Claimer
<1>4. QED
  BY <1>2, <1>3 DEF IssueInv

\* What a run of process, or a request's end, does to the submission.
LEMMA ObserveSub ==
    ASSUME TypeInv, NEW s
    PROVE  exchange.sub # "not-submitted" => observe(s).sub # "not-submitted"
<1>1. exchange \in [state : ExchangeStates, ext : BOOLEAN,
                    sub : Submissions, issueOp : Nat]
  BY TypeFacts DEF RowsType
<1>2. QED
  BY <1>1 DEF observe

\* A guarded UPDATE keeps the number of operations.
LEMMA SameLength ==
    ASSUME TypeInv, NEW S, NEW st \in OperationStates,
           \/ ops' = ops \/ ops' = transition(S, st)
           \/ ops' = [transition(S, st) EXCEPT ![1].ext = TRUE]
    PROVE  ops' \in Seq(Operation) /\ Len(ops') = Len(ops)
<1>1. ops \in Seq(Operation)
  BY TypeFacts DEF RowsType
<1>2. transition(S, st) \in Seq(Operation) /\ Len(transition(S, st)) = Len(ops)
  BY <1>1, TransitionRows
<1> HIDE DEF transition
<1>3. QED
  BY <1>1, <1>2, StoreExternalId

\* The two invariants together.
SafetyInv == OpsInv /\ IssueInv

\* The state before the first request satisfies both.
LEMMA SafetyInit == Init => SafetyInv
  BY Constants DEF Init, SafetyInv, OpsInv, IssueInv, Claimer, Idle

\* What the type invariant says of the local states.
LEMMA ProcTyped == TypeInv => proc \in [Actors -> Proc] /\ AgentKnown
  BY TypeFacts

\* What the type invariant says of the operations.
LEMMA OpsFacts ==
    TypeInv => ops \in Seq(Operation) /\ Len(ops) \in Nat /\ DOMAIN ops = 1..Len(ops)
  BY TypeFacts DEF RowsType

\* What the type invariant says of the exchange.
LEMMA ExchangeFacts ==
    TypeInv => exchange \in [state : ExchangeStates, ext : BOOLEAN,
                             sub : Submissions, issueOp : Nat]
  BY TypeFacts DEF RowsType

\* The offer request is one actor, and no issuance request.
LEMMA OffererFacts ==
    Offerer \in Actors /\ Offerer \notin IssueCalls /\ Finished(Offerer) = "done"
  BY Constants, ActorsDistinct DEF Finished

\* A step of an actor other than the offer request that keeps the operations,
\* issues nothing, opens no claim and reopens no exchange keeps both.
LEMMA ActorStep ==
    ASSUME TypeInv, OpsInv, IssueInv, remote # None, NEW p \in Actors, p # Offerer,
           \A q \in Actors : q # p => proc'[q] = proc[q],
           ops' \in Seq(Operation), Len(ops') \in Nat, Len(ops) <= Len(ops'),
           proc'[p].op \in {0, proc[p].op} \/ proc'[p].op \in 0..Len(ops'),
           proc'[p].pc \in {"issuing", "refused", "calling", "settle", "settle-failed"} =>
              proc'[p].op # 0,
           issued' = issued,
           exchange.sub # "not-submitted" => exchange'.sub # "not-submitted",
           p \in IssueCalls => /\ Claimer(p)' => Claimer(p)
                               /\ proc'[p].pc \in {"issuing", "refused"} => issued = 0
    PROVE  OpsInv' /\ IssueInv'
<1>1. proc'[p].op \in 0..Len(ops')
  <2>1. Len(ops) \in Nat /\ proc[p].op \in 0..Len(ops)
    BY TypeFacts DEF OpsInv
  <2>2. QED
    BY <2>1
<1>2. OpsInv'
  BY <1>1, OpsStep
<1>3. IssueInv'
  BY IssueStep
<1>4. QED
  BY <1>2, <1>3

\* The same for a step that leaves the rows alone.
LEMMA QuietStep ==
    ASSUME TypeInv, OpsInv, IssueInv, remote # None, NEW p \in Actors, p # Offerer,
           \A q \in Actors : q # p => proc'[q] = proc[q],
           UNCHANGED <<ops, issued, exchange>>,
           proc'[p].op \in {0, proc[p].op} \/ proc'[p].op \in 0..Len(ops),
           proc'[p].pc \in {"issuing", "refused", "calling", "settle", "settle-failed"} =>
              proc'[p].op # 0,
           p \in IssueCalls => /\ Claimer(p)' => Claimer(p)
                               /\ proc'[p].pc \in {"issuing", "refused"} => issued = 0
    PROVE  OpsInv' /\ IssueInv'
<1>1. /\ ops' \in Seq(Operation) /\ Len(ops') \in Nat /\ Len(ops') = Len(ops)
      /\ Len(ops) <= Len(ops')
  BY OpsFacts
<1>2. QED
  BY <1>1, ActorStep

\* CreateOffer keeps both.
LEMMA SafeCreateOffer ==
    ASSUME TypeInv, OpsInv, IssueInv, CreateOffer
    PROVE  OpsInv' /\ IssueInv'
<1>1. /\ proc'[Offerer].pc = "offering" /\ proc'[Offerer].op = proc[Offerer].op
      /\ \A q \in Actors : q # Offerer => proc'[q] = proc[q]
  BY ProcTyped, OffererFacts, GotoStep, TypeFacts, Constants DEF CreateOffer
<1>2. Len(ops) = 0 /\ Len(ops') = 1 /\ ops' # <<>>
  BY DEF CreateOffer, OpsInv
<1>3. \A q \in Actors : proc[q].op = 0 /\ proc'[q].op = 0
  BY OffererFacts, <1>1, <1>2 DEF OpsInv
<1>4. \A q \in Actors : proc'[q].pc \notin {"issuing", "refused", "calling", "settle",
                                            "settle-failed"}
  BY <1>1, <1>3 DEF OpsInv
<1>7. OpsInv'
  BY <1>1, <1>2, <1>3, <1>4 DEF OpsInv
<1>8. IssueInv'
  <2>1. issued' = issued /\ (exchange.sub # "not-submitted" => exchange'.sub # "not-submitted")
    BY ExchangeFacts, ObserveSub DEF CreateOffer, agent, rows
  <2>2. QED
    BY OffererFacts, <1>1, <2>1, IssueStep
<1>9. QED
  BY <1>7, <1>8

\* AgentOffer keeps both.
LEMMA SafeAgentOffer ==
    ASSUME TypeInv, OpsInv, IssueInv, AgentOffer
    PROVE  OpsInv' /\ IssueInv'
<1>1. /\ proc'[Offerer].pc \in {"offered"} /\ proc'[Offerer].op \in {0, proc[Offerer].op}
      /\ \A q \in Actors : q # Offerer => proc'[q] = proc[q]
  BY ProcTyped, OffererFacts, GotoStep, TypeFacts, Constants DEF AgentOffer
<1>2. ops # <<>> /\ Len(ops') = Len(ops) /\ ops' # <<>>
  BY DEF AgentOffer, OpsInv, rows
<1>7. OpsInv'
  BY OffererFacts, OpsFacts, <1>1, <1>2 DEF OpsInv
<1>8. IssueInv'
  <2>1. issued' = issued /\ (exchange.sub # "not-submitted" => exchange'.sub # "not-submitted")
    BY ExchangeFacts, ObserveSub DEF AgentOffer, agent, rows
  <2>2. QED
    BY OffererFacts, <1>1, <2>1, IssueStep
<1>9. QED
  BY <1>7, <1>8

\* OfferAnswer keeps both.
LEMMA SafeOfferAnswer ==
    ASSUME TypeInv, OpsInv, IssueInv, OfferAnswer
    PROVE  OpsInv' /\ IssueInv'
<1>1. /\ proc'[Offerer].pc \in {"record"} /\ proc'[Offerer].op \in {0, proc[Offerer].op}
      /\ \A q \in Actors : q # Offerer => proc'[q] = proc[q]
  <2>1. GoOn(Offerer, "record", remote, 0)
    BY DEF OfferAnswer
  <2>2. "record" \in ProcStates /\ remote \in ProtocolStates \cup {None}
    BY TypeFacts, Constants
  <2>3. QED
    BY ProcTyped, OffererFacts, <2>1, <2>2, GoOnStep
<1>2. ops # <<>> /\ Len(ops') = Len(ops) /\ ops' # <<>>
  BY DEF OfferAnswer, OpsInv, rows
<1>7. OpsInv'
  BY OffererFacts, OpsFacts, <1>1, <1>2 DEF OpsInv
<1>8. IssueInv'
  <2>1. issued' = issued /\ (exchange.sub # "not-submitted" => exchange'.sub # "not-submitted")
    BY ExchangeFacts, ObserveSub DEF OfferAnswer, agent, rows
  <2>2. QED
    BY OffererFacts, <1>1, <2>1, IssueStep
<1>9. QED
  BY <1>7, <1>8

\* OfferError keeps both.
LEMMA SafeOfferError ==
    ASSUME TypeInv, OpsInv, IssueInv, OfferError
    PROVE  OpsInv' /\ IssueInv'
<1>1. /\ proc'[Offerer].pc \in {"failed"} /\ proc'[Offerer].op \in {0, proc[Offerer].op}
      /\ \A q \in Actors : q # Offerer => proc'[q] = proc[q]
  BY ProcTyped, OffererFacts, GotoStep, TypeFacts, Constants DEF OfferError
<1>2. ops # <<>> /\ Len(ops') = Len(ops) /\ ops' # <<>>
  BY DEF OfferError, OpsInv, rows
<1>7. OpsInv'
  BY OffererFacts, OpsFacts, <1>1, <1>2 DEF OpsInv
<1>8. IssueInv'
  <2>1. issued' = issued /\ (exchange.sub # "not-submitted" => exchange'.sub # "not-submitted")
    BY ExchangeFacts, ObserveSub DEF OfferError, agent, rows
  <2>2. QED
    BY OffererFacts, <1>1, <2>1, IssueStep
<1>9. QED
  BY <1>7, <1>8

\* RecordOffer keeps both.
LEMMA SafeRecordOffer ==
    ASSUME TypeInv, OpsInv, IssueInv, RecordOffer
    PROVE  OpsInv' /\ IssueInv'
<1>1. /\ proc'[Offerer].pc = "done" /\ proc'[Offerer].op \in {0, proc[Offerer].op}
      /\ \A q \in Actors : q # Offerer => proc'[q] = proc[q]
  BY ProcTyped, OffererFacts, FinishStep, TypeFacts, Constants DEF RecordOffer
<1>2. ops # <<>> /\ Len(ops') = Len(ops) /\ ops' # <<>>
  <2> DEFINE st == IssueCredentialOutcome(proc[Offerer].st).op
  <2>1. st \in OperationStates
    BY OutcomeType
  <2>2. ops' = ops \/ ops' = [transition({1}, st) EXCEPT ![1].ext = TRUE]
    BY DEF RecordOffer
  <2> HIDE DEF st
  <2>3. ops # <<>>
    BY DEF RecordOffer, OpsInv
  <2>4. Len(ops') = Len(ops) /\ ops' \in Seq(Operation)
    BY <2>1, <2>2, SameLength
  <2>5. QED
    BY OpsFacts, <2>3, <2>4
<1>7. OpsInv'
  BY OffererFacts, OpsFacts, <1>1, <1>2 DEF OpsInv
<1>8. IssueInv'
  <2>1. issued' = issued /\ (exchange.sub # "not-submitted" => exchange'.sub # "not-submitted")
    BY ExchangeFacts, ObserveSub DEF RecordOffer, agent, rows
  <2>2. QED
    BY OffererFacts, <1>1, <2>1, IssueStep
<1>9. QED
  BY <1>7, <1>8

\* RecordOfferFailure keeps both.
LEMMA SafeRecordOfferFailure ==
    ASSUME TypeInv, OpsInv, IssueInv, RecordOfferFailure
    PROVE  OpsInv' /\ IssueInv'
<1>1. /\ proc'[Offerer].pc = "done" /\ proc'[Offerer].op \in {0, proc[Offerer].op}
      /\ \A q \in Actors : q # Offerer => proc'[q] = proc[q]
  BY ProcTyped, OffererFacts, FinishStep, TypeFacts, Constants DEF RecordOfferFailure
<1>2. ops # <<>> /\ Len(ops') = Len(ops) /\ ops' # <<>>
  <2>1. "failed" \in OperationStates
    BY Constants
  <2>2. ops' = ops \/ ops' = transition({1}, "failed")
    BY DEF RecordOfferFailure
  <2>3. ops # <<>>
    BY DEF RecordOfferFailure, OpsInv
  <2>4. Len(ops') = Len(ops) /\ ops' \in Seq(Operation)
    BY <2>1, <2>2, SameLength
  <2>5. QED
    BY OpsFacts, <2>3, <2>4
<1>7. OpsInv'
  BY OffererFacts, OpsFacts, <1>1, <1>2 DEF OpsInv
<1>8. IssueInv'
  <2>1. issued' = issued /\ (exchange.sub # "not-submitted" => exchange'.sub # "not-submitted")
    BY ExchangeFacts, ObserveSub DEF RecordOfferFailure, agent, rows
  <2>2. QED
    BY OffererFacts, <1>1, <2>1, IssueStep
<1>9. QED
  BY <1>7, <1>8

\* StartJob keeps both.
LEMMA SafeStartJob ==
    ASSUME TypeInv, OpsInv, IssueInv, NEW p \in Workers, StartJob(p)
    PROVE  OpsInv' /\ IssueInv'
<1>0. p \in Actors /\ p # Offerer /\ remote # None
  BY ProcTyped, AtWork, ActorsOf DEF StartJob, AgentKnown
<1>1. /\ proc'[p].pc = "lookup" /\ proc'[p].op = 0 /\ proc'[p].then = "idle"
      /\ \A q \in Actors : q # p => proc'[q] = proc[q]
  <2>1. PICK s \in queue : Run(p, s, credential.ext, "idle")
    BY DEF StartJob
  <2>2. s \in ProtocolStates /\ credential.ext \in BOOLEAN
    BY TypeFacts DEF RowsType
  <2>3. QED
    BY ProcTyped, <1>0, <2>1, <2>2, RunStep, Constants
<1>2. UNCHANGED <<ops, issued, exchange>>
  BY DEF StartJob, agent, rows
<1>3. p \notin IssueCalls
  BY ActorsDistinct
<1>4. QED
  BY <1>0, <1>1, <1>2, <1>3, QuietStep

\* reconcile keeps both.
LEMMA SafeReconcile ==
    ASSUME TypeInv, OpsInv, IssueInv, NEW p \in Reconcilers, reconcile(p)
    PROVE  OpsInv' /\ IssueInv'
<1>0. p \in Actors /\ p # Offerer /\ remote # None
  BY ProcTyped, AtWork, ActorsOf DEF reconcile, AgentKnown
<1>1. /\ proc'[p].pc = "lookup" /\ proc'[p].op = 0 /\ proc'[p].then = "idle"
      /\ \A q \in Actors : q # p => proc'[q] = proc[q]
  BY ProcTyped, OpsFacts, <1>0, RunStep, TypeFacts, Constants DEF reconcile, synchronize
<1>2. UNCHANGED <<ops, issued, exchange>>
  BY DEF reconcile, agent, rows
<1>3. p \notin IssueCalls
  BY ActorsDistinct
<1>4. QED
  BY <1>0, <1>1, <1>2, <1>3, QuietStep

\* LookUp keeps both.
LEMMA SafeLookUp ==
    ASSUME LatestExists, TypeInv, OpsInv, IssueInv, NEW p \in Workers \cup Reconcilers \cup IssueCalls, LookUp(p)
    PROVE  OpsInv' /\ IssueInv'
<1>0. p \in Actors /\ p # Offerer /\ remote # None
  BY ProcTyped, AtWork, ActorsOf DEF LookUp
<1>1. /\ proc'[p].pc = "apply" /\ proc'[p].op \in 0..Len(ops) /\ proc'[p].then = proc[p].then
      /\ \A q \in Actors : q # p => proc'[q] = proc[q]
  <2>1. GoOn(p, "apply", proc[p].st, findByExternalId(OperationTypes))
    BY DEF LookUp
  <2>2. findByExternalId(OperationTypes) \in 0..Len(ops)
    BY OpsFacts, LookUpResult
  <2>3. findByExternalId(OperationTypes) \in Nat
    BY OpsFacts, <2>2
  <2>4. "apply" \in ProcStates /\ proc[p].st \in ProtocolStates \cup {None}
    BY <1>0, TypeFacts, Constants
  <2> DEFINE found == findByExternalId(OperationTypes)
  <2> HIDE DEF found
  <2>5. /\ proc'[p].pc = "apply" /\ proc'[p].op = found /\ proc'[p].then = proc[p].then
        /\ \A q \in Actors : q # p => proc'[q] = proc[q]
    BY ProcTyped, <1>0, <2>1, <2>3, <2>4, GoOnStep DEF found
  <2>6. QED
    BY <2>2, <2>5 DEF found
<1>2. UNCHANGED <<ops, issued, exchange>>
  BY DEF LookUp, agent, rows
<1>3. p \in IssueCalls => /\ Claimer(p)' => Claimer(p)
                          /\ proc'[p].pc \in {"issuing", "refused"} => issued = 0
  BY <1>0, <1>1 DEF LookUp, Claimer, IssueInv
<1>4. QED
  BY <1>0, <1>1, <1>2, <1>3, QuietStep

\* Apply keeps both.
LEMMA SafeApply ==
    ASSUME TypeInv, OpsInv, IssueInv, NEW p \in Workers \cup Reconcilers \cup IssueCalls, Apply(p)
    PROVE  OpsInv' /\ IssueInv'
<1>0. p \in Actors /\ p # Offerer /\ remote # None
  BY ProcTyped, AtWork, ActorsOf DEF Apply
<1>1. /\ proc'[p].pc \in {"idle", "done", "claim"} /\ proc'[p].op = 0
      /\ \A q \in Actors : q # p => proc'[q] = proc[q]
  <2>1. CASE Finish(p)
    BY ProcTyped, <1>0, <2>1, FinishStep
  <2>2. CASE GoOn(p, "claim", proc[p].st, 0)
    <3>1. "claim" \in ProcStates /\ proc[p].st \in ProtocolStates \cup {None} /\ 0 \in Nat
      BY <1>0, TypeFacts, Constants
    <3>2. QED
      BY ProcTyped, <1>0, <2>2, <3>1, GoOnStep
  <2>3. QED
    BY <2>1, <2>2 DEF Apply
<1>2. ops' \in Seq(Operation) /\ Len(ops') \in Nat /\ Len(ops) <= Len(ops')
  <2> DEFINE st == IssueCredentialOutcome(proc[p].st).op
  <2>1. st \in OperationStates
    BY OutcomeType
  <2>2. \E S : ops' = transition(S, st)
    BY DEF Apply
  <2> HIDE DEF st
  <2>3. QED
    BY OpsFacts, <2>1, <2>2, SameLength
<1>3. issued' = issued /\ (exchange.sub # "not-submitted" => exchange'.sub # "not-submitted")
  <2>1. exchange' = observe(proc[p].st) \/ exchange' = exchange
    BY DEF Apply
  <2>2. QED
    BY <2>1, ObserveSub DEF Apply, agent
<1>4. p \in IssueCalls => /\ Claimer(p)' => Claimer(p)
                          /\ proc'[p].pc \in {"issuing", "refused"} => issued = 0
  BY <1>1 DEF Claimer
<1>5. QED
  BY OpsFacts, <1>0, <1>1, <1>2, <1>3, <1>4, ActorStep

\* Rollback keeps both.
LEMMA SafeRollback ==
    ASSUME TypeInv, OpsInv, IssueInv, NEW p \in Workers \cup Reconcilers \cup IssueCalls, Rollback(p)
    PROVE  OpsInv' /\ IssueInv'
<1>0. p \in Actors /\ p # Offerer /\ remote # None
  BY ProcTyped, AtWork, ActorsOf DEF Rollback
<1>1. /\ \/ proc'[p].pc = "uncertain" /\ proc[p].then = "done"
         \/ proc'[p].pc \in {"idle", "done"}
      /\ proc'[p].op \in {0, proc[p].op}
      /\ \A q \in Actors : q # p => proc'[q] = proc[q]
  <2>1. CASE Finish(p)
    BY ProcTyped, <1>0, <2>1, FinishStep
  <2>2. CASE Goto(p, "uncertain") /\ proc[p].then = "done"
    BY ProcTyped, <1>0, <2>2, GotoStep, Constants
  <2>3. QED
    BY <2>1, <2>2 DEF Rollback
<1>2. UNCHANGED <<ops, issued, exchange>>
  BY DEF Rollback, agent, rows
<1>3. p \in IssueCalls => /\ Claimer(p)' => Claimer(p)
                          /\ proc'[p].pc \in {"issuing", "refused"} => issued = 0
  BY <1>0, <1>1 DEF Rollback, Claimer, IssueInv
<1>4. QED
  BY <1>0, <1>1, <1>2, <1>3, QuietStep

\* IssueStart keeps both.
LEMMA SafeIssueStart ==
    ASSUME TypeInv, OpsInv, IssueInv, NEW p \in IssueCalls, IssueStart(p)
    PROVE  OpsInv' /\ IssueInv'
<1>0. p \in Actors /\ p # Offerer /\ remote # None
  BY ProcTyped, AtWork, ActorsOf DEF IssueStart, AgentKnown
<1>1. /\ \/ proc'[p].pc \in {"idle", "done"}
         \/ proc'[p].pc = "lookup" /\ proc'[p].then = "claim"
      /\ proc'[p].op = 0
      /\ \A q \in Actors : q # p => proc'[q] = proc[q]
  <2>1. CASE Finish(p)
    BY ProcTyped, <1>0, <2>1, FinishStep
  <2>2. CASE synchronize(p, remote, "claim")
    BY ProcTyped, <1>0, <2>2, RunStep, TypeFacts, Constants DEF synchronize
  <2>3. QED
    BY <2>1, <2>2 DEF IssueStart
<1>2. UNCHANGED <<ops, issued, exchange>>
  BY DEF IssueStart, agent, rows
<1>3. p \in IssueCalls => /\ Claimer(p)' => Claimer(p)
                          /\ proc'[p].pc \in {"issuing", "refused"} => issued = 0
  BY <1>0, <1>1 DEF IssueStart, Claimer, IssueInv
<1>4. QED
  BY <1>0, <1>1, <1>2, <1>3, QuietStep

\* IssueRefused keeps both.
LEMMA SafeIssueRefused ==
    ASSUME TypeInv, OpsInv, IssueInv, NEW p \in IssueCalls, IssueRefused(p)
    PROVE  OpsInv' /\ IssueInv'
<1>0. p \in Actors /\ p # Offerer /\ remote # None
  BY ProcTyped, AtWork, ActorsOf DEF IssueRefused
<1>1. /\ proc'[p].pc = "refused" /\ proc'[p].op = proc[p].op /\ proc[p].op # 0
      /\ \A q \in Actors : q # p => proc'[q] = proc[q]
  BY ProcTyped, OpsFacts, <1>0, GotoStep, TypeFacts, Constants DEF IssueRefused, OpsInv
<1>2. UNCHANGED <<ops, issued, exchange>>
  BY DEF IssueRefused, agent, rows
<1>3. p \in IssueCalls => /\ Claimer(p)' => Claimer(p)
                          /\ proc'[p].pc \in {"issuing", "refused"} => issued = 0
  BY <1>0, <1>1 DEF IssueRefused, Claimer, IssueInv
<1>4. QED
  BY <1>0, <1>1, <1>2, <1>3, QuietStep

\* IssueUnanswered keeps both.
LEMMA SafeIssueUnanswered ==
    ASSUME TypeInv, OpsInv, IssueInv, NEW p \in IssueCalls, IssueUnanswered(p)
    PROVE  OpsInv' /\ IssueInv'
<1>0. p \in Actors /\ p # Offerer /\ remote # None
  BY ProcTyped, AtWork, ActorsOf DEF IssueUnanswered
<1>1. /\ proc'[p].pc = "uncertain" /\ proc'[p].op = proc[p].op
      /\ \A q \in Actors : q # p => proc'[q] = proc[q]
  BY ProcTyped, OpsFacts, <1>0, GotoStep, TypeFacts, Constants DEF IssueUnanswered
<1>2. UNCHANGED <<ops, issued, exchange>>
  BY DEF IssueUnanswered, agent, rows
<1>3. p \in IssueCalls => /\ Claimer(p)' => Claimer(p)
                          /\ proc'[p].pc \in {"issuing", "refused"} => issued = 0
  BY <1>0, <1>1 DEF IssueUnanswered, Claimer, IssueInv
<1>4. QED
  BY <1>0, <1>1, <1>2, <1>3, QuietStep

\* IssueUncertain keeps both.
LEMMA SafeIssueUncertain ==
    ASSUME TypeInv, OpsInv, IssueInv, NEW p \in IssueCalls, IssueUncertain(p)
    PROVE  OpsInv' /\ IssueInv'
<1>0. p \in Actors /\ p # Offerer /\ remote # None
  BY ProcTyped, AtWork, ActorsOf DEF IssueUncertain
<1>1. /\ proc'[p].pc \in {"idle", "done"} /\ proc'[p].op = 0
      /\ \A q \in Actors : q # p => proc'[q] = proc[q]
  BY ProcTyped, OpsFacts, <1>0, FinishStep, TypeFacts, Constants DEF IssueUncertain
<1>2. ops' \in Seq(Operation) /\ Len(ops') \in Nat /\ Len(ops) <= Len(ops')
  BY OpsFacts DEF IssueUncertain, rows
<1>3. issued' = issued /\ (exchange.sub # "not-submitted" => exchange'.sub # "not-submitted")
  BY ExchangeFacts DEF IssueUncertain, agent, rows, setSubmission
<1>4. p \in IssueCalls => /\ Claimer(p)' => Claimer(p)
                          /\ proc'[p].pc \in {"issuing", "refused"} => issued = 0
  BY <1>0, <1>1 DEF IssueUncertain, Claimer, IssueInv
<1>5. QED
  BY OpsFacts, <1>0, <1>1, <1>2, <1>3, <1>4, ActorStep

\* IssueAnswered keeps both.
LEMMA SafeIssueAnswered ==
    ASSUME TypeInv, OpsInv, IssueInv, NEW p \in IssueCalls, IssueAnswered(p)
    PROVE  OpsInv' /\ IssueInv'
<1>0. p \in Actors /\ p # Offerer /\ remote # None
  BY ProcTyped, AtWork, ActorsOf DEF IssueAnswered
<1>1. /\ proc'[p].pc \in {"uncertain", "lookup"} /\ proc'[p].op \in {0, proc[p].op}
      /\ \A q \in Actors : q # p => proc'[q] = proc[q]
  <2>0. proc[p].st \in ProtocolStates
    BY ProcTyped, <1>0, TypeFacts DEF IssueAnswered, AgentKnown
  <2>1. CASE Goto(p, "uncertain")
    BY ProcTyped, <1>0, <2>1, GotoStep, Constants
  <2>2. CASE synchronize(p, proc[p].st, "done")
    BY ProcTyped, <1>0, <2>0, <2>2, RunStep, Constants DEF synchronize
  <2>3. QED
    BY <2>1, <2>2 DEF IssueAnswered
<1>2. ops' \in Seq(Operation) /\ Len(ops') \in Nat /\ Len(ops) <= Len(ops')
  BY OpsFacts DEF IssueAnswered, rows
<1>3. issued' = issued /\ (exchange.sub # "not-submitted" => exchange'.sub # "not-submitted")
  BY ExchangeFacts DEF IssueAnswered, agent, rows, setSubmission
<1>4. p \in IssueCalls => /\ Claimer(p)' => Claimer(p)
                          /\ proc'[p].pc \in {"issuing", "refused"} => issued = 0
  BY <1>0, <1>1 DEF IssueAnswered, Claimer, IssueInv
<1>5. QED
  BY OpsFacts, <1>0, <1>1, <1>2, <1>3, <1>4, ActorStep

\* IssueClaim keeps both.
LEMMA SafeIssueClaim ==
    ASSUME TypeInv, OpsInv, IssueInv, NEW p \in IssueCalls, IssueClaim(p)
    PROVE  OpsInv' /\ IssueInv'
<1>0. p \in Actors /\ p # Offerer /\ remote # None
  BY ProcTyped, AtWork, ActorsOf DEF IssueClaim
<1>1. /\ \/ /\ proc'[p].pc \in {"idle", "done"} /\ proc'[p].op = 0 /\ UNCHANGED <<exchange, ops>>
         \/ /\ proc'[p].pc = "issuing" /\ proc'[p].op = Len(ops) + 1
            /\ exchange.sub = "not-submitted" /\ exchange'.sub = "submitting"
            /\ ops' = Append(ops, [type |-> "issue", state |-> "processing", ext |-> TRUE])
      /\ \A q \in Actors : q # p => proc'[q] = proc[q]
  <2>1. CASE Finish(p) /\ UNCHANGED <<exchange, ops>>
    BY ProcTyped, <1>0, <2>1, FinishStep
  <2>2. CASE /\ GoOn(p, "issuing", proc[p].st, Len(ops) + 1)
             /\ exchange.sub = "not-submitted"
             /\ exchange' = [exchange EXCEPT !.sub = "submitting", !.issueOp = Len(ops) + 1]
             /\ ops' = Append(ops, [type |-> "issue", state |-> "processing", ext |-> TRUE])
    <3>1. /\ Len(ops) + 1 \in Nat /\ "issuing" \in ProcStates
          /\ proc[p].st \in ProtocolStates \cup {None}
      BY OpsFacts, <1>0, TypeFacts, Constants
    <3> DEFINE k == Len(ops) + 1
    <3> HIDE DEF k
    <3>a. k \in Nat /\ GoOn(p, "issuing", proc[p].st, k)
      BY <2>2, <3>1 DEF k
    <3>b. /\ proc'[p].pc = "issuing" /\ proc'[p].op = k
          /\ \A q \in Actors : q # p => proc'[q] = proc[q]
      BY ProcTyped, <1>0, <3>1, <3>a, GoOnStep
    <3>2. /\ proc'[p].pc = "issuing" /\ proc'[p].op = Len(ops) + 1
          /\ \A q \in Actors : q # p => proc'[q] = proc[q]
      BY <3>b DEF k
    <3>3. exchange'.sub = "submitting"
      BY ExchangeFacts, <2>2
    <3>4. QED
      BY <2>2, <3>2, <3>3
  <2>3. QED
    BY <2>1, <2>2 DEF IssueClaim
<1>2. ops' \in Seq(Operation) /\ Len(ops') \in Nat /\ Len(ops) <= Len(ops')
  <2> DEFINE row == [type |-> "issue", state |-> "processing", ext |-> TRUE]
  <2>1. row \in Operation
    BY Constants DEF Operation, OperationTypes
  <2>2. ops' = ops \/ ops' = Append(ops, row)
    BY <1>1
  <2> HIDE DEF row
  <2>3. QED
    BY OpsFacts, <2>1, <2>2
<1>3a. CASE UNCHANGED <<exchange, ops>> /\ proc'[p].pc \in {"idle", "done"} /\ proc'[p].op = 0
  <2>1. OpsInv'
    <3>1. proc'[p].op \in 0..Len(ops')
      BY <1>2, <1>3a
    <3>2. QED
      BY <1>0, <1>1, <1>2, <1>3a, <3>1, OpsStep
  <2>2. issued' = issued
    BY DEF IssueClaim, agent
  <2>3. ~ Claimer(p)'
    BY <1>3a DEF Claimer
  <2>4. IssueInv'
    BY <1>0, <1>1, <1>3a, <2>2, <2>3, IssueStep
  <2>5. QED
    BY <2>1, <2>4
<1>3b. CASE /\ proc'[p].pc = "issuing" /\ proc'[p].op = Len(ops) + 1
            /\ exchange.sub = "not-submitted" /\ exchange'.sub = "submitting"
            /\ ops' = Append(ops, [type |-> "issue", state |-> "processing", ext |-> TRUE])
  <2>1. Len(ops') = Len(ops) + 1
    BY OpsFacts, <1>3b
  <2>2. proc'[p].op \in 0..Len(ops') /\ proc'[p].op # 0
    BY OpsFacts, <1>3b, <2>1
  <2>3. OpsInv'
    BY OpsFacts, <1>0, <1>1, <1>2, <2>2, OpsStep
  <2>4. issued' = issued /\ issued = 0
    <3>1. issued \in Nat
      BY TypeFacts DEF RowsType
    <3>2. QED
      BY <1>3b, <3>1 DEF IssueClaim, agent, IssueInv
  <2>5. \A c \in IssueCalls : Claimer(c)' => c = p
    BY <1>1, <1>3b, Constants DEF Claimer, IssueInv
  <2>6. IssueInv'
    BY <1>3b, <2>4, <2>5 DEF IssueInv
  <2>7. QED
    BY <2>3, <2>6
<1>6. QED
  BY <1>1, <1>3a, <1>3b

\* AgentIssue keeps both.
LEMMA SafeAgentIssue ==
    ASSUME TypeInv, OpsInv, IssueInv, NEW p \in IssueCalls, AgentIssue(p)
    PROVE  OpsInv' /\ IssueInv'
<1>0. p \in Actors /\ p # Offerer /\ remote # None
  BY ProcTyped, AtWork, ActorsOf DEF AgentIssue
<1>1. /\ proc'[p].pc \in {"answered", "uncertain"} /\ proc'[p].op = proc[p].op
      /\ \A q \in Actors : q # p => proc'[q] = proc[q]
  <2>0. remote' \in ProtocolStates /\ proc[p].op \in Nat /\ "answered" \in ProcStates
    BY <1>0, TypeFacts, Constants DEF AgentIssue
  <2>1. CASE Goto(p, "uncertain")
    BY ProcTyped, <1>0, <2>1, GotoStep, Constants
  <2>2. CASE GoOn(p, "answered", remote', proc[p].op)
    BY ProcTyped, <1>0, <2>0, <2>2, GoOnStep
  <2>3. QED
    BY <2>1, <2>2 DEF AgentIssue
<1>2. ops' \in Seq(Operation) /\ Len(ops') \in Nat /\ Len(ops) <= Len(ops')
  BY OpsFacts DEF AgentIssue, rows
<1>3. OpsInv'
  BY OpsFacts, <1>0, <1>1, <1>2, OpsStep DEF OpsInv
<1>4. /\ issued = 0 /\ issued' = 1 /\ exchange' = exchange
      /\ exchange.sub # "not-submitted" /\ Claimer(p)
  BY DEF AgentIssue, IssueInv, Claimer, rows
<1>5. IssueInv'
  <2>1. \A c \in IssueCalls : Claimer(c)' => c = p
    BY <1>1, <1>4, Constants DEF Claimer, IssueInv
  <2>2. \A c \in IssueCalls : proc'[c].pc \notin {"issuing", "refused"}
    BY <1>1, <1>4, Constants DEF Claimer, IssueInv
  <2>3. QED
    BY <1>4, <2>1, <2>2 DEF IssueInv
<1>6. QED
  BY <1>3, <1>5

\* IssueReopen keeps both.
LEMMA SafeIssueReopen ==
    ASSUME TypeInv, OpsInv, IssueInv, NEW p \in IssueCalls, IssueReopen(p)
    PROVE  OpsInv' /\ IssueInv'
<1>0. p \in Actors /\ p # Offerer /\ remote # None
  BY ProcTyped, AtWork, ActorsOf DEF IssueReopen
<1>1. /\ proc'[p].pc \in {"idle", "done"} /\ proc'[p].op = 0
      /\ \A q \in Actors : q # p => proc'[q] = proc[q]
  BY ProcTyped, OpsFacts, <1>0, FinishStep, TypeFacts, Constants DEF IssueReopen
<1>2. ops' \in Seq(Operation) /\ Len(ops') \in Nat /\ Len(ops) <= Len(ops')
  <2>1. "failed" \in OperationStates
    BY Constants
  <2>2. ops' = ops \/ ops' = transition({proc[p].op}, "failed")
    BY DEF IssueReopen
  <2>3. QED
    BY OpsFacts, <2>1, <2>2, SameLength
<1>3. OpsInv'
  BY OpsFacts, <1>0, <1>1, <1>2, OpsStep DEF OpsInv
<1>4. issued = 0 /\ issued' = issued /\ Claimer(p)
  BY DEF IssueReopen, IssueInv, Claimer, agent
<1>5. IssueInv'
  <2>1. \A c \in IssueCalls : ~ Claimer(c)'
    BY <1>1, <1>4, Constants DEF Claimer, IssueInv
  <2>2. \A c \in IssueCalls : proc'[c].pc \notin {"issuing", "refused"}
    BY <2>1 DEF Claimer
  <2>3. QED
    BY <1>4, <2>1, <2>2 DEF IssueInv
<1>6. QED
  BY <1>3, <1>5

\* PerformStart keeps both.
LEMMA SafePerformStart ==
    ASSUME LatestExists, TypeInv, OpsInv, IssueInv, NEW p \in HolderCalls, PerformStart(p)
    PROVE  OpsInv' /\ IssueInv'
<1>0. p \in Actors /\ p # Offerer /\ remote # None
  <2>1. 1 \in DOMAIN ops /\ ops[1].ext
    BY OpsFacts DEF PerformStart
  <2>2. remote # None
    BY ProcTyped, <2>1 DEF AgentKnown
  <2>3. QED
    BY <2>2, Constants, ActorsDistinct
<1>1. /\ \/ proc'[p].pc \in {"idle", "done"} /\ proc'[p].op = 0
         \/ /\ proc'[p].op \in 0..Len(ops)
            /\ proc'[p].pc = IF proc'[p].op = 0 THEN "insert" ELSE "calling"
      /\ \A q \in Actors : q # p => proc'[q] = proc[q]
  <2> DEFINE found == findByExternalId({ActionType(p)})
             pc == IF found = 0 THEN "insert" ELSE "calling"
  <2>1. found \in 0..Len(ops)
    BY OpsFacts, LookUpResult
  <2>2. found \in Nat /\ pc \in ProcStates
    BY OpsFacts, <2>1, Constants
  <2>3. Finish(p) \/ GoOn(p, pc, None, found)
    BY DEF PerformStart
  <2>4. CASE Finish(p)
    BY ProcTyped, <1>0, <2>4, FinishStep
  <2>5. CASE GoOn(p, pc, None, found)
    <3> HIDE DEF found, pc
    <3>1. /\ proc'[p].pc = pc /\ proc'[p].op = found
          /\ \A q \in Actors : q # p => proc'[q] = proc[q]
      BY ProcTyped, <1>0, <2>2, <2>5, GoOnStep
    <3>2. QED
      BY <2>1, <3>1 DEF pc
  <2>6. QED
    BY <2>3, <2>4, <2>5
<1>2. UNCHANGED <<ops, issued, exchange>>
  BY DEF PerformStart, agent, rows
<1>3. p \notin IssueCalls
  BY ActorsDistinct
<1>4. QED
  BY <1>0, <1>1, <1>2, <1>3, QuietStep

\* PerformInsert keeps both.
LEMMA SafePerformInsert ==
    ASSUME TypeInv, OpsInv, IssueInv, NEW p \in HolderCalls, PerformInsert(p)
    PROVE  OpsInv' /\ IssueInv'
<1>0. p \in Actors /\ p # Offerer /\ remote # None
  BY ProcTyped, AtWork, ActorsOf DEF PerformInsert
<1>1. /\ \/ proc'[p].pc = "winner" /\ proc'[p].op = proc[p].op /\ ops' = ops
         \/ /\ proc'[p].pc = "calling" /\ proc'[p].op = Len(ops) + 1
            /\ ops' = Append(ops, [type |-> ActionType(p), state |-> "pending", ext |-> TRUE])
      /\ \A q \in Actors : q # p => proc'[q] = proc[q]
  <2>1. CASE Goto(p, "winner") /\ ops' = ops
    BY ProcTyped, <1>0, <2>1, GotoStep, Constants
  <2>2. CASE /\ GoOn(p, "calling", None, Len(ops) + 1)
             /\ ops' = Append(ops, [type |-> ActionType(p), state |-> "pending", ext |-> TRUE])
    <3> DEFINE n == Len(ops) + 1
    <3>1. n \in Nat /\ "calling" \in ProcStates /\ None \in ProtocolStates \cup {None}
      BY OpsFacts, Constants
    <3>2. GoOn(p, "calling", None, n)
      BY <2>2
    <3> HIDE DEF n
    <3>3. /\ proc'[p].pc = "calling" /\ proc'[p].op = n
          /\ \A q \in Actors : q # p => proc'[q] = proc[q]
      BY ProcTyped, <1>0, <3>1, <3>2, GoOnStep
    <3>4. QED
      BY <2>2, <3>3 DEF n
  <2>3. QED
    BY <2>1, <2>2 DEF PerformInsert
<1>2. ops' \in Seq(Operation) /\ Len(ops') \in Nat /\ Len(ops) <= Len(ops')
  <2> DEFINE row == [type |-> ActionType(p), state |-> "pending", ext |-> TRUE]
  <2>1. row \in Operation
    BY Constants DEF Operation, OperationTypes, ActionType
  <2>2. ops' = ops \/ ops' = Append(ops, row)
    BY <1>1
  <2> HIDE DEF row
  <2>3. QED
    BY OpsFacts, <2>1, <2>2
<1>3. issued' = issued /\ (exchange.sub # "not-submitted" => exchange'.sub # "not-submitted")
  BY ExchangeFacts DEF PerformInsert, agent, rows
<1>4. p \notin IssueCalls
  BY ActorsDistinct
<1>5. QED
  BY OpsFacts, <1>0, <1>1, <1>2, <1>3, <1>4, ActorStep

\* PerformWinner keeps both.
LEMMA SafePerformWinner ==
    ASSUME LatestExists, TypeInv, OpsInv, IssueInv, NEW p \in HolderCalls, PerformWinner(p)
    PROVE  OpsInv' /\ IssueInv'
<1>0. p \in Actors /\ p # Offerer /\ remote # None
  BY ProcTyped, AtWork, ActorsOf DEF PerformWinner
<1>1. /\ \/ proc'[p].pc \in {"idle", "done"} /\ proc'[p].op = 0
         \/ proc'[p].pc = "calling" /\ proc'[p].op \in 1..Len(ops)
      /\ \A q \in Actors : q # p => proc'[q] = proc[q]
  <2> DEFINE found == findLatestByExternalIdAndType({"accept", "reject"})
  <2>1. found \in 0..Len(ops)
    BY OpsFacts, LookUpResult
  <2>2. found \in Nat /\ "calling" \in ProcStates
    BY OpsFacts, <2>1, Constants
  <2>3. Finish(p) \/ (GoOn(p, "calling", None, found) /\ found # 0)
    BY DEF PerformWinner
  <2> HIDE DEF found
  <2>4. CASE Finish(p)
    BY ProcTyped, <1>0, <2>4, FinishStep
  <2>5. CASE GoOn(p, "calling", None, found) /\ found # 0
    <3>0. GoOn(p, "calling", None, found)
      BY <2>5
    <3>1. /\ proc'[p].pc = "calling" /\ proc'[p].op = found
          /\ \A q \in Actors : q # p => proc'[q] = proc[q]
      BY ProcTyped, <1>0, <2>2, <3>0, GoOnStep
    <3>2. found \in 1..Len(ops)
      BY OpsFacts, <2>1, <2>5
    <3>3. QED
      BY <3>1, <3>2
  <2>6. QED
    BY <2>3, <2>4, <2>5
<1>2. UNCHANGED <<ops, issued, exchange>>
  BY DEF PerformWinner, agent, rows
<1>3. p \notin IssueCalls
  BY ActorsDistinct
<1>4. QED
  BY <1>0, <1>1, <1>2, <1>3, QuietStep

\* AgentAction keeps both.
LEMMA SafeAgentAction ==
    ASSUME TypeInv, OpsInv, IssueInv, NEW p \in HolderCalls, AgentAction(p)
    PROVE  OpsInv' /\ IssueInv'
<1>0. p \in Actors /\ p # Offerer /\ remote # None
  BY ProcTyped, AtWork, ActorsOf DEF AgentAction
<1>1. /\ proc'[p].pc \in {"settle", "settle-failed"} /\ proc'[p].op = proc[p].op /\ proc[p].op # 0
      /\ \A q \in Actors : q # p => proc'[q] = proc[q]
  <2>0. remote' \in ProtocolStates /\ proc[p].op \in Nat /\ "settle" \in ProcStates
    BY <1>0, TypeFacts, Constants DEF AgentAction
  <2>3. proc[p].op # 0
    BY <1>0 DEF AgentAction, OpsInv
  <2>1. CASE Goto(p, "settle-failed")
    BY ProcTyped, <1>0, <2>1, <2>3, GotoStep, Constants
  <2>2. CASE GoOn(p, "settle", remote', proc[p].op)
    BY ProcTyped, <1>0, <2>0, <2>2, <2>3, GoOnStep
  <2>4. Goto(p, "settle-failed") \/ GoOn(p, "settle", remote', proc[p].op)
    BY DEF AgentAction
  <2>5. QED
    BY <2>1, <2>2, <2>3, <2>4
<1>2. UNCHANGED <<ops, issued, exchange>>
  BY DEF AgentAction, agent, rows
<1>3. p \notin IssueCalls
  BY ActorsDistinct
<1>4. QED
  BY <1>0, <1>1, <1>2, <1>3, QuietStep

\* ActionError keeps both.
LEMMA SafeActionError ==
    ASSUME TypeInv, OpsInv, IssueInv, NEW p \in HolderCalls, ActionError(p)
    PROVE  OpsInv' /\ IssueInv'
<1>0. p \in Actors /\ p # Offerer /\ remote # None
  BY ProcTyped, AtWork, ActorsOf DEF ActionError
<1>1. /\ proc'[p].pc = "settle-failed" /\ proc'[p].op = proc[p].op /\ proc[p].op # 0
      /\ \A q \in Actors : q # p => proc'[q] = proc[q]
  BY ProcTyped, OpsFacts, <1>0, GotoStep, TypeFacts, Constants DEF ActionError, OpsInv
<1>2. UNCHANGED <<ops, issued, exchange>>
  BY DEF ActionError, agent, rows
<1>3. p \notin IssueCalls
  BY ActorsDistinct
<1>4. QED
  BY <1>0, <1>1, <1>2, <1>3, QuietStep

\* SettleAction keeps both.
LEMMA SafeSettleAction ==
    ASSUME TypeInv, OpsInv, IssueInv, NEW p \in HolderCalls, SettleAction(p)
    PROVE  OpsInv' /\ IssueInv'
<1>0. p \in Actors /\ p # Offerer /\ remote # None
  BY ProcTyped, AtWork, ActorsOf DEF SettleAction
<1>1. /\ proc'[p].pc \in {"idle", "done"} /\ proc'[p].op = 0
      /\ \A q \in Actors : q # p => proc'[q] = proc[q]
  BY ProcTyped, OpsFacts, <1>0, FinishStep, TypeFacts, Constants DEF SettleAction
<1>2. ops' \in Seq(Operation) /\ Len(ops') \in Nat /\ Len(ops) <= Len(ops')
  <2>1. ActionOutcome(p) \in OperationStates
    BY Constants DEF ActionOutcome
  <2>2. ops' = ops \/ ops' = transition({proc[p].op}, ActionOutcome(p))
    BY DEF SettleAction
  <2>3. QED
    BY OpsFacts, <2>1, <2>2, SameLength
<1>3. issued' = issued /\ (exchange.sub # "not-submitted" => exchange'.sub # "not-submitted")
  BY ExchangeFacts DEF SettleAction, agent, rows
<1>4. p \notin IssueCalls
  BY ActorsDistinct
<1>5. QED
  BY OpsFacts, <1>0, <1>1, <1>2, <1>3, <1>4, ActorStep

\* SettleActionFailure keeps both.
LEMMA SafeSettleActionFailure ==
    ASSUME TypeInv, OpsInv, IssueInv, NEW p \in HolderCalls, SettleActionFailure(p)
    PROVE  OpsInv' /\ IssueInv'
<1>0. p \in Actors /\ p # Offerer /\ remote # None
  BY ProcTyped, AtWork, ActorsOf DEF SettleActionFailure
<1>1. /\ proc'[p].pc \in {"idle", "done"} /\ proc'[p].op = 0
      /\ \A q \in Actors : q # p => proc'[q] = proc[q]
  BY ProcTyped, OpsFacts, <1>0, FinishStep, TypeFacts, Constants DEF SettleActionFailure
<1>2. ops' \in Seq(Operation) /\ Len(ops') \in Nat /\ Len(ops) <= Len(ops')
  <2>1. "failed" \in OperationStates
    BY Constants
  <2>2. ops' = ops \/ ops' = transition({proc[p].op}, "failed")
    BY DEF SettleActionFailure
  <2>3. QED
    BY OpsFacts, <2>1, <2>2, SameLength
<1>3. issued' = issued /\ (exchange.sub # "not-submitted" => exchange'.sub # "not-submitted")
  BY ExchangeFacts DEF SettleActionFailure, agent, rows
<1>4. p \notin IssueCalls
  BY ActorsDistinct
<1>5. QED
  BY OpsFacts, <1>0, <1>1, <1>2, <1>3, <1>4, ActorStep

\* AgentMoves keeps both.
LEMMA SafeAgentMoves ==
    ASSUME TypeInv, OpsInv, IssueInv, NEW m \in AgentSteps, AgentMoves(m[1], m[2])
    PROVE  OpsInv' /\ IssueInv'
<1>1. remote # None
  BY Constants DEF AgentMoves, AgentSteps
<1>2. proc[Offerer].pc # "idle"
  BY <1>1 DEF OpsInv
<1>3. UNCHANGED <<proc, ops, exchange, issued>>
  BY DEF AgentMoves, rows
<1>4. QED
  BY <1>2, <1>3 DEF OpsInv, IssueInv, Claimer

\* Crash keeps both.
LEMMA SafeCrash ==
    ASSUME TypeInv, OpsInv, IssueInv, NEW p \in Actors, Crash(p)
    PROVE  OpsInv' /\ IssueInv'
<1>1. /\ proc'[p].pc = Finished(p) /\ proc'[p].op = 0
      /\ \A q \in Actors : q # p => proc'[q] = proc[q]
  BY ProcTyped, FinishStep DEF Crash
<1>2. Finished(p) = "done" /\ proc[p].pc # "idle"
  BY DEF Crash, Finished
<1>3. UNCHANGED <<remote, ops, exchange, issued>>
  BY DEF Crash, agent
<1>4. proc'[Offerer].pc = "idle" <=> proc[Offerer].pc = "idle"
  BY OffererFacts, <1>1, <1>2
<1>5. OpsInv'
  BY OpsFacts, <1>1, <1>2, <1>3, <1>4 DEF OpsInv
<1>6. IssueInv'
  <2>1. ~ Claimer(p)' /\ proc'[p].pc \notin {"issuing", "refused"}
    BY <1>1, <1>2 DEF Claimer
  <2>2. QED
    BY <1>1, <1>3, <2>1, IssueStep
<1>7. QED
  BY <1>5, <1>6

\* Every action keeps both.
LEMMA SafetyNext == LatestExists /\ TypeInv /\ SafetyInv /\ [Next]_vars => SafetyInv'
<1> SUFFICES ASSUME LatestExists, TypeInv, OpsInv, IssueInv, [Next]_vars
             PROVE  OpsInv' /\ IssueInv'
  BY DEF SafetyInv
<1>1. CASE UNCHANGED vars
  BY <1>1 DEF vars, agent, rows, jobs, OpsInv, IssueInv, Claimer
<1>2. QED
  BY <1>1, SafeCreateOffer, SafeAgentOffer, SafeOfferAnswer,
     SafeOfferError, SafeRecordOffer, SafeRecordOfferFailure, SafeStartJob,
     SafeReconcile, SafeLookUp, SafeApply, SafeRollback, SafeIssueStart,
     SafeIssueRefused, SafeIssueUnanswered, SafeIssueUncertain,
     SafeIssueAnswered, SafeIssueClaim, SafeAgentIssue, SafeIssueReopen,
     SafePerformStart, SafePerformInsert, SafePerformWinner,
     SafeAgentAction, SafeActionError, SafeSettleAction,
     SafeSettleActionFailure, SafeAgentMoves, SafeCrash
     DEF Next, Offer, Process, Issue, Perform

-----------------------------------------------------------------------------
(* Theorems *)

\* TypeInv and SafetyInv hold in every reachable state.
LEMMA Reachable == Spec => [](TypeInv /\ SafetyInv)
<1>1. Init => TypeInv /\ SafetyInv
  BY TypeInit, SafetyInit
<1>2. TypeInv /\ SafetyInv /\ [Next]_vars => (TypeInv /\ SafetyInv)'
  BY Latest, TypeNext, SafetyNext
<1>3. QED
  BY <1>1, <1>2, PTL DEF Spec

\* For every number of concurrent job runs, reconciles, issuance requests and
\* holder requests, each settlement of an operation is dispatched exactly once.
THEOREM SettlementDispatched == Spec => []SettlementToldOnce
<1>1. Init => SettlementToldOnce
  BY DEF Init, SettlementToldOnce
<1>2. TypeInv /\ SafetyInv /\ SettlementToldOnce /\ [Next]_vars => SettlementToldOnce'
  BY SettlementStep DEF SafetyInv
<1>3. QED
  BY <1>1, <1>2, Reachable, PTL DEF Spec

\* No interleaving of any number of writers takes an operation backwards, out
\* of a terminal state, or away.
THEOREM MoveForward == Spec => OperationsMoveForward
<1>1. TypeInv /\ SafetyInv /\ SettlementToldOnce /\ [Next]_vars => [Forward]_vars
  BY SettlementStep DEF SafetyInv
<1>2. Forward <=> /\ DOMAIN ops \subseteq DOMAIN ops'
                  /\ \A i \in DOMAIN ops :
                        ops'[i].state # ops[i].state =>
                           ops[i].state \in operationStatesBelow(ops'[i].state)
  BY DEF Forward
<1>3. QED
  BY <1>1, <1>2, Reachable, SettlementDispatched, PTL DEF Spec, OperationsMoveForward

\* However many issuance requests there are, the agent issues at most once.
THEOREM IssuedOnce == Spec => []IssuedAtMostOnce
<1>1. SafetyInv => IssuedAtMostOnce
  BY DEF SafetyInv, IssueInv, IssuedAtMostOnce
<1>2. QED
  BY <1>1, Reachable, PTL

-----------------------------------------------------------------------------
(* The exchange row moves up *)

\* The rank table of the exchange states.
LEMMA Ranks ==
    /\ \A s : STATE_RANK(s) \in 0..5
    /\ STATE_RANK("request-received") = 3
    /\ \A s \in {"credential-issued", "done", "abandoned", "failed"} : STATE_RANK(s) >= 4
  BY DEF STATE_RANK

\* advance never lowers the rank, reaches an end or keeps one, and moves to
\* request-received only from below it.
LEMMA Advance ==
    ASSUME NEW from \in ExchangeStates, NEW next \in ExchangeStates
    PROVE  /\ STATE_RANK(advance(from, next)) >= STATE_RANK(from)
           /\ STATE_RANK(next) >= 4 => STATE_RANK(advance(from, next)) >= 4
           /\ advance(from, next) # from => advance(from, next) = next
                                            /\ STATE_RANK(from) < STATE_RANK(next)
<1>1. STATE_RANK(from) \in 0..5 /\ STATE_RANK(next) \in 0..5
  BY Ranks
<1>2. QED
  BY <1>1 DEF advance

\* What an observation writes.
LEMMA Observed ==
    ASSUME TypeInv, NEW s \in ProtocolStates
    PROVE  /\ observe(s).state = advance(exchange.state, s)
           /\ observe(s).ext = TRUE
           /\ observe(s).issueOp = exchange.issueOp
           /\ exchange.sub = "not-submitted" <=> observe(s).sub = "not-submitted"
           /\ STATE_RANK(observe(s).state) >= STATE_RANK(exchange.state)
           /\ STATE_RANK(s) >= 4 => STATE_RANK(observe(s).state) >= 4
<1>1. exchange \in [state : ExchangeStates, ext : BOOLEAN,
                    sub : Submissions, issueOp : Nat]
  BY ExchangeFacts
<1>2. exchange.state \in ExchangeStates /\ s \in ExchangeStates
  BY <1>1, Constants
<1>3. /\ observe(s).state = advance(exchange.state, s)
      /\ observe(s).ext = TRUE
      /\ observe(s).issueOp = exchange.issueOp
      /\ exchange.sub = "not-submitted" <=> observe(s).sub = "not-submitted"
  BY <1>1 DEF observe
<1>4. QED
  BY <1>2, <1>3, Advance

\* How many jobs of event e a transaction leaves.
LEMMA Sent ==
    ASSUME TypeInv, NEW E, NEW S, sendInTransaction(E, S), NEW e \in Events
    PROVE  /\ outbox[e] \in Nat
           /\ outbox'[e] = IF e \in E THEN outbox[e] + 1 ELSE outbox[e]
<1>1. outbox \in [Events -> Nat]
  BY TypeFacts DEF RowsType
<1>2. QED
  BY <1>1 DEF sendInTransaction

\* The holder's request was announced at most once, and once it was the
\* exchange has reached it.
Request == "credential-exchange.request-received"
AnnounceInv ==
    /\ outbox[Request] <= 1
    /\ outbox[Request] > 0 => STATE_RANK(exchange.state) >= 3

\* A step that announces no request and does not move the exchange back.
LEMMA NotAnnounced ==
    ASSUME TypeInv, AnnounceInv, outbox'[Request] = outbox[Request],
           STATE_RANK(exchange'.state) >= STATE_RANK(exchange.state)
    PROVE  AnnounceInv'
<1>1. STATE_RANK(exchange'.state) \in 0..5 /\ STATE_RANK(exchange.state) \in 0..5
  BY Ranks
<1>2. QED
  BY <1>1 DEF AnnounceInv

\* A transaction that sends other jobs only.
LEMMA OtherJobs ==
    ASSUME TypeInv, AnnounceInv, NEW E, NEW S, sendInTransaction(E, S), Request \notin E,
           STATE_RANK(exchange'.state) >= STATE_RANK(exchange.state)
    PROVE  AnnounceInv'
<1>1. Request \in Events
  BY DEF Request, Events
<1>2. outbox'[Request] = outbox[Request]
  BY <1>1, Sent
<1>3. QED
  BY <1>2, NotAnnounced

\* A transaction that observes s, with the announcement observe asks for.
LEMMA AnnouncedByObserve ==
    ASSUME TypeInv, AnnounceInv, NEW s \in ProtocolStates, exchange' = observe(s),
           NEW E, NEW S, Request \notin E, sendInTransaction(requestReceived(s) \cup E, S)
    PROVE  AnnounceInv'
<1>1. Request \in Events
  BY DEF Request, Events
<1>2. /\ exchange'.state = advance(exchange.state, s)
      /\ STATE_RANK(exchange'.state) >= STATE_RANK(exchange.state)
  BY Observed
<1>3. CASE requestReceived(s) = {}
  <2>1. Request \notin requestReceived(s) \cup E
    BY <1>3
  <2>2. QED
    BY <1>2, <2>1, OtherJobs
<1>4. CASE requestReceived(s) # {}
  <2>1. s = "request-received" /\ advance(exchange.state, s) # exchange.state
    BY <1>4 DEF requestReceived
  <2>2. exchange.state \in ExchangeStates /\ s \in ExchangeStates
    BY ExchangeFacts, Constants
  <2>3. STATE_RANK(exchange.state) < 3 /\ exchange'.state = "request-received"
    BY <1>2, <2>1, <2>2, Advance, Ranks
  <2>4. outbox[Request] \in Nat /\ outbox'[Request] <= outbox[Request] + 1
    BY <1>1, Sent
  <2>5. STATE_RANK(exchange.state) \in 0..5
    BY Ranks
  <2>6. QED
    BY <2>3, <2>4, <2>5, Ranks DEF AnnounceInv
<1>5. QED
  BY <1>3, <1>4

\* Every step keeps it.
LEMMA AnnounceNext ==
    ASSUME TypeInv, AnnounceInv, [Next]_vars
    PROVE  AnnounceInv'
<1>0. /\ exchange \in [state : ExchangeStates, ext : BOOLEAN,
                       sub : Submissions, issueOp : Nat]
      /\ STATE_RANK(exchange.state) \in 0..5
      /\ STATE_RANK(exchange.state) >= STATE_RANK(exchange.state)
  <2>1. STATE_RANK(exchange.state) \in 0..5
    BY Ranks
  <2>2. QED
    BY <2>1, ExchangeFacts
<1>1. CASE exchange'.state = exchange.state /\ UNCHANGED outbox
  BY <1>0, <1>1, NotAnnounced
<1>2. ASSUME NEW E, NEW S, sendInTransaction(E, S), Request \notin E,
             exchange'.state = exchange.state
      PROVE  AnnounceInv'
  BY <1>0, <1>2, OtherJobs
<1>3. CASE RecordOffer
  <2> DEFINE s == proc[Offerer].st
             o == IssueCredentialOutcome(s)
             won == isForward(1, o.op)
             E == IF won /\ o.op \in TerminalStates THEN {o.event} ELSE {}
  <2>1. s \in ProtocolStates
    BY <1>3, TypeFacts, Constants DEF RecordOffer, AgentKnown
  <2>2. Request \notin E
    BY DEF IssueCredentialOutcome, Request, None
  <2>3. \/ UNCHANGED <<exchange, outbox>>
        \/ /\ exchange' = observe(s)
           /\ \E S : sendInTransaction(requestReceived(s) \cup E, S)
    BY <1>3 DEF RecordOffer, jobs
  <2> HIDE DEF s, E
  <2>4. QED
    BY <1>1, <2>1, <2>2, <2>3, AnnouncedByObserve
<1>4. CASE RecordOfferFailure
  <2>1. STATE_RANK(advance(exchange.state, "failed")) >= STATE_RANK(exchange.state)
    BY <1>0, Constants, Advance
  <2>2. \/ UNCHANGED <<exchange, outbox>>
        \/ /\ exchange'.state = advance(exchange.state, "failed")
           /\ \E E, S : Request \notin E /\ sendInTransaction(E, S)
    BY <1>0, <1>4 DEF RecordOfferFailure, jobs, Request
  <2>3. QED
    BY <1>1, <2>1, <2>2, OtherJobs
<1>5. ASSUME NEW p \in Workers \cup Reconcilers \cup IssueCalls, Apply(p)
      PROVE  AnnounceInv'
  <2> DEFINE s == proc[p].st
             o == IssueCredentialOutcome(s)
             found == proc[p].op
             event == CASE o.event = None -> "issue_credential.progress"
                        [] /\ o.event = "credential.issued"
                           /\ found # 0 /\ ops[found].type = "accept" -> "credential.accepted"
                        [] OTHER -> o.event
  <2>1. s \in ProtocolStates
    <3>1. p \in Actors /\ proc[p].pc = "apply"
      BY <1>5, ActorsOf DEF Apply
    <3>2. QED
      BY <3>1, TypeFacts DEF AgentKnown
  <2>2. event # Request
    BY DEF IssueCredentialOutcome, Request, None
  <2>3. /\ exchange' = IF proc[p].corr THEN observe(s) ELSE exchange
        /\ \E A, B, S : /\ A \in {{}, {"operation.offer.settled"}} /\ B \in {{}, {event}}
                        /\ sendInTransaction((IF proc[p].corr THEN requestReceived(s) ELSE {})
                                             \cup A \cup B, S)
    BY <1>5 DEF Apply
  <2> HIDE DEF s, event
  <2>4. PICK A, B, S : /\ A \in {{}, {"operation.offer.settled"}} /\ B \in {{}, {event}}
                       /\ sendInTransaction((IF proc[p].corr THEN requestReceived(s) ELSE {})
                                            \cup A \cup B, S)
    BY <2>3
  <2>5. Request \notin A \cup B
    BY <2>2, <2>4 DEF Request
  <2>6. CASE proc[p].corr
    <3>1. exchange' = observe(s) /\ sendInTransaction(requestReceived(s) \cup (A \cup B), S)
      <4>1. requestReceived(s) \cup A \cup B = requestReceived(s) \cup (A \cup B)
        OBVIOUS
      <4>2. QED
        BY <2>3, <2>4, <2>6, <4>1
    <3>2. QED
      BY <2>1, <2>5, <3>1, AnnouncedByObserve
  <2>7. CASE ~proc[p].corr
    <3>1. Request \notin (IF proc[p].corr THEN requestReceived(s) ELSE {}) \cup A \cup B
      BY <2>5, <2>7
    <3>2. exchange'.state = exchange.state
      BY <2>3, <2>7
    <3>3. QED
      BY <1>2, <2>4, <3>1, <3>2
  <2>8. QED
    BY <2>6, <2>7
<1>6. CASE \/ \E c \in IssueCalls : IssueReopen(c)
           \/ \E c \in HolderCalls : SettleAction(c) \/ SettleActionFailure(c)
  <2>1. /\ exchange'.state = exchange.state
        /\ \E E, S : Request \notin E /\ sendInTransaction(E, S)
    BY <1>0, <1>6 DEF IssueReopen, SettleAction, SettleActionFailure, Request
  <2>2. QED
    BY <1>2, <2>1
<1>7. CASE \/ CreateOffer \/ AgentOffer \/ OfferAnswer \/ OfferError \/ UNCHANGED vars
           \/ \E w \in Workers : StartJob(w)
           \/ \E r \in Reconcilers : reconcile(r)
           \/ \E p \in Workers \cup Reconcilers \cup IssueCalls : LookUp(p) \/ Rollback(p)
           \/ \E m \in AgentSteps : AgentMoves(m[1], m[2])
           \/ \E p \in Actors : Crash(p)
  BY <1>1, <1>7
     DEF CreateOffer, AgentOffer, OfferAnswer, OfferError, vars, StartJob, reconcile,
         LookUp, Rollback, AgentMoves, Crash, rows, jobs
<1>8. CASE \E c \in IssueCalls :
              \/ IssueStart(c) \/ IssueClaim(c) \/ AgentIssue(c) \/ IssueRefused(c)
              \/ IssueUnanswered(c) \/ IssueAnswered(c) \/ IssueUncertain(c)
  BY <1>0, <1>1, <1>8
     DEF IssueStart, IssueClaim, AgentIssue, IssueRefused, IssueUnanswered,
         IssueAnswered, IssueUncertain, setSubmission, rows, jobs
<1>9. CASE \E c \in HolderCalls :
              \/ PerformStart(c) \/ PerformInsert(c) \/ PerformWinner(c)
              \/ AgentAction(c) \/ ActionError(c)
  BY <1>1, <1>9
     DEF PerformStart, PerformInsert, PerformWinner, AgentAction, ActionError, rows,
         jobs
<1>10. QED
  BY <1>3, <1>4, <1>5, <1>6, <1>7, <1>8, <1>9 DEF Next, Offer, Process, Issue, Perform

\* However many job runs, reconciles and issuance requests see the holder's
\* request, and whether or not jobs run early, it is announced at most once.
THEOREM RequestAnnounced == Spec => []RequestAnnouncedOnce
<1>1. Init => AnnounceInv
  BY DEF Init, AnnounceInv, Request, Events
<1>2. TypeInv /\ SafetyInv /\ AnnounceInv /\ [Next]_vars => AnnounceInv'
  BY AnnounceNext
<1>3. AnnounceInv => RequestAnnouncedOnce
  BY DEF AnnounceInv, Request, RequestAnnouncedOnce
<1>4. QED
  BY <1>1, <1>2, <1>3, Reachable, PTL DEF Spec

-----------------------------------------------------------------------------
(* The stages of an exchange whose jobs wait for the external id *)

\* Until the offer is answered only the offer request is at work, and its rows
\* are as it created them; once the external id is stored it is stored in the
\* offer's row and in the credential.  From then on a run holds the exchange
\* row from its lookup to its commit, a lookup that found nothing found the
\* offer settled, and a request that writes an operation of its own never
\* holds the offer.
StageInv ==
    /\ proc[Offerer].pc # "done" =>
          /\ ~credential.ext /\ credential.state = "offered"
          /\ \A i \in DOMAIN ops : i = 1 /\ ops[i].state = "pending"
    /\ ~credential.ext =>
          /\ ~exchange.ext
          /\ \A i \in DOMAIN ops : ~ops[i].ext
          /\ \A p \in Actors : p # Offerer => proc[p].pc = "idle"
    /\ credential.ext => 1 \in DOMAIN ops /\ ops[1].ext
    /\ \A i \in DOMAIN ops : ops[i].type = "offer" <=> i = 1
    /\ \A p \in Actors : proc[p].pc \in {"lookup", "apply"} => proc[p].corr
    /\ \A p \in Actors : proc[p].pc = "apply" =>
          /\ lock = p
          /\ proc[p].op = 0 => ops[1].state \in TerminalStates
    /\ \A p \in Actors :
          proc[p].pc \in {"issuing", "refused", "calling", "settle", "settle-failed"} =>
             proc[p].op # 1

\* The credential and the offer agree, stage by stage.
AgreeInv ==
    /\ StageInv
    /\ credential.state \in {"offered", "issued", "failed"}
    /\ CredentialAgreesWithOffer

\* The offer's own state is written by no step that keeps it and the credential.
SameOffer ==
    /\ credential' = credential
    /\ DOMAIN ops \subseteq DOMAIN ops'
    /\ \A i \in DOMAIN ops' : ops'[i].type = "offer" <=> i = 1
    /\ 1 \in DOMAIN ops' /\ ops'[1].ext = ops[1].ext /\ ops'[1].state = ops[1].state

\* Actor p moves, and no other.
Alone(p) == \A q \in Actors : q # p => proc'[q] = proc[q]

\* Actor p goes on outside a run, holding the offer nowhere.
Outside(p) ==
    /\ Alone(p)
    /\ proc'[p].pc \notin {"lookup", "apply"}
    /\ proc'[p].pc \in {"issuing", "refused", "calling", "settle", "settle-failed"} =>
          proc'[p].op # 1

\* Actor p starts a run that observes the exchange.
Inside(p) == Alone(p) /\ proc'[p].pc = "lookup" /\ proc'[p].corr

\* Going on changes the three fields it names.
LEMMA Moved ==
    ASSUME TypeInv, NEW p \in Actors, NEW pc, NEW st, NEW op, GoOn(p, pc, st, op)
    PROVE  /\ Alone(p)
           /\ proc'[p].pc = pc /\ proc'[p].st = st /\ proc'[p].op = op
           /\ proc'[p].corr = proc[p].corr /\ proc'[p].then = proc[p].then
<1>1. proc \in [Actors -> Proc] /\ proc[p] \in Proc
  BY TypeFacts
<1>2. proc'[p] = [proc[p] EXCEPT !.pc = pc, !.st = st, !.op = op] /\ Alone(p)
  BY <1>1 DEF GoOn, Alone
<1>3. QED
  BY <1>1, <1>2 DEF Proc

\* A run starts at its lookup.
LEMMA Started ==
    ASSUME TypeInv, NEW p \in Actors, NEW s, NEW corr, NEW next, Run(p, s, corr, next)
    PROVE  /\ Alone(p)
           /\ proc'[p].pc = "lookup" /\ proc'[p].st = s /\ proc'[p].op = 0
           /\ proc'[p].corr = corr /\ proc'[p].then = next
<1>1. proc \in [Actors -> Proc]
  BY TypeFacts
<1>2. QED
  BY <1>1 DEF Run, Alone

\* A finished request is outside.
LEMMA FinishOutside ==
    ASSUME TypeInv, NEW p \in Actors, Finish(p)
    PROVE  Outside(p)
  BY TypeFacts, FinishStep DEF Outside, Alone

\* So is one that goes on to a place outside a run without the offer in hand.
LEMMA GoOnOutside ==
    ASSUME TypeInv, NEW p \in Actors, NEW pc, NEW st, NEW op, GoOn(p, pc, st, op),
           pc \notin {"lookup", "apply"},
           pc \in {"issuing", "refused", "calling", "settle", "settle-failed"} => op # 1
    PROVE  Outside(p)
  BY Moved DEF Outside

\* Past the offer, someone at work means that the external id is stored.
LEMMA StoredFor ==
    ASSUME StageInv, NEW p \in Actors, p # Offerer, proc[p].pc # "idle"
    PROVE  credential.ext
  BY DEF StageInv

\* A step of an actor other than the offer request, once the id is stored.
LEMMA StageStep ==
    ASSUME StageInv, NEW p \in Actors, p # Offerer, Alone(p),
           credential.ext, credential'.ext,
           1 \in DOMAIN ops' /\ ops'[1].ext,
           \A i \in DOMAIN ops' : ops'[i].type = "offer" <=> i = 1,
           ops[1].state \in TerminalStates => ops'[1].state \in TerminalStates,
           \A q \in Actors : q # p /\ lock = q => lock' = q,
           proc'[p].pc \in {"lookup", "apply"} => proc'[p].corr,
           proc'[p].pc = "apply" =>
              lock' = p /\ (proc'[p].op = 0 => ops'[1].state \in TerminalStates),
           proc'[p].pc \in {"issuing", "refused", "calling", "settle", "settle-failed"} =>
              proc'[p].op # 1
    PROVE  StageInv'
<1>1. proc[Offerer].pc = "done" /\ proc'[Offerer] = proc[Offerer]
  BY Constants DEF StageInv, Alone
<1>2. ASSUME NEW q \in Actors
      PROVE  /\ proc'[q].pc \in {"lookup", "apply"} => proc'[q].corr
             /\ proc'[q].pc = "apply" =>
                   lock' = q /\ (proc'[q].op = 0 => ops'[1].state \in TerminalStates)
             /\ proc'[q].pc \in {"issuing", "refused", "calling", "settle", "settle-failed"} =>
                   proc'[q].op # 1
  <2>1. CASE q = p
    BY <2>1
  <2>2. CASE q # p
    <3>1. proc'[q] = proc[q]
      BY <2>2 DEF Alone
    <3>2. QED
      BY <2>2, <3>1 DEF StageInv
  <2>3. QED
    BY <2>1, <2>2
<1>3. QED
  BY <1>1, <1>2 DEF StageInv

\* A step outside runs that keeps the offer and the credential.
LEMMA AgreeOutside ==
    ASSUME AgreeInv, NEW p \in Actors, p # Offerer, Outside(p), credential.ext, SameOffer,
           \A q \in Actors : q # p /\ lock = q => lock' = q
    PROVE  AgreeInv'
<1>1. StageInv /\ 1 \in DOMAIN ops /\ ops[1].ext
  BY DEF AgreeInv, StageInv
<1>2. StageInv'
  BY <1>1, StageStep DEF Outside, SameOffer
<1>3. ops # <<>> /\ ops' # <<>>
  BY <1>1 DEF SameOffer
<1>4. QED
  BY <1>2, <1>3 DEF AgreeInv, CredentialAgreesWithOffer, SameOffer

\* A step that starts a run and changes no row of these.
LEMMA AgreeInside ==
    ASSUME AgreeInv, NEW p \in Actors, p # Offerer, Inside(p), credential.ext,
           UNCHANGED <<credential, ops, lock>>
    PROVE  AgreeInv'
<1>1. StageInv /\ 1 \in DOMAIN ops /\ ops[1].ext
      /\ \A i \in DOMAIN ops : ops[i].type = "offer" <=> i = 1
  BY DEF AgreeInv, StageInv
<1>2. StageInv'
  BY <1>1, StageStep DEF Inside
<1>3. QED
  BY <1>2 DEF AgreeInv, CredentialAgreesWithOffer

\* Leaving the rows alone keeps the offer.
LEMMA RowsSame ==
    ASSUME AgreeInv, credential.ext, UNCHANGED <<credential, ops>>
    PROVE  SameOffer
  BY DEF AgreeInv, StageInv, SameOffer

\* So does inserting an operation of another type.
LEMMA InsertSame ==
    ASSUME TypeInv, AgreeInv, credential.ext, UNCHANGED credential,
           NEW row \in Operation, row.type # "offer", ops' = Append(ops, row)
    PROVE  SameOffer /\ Len(ops) + 1 # 1
<1>1. /\ ops \in Seq(Operation) /\ told \in [DOMAIN ops -> Nat]
      /\ Len(ops) \in Nat /\ DOMAIN ops = 1..Len(ops)
  BY TypeFacts DEF RowsType
<1>2. 1 \in DOMAIN ops /\ \A i \in DOMAIN ops : ops[i].type = "offer" <=> i = 1
  BY DEF AgreeInv, StageInv
<1>3. /\ DOMAIN ops' = 1..(Len(ops) + 1)
      /\ \A i \in DOMAIN ops : ops'[i] = ops[i]
      /\ ops'[Len(ops) + 1] = row
  BY <1>1, AppendType
<1>4. Len(ops) >= 1
  BY <1>1, <1>2
<1>5. ASSUME NEW i \in DOMAIN ops' PROVE ops'[i].type = "offer" <=> i = 1
  <2>1. i \in DOMAIN ops \/ i = Len(ops) + 1
    BY <1>1, <1>3
  <2>2. QED
    BY <1>1, <1>2, <1>3, <1>4, <2>1
<1>6. DOMAIN ops \subseteq DOMAIN ops' /\ 1 \in DOMAIN ops'
  BY <1>1, <1>3, <1>4
<1>7. QED
  BY <1>1, <1>2, <1>3, <1>4, <1>5, <1>6 DEF SameOffer

\* And so does a write of one operation other than the offer.
LEMMA WriteSame ==
    ASSUME TypeInv, AgreeInv, credential.ext, UNCHANGED credential,
           NEW mine, mine # 1, NEW state \in OperationStates,
           ops' = ops \/ ops' = transition({mine}, state)
    PROVE  SameOffer
<1>1. ops \in Seq(Operation) /\ 1 \in DOMAIN ops
      /\ \A i \in DOMAIN ops : ops[i].type = "offer" <=> i = 1
  BY TypeFacts DEF RowsType, AgreeInv, StageInv
<1>2. CASE ops' = ops
  BY <1>2, RowsSame
<1>3. CASE ops' = transition({mine}, state)
  BY <1>1, <1>3, TransitionRows DEF SameOffer
<1>4. QED
  BY <1>2, <1>3

\* The lookup of a run finds the newest operation in flight under the id, and
\* finds nothing only when there is none.
LEMMA LookUpNewest ==
    ASSUME TypeInv
    PROVE  LET f == findByExternalId(OperationTypes)
           IN  /\ f = 0 => \A i \in DOMAIN ops : ops[i].ext => ops[i].state \in TerminalStates
               /\ f # 0 => /\ f \in DOMAIN ops /\ ops[f].ext /\ ops[f].state \in InFlightStates
                           /\ \A i \in DOMAIN ops :
                                 ops[i].ext /\ ops[i].state \in InFlightStates => i <= f
<1> DEFINE h == {i \in DOMAIN ops : /\ ops[i].ext
                                    /\ ops[i].type \in OperationTypes
                                    /\ ops[i].state \in InFlightStates}
           f == findByExternalId(OperationTypes)
<1>1. Len(ops) \in Nat /\ DOMAIN ops = 1..Len(ops) /\ \A i \in DOMAIN ops : ops[i] \in Operation
  BY TypeFacts
<1>2. /\ h \in SUBSET (1..Len(ops)) /\ 0 \notin h
      /\ \A i \in DOMAIN ops : i \in h <=> ops[i].ext /\ ops[i].state \in InFlightStates
      /\ \A i \in DOMAIN ops : ops[i].state \in InFlightStates \/ ops[i].state \in TerminalStates
  BY <1>1, Below DEF Operation
<1>3. f = IF h = {} THEN 0 ELSE CHOOSE i \in h : \A j \in h : j <= i
  BY DEF findByExternalId
<1> HIDE DEF h, f
<1>4. h # {} => \E i \in h : \A j \in h : j <= i
  BY <1>1, <1>2, Latest DEF LatestExists
<1>5. h # {} => f \in h /\ \A j \in h : j <= f
  BY <1>3, <1>4
<1>6. f = 0 <=> h = {}
  BY <1>2, <1>3, <1>5
<1>7. /\ f = 0 => \A i \in DOMAIN ops : ops[i].ext => ops[i].state \in TerminalStates
      /\ f # 0 => /\ f \in DOMAIN ops /\ ops[f].ext /\ ops[f].state \in InFlightStates
                  /\ \A i \in DOMAIN ops :
                        ops[i].ext /\ ops[i].state \in InFlightStates => i <= f
  BY <1>1, <1>2, <1>5, <1>6
<1>8. QED
  BY <1>7 DEF f

\* What a report means is one of three things.
LEMMA Meanings ==
    ASSUME NEW s
    PROVE  LET o == IssueCredentialOutcome(s)
           IN  \/ o.op = "completed" /\ o.cred = "issued" /\ o.event = "credential.issued"
               \/ o.op = "failed" /\ o.cred = "failed" /\ o.event = "credential.rejected"
               \/ o.op = "processing" /\ o.cred = None /\ o.event = None
  BY DEF IssueCredentialOutcome

\* The guards of the two rows in the words of the tables.
LEMMA Guards ==
    /\ operationStatesBelow("completed") = InFlightStates
    /\ operationStatesBelow("failed") = InFlightStates
    /\ operationStatesBelow("processing") = {"pending"}
    /\ credentialStatesBelow("issued") = {"offered"}
    /\ credentialStatesBelow("failed") = {"offered"}
    /\ InFlightStates = {"pending", "processing"}
    /\ TerminalStates = {"completed", "failed"}
    /\ None \notin {"issued", "failed"}
  BY DEF operationStatesBelow, OPERATION_STATE_RANK, OperationStates,
         InFlightStates, TerminalStates, credentialStatesBelow, None

\* While the offer is made the credential is its rows' only companion.
LEMMA AgreeCreateOffer ==
    ASSUME TypeInv, OpsInv, AgreeInv, CreateOffer
    PROVE  AgreeInv'
<1>1. /\ Alone(Offerer) /\ proc'[Offerer].pc = "offering"
      /\ UNCHANGED <<credential, exchange, lock>>
      /\ ops' = <<[type |-> "offer", state |-> "pending", ext |-> FALSE]>>
  BY Moved, OffererFacts DEF CreateOffer, Goto
<1>2. /\ DOMAIN ops' = {1} /\ ops'[1].type = "offer" /\ ops'[1].state = "pending"
      /\ ~ops'[1].ext /\ ops' # <<>>
  BY <1>1
<1>3. /\ StageInv /\ proc[Offerer].pc # "done" /\ ~credential.ext
      /\ credential.state = "offered"
  BY DEF AgreeInv, StageInv, CreateOffer
<1>4. \A p \in Actors : p # Offerer => proc'[p].pc = "idle"
  BY <1>1, <1>3 DEF StageInv, Alone
<1>5. StageInv'
  BY <1>1, <1>2, <1>3, <1>4, OffererFacts DEF StageInv
<1>6. QED
  BY <1>1, <1>2, <1>3, <1>5, Guards DEF AgreeInv, CredentialAgreesWithOffer

\* The offer request at work, before it writes again.
LEMMA AgreeOffering ==
    ASSUME TypeInv, OpsInv, AgreeInv, AgentOffer \/ OfferAnswer \/ OfferError
    PROVE  AgreeInv'
<1>1. /\ Alone(Offerer) /\ proc'[Offerer].pc \in {"offered", "record", "failed"}
      /\ UNCHANGED <<credential, exchange, ops, lock>>
  BY Moved, OffererFacts DEF AgentOffer, OfferAnswer, OfferError, Goto, rows
<1>2. StageInv /\ proc[Offerer].pc # "done"
  BY DEF AgreeInv, AgentOffer, OfferAnswer, OfferError
<1>3. \A p \in Actors : p # Offerer => proc'[p].pc = "idle" /\ proc'[p] = proc[p]
  BY <1>1, <1>2 DEF StageInv, Alone
<1>4. StageInv'
  BY <1>1, <1>2, <1>3 DEF StageInv
<1>5. QED
  BY <1>1, <1>4 DEF AgreeInv, CredentialAgreesWithOffer

\* The offer's answer finds the rows as they were created, so it wins both.
LEMMA OfferRecorded ==
    ASSUME TypeInv, OpsInv, AgreeInv, RecordOffer
    PROVE  LET s == proc[Offerer].st
               o == IssueCredentialOutcome(s)
           IN  /\ s \in ProtocolStates
               /\ exchange' = observe(s)
               /\ ops' = [transition({1}, o.op) EXCEPT ![1].ext = TRUE]
               /\ credential' = [ext |-> TRUE,
                                 state |-> IF o.cred # None THEN o.cred ELSE "offered"]
               /\ \E S : sendInTransaction(
                            requestReceived(s) \cup
                            (IF o.op \in TerminalStates THEN {o.event} ELSE {}), S)
<1> DEFINE s == proc[Offerer].st
           o == IssueCredentialOutcome(s)
<1>1. /\ proc[Offerer].pc = "record" /\ ~credential.ext /\ credential.state = "offered"
      /\ 1 \in DOMAIN ops /\ ops[1].state = "pending"
  <2>1. proc[Offerer].pc = "record"
    BY DEF RecordOffer
  <2>2. ops # <<>> /\ 1 \in DOMAIN ops
    BY <2>1, OpsFacts DEF OpsInv
  <2>3. QED
    BY <2>1, <2>2 DEF AgreeInv, StageInv
<1>2. s \in ProtocolStates
  BY <1>1, TypeFacts, Constants DEF AgentKnown
<1>3. /\ isForward(1, o.op)
      /\ o.cred # None => credential.state \in credentialStatesBelow(o.cred)
  BY <1>1, Meanings, Guards DEF isForward
<1> DEFINE E == IF o.op \in TerminalStates THEN {o.event} ELSE {}
<1> HIDE DEF o, s
<1>4. /\ exchange' = observe(s)
      /\ ops' = [transition({1}, o.op) EXCEPT ![1].ext = TRUE]
      /\ credential' = [ext |-> TRUE, state |-> IF o.cred # None THEN o.cred ELSE "offered"]
      /\ \E S : sendInTransaction(requestReceived(s) \cup E, S)
  BY <1>1, <1>3 DEF RecordOffer, o, s
<1>5. QED
  BY <1>2, <1>4 DEF o, s

=============================================================================
