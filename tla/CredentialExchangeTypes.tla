---------------------- MODULE CredentialExchangeTypes -----------------------
(*****************************************************************************)
(* What the proofs about CredentialExchange rest on (the lookups and the     *)
(* guarded writes, the moves of one actor), that every action keeps the      *)
(* types and AgentKnown, and that every action moves operations forward only *)
(* and tells of each that it settles.                                        *)
(*****************************************************************************)
EXTENDS CredentialExchange, TLAPS, WellFoundedInduction

\* Zenon is tried first; arithmetic and most of the sequences are left to SMT.
USE ZenonT(15), SMTT(30)

-----------------------------------------------------------------------------
(* The lookups *)

\* A non-empty set of indices of the operation table has a greatest element,
\* so an ORDER BY created_at DESC lookup that has a candidate returns one.
LatestExists ==
    \A n \in Nat : \A S \in SUBSET (1..n) :
       S # {} => \E i \in S : \A j \in S : j <= i

\* What a lookup returns is 0 or the index of a row it asked for.
LEMMA LookUpResult ==
    ASSUME LatestExists, ops \in Seq(Operation), NEW types
    PROVE  /\ findByExternalId(types) \in 0..Len(ops)
           /\ findByExternalId(types) # 0 =>
                 ops[findByExternalId(types)].type \in types
           /\ findLatestByExternalIdAndType(types) \in 0..Len(ops)
<1>1. Len(ops) \in Nat /\ DOMAIN ops = 1..Len(ops)
  OBVIOUS
<1> DEFINE h == {i \in DOMAIN ops : /\ ops[i].ext
                                    /\ ops[i].type \in types
                                    /\ ops[i].state \in InFlightStates}
           g == {i \in DOMAIN ops : ops[i].ext /\ ops[i].type \in types}
<1>2. /\ h \in SUBSET (1..Len(ops))
      /\ g \in SUBSET (1..Len(ops))
      /\ \A i \in h : ops[i].type \in types
  BY <1>1
<1>3. /\ findByExternalId(types) =
            IF h = {} THEN 0 ELSE CHOOSE i \in h : \A j \in h : j <= i
      /\ findLatestByExternalIdAndType(types) =
            IF g = {} THEN 0 ELSE CHOOSE i \in g : \A j \in g : j <= i
  BY DEF findByExternalId, findLatestByExternalIdAndType
<1> HIDE DEF h, g
<1>4. /\ h # {} => \E i \in h : \A j \in h : j <= i
      /\ g # {} => \E i \in g : \A j \in g : j <= i
  BY <1>1, <1>2 DEF LatestExists
<1>5. /\ h # {} => (CHOOSE i \in h : \A j \in h : j <= i) \in h
      /\ g # {} => (CHOOSE i \in g : \A j \in g : j <= i) \in g
  BY <1>4
<1>6. /\ findByExternalId(types) = 0 \/ findByExternalId(types) \in h
      /\ findLatestByExternalIdAndType(types) = 0
         \/ findLatestByExternalIdAndType(types) \in g
  BY <1>3, <1>5
<1>7. 0 \in 0..Len(ops) /\ 1..Len(ops) \subseteq 0..Len(ops)
  BY <1>1
<1>8. h \subseteq 0..Len(ops) /\ g \subseteq 0..Len(ops)
  BY <1>2, <1>7
<1>9. QED
  BY <1>2, <1>6, <1>7, <1>8

-----------------------------------------------------------------------------
(* Rows and jobs *)

\* A guarded UPDATE keeps the operation table a sequence of operations of the
\* same length, changes only the rows it names, and of those only the state.
LEMMA TransitionRows ==
    ASSUME ops \in Seq(Operation), NEW S, NEW state \in OperationStates
    PROVE  /\ transition(S, state) \in Seq(Operation)
           /\ Len(transition(S, state)) = Len(ops)
           /\ DOMAIN transition(S, state) = DOMAIN ops
           /\ \A i \in DOMAIN ops :
                 /\ transition(S, state)[i].type = ops[i].type
                 /\ transition(S, state)[i].ext = ops[i].ext
                 /\ transition(S, state)[i].state =
                       IF i \in S THEN state ELSE ops[i].state
<1>1. Len(ops) \in Nat /\ DOMAIN ops = 1..Len(ops)
  OBVIOUS
<1>2. ASSUME NEW i \in DOMAIN ops
      PROVE  /\ ops[i] \in Operation
             /\ [ops[i] EXCEPT !.state = state] \in Operation
             /\ [ops[i] EXCEPT !.state = state].state = state
             /\ [ops[i] EXCEPT !.state = state].type = ops[i].type
             /\ [ops[i] EXCEPT !.state = state].ext = ops[i].ext
  <2>1. ops[i] \in Operation
    BY <1>1
  <2>2. QED
    BY <2>1 DEF Operation
<1>3. transition(S, state) \in [1..Len(ops) -> Operation]
  BY <1>1, <1>2 DEF transition
<1>4. /\ transition(S, state) \in Seq(Operation)
      /\ Len(transition(S, state)) = Len(ops)
  BY <1>1, <1>3
<1>5. QED
  BY <1>1, <1>2, <1>4 DEF transition

\* Storing the external id in the offer's row changes nothing else.
LEMMA StoreExternalId ==
    ASSUME NEW t \in Seq(Operation)
    PROVE  /\ [t EXCEPT ![1].ext = TRUE] \in Seq(Operation)
           /\ Len([t EXCEPT ![1].ext = TRUE]) = Len(t)
           /\ DOMAIN [t EXCEPT ![1].ext = TRUE] = DOMAIN t
           /\ \A i \in DOMAIN t :
                 /\ [t EXCEPT ![1].ext = TRUE][i].state = t[i].state
                 /\ [t EXCEPT ![1].ext = TRUE][i].type = t[i].type
<1> DEFINE u == [t EXCEPT ![1].ext = TRUE]
<1>1. Len(t) \in Nat /\ DOMAIN t = 1..Len(t) /\ \A i \in DOMAIN t : t[i] \in Operation
  OBVIOUS
<1>2. DOMAIN u = 1..Len(t)
  BY <1>1
<1>3. ASSUME NEW i \in DOMAIN t
      PROVE  u[i] \in Operation /\ u[i].state = t[i].state /\ u[i].type = t[i].type
  <2>1. u[i] = IF i = 1 THEN [t[i] EXCEPT !.ext = TRUE] ELSE t[i]
    OBVIOUS
  <2>2. QED
    BY <1>1, <2>1 DEF Operation
<1>4. u \in [1..Len(t) -> Operation]
  BY <1>1, <1>2, <1>3
<1>5. u \in Seq(Operation) /\ Len(u) = Len(t)
  BY <1>1, <1>2, <1>4
<1>6. QED
  BY <1>1, <1>2, <1>3, <1>5

\* Inserting an operation, with nothing told of it yet.
LEMMA AppendType ==
    ASSUME ops \in Seq(Operation), told \in [DOMAIN ops -> Nat], NEW row \in Operation
    PROVE  /\ Append(ops, row) \in Seq(Operation)
           /\ Len(Append(ops, row)) = Len(ops) + 1
           /\ DOMAIN Append(ops, row) = 1..(Len(ops) + 1)
           /\ \A i \in DOMAIN ops : Append(ops, row)[i] = ops[i]
           /\ Append(ops, row)[Len(ops) + 1] = row
           /\ Append(told, 0) \in [1..(Len(ops) + 1) -> Nat]
           /\ \A i \in DOMAIN ops : Append(told, 0)[i] = told[i]
           /\ Append(told, 0)[Len(ops) + 1] = 0
<1>1. Len(ops) \in Nat /\ DOMAIN ops = 1..Len(ops)
  OBVIOUS
<1>2. told \in Seq(Nat) /\ Len(told) = Len(ops)
  BY <1>1
<1>3. /\ Append(ops, row) \in Seq(Operation)
      /\ Len(Append(ops, row)) = Len(ops) + 1
      /\ \A i \in 1..Len(ops) : Append(ops, row)[i] = ops[i]
      /\ Append(ops, row)[Len(ops) + 1] = row
  OBVIOUS
<1>4. /\ Append(told, 0) \in Seq(Nat)
      /\ Len(Append(told, 0)) = Len(ops) + 1
      /\ \A i \in 1..Len(ops) : Append(told, 0)[i] = told[i]
      /\ Append(told, 0)[Len(ops) + 1] = 0
  BY <1>2
<1>5. /\ DOMAIN Append(ops, row) = 1..(Len(ops) + 1)
      /\ Append(told, 0) \in [1..(Len(ops) + 1) -> Nat]
  <2>1. \A S : \A t \in Seq(S) : t \in [1..Len(t) -> S] /\ DOMAIN t = 1..Len(t)
    OBVIOUS
  <2>2. DOMAIN Append(ops, row) = 1..(Len(ops) + 1)
    BY <1>3, <2>1
  <2>3. Append(told, 0) \in [1..(Len(ops) + 1) -> Nat]
    BY <1>4, <2>1
  <2>4. QED
    BY <2>2, <2>3
<1>6. QED
  BY <1>1, <1>3, <1>4, <1>5

\* Enqueueing jobs in a transaction that keeps the number of operations.
LEMMA JobsType ==
    ASSUME outbox \in [Events -> Nat], told \in [DOMAIN ops -> Nat],
           DOMAIN ops' = DOMAIN ops,
           NEW E, NEW S, sendInTransaction(E, S)
    PROVE  /\ outbox' \in [Events -> Nat]
           /\ told' \in [DOMAIN ops' -> Nat]
  BY DEF sendInTransaction

-----------------------------------------------------------------------------
(* Type correctness *)

\* The type invariant is not inductive alone: an observation of the agent's
\* record must find one.  Before the agent has opened its record nothing has
\* been reported, no external id is stored, and no request is past the offer;
\* and a run that will apply a state has one.
AgentKnown ==
    /\ remote = None =>
          /\ queue = {}
          /\ ~exchange.ext
          /\ \A i \in DOMAIN ops : ~ops[i].ext
          /\ \A p \in Actors : proc[p].pc \in {"idle", "offering", "failed", "done"}
    /\ \A p \in Actors :
          proc[p].pc \in {"lookup", "apply", "record", "answered"} => proc[p].st # None

\* An actor's local state.
Proc == [pc : ProcStates, st : ProtocolStates \cup {None},
         corr : BOOLEAN, op : Nat, then : ProcStates]

\* Updating one actor's local state, in each of the forms the actions use,
\* keeps every local state well typed and leaves the other actors alone.
LEMMA ProcStep ==
    ASSUME proc \in [Actors -> Proc], NEW p \in Actors, NEW r \in Proc,
           proc' = [proc EXCEPT ![p] = r]
    PROVE  /\ proc' \in [Actors -> Proc]
           /\ proc'[p] = r
           /\ \A q \in Actors : q # p => proc'[q] = proc[q]
  OBVIOUS

\* The same for going on.
LEMMA GoOnStep ==
    ASSUME proc \in [Actors -> Proc], NEW p \in Actors, NEW pc \in ProcStates,
           NEW st \in ProtocolStates \cup {None}, NEW op \in Nat,
           GoOn(p, pc, st, op)
    PROVE  /\ proc' \in [Actors -> Proc]
           /\ proc'[p].pc = pc /\ proc'[p].st = st /\ proc'[p].op = op
           /\ proc'[p].then = proc[p].then
           /\ \A q \in Actors : q # p => proc'[q] = proc[q]
<1> DEFINE r == [proc[p] EXCEPT !.pc = pc, !.st = st, !.op = op]
<1>1. proc[p] \in Proc
  OBVIOUS
<1>2. /\ r \in Proc /\ r.pc = pc /\ r.st = st /\ r.op = op
      /\ r.then = proc[p].then
  BY <1>1 DEF Proc
<1>3. proc' = [proc EXCEPT ![p] = r]
  BY DEF GoOn
<1> HIDE DEF r
<1>4. QED
  BY <1>2, <1>3, ProcStep

\* Moving an actor's program counter alone changes nothing else of it.
LEMMA GotoStep ==
    ASSUME proc \in [Actors -> Proc], NEW p \in Actors, NEW pc \in ProcStates,
           Goto(p, pc)
    PROVE  /\ proc' \in [Actors -> Proc]
           /\ proc'[p].pc = pc /\ proc'[p].st = proc[p].st /\ proc'[p].op = proc[p].op
           /\ proc'[p].then = proc[p].then
           /\ \A q \in Actors : q # p => proc'[q] = proc[q]
<1>1. proc[p] \in Proc
  OBVIOUS
<1>2. proc[p].st \in ProtocolStates \cup {None} /\ proc[p].op \in Nat
  BY <1>1 DEF Proc
<1>3. QED
  BY <1>2, GoOnStep DEF Goto

\* The same for finishing.
LEMMA FinishStep ==
    ASSUME proc \in [Actors -> Proc], NEW p \in Actors, Finish(p)
    PROVE  /\ proc' \in [Actors -> Proc]
           /\ proc'[p].pc = Finished(p) /\ proc'[p].pc \in {"idle", "done"}
           /\ proc'[p].op = 0 /\ proc'[p].then = "idle"
           /\ \A q \in Actors : q # p => proc'[q] = proc[q]
<1> DEFINE r == [Idle EXCEPT !.pc = Finished(p)]
<1>1. /\ r \in Proc /\ r.pc = Finished(p) /\ r.pc \in {"idle", "done"}
      /\ r.op = 0 /\ r.then = "idle"
  BY DEF Proc, Idle, Finished, ProcStates
<1>2. proc' = [proc EXCEPT ![p] = r]
  BY DEF Finish
<1> HIDE DEF r
<1>3. QED
  BY <1>1, <1>2, ProcStep

\* The same for starting a run of process.
LEMMA RunStep ==
    ASSUME proc \in [Actors -> Proc], NEW p \in Actors, NEW s \in ProtocolStates,
           NEW corr \in BOOLEAN, NEW next \in ProcStates,
           Run(p, s, corr, next)
    PROVE  /\ proc' \in [Actors -> Proc]
           /\ proc'[p].pc = "lookup" /\ proc'[p].st = s /\ proc'[p].op = 0
           /\ proc'[p].then = next
           /\ \A q \in Actors : q # p => proc'[q] = proc[q]
<1> DEFINE r == [pc |-> "lookup", st |-> s, op |-> 0, corr |-> corr, then |-> next]
<1>1. /\ r \in Proc /\ r.pc = "lookup" /\ r.st = s /\ r.op = 0 /\ r.then = next
  BY DEF Proc, ProcStates
<1>2. proc' = [proc EXCEPT ![p] = r]
  BY DEF Run
<1> HIDE DEF r
<1>3. QED
  BY <1>1, <1>2, ProcStep

\* What a reported protocol state means is well typed.
LEMMA OutcomeType ==
    ASSUME NEW s
    PROVE  /\ IssueCredentialOutcome(s).op \in OperationStates
           /\ IssueCredentialOutcome(s).cred \in CredentialStates \cup {None}
           /\ IssueCredentialOutcome(s).event \in Events \cup {None}
  BY DEF IssueCredentialOutcome, OperationStates, InFlightStates, TerminalStates,
         CredentialStates, Events, None

\* An observation of the exchange keeps its row well typed.
LEMMA ObserveType ==
    ASSUME exchange \in [state : ExchangeStates, ext : BOOLEAN,
                          sub : Submissions, issueOp : Nat],
           NEW s \in ExchangeStates
    PROVE  observe(s) \in [state : ExchangeStates, ext : BOOLEAN,
                           sub : Submissions, issueOp : Nat]
<1>1. advance(exchange.state, s) \in ExchangeStates
  BY DEF advance
<1>2. QED
  BY <1>1 DEF observe, Submissions

\* The inductive invariant behind type correctness.
TypeInv == TypeOK /\ AgentKnown

\* It holds before the offer request.
LEMMA TypeInit == Init => TypeInv
<1> SUFFICES ASSUME Init PROVE TypeInv
  OBVIOUS
<1>1. Idle \in Proc
  BY DEF Idle, Proc, ProcStates
<1>2. TypeOK
  BY <1>1 DEF Init, TypeOK, Proc, ProtocolStates, ExchangeStates, Submissions, CredentialStates
<1>3. AgentKnown
  BY DEF Init, AgentKnown, Idle
<1>4. QED
  BY <1>2, <1>3 DEF TypeInv

\* The rows, apart from the actors' local states.
RowsType ==
    /\ remote \in ProtocolStates \cup {None}
    /\ issued \in Nat
    /\ queue \subseteq ProtocolStates
    /\ exchange \in [state : ExchangeStates, ext : BOOLEAN,
                     sub : Submissions, issueOp : Nat]
    /\ credential \in [state : CredentialStates, ext : BOOLEAN]
    /\ ops \in Seq(Operation)
    /\ lock \in Actors \cup {NoOne}
    /\ outbox \in [Events -> Nat]
    /\ told \in [DOMAIN ops -> Nat]

\* The type invariant is the type of the rows and of the local states.
LEMMA TypeSplit == TypeOK <=> RowsType /\ proc \in [Actors -> Proc]
  BY DEF TypeOK, RowsType, Proc

\* The same after a step.
LEMMA TypeSplitNext == TypeOK' <=> RowsType' /\ proc' \in [Actors -> Proc]
  BY DEF TypeOK, RowsType, Proc

\* Which names belong to which of the small sets of the model.
LEMMA Constants ==
    /\ None \notin ProtocolStates
    /\ ProtocolStates \subseteq ExchangeStates
    /\ {"offer-sent", "request-received", "credential-issued", "done",
        "abandoned"} \subseteq ProtocolStates
    /\ {"pending", "failed"} \subseteq ExchangeStates
    /\ {"idle", "lookup", "apply", "offering", "offered", "record", "failed",
        "claim", "issuing", "answered", "refused", "uncertain", "insert",
        "winner", "calling", "settle", "settle-failed", "done"} = ProcStates
    /\ {"pending", "processing", "completed", "failed"} = OperationStates
    /\ Offerer \in Actors
    /\ Workers \cup Reconcilers \cup IssueCalls \cup HolderCalls \subseteq Actors
  BY DEF None, ProtocolStates, ExchangeStates, ProcStates, OperationStates,
         InFlightStates, TerminalStates, Actors

\* The other requests and runs are actors too, and not the offer request.
LEMMA ActorsOf ==
    \A p \in Workers \cup Reconcilers \cup IssueCalls \cup HolderCalls :
       p \in Actors /\ p # Offerer
  BY ActorsDistinct DEF Actors

\* What the type invariant says of one actor and of the operation table.
LEMMA TypeFacts ==
    ASSUME TypeInv
    PROVE  /\ RowsType /\ proc \in [Actors -> Proc] /\ AgentKnown
           /\ remote \in ProtocolStates \cup {None} /\ queue \subseteq ProtocolStates
           /\ Len(ops) \in Nat /\ DOMAIN ops = 1..Len(ops)
           /\ \A i \in DOMAIN ops : ops[i] \in Operation
           /\ \A p \in Actors :
                 /\ proc[p].pc \in ProcStates
                 /\ proc[p].st \in ProtocolStates \cup {None}
                 /\ proc[p].corr \in BOOLEAN
                 /\ proc[p].op \in Nat
                 /\ proc[p].then \in ProcStates
<1>1. RowsType /\ proc \in [Actors -> Proc] /\ AgentKnown
  BY TypeSplit DEF TypeInv
<1>2. Len(ops) \in Nat /\ DOMAIN ops = 1..Len(ops)
  BY <1>1 DEF RowsType
<1>3. \A i \in DOMAIN ops : ops[i] \in Operation
  BY <1>1, <1>2 DEF RowsType
<1>4. \A p \in Actors : proc[p] \in Proc
  BY <1>1
<1>5. QED
  BY <1>1, <1>2, <1>3, <1>4 DEF Proc, RowsType

\* A step of actor p keeps AgentKnown when the record is open afterwards and p
\* has a state whenever it will apply one.
LEMMA KnownStep ==
    ASSUME AgentKnown, NEW p \in Actors,
           \A q \in Actors : q # p => proc'[q] = proc[q],
           proc'[p].pc \in {"lookup", "apply", "record", "answered"} =>
              proc'[p].st # None,
           remote' # None
    PROVE  AgentKnown'
  BY DEF AgentKnown

\* Past the offer request, an actor at work has a record to work with.
LEMMA AtWork ==
    ASSUME AgentKnown, NEW p \in Actors,
           proc[p].pc \notin {"idle", "offering", "failed", "done"}
    PROVE  remote # None
  BY DEF AgentKnown

\* The operation an actor holds exists: no row is looked up in one step and
\* missing in a later one, and the offer's row exists once it was created,
\* which is before the agent hears of it.
OpsInv ==
    /\ proc[Offerer].pc = "idle" <=> ops = <<>>
    /\ proc[Offerer].pc = "idle" => remote = None
    /\ \A p \in Actors : proc[p].op \in 0..Len(ops)
    /\ \A p \in Actors :
          proc[p].pc \in {"issuing", "refused", "calling", "settle", "settle-failed"} =>
             proc[p].op # 0

-----------------------------------------------------------------------------
(* The actions keep the types *)

\* What the type invariant says of the local states.
LEMMA ProcFacts == TypeInv => proc \in [Actors -> Proc]
  BY TypeFacts

\* What the type invariant says of the rows.
LEMMA RowFacts == TypeInv => RowsType /\ AgentKnown
  BY TypeFacts

\* CreateOffer keeps the types.
LEMMA TypedCreateOffer ==
    ASSUME TypeInv, CreateOffer
    PROVE  RowsType' /\ proc' \in [Actors -> Proc] /\ AgentKnown'
<1>1. /\ proc' \in [Actors -> Proc]
      /\ proc'[Offerer].pc = "offering"
      /\ \A q \in Actors : q # Offerer => proc'[q] = proc[q]
  BY ProcFacts, GotoStep, Constants DEF CreateOffer
<1>2. RowsType'
  BY RowFacts, Constants DEF CreateOffer, RowsType, agent, Operation, OperationTypes
<1>3. AgentKnown'
  BY RowFacts, <1>1 DEF CreateOffer, AgentKnown, agent
<1>4. QED
  BY <1>1, <1>2, <1>3

\* AgentOffer keeps the types.
LEMMA TypedAgentOffer ==
    ASSUME TypeInv, AgentOffer
    PROVE  RowsType' /\ proc' \in [Actors -> Proc] /\ AgentKnown'
<1>1. /\ proc' \in [Actors -> Proc]
      /\ proc'[Offerer].pc = "offered"
      /\ \A q \in Actors : q # Offerer => proc'[q] = proc[q]
  BY ProcFacts, GotoStep, Constants DEF AgentOffer
<1>2. RowsType' /\ remote' # None
  BY RowFacts, Constants DEF AgentOffer, RowsType, rows, jobs
<1>3. QED
  BY RowFacts, <1>1, <1>2, KnownStep, Constants

\* OfferAnswer keeps the types.
LEMMA TypedOfferAnswer ==
    ASSUME TypeInv, OfferAnswer
    PROVE  RowsType' /\ proc' \in [Actors -> Proc] /\ AgentKnown'
<1>0. remote \in ProtocolStates /\ remote # None
  BY RowFacts, AtWork, TypeFacts, Constants DEF OfferAnswer
<1>1. /\ proc' \in [Actors -> Proc]
      /\ proc'[Offerer].st = remote
      /\ \A q \in Actors : q # Offerer => proc'[q] = proc[q]
  BY ProcFacts, <1>0, GoOnStep, Constants DEF OfferAnswer
<1>2. RowsType' /\ remote' = remote
  BY RowFacts DEF OfferAnswer, RowsType, agent, rows, jobs
<1>3. QED
  BY RowFacts, <1>0, <1>1, <1>2, KnownStep, Constants

\* OfferError keeps the types.
LEMMA TypedOfferError ==
    ASSUME TypeInv, OfferError
    PROVE  RowsType' /\ proc' \in [Actors -> Proc] /\ AgentKnown'
<1>1. /\ proc' \in [Actors -> Proc]
      /\ proc'[Offerer].pc = "failed"
      /\ \A q \in Actors : q # Offerer => proc'[q] = proc[q]
  BY ProcFacts, GotoStep, Constants DEF OfferError
<1>2. RowsType'
  BY RowFacts DEF OfferError, RowsType, agent, rows, jobs
<1>3. AgentKnown'
  BY RowFacts, <1>1 DEF OfferError, AgentKnown, agent, rows
<1>4. QED
  BY <1>1, <1>2, <1>3

\* RecordOffer keeps the types.
LEMMA TypedRecordOffer ==
    ASSUME TypeInv, RecordOffer
    PROVE  RowsType' /\ proc' \in [Actors -> Proc] /\ AgentKnown'
<1> DEFINE s == proc[Offerer].st
           o == IssueCredentialOutcome(s)
<1>0. s \in ProtocolStates /\ remote # None
  BY RowFacts, AtWork, TypeFacts, Constants DEF RecordOffer, AgentKnown
<1>1. /\ proc' \in [Actors -> Proc]
      /\ proc'[Offerer].pc \in {"idle", "done"}
      /\ \A q \in Actors : q # Offerer => proc'[q] = proc[q]
  BY ProcFacts, FinishStep, Constants DEF RecordOffer
<1>2. observe(s) \in [state : ExchangeStates, ext : BOOLEAN,
                      sub : Submissions, issueOp : Nat]
  BY RowFacts, <1>0, ObserveType, Constants DEF RowsType
<1>3. /\ transition({1}, o.op) \in Seq(Operation)
      /\ DOMAIN transition({1}, o.op) = DOMAIN ops
  BY RowFacts, OutcomeType, TransitionRows DEF RowsType
<1>4. /\ [transition({1}, o.op) EXCEPT ![1].ext = TRUE] \in Seq(Operation)
      /\ DOMAIN [transition({1}, o.op) EXCEPT ![1].ext = TRUE] = DOMAIN ops
  BY <1>3, StoreExternalId
<1>5. RowsType' /\ remote' = remote
  <2>1. \/ UNCHANGED <<exchange, credential, ops, jobs>>
        \/ /\ exchange' = observe(s)
           /\ \/ ops' = ops
              \/ ops' = [transition({1}, o.op) EXCEPT ![1].ext = TRUE]
           /\ \/ credential' = credential
              \/ credential' = [ext |-> TRUE, state |-> credential.state]
              \/ o.cred # None /\ credential' = [ext |-> TRUE, state |-> o.cred]
           /\ \E E, S : sendInTransaction(E, S)
    BY DEF RecordOffer
  <2>2. CASE UNCHANGED <<exchange, credential, ops, jobs>>
    BY RowFacts, <2>2 DEF RecordOffer, RowsType, agent, jobs
  <2>3. CASE ~ UNCHANGED <<exchange, credential, ops, jobs>>
    <3>1. ops' \in Seq(Operation) /\ DOMAIN ops' = DOMAIN ops
      BY RowFacts, <1>4, <2>1, <2>3 DEF RowsType, jobs
    <3>2. outbox' \in [Events -> Nat] /\ told' \in [DOMAIN ops' -> Nat]
      BY RowFacts, <2>1, <2>3, <3>1, JobsType DEF RowsType
    <3>3. credential \in [state : CredentialStates, ext : BOOLEAN]
      BY RowFacts DEF RowsType
    <3>4. credential' \in [state : CredentialStates, ext : BOOLEAN]
      <4>1. o.cred # None => o.cred \in CredentialStates
        BY OutcomeType
      <4>2. \/ credential' = credential
            \/ credential' = [ext |-> TRUE, state |-> credential.state]
            \/ o.cred # None /\ credential' = [ext |-> TRUE, state |-> o.cred]
        BY <2>1, <2>3
      <4> HIDE DEF o
      <4>3. QED
        <5>1. CASE credential' = credential
          BY <3>3, <5>1
        <5>2. CASE credential' = [ext |-> TRUE, state |-> credential.state]
          BY <3>3, <5>2
        <5>3. CASE o.cred # None /\ credential' = [ext |-> TRUE, state |-> o.cred]
          BY <4>1, <5>3
        <5>4. QED
          BY <4>2, <5>1, <5>2, <5>3
    <3>5. exchange' = observe(s)
      BY <2>1, <2>3
    <3>6. QED
      BY RowFacts, <1>2, <3>1, <3>2, <3>4, <3>5 DEF RecordOffer, RowsType, agent
  <2>4. QED
    BY <2>2, <2>3
<1>6. QED
  BY RowFacts, <1>0, <1>1, <1>5, KnownStep, Constants

\* RecordOfferFailure keeps the types.
LEMMA TypedRecordOfferFailure ==
    ASSUME TypeInv, RecordOfferFailure
    PROVE  RowsType' /\ proc' \in [Actors -> Proc] /\ AgentKnown'
<1>1. /\ proc' \in [Actors -> Proc]
      /\ proc'[Offerer].pc \in {"idle", "done"}
      /\ \A q \in Actors : q # Offerer => proc'[q] = proc[q]
  BY ProcFacts, FinishStep, Constants DEF RecordOfferFailure
<1>2. /\ transition({1}, "failed") \in Seq(Operation)
      /\ DOMAIN transition({1}, "failed") = DOMAIN ops
      /\ \A i \in DOMAIN ops : transition({1}, "failed")[i].ext = ops[i].ext
  <2>1. ops \in Seq(Operation) /\ "failed" \in OperationStates
    BY RowFacts, Constants DEF RowsType
  <2>2. QED
    BY <2>1, TransitionRows
<1>3. /\ ops' = ops \/ ops' = transition({1}, "failed")
      /\ \/ exchange' = exchange
         \/ exchange' = [exchange EXCEPT !.state = advance(@, "failed")]
      /\ credential' = credential \/ credential' = [credential EXCEPT !.state = "failed"]
      /\ UNCHANGED <<outbox, told>> \/ \E E, S : sendInTransaction(E, S)
      /\ UNCHANGED <<remote, issued, queue, lock>>
  BY DEF RecordOfferFailure, agent, jobs
<1>4. /\ ops' \in Seq(Operation) /\ DOMAIN ops' = DOMAIN ops
      /\ \A i \in DOMAIN ops : ops'[i].ext = ops[i].ext
  BY RowFacts, <1>2, <1>3 DEF RowsType
<1>5. outbox' \in [Events -> Nat] /\ told' \in [DOMAIN ops' -> Nat]
  BY RowFacts, <1>3, <1>4, JobsType DEF RowsType
<1>6. credential' \in [state : CredentialStates, ext : BOOLEAN]
  BY RowFacts, <1>3 DEF RowsType, CredentialStates
<1>7. /\ exchange' \in [state : ExchangeStates, ext : BOOLEAN,
                        sub : Submissions, issueOp : Nat]
      /\ exchange'.ext = exchange.ext
  <2>1. exchange \in [state : ExchangeStates, ext : BOOLEAN,
                      sub : Submissions, issueOp : Nat]
    BY RowFacts DEF RowsType
  <2>2. advance(exchange.state, "failed") \in ExchangeStates
    BY <2>1, Constants DEF advance
  <2>3. QED
    BY <1>3, <2>1, <2>2
<1>8. RowsType'
  BY RowFacts, <1>3, <1>4, <1>5, <1>6, <1>7 DEF RowsType
<1>9. AgentKnown'
  BY RowFacts, <1>1, <1>3, <1>4, <1>7 DEF AgentKnown
<1>10. QED
  BY <1>1, <1>8, <1>9

\* StartJob keeps the types.
LEMMA TypedStartJob ==
    ASSUME TypeInv, NEW p \in Workers, StartJob(p)
    PROVE  RowsType' /\ proc' \in [Actors -> Proc] /\ AgentKnown'
<1>0. p \in Actors /\ remote # None
  BY RowFacts, AtWork, ActorsOf DEF StartJob, AgentKnown
<1>1. /\ proc' \in [Actors -> Proc]
      /\ proc'[p].st # None
      /\ \A q \in Actors : q # p => proc'[q] = proc[q]
  <2>1. PICK s \in queue : Run(p, s, credential.ext, "idle")
    BY DEF StartJob
  <2>2. s \in ProtocolStates /\ s # None /\ credential.ext \in BOOLEAN
    BY RowFacts, TypeFacts, Constants DEF RowsType
  <2>3. QED
    BY ProcFacts, <1>0, <2>1, <2>2, RunStep, Constants
<1>2. RowsType' /\ remote' # None
  BY RowFacts, <1>0 DEF StartJob, RowsType, agent, rows, jobs
<1>3. QED
  BY RowFacts, <1>0, <1>1, <1>2, KnownStep

\* reconcile keeps the types.
LEMMA TypedReconcile ==
    ASSUME TypeInv, NEW p \in Reconcilers, reconcile(p)
    PROVE  RowsType' /\ proc' \in [Actors -> Proc] /\ AgentKnown'
<1>0. p \in Actors /\ remote # None
  BY RowFacts, AtWork, ActorsOf DEF reconcile, AgentKnown
<1>1. /\ proc' \in [Actors -> Proc]
      /\ proc'[p].st # None
      /\ \A q \in Actors : q # p => proc'[q] = proc[q]
  BY ProcFacts, <1>0, RunStep, TypeFacts, Constants DEF reconcile, synchronize
<1>2. RowsType' /\ remote' # None
  BY RowFacts, <1>0 DEF reconcile, RowsType, agent, rows, jobs
<1>3. QED
  BY RowFacts, <1>0, <1>1, <1>2, KnownStep

\* LookUp keeps the types.
LEMMA TypedLookUp ==
    ASSUME LatestExists, TypeInv, NEW p \in Workers \cup Reconcilers \cup IssueCalls, LookUp(p)
    PROVE  RowsType' /\ proc' \in [Actors -> Proc] /\ AgentKnown'
<1>0. p \in Actors /\ remote # None
  BY RowFacts, AtWork, ActorsOf DEF LookUp
<1>1. /\ proc' \in [Actors -> Proc]
      /\ proc'[p].st # None
      /\ \A q \in Actors : q # p => proc'[q] = proc[q]
  <2>1. proc[p].st # None /\ proc[p].st \in ProtocolStates
    BY RowFacts, <1>0, TypeFacts DEF LookUp, AgentKnown
  <2>2. findByExternalId(OperationTypes) \in Nat /\ "apply" \in ProcStates
    BY RowFacts, LookUpResult, TypeFacts, Constants DEF RowsType
  <2>3. QED
    <3>1. GoOn(p, "apply", proc[p].st, findByExternalId(OperationTypes))
      BY DEF LookUp
    <3>2. QED
      BY ProcFacts, <1>0, <2>1, <2>2, <3>1, GoOnStep
<1>2. RowsType' /\ remote' # None
  BY RowFacts, <1>0 DEF LookUp, RowsType, agent, rows, jobs
<1>3. QED
  BY RowFacts, <1>0, <1>1, <1>2, KnownStep

\* Rollback keeps the types.
LEMMA TypedRollback ==
    ASSUME TypeInv, NEW p \in Workers \cup Reconcilers \cup IssueCalls, Rollback(p)
    PROVE  RowsType' /\ proc' \in [Actors -> Proc] /\ AgentKnown'
<1>0. p \in Actors /\ remote # None
  BY RowFacts, AtWork, ActorsOf DEF Rollback
<1>1. /\ proc' \in [Actors -> Proc]
      /\ proc'[p].pc \notin {"lookup", "apply", "record", "answered"}
      /\ \A q \in Actors : q # p => proc'[q] = proc[q]
  BY ProcFacts, <1>0, GotoStep, FinishStep, TypeFacts, Constants DEF Rollback
<1>2. RowsType' /\ remote' # None
  BY RowFacts, <1>0 DEF Rollback, RowsType, agent, rows, jobs
<1>3. QED
  BY RowFacts, <1>0, <1>1, <1>2, KnownStep

\* IssueStart keeps the types.
LEMMA TypedIssueStart ==
    ASSUME TypeInv, NEW p \in IssueCalls, IssueStart(p)
    PROVE  RowsType' /\ proc' \in [Actors -> Proc] /\ AgentKnown'
<1>0. p \in Actors /\ remote # None
  BY RowFacts, AtWork, ActorsOf DEF IssueStart, AgentKnown
<1>1. /\ proc' \in [Actors -> Proc]
      /\ proc'[p].pc \notin {"lookup", "apply", "record", "answered"} \/ proc'[p].st # None
      /\ \A q \in Actors : q # p => proc'[q] = proc[q]
  <2>1. CASE Finish(p)
    BY ProcFacts, <1>0, <2>1, FinishStep
  <2>2. CASE synchronize(p, remote, "claim")
    BY ProcFacts, <1>0, <2>2, RunStep, TypeFacts, Constants DEF synchronize
  <2>3. QED
    BY <2>1, <2>2 DEF IssueStart
<1>2. RowsType' /\ remote' # None
  BY RowFacts, <1>0 DEF IssueStart, RowsType, agent, rows, jobs
<1>3. QED
  BY RowFacts, <1>0, <1>1, <1>2, KnownStep

\* IssueRefused keeps the types.
LEMMA TypedIssueRefused ==
    ASSUME TypeInv, NEW p \in IssueCalls, IssueRefused(p)
    PROVE  RowsType' /\ proc' \in [Actors -> Proc] /\ AgentKnown'
<1>0. p \in Actors /\ remote # None
  BY RowFacts, AtWork, ActorsOf DEF IssueRefused
<1>1. /\ proc' \in [Actors -> Proc]
      /\ proc'[p].pc \notin {"lookup", "apply", "record", "answered"}
      /\ \A q \in Actors : q # p => proc'[q] = proc[q]
  BY ProcFacts, <1>0, GotoStep, TypeFacts, Constants DEF IssueRefused
<1>2. RowsType' /\ remote' # None
  BY RowFacts, <1>0 DEF IssueRefused, RowsType, agent, rows, jobs
<1>3. QED
  BY RowFacts, <1>0, <1>1, <1>2, KnownStep

\* IssueUnanswered keeps the types.
LEMMA TypedIssueUnanswered ==
    ASSUME TypeInv, NEW p \in IssueCalls, IssueUnanswered(p)
    PROVE  RowsType' /\ proc' \in [Actors -> Proc] /\ AgentKnown'
<1>0. p \in Actors /\ remote # None
  BY RowFacts, AtWork, ActorsOf DEF IssueUnanswered
<1>1. /\ proc' \in [Actors -> Proc]
      /\ proc'[p].pc \notin {"lookup", "apply", "record", "answered"}
      /\ \A q \in Actors : q # p => proc'[q] = proc[q]
  BY ProcFacts, <1>0, GotoStep, TypeFacts, Constants DEF IssueUnanswered
<1>2. RowsType' /\ remote' # None
  BY RowFacts, <1>0 DEF IssueUnanswered, RowsType, agent, rows, jobs
<1>3. QED
  BY RowFacts, <1>0, <1>1, <1>2, KnownStep

\* IssueUncertain keeps the types.
LEMMA TypedIssueUncertain ==
    ASSUME TypeInv, NEW p \in IssueCalls, IssueUncertain(p)
    PROVE  RowsType' /\ proc' \in [Actors -> Proc] /\ AgentKnown'
<1>0. p \in Actors /\ remote # None
  BY RowFacts, AtWork, ActorsOf DEF IssueUncertain
<1>1. /\ proc' \in [Actors -> Proc]
      /\ proc'[p].pc \notin {"lookup", "apply", "record", "answered"}
      /\ \A q \in Actors : q # p => proc'[q] = proc[q]
  BY ProcFacts, <1>0, FinishStep, TypeFacts, Constants DEF IssueUncertain
<1>2. RowsType' /\ remote' # None
  BY RowFacts, <1>0 DEF IssueUncertain, RowsType, agent, rows, jobs, setSubmission, Submissions
<1>3. QED
  BY RowFacts, <1>0, <1>1, <1>2, KnownStep

\* IssueAnswered keeps the types.
LEMMA TypedIssueAnswered ==
    ASSUME TypeInv, NEW p \in IssueCalls, IssueAnswered(p)
    PROVE  RowsType' /\ proc' \in [Actors -> Proc] /\ AgentKnown'
<1>0. p \in Actors /\ remote # None
  BY RowFacts, AtWork, ActorsOf DEF IssueAnswered
<1>1. /\ proc' \in [Actors -> Proc]
      /\ proc'[p].pc \notin {"lookup", "apply", "record", "answered"} \/ proc'[p].st # None
      /\ \A q \in Actors : q # p => proc'[q] = proc[q]
  <2>0. proc[p].st \in ProtocolStates /\ proc[p].st # None
    BY RowFacts, <1>0, TypeFacts DEF IssueAnswered, AgentKnown
  <2>1. CASE Goto(p, "uncertain")
    BY ProcFacts, <1>0, <2>1, GotoStep, Constants
  <2>2. CASE synchronize(p, proc[p].st, "done")
    BY ProcFacts, <1>0, <2>0, <2>2, RunStep, Constants DEF synchronize
  <2>3. QED
    BY <2>1, <2>2 DEF IssueAnswered
<1>2. RowsType' /\ remote' # None
  BY RowFacts, <1>0 DEF IssueAnswered, RowsType, agent, rows, jobs, setSubmission, Submissions
<1>3. QED
  BY RowFacts, <1>0, <1>1, <1>2, KnownStep

\* AgentIssue keeps the types.
LEMMA TypedAgentIssue ==
    ASSUME TypeInv, NEW p \in IssueCalls, AgentIssue(p)
    PROVE  RowsType' /\ proc' \in [Actors -> Proc] /\ AgentKnown'
<1>0. p \in Actors /\ remote # None
  BY RowFacts, AtWork, ActorsOf DEF AgentIssue
<1>1. /\ proc' \in [Actors -> Proc]
      /\ proc'[p].pc \notin {"lookup", "apply", "record", "answered"} \/ proc'[p].st # None
      /\ \A q \in Actors : q # p => proc'[q] = proc[q]
  <2>0. remote' \in ProtocolStates /\ remote' # None
    BY <1>0, TypeFacts, Constants DEF AgentIssue
  <2>1. CASE Goto(p, "uncertain")
    BY ProcFacts, <1>0, <2>1, GotoStep, Constants
  <2>2. CASE GoOn(p, "answered", remote', proc[p].op)
    <3>1. proc[p].op \in Nat /\ "answered" \in ProcStates
      BY <1>0, TypeFacts, Constants
    <3>2. QED
      BY ProcFacts, <1>0, <2>0, <2>2, <3>1, GoOnStep
  <2>3. QED
    BY <2>1, <2>2 DEF AgentIssue
<1>2. RowsType' /\ remote' # None
  <2>1. remote' \in ProtocolStates /\ remote' # None
    BY <1>0, TypeFacts, Constants DEF AgentIssue
  <2>2. QED
    BY RowFacts, <2>1 DEF AgentIssue, RowsType, rows, jobs
<1>3. QED
  BY RowFacts, <1>0, <1>1, <1>2, KnownStep

\* PerformStart keeps the types.
LEMMA TypedPerformStart ==
    ASSUME LatestExists, TypeInv, NEW p \in HolderCalls, PerformStart(p)
    PROVE  RowsType' /\ proc' \in [Actors -> Proc] /\ AgentKnown'
<1>0. p \in Actors /\ remote # None
  <2>1. ops # <<>> /\ ops[1].ext
    BY DEF PerformStart
  <2>2. 1 \in DOMAIN ops
    BY <2>1, TypeFacts DEF RowsType
  <2>3. QED
    BY <2>1, <2>2, RowFacts, ActorsOf DEF AgentKnown
<1>1. /\ proc' \in [Actors -> Proc]
      /\ proc'[p].pc \notin {"lookup", "apply", "record", "answered"}
      /\ \A q \in Actors : q # p => proc'[q] = proc[q]
  <2>1. findByExternalId({ActionType(p)}) \in Nat
    BY RowFacts, LookUpResult, TypeFacts DEF RowsType
  <2>2. CASE Finish(p)
    BY ProcFacts, <1>0, <2>2, FinishStep
  <2>3. CASE \E pc \in {"insert", "calling"} :
                GoOn(p, pc, None, findByExternalId({ActionType(p)}))
    BY ProcFacts, <1>0, <2>1, <2>3, GoOnStep, Constants
  <2>4. QED
    BY <2>2, <2>3 DEF PerformStart
<1>2. RowsType' /\ remote' # None
  BY RowFacts, <1>0 DEF PerformStart, RowsType, agent, rows, jobs
<1>3. QED
  BY RowFacts, <1>0, <1>1, <1>2, KnownStep

\* PerformWinner keeps the types.
LEMMA TypedPerformWinner ==
    ASSUME LatestExists, TypeInv, NEW p \in HolderCalls, PerformWinner(p)
    PROVE  RowsType' /\ proc' \in [Actors -> Proc] /\ AgentKnown'
<1>0. p \in Actors /\ remote # None
  BY RowFacts, AtWork, ActorsOf DEF PerformWinner
<1>1. /\ proc' \in [Actors -> Proc]
      /\ proc'[p].pc \notin {"lookup", "apply", "record", "answered"}
      /\ \A q \in Actors : q # p => proc'[q] = proc[q]
  <2> DEFINE winner == findLatestByExternalIdAndType({"accept", "reject"})
  <2>1. winner \in Nat
    BY RowFacts, LookUpResult, TypeFacts DEF RowsType
  <2>2. CASE Finish(p)
    BY ProcFacts, <1>0, <2>2, FinishStep
  <2>3. CASE GoOn(p, "calling", None, winner)
    <3> HIDE DEF winner
    <3> QED BY ProcFacts, <1>0, <2>1, <2>3, GoOnStep, Constants
  <2>4. QED
    BY <2>2, <2>3 DEF PerformWinner
<1>2. RowsType' /\ remote' # None
  BY RowFacts, <1>0 DEF PerformWinner, RowsType, agent, rows, jobs
<1>3. QED
  BY RowFacts, <1>0, <1>1, <1>2, KnownStep

\* ActionError keeps the types.
LEMMA TypedActionError ==
    ASSUME TypeInv, NEW p \in HolderCalls, ActionError(p)
    PROVE  RowsType' /\ proc' \in [Actors -> Proc] /\ AgentKnown'
<1>0. p \in Actors /\ remote # None
  BY RowFacts, AtWork, ActorsOf DEF ActionError
<1>1. /\ proc' \in [Actors -> Proc]
      /\ proc'[p].pc \notin {"lookup", "apply", "record", "answered"}
      /\ \A q \in Actors : q # p => proc'[q] = proc[q]
  BY ProcFacts, <1>0, GotoStep, TypeFacts, Constants DEF ActionError
<1>2. RowsType' /\ remote' # None
  BY RowFacts, <1>0 DEF ActionError, RowsType, agent, rows, jobs
<1>3. QED
  BY RowFacts, <1>0, <1>1, <1>2, KnownStep

\* Apply keeps the types.
LEMMA TypedApply ==
    ASSUME TypeInv, NEW p \in Workers \cup Reconcilers \cup IssueCalls, Apply(p)
    PROVE  RowsType' /\ proc' \in [Actors -> Proc] /\ AgentKnown'
<1> DEFINE s == proc[p].st
           o == IssueCredentialOutcome(s)
<1>0. p \in Actors /\ remote # None /\ s \in ProtocolStates
  BY RowFacts, AtWork, TypeFacts, Constants DEF Apply, AgentKnown
<1>1. /\ proc' \in [Actors -> Proc]
      /\ proc'[p].pc \notin {"lookup", "apply", "record", "answered"}
      /\ \A q \in Actors : q # p => proc'[q] = proc[q]
  <2>1. CASE Finish(p)
    BY ProcFacts, <1>0, <2>1, FinishStep
  <2>2. CASE GoOn(p, "claim", s, 0)
    BY ProcFacts, <1>0, <2>2, GoOnStep, Constants
  <2>3. QED
    BY <2>1, <2>2 DEF Apply
<1>2. /\ exchange' = observe(s) \/ exchange' = exchange
      /\ \E S : ops' = transition(S, o.op)
      /\ \/ credential' = credential
         \/ o.cred # None /\ credential' = [credential EXCEPT !.state = o.cred]
      /\ \E E, S : sendInTransaction(E, S)
      /\ lock' = lock \/ lock' = NoOne
      /\ queue' = queue \/ queue' = queue \ {s}
      /\ UNCHANGED <<remote, issued>>
  BY DEF Apply, agent
<1>3. exchange' \in [state : ExchangeStates, ext : BOOLEAN,
                     sub : Submissions, issueOp : Nat]
  <2>1. exchange \in [state : ExchangeStates, ext : BOOLEAN,
                      sub : Submissions, issueOp : Nat]
    BY RowFacts DEF RowsType
  <2>2. observe(s) \in [state : ExchangeStates, ext : BOOLEAN,
                        sub : Submissions, issueOp : Nat]
    BY <1>0, <2>1, ObserveType, Constants
  <2>3. QED
    BY <1>2, <2>1, <2>2
<1>4. ops' \in Seq(Operation) /\ DOMAIN ops' = DOMAIN ops
  <2>1. ops \in Seq(Operation) /\ o.op \in OperationStates
    BY RowFacts, OutcomeType DEF RowsType
  <2> HIDE DEF o
  <2>2. PICK S : ops' = transition(S, o.op)
    BY <1>2
  <2>3. QED
    BY <2>1, <2>2, TransitionRows
<1>5. outbox' \in [Events -> Nat] /\ told' \in [DOMAIN ops' -> Nat]
  BY RowFacts, <1>2, <1>4, JobsType DEF RowsType
<1>6. credential' \in [state : CredentialStates, ext : BOOLEAN]
  <2>1. credential \in [state : CredentialStates, ext : BOOLEAN]
    BY RowFacts DEF RowsType
  <2>2. o.cred # None => o.cred \in CredentialStates
    BY OutcomeType
  <2> HIDE DEF o
  <2>3. QED
    BY <1>2, <2>1, <2>2
<1>7. lock' \in Actors \cup {NoOne} /\ queue' \subseteq ProtocolStates
  BY RowFacts, <1>2 DEF RowsType
<1>8. RowsType' /\ remote' # None
  BY RowFacts, <1>0, <1>2, <1>3, <1>4, <1>5, <1>6, <1>7 DEF RowsType
<1>9. QED
  BY RowFacts, <1>0, <1>1, <1>8, KnownStep

\* IssueClaim keeps the types.
LEMMA TypedIssueClaim ==
    ASSUME TypeInv, NEW p \in IssueCalls, IssueClaim(p)
    PROVE  RowsType' /\ proc' \in [Actors -> Proc] /\ AgentKnown'
<1>0. p \in Actors /\ remote # None
  BY RowFacts, AtWork, ActorsOf DEF IssueClaim
<1>1. /\ proc' \in [Actors -> Proc]
      /\ proc'[p].pc \notin {"lookup", "apply", "record", "answered"}
      /\ \A q \in Actors : q # p => proc'[q] = proc[q]
  <2>1. CASE Finish(p)
    BY ProcFacts, <1>0, <2>1, FinishStep
  <2>2. CASE GoOn(p, "issuing", proc[p].st, Len(ops) + 1)
    <3> DEFINE n == Len(ops) + 1
               st == proc[p].st
    <3>1. n \in Nat /\ "issuing" \in ProcStates /\ st \in ProtocolStates \cup {None}
      BY <1>0, TypeFacts, Constants
    <3>2. GoOn(p, "issuing", st, n)
      BY <2>2
    <3> HIDE DEF n, st
    <3>3. QED
      BY ProcFacts, <1>0, <3>1, <3>2, GoOnStep
  <2>3. QED
    BY <2>1, <2>2 DEF IssueClaim
<1>2. RowsType' /\ remote' # None
  <2>1. CASE UNCHANGED <<ops, told, exchange>>
    BY RowFacts, <1>0, <2>1 DEF IssueClaim, RowsType, agent
  <2>2. ASSUME NEW row \in Operation, ops' = Append(ops, row), told' = Append(told, 0),
               exchange' = [exchange EXCEPT !.sub = "submitting", !.issueOp = Len(ops) + 1]
        PROVE  RowsType' /\ remote' # None
    <3>1. /\ ops' \in Seq(Operation) /\ DOMAIN ops' = 1..(Len(ops) + 1)
          /\ told' \in [DOMAIN ops' -> Nat]
      BY RowFacts, <2>2, AppendType DEF RowsType
    <3>2. exchange' \in [state : ExchangeStates, ext : BOOLEAN,
                         sub : Submissions, issueOp : Nat]
      <4>1. exchange \in [state : ExchangeStates, ext : BOOLEAN,
                          sub : Submissions, issueOp : Nat]
        BY RowFacts DEF RowsType
      <4>2. Len(ops) + 1 \in Nat /\ "submitting" \in Submissions
        BY TypeFacts DEF Submissions
      <4>3. QED
        BY <2>2, <4>1, <4>2
    <3>3. QED
      BY RowFacts, <1>0, <3>1, <3>2 DEF IssueClaim, RowsType, agent
  <2>3. QED
    BY <2>1, <2>2, Constants DEF IssueClaim, Operation, OperationTypes
<1>3. QED
  BY RowFacts, <1>0, <1>1, <1>2, KnownStep

\* PerformInsert keeps the types.
LEMMA TypedPerformInsert ==
    ASSUME TypeInv, NEW p \in HolderCalls, PerformInsert(p)
    PROVE  RowsType' /\ proc' \in [Actors -> Proc] /\ AgentKnown'
<1>0. p \in Actors /\ remote # None
  BY RowFacts, AtWork, ActorsOf DEF PerformInsert
<1>1. /\ proc' \in [Actors -> Proc]
      /\ proc'[p].pc \notin {"lookup", "apply", "record", "answered"}
      /\ \A q \in Actors : q # p => proc'[q] = proc[q]
  <2>1. CASE Goto(p, "winner")
    BY ProcFacts, <1>0, <2>1, GotoStep, Constants
  <2>2. CASE GoOn(p, "calling", None, Len(ops) + 1)
    <3>1. Len(ops) + 1 \in Nat /\ "calling" \in ProcStates
      BY TypeFacts, Constants
    <3>2. QED
      BY ProcFacts, <1>0, <2>2, <3>1, GoOnStep
  <2>3. QED
    BY <2>1, <2>2 DEF PerformInsert
<1>2. RowsType' /\ remote' # None
  <2>1. CASE UNCHANGED <<ops, told>>
    BY RowFacts, <1>0, <2>1 DEF PerformInsert, RowsType, agent
  <2>2. ASSUME NEW row \in Operation, ops' = Append(ops, row), told' = Append(told, 0)
        PROVE  RowsType' /\ remote' # None
    <3>1. /\ ops' \in Seq(Operation) /\ DOMAIN ops' = 1..(Len(ops) + 1)
          /\ told' \in [DOMAIN ops' -> Nat]
      BY RowFacts, <2>2, AppendType DEF RowsType
    <3>2. QED
      BY RowFacts, <1>0, <2>2, <3>1 DEF PerformInsert, RowsType, agent
  <2>3. [type |-> ActionType(p), state |-> "pending", ext |-> TRUE] \in Operation
    BY Constants DEF ActionType, Operation, OperationTypes
  <2>4. QED
    BY <2>1, <2>2, <2>3 DEF PerformInsert
<1>3. QED
  BY RowFacts, <1>0, <1>1, <1>2, KnownStep

\* IssueReopen keeps the types.
LEMMA TypedIssueReopen ==
    ASSUME TypeInv, NEW p \in IssueCalls, IssueReopen(p)
    PROVE  RowsType' /\ proc' \in [Actors -> Proc] /\ AgentKnown'
<1>0. p \in Actors /\ remote # None
  BY RowFacts, AtWork, ActorsOf DEF IssueReopen
<1>1. /\ proc' \in [Actors -> Proc]
      /\ proc'[p].pc \notin {"lookup", "apply", "record", "answered"}
      /\ \A q \in Actors : q # p => proc'[q] = proc[q]
  BY ProcFacts, <1>0, FinishStep, TypeFacts, Constants DEF IssueReopen
<1>2. RowsType' /\ remote' # None
  <2>1. /\ ops' = ops \/ ops' = transition({proc[p].op}, "failed")
        /\ \E E, S : sendInTransaction(E, S)
        /\ UNCHANGED <<remote, issued, queue, credential, lock>>
        /\ exchange' = exchange \/ exchange' = [exchange EXCEPT !.sub = "not-submitted"]
    BY DEF IssueReopen, agent
  <2>2. ops \in Seq(Operation) /\ "failed" \in OperationStates
    BY RowFacts, Constants DEF RowsType
  <2>3. ops' \in Seq(Operation) /\ DOMAIN ops' = DOMAIN ops
    BY <2>1, <2>2, TransitionRows
  <2>4. outbox' \in [Events -> Nat] /\ told' \in [DOMAIN ops' -> Nat]
    BY RowFacts, <2>1, <2>3, JobsType DEF RowsType
  <2>5. QED
    BY RowFacts, <1>0, <2>1, <2>3, <2>4 DEF RowsType, Submissions
<1>3. QED
  BY RowFacts, <1>0, <1>1, <1>2, KnownStep

\* SettleAction keeps the types.
LEMMA TypedSettleAction ==
    ASSUME TypeInv, NEW p \in HolderCalls, SettleAction(p)
    PROVE  RowsType' /\ proc' \in [Actors -> Proc] /\ AgentKnown'
<1>0. p \in Actors /\ remote # None
  BY RowFacts, AtWork, ActorsOf DEF SettleAction
<1>1. /\ proc' \in [Actors -> Proc]
      /\ proc'[p].pc \notin {"lookup", "apply", "record", "answered"}
      /\ \A q \in Actors : q # p => proc'[q] = proc[q]
  BY ProcFacts, <1>0, FinishStep, TypeFacts, Constants DEF SettleAction
<1>2. RowsType' /\ remote' # None
  <2>1. /\ ops' = ops \/ ops' = transition({proc[p].op}, ActionOutcome(p))
        /\ \E E, S : sendInTransaction(E, S)
        /\ UNCHANGED <<remote, issued, queue, credential, lock>>
        /\ exchange' = exchange
    BY DEF SettleAction, agent
  <2>2. ops \in Seq(Operation) /\ ActionOutcome(p) \in OperationStates
    BY RowFacts, Constants DEF RowsType, ActionOutcome
  <2>3. ops' \in Seq(Operation) /\ DOMAIN ops' = DOMAIN ops
    BY <2>1, <2>2, TransitionRows
  <2>4. outbox' \in [Events -> Nat] /\ told' \in [DOMAIN ops' -> Nat]
    BY RowFacts, <2>1, <2>3, JobsType DEF RowsType
  <2>5. QED
    BY RowFacts, <1>0, <2>1, <2>3, <2>4 DEF RowsType
<1>3. QED
  BY RowFacts, <1>0, <1>1, <1>2, KnownStep

\* SettleActionFailure keeps the types.
LEMMA TypedSettleActionFailure ==
    ASSUME TypeInv, NEW p \in HolderCalls, SettleActionFailure(p)
    PROVE  RowsType' /\ proc' \in [Actors -> Proc] /\ AgentKnown'
<1>0. p \in Actors /\ remote # None
  BY RowFacts, AtWork, ActorsOf DEF SettleActionFailure
<1>1. /\ proc' \in [Actors -> Proc]
      /\ proc'[p].pc \notin {"lookup", "apply", "record", "answered"}
      /\ \A q \in Actors : q # p => proc'[q] = proc[q]
  BY ProcFacts, <1>0, FinishStep, TypeFacts, Constants DEF SettleActionFailure
<1>2. RowsType' /\ remote' # None
  <2>1. /\ ops' = ops \/ ops' = transition({proc[p].op}, "failed")
        /\ \E E, S : sendInTransaction(E, S)
        /\ UNCHANGED <<remote, issued, queue, credential, lock>>
        /\ exchange' = exchange
    BY DEF SettleActionFailure, agent
  <2>2. ops \in Seq(Operation) /\ "failed" \in OperationStates
    BY RowFacts, Constants DEF RowsType
  <2>3. ops' \in Seq(Operation) /\ DOMAIN ops' = DOMAIN ops
    BY <2>1, <2>2, TransitionRows
  <2>4. outbox' \in [Events -> Nat] /\ told' \in [DOMAIN ops' -> Nat]
    BY RowFacts, <2>1, <2>3, JobsType DEF RowsType
  <2>5. QED
    BY RowFacts, <1>0, <2>1, <2>3, <2>4 DEF RowsType
<1>3. QED
  BY RowFacts, <1>0, <1>1, <1>2, KnownStep

\* AgentAction keeps the types.
LEMMA TypedAgentAction ==
    ASSUME TypeInv, NEW p \in HolderCalls, AgentAction(p)
    PROVE  RowsType' /\ proc' \in [Actors -> Proc] /\ AgentKnown'
<1>0. p \in Actors /\ remote # None
  BY RowFacts, AtWork, ActorsOf DEF AgentAction
<1>1. /\ proc' \in [Actors -> Proc]
      /\ proc'[p].pc \notin {"lookup", "apply", "record", "answered"}
      /\ \A q \in Actors : q # p => proc'[q] = proc[q]
  <2>0. remote' \in ProtocolStates /\ proc[p].op \in Nat /\ "settle" \in ProcStates
    BY <1>0, TypeFacts, Constants DEF AgentAction
  <2>1. CASE Goto(p, "settle-failed")
    BY ProcFacts, <1>0, <2>1, GotoStep, Constants
  <2>2. CASE GoOn(p, "settle", remote', proc[p].op)
    BY ProcFacts, <1>0, <2>0, <2>2, GoOnStep
  <2>3. QED
    BY <2>1, <2>2 DEF AgentAction
<1>2. RowsType' /\ remote' # None
  <2>1. remote' \in ProtocolStates /\ remote' # None
    BY Constants DEF AgentAction
  <2>2. QED
    BY RowFacts, <2>1 DEF AgentAction, RowsType, rows, jobs
<1>3. QED
  BY RowFacts, <1>0, <1>1, <1>2, KnownStep

\* AgentMoves keeps the types.
LEMMA TypedAgentMoves ==
    ASSUME TypeInv, NEW m \in AgentSteps, AgentMoves(m[1], m[2])
    PROVE  RowsType' /\ proc' \in [Actors -> Proc] /\ AgentKnown'
<1>1. remote' \in ProtocolStates /\ remote' # None
  BY Constants DEF AgentMoves, AgentSteps
<1>2. RowsType'
  BY RowFacts, <1>1 DEF AgentMoves, RowsType, rows, jobs
<1>3. proc' \in [Actors -> Proc] /\ AgentKnown'
  BY ProcFacts, RowFacts, <1>1 DEF AgentMoves, AgentKnown
<1>4. QED
  BY <1>2, <1>3

\* Crash keeps the types.
LEMMA TypedCrash ==
    ASSUME TypeInv, NEW p \in Actors, Crash(p)
    PROVE  RowsType' /\ proc' \in [Actors -> Proc] /\ AgentKnown'
<1>1. /\ proc' \in [Actors -> Proc]
      /\ proc'[p].pc \in {"idle", "done"}
      /\ \A q \in Actors : q # p => proc'[q] = proc[q]
  BY ProcFacts, FinishStep DEF Crash
<1>2. RowsType'
  BY RowFacts DEF Crash, RowsType, agent, jobs
<1>3. AgentKnown'
  BY RowFacts, <1>1 DEF Crash, AgentKnown, agent
<1>4. QED
  BY <1>1, <1>2, <1>3

\* Every action keeps the types.
LEMMA TypeNext == LatestExists /\ TypeInv /\ [Next]_vars => TypeInv'
<1> SUFFICES ASSUME LatestExists, TypeInv, [Next]_vars
             PROVE  RowsType' /\ proc' \in [Actors -> Proc] /\ AgentKnown'
  BY TypeSplitNext DEF TypeInv
<1>1. CASE UNCHANGED vars
  BY <1>1, ProcFacts, RowFacts DEF vars, agent, rows, jobs, RowsType, AgentKnown
<1>2. QED
  BY <1>1, TypedCreateOffer, TypedAgentOffer, TypedOfferAnswer,
     TypedOfferError, TypedRecordOffer, TypedRecordOfferFailure,
     TypedStartJob, TypedReconcile, TypedLookUp, TypedRollback,
     TypedIssueStart, TypedIssueRefused, TypedIssueUnanswered,
     TypedIssueUncertain, TypedIssueAnswered, TypedAgentIssue,
     TypedPerformStart, TypedPerformWinner, TypedActionError, TypedApply,
     TypedIssueClaim, TypedPerformInsert, TypedIssueReopen,
     TypedSettleAction, TypedSettleActionFailure, TypedAgentAction,
     TypedAgentMoves, TypedCrash
     DEF Next, Offer, Process, Issue, Perform

-----------------------------------------------------------------------------
(* The lookups *)

\* A non-empty set of indices of the operation table has a greatest element,
\* so an ORDER BY created_at DESC lookup that has a candidate returns one.
LEMMA Greatest ==
    ASSUME NEW n \in Nat, NEW S \in SUBSET (1..n), S # {}
    PROVE  \E i \in S : \A j \in S : j <= i
<1> DEFINE R == {p \in Nat \X Nat : p[1] < p[2]}
           T == {n - i : i \in S}
<1>1. IsWellFoundedOn(R, Nat)
  <2>1. OpToRel(<, Nat) = R
    BY DEF OpToRel
  <2>2. QED
    BY <2>1, NatLessThanWellFounded
<1>2. T \subseteq Nat /\ T # {}
  <2>1. PICK e \in S : TRUE
    OBVIOUS
  <2>2. n - e \in T
    BY <2>1
  <2>3. T \subseteq Nat
    OBVIOUS
  <2>4. QED
    BY <2>2, <2>3
<1>3. PICK x \in T : \A y \in T : ~ (<<y, x>> \in R)
  <2> HIDE DEF R, T
  <2> QED BY <1>1, <1>2, WFMin
<1>4. PICK i \in S : x = n - i
  OBVIOUS
<1>5. ASSUME NEW j \in S PROVE j <= i
  <2>1. n - j \in T /\ n - j \in Nat /\ n - i \in Nat
    OBVIOUS
  <2>2. ~ (n - j < n - i)
    BY <1>3, <1>4, <2>1
  <2>3. QED
    BY <2>1, <2>2
<1>6. QED
  BY <1>5

\* What Greatest says, as the lemmas about the lookups assume it.
LEMMA Latest == LatestExists
  BY Greatest DEF LatestExists

-----------------------------------------------------------------------------
(* Settlements *)

\* One step of OperationsMoveForward.
Forward ==
    /\ DOMAIN ops \subseteq DOMAIN ops'
    /\ \A i \in DOMAIN ops :
          ops'[i].state # ops[i].state =>
             ops[i].state \in operationStatesBelow(ops'[i].state)

\* The rank table: what lies below a terminal state is in flight, and
\* nothing below any state is terminal.
LEMMA Below ==
    /\ \A s \in TerminalStates : operationStatesBelow(s) = InFlightStates
    /\ \A s \in OperationStates : operationStatesBelow(s) \cap TerminalStates = {}
    /\ \A s \in OperationStates : s \in TerminalStates \/ s \in InFlightStates
    /\ InFlightStates \cap TerminalStates = {}
  BY DEF operationStatesBelow, OPERATION_STATE_RANK, OperationStates,
         InFlightStates, TerminalStates

\* A transaction that moves a set of operations, each by its guard, and tells
\* their settlement if that is what it was, keeps the count right.
LEMMA GuardedWrite ==
    ASSUME TypeInv, SettlementToldOnce,
           NEW S \in SUBSET DOMAIN ops, NEW state \in OperationStates,
           \A i \in S : isForward(i, state),
           DOMAIN ops' = DOMAIN ops,
           \A i \in DOMAIN ops : ops'[i].state = IF i \in S THEN state ELSE ops[i].state,
           NEW E, sendInTransaction(E, IF state \in TerminalStates THEN S ELSE {})
    PROVE  SettlementToldOnce' /\ Forward
<1>1. told \in [DOMAIN ops -> Nat]
  BY TypeFacts DEF RowsType
<1>2. Forward
  BY DEF Forward, isForward
<1>3. ASSUME NEW i \in DOMAIN ops
      PROVE  told'[i] = IF ops'[i].state \in TerminalStates THEN 1 ELSE 0
  <2>1. told[i] = IF ops[i].state \in TerminalStates THEN 1 ELSE 0
    BY DEF SettlementToldOnce
  <2>2. told'[i] = told[i] + (IF state \in TerminalStates /\ i \in S THEN 1 ELSE 0)
    BY <1>1 DEF sendInTransaction
  <2>3. CASE i \in S
    <3>1. ops[i].state \notin TerminalStates
      BY <2>3, Below DEF isForward
    <3>2. QED
      BY <2>1, <2>2, <2>3, <3>1
  <2>4. CASE i \notin S
    BY <2>1, <2>2, <2>4
  <2>5. QED
    BY <2>3, <2>4
<1>4. QED
  BY <1>2, <1>3 DEF SettlementToldOnce

\* The same with the UPDATE spelled out.
LEMMA Settled ==
    ASSUME TypeInv, SettlementToldOnce,
           NEW S \in SUBSET DOMAIN ops, NEW state \in OperationStates,
           \A i \in S : isForward(i, state),
           ops' = transition(S, state),
           NEW E, sendInTransaction(E, IF state \in TerminalStates THEN S ELSE {})
    PROVE  SettlementToldOnce' /\ Forward
<1>1. ops \in Seq(Operation)
  BY TypeFacts DEF RowsType
<1>2. /\ DOMAIN ops' = DOMAIN ops
      /\ \A i \in DOMAIN ops : ops'[i].state = IF i \in S THEN state ELSE ops[i].state
  BY <1>1, TransitionRows
<1>3. QED
  BY <1>2, GuardedWrite

\* A transaction that sends only jobs that report no settlement.
LEMMA NothingTold ==
    ASSUME TypeInv, SettlementToldOnce, ops' = ops, NEW E, sendInTransaction(E, {})
    PROVE  SettlementToldOnce' /\ Forward
<1>1. told \in [DOMAIN ops -> Nat]
  BY TypeFacts DEF RowsType
<1>2. told' = told
  BY <1>1 DEF sendInTransaction
<1>3. QED
  BY <1>2 DEF SettlementToldOnce, Forward

\* A transaction that inserts an operation in flight.
LEMMA InsertRow ==
    ASSUME TypeInv, SettlementToldOnce,
           NEW row \in Operation, row.state \in InFlightStates,
           ops' = Append(ops, row), told' = Append(told, 0)
    PROVE  SettlementToldOnce' /\ Forward
<1>1. ops \in Seq(Operation) /\ told \in [DOMAIN ops -> Nat]
  BY TypeFacts DEF RowsType
<1>2. /\ DOMAIN ops' = 1..(Len(ops) + 1) /\ DOMAIN ops = 1..Len(ops) /\ Len(ops) \in Nat
      /\ \A i \in DOMAIN ops : ops'[i] = ops[i] /\ told'[i] = told[i]
      /\ ops'[Len(ops) + 1] = row /\ told'[Len(ops) + 1] = 0
  BY <1>1, AppendType
<1>3. Forward
  BY <1>2 DEF Forward
<1>4. ASSUME NEW i \in DOMAIN ops'
      PROVE  told'[i] = IF ops'[i].state \in TerminalStates THEN 1 ELSE 0
  <2>1. CASE i \in DOMAIN ops
    BY <1>2, <2>1 DEF SettlementToldOnce
  <2>2. CASE i = Len(ops) + 1
    BY <1>2, <2>2, Below
  <2>3. i \in 1..Len(ops) \/ i = Len(ops) + 1
    <3>1. i \in 1..(Len(ops) + 1) /\ Len(ops) \in Nat
      BY <1>2
    <3>2. QED
      BY <3>1
  <2>4. QED
    BY <1>2, <2>1, <2>2, <2>3
<1>5. QED
  BY <1>3, <1>4 DEF SettlementToldOnce

\* A step that changes neither the operations nor what was told of them.
LEMMA RowsKept ==
    ASSUME TypeInv, SettlementToldOnce, UNCHANGED <<ops, told>>
    PROVE  SettlementToldOnce' /\ Forward
  BY DEF SettlementToldOnce, Forward

\* Every step keeps the count right and moves operations forward only.
LEMMA SettlementStep ==
    ASSUME TypeInv, OpsInv, SettlementToldOnce, [Next]_vars
    PROVE  SettlementToldOnce' /\ Forward
<1>0. /\ ops \in Seq(Operation) /\ Len(ops) \in Nat /\ DOMAIN ops = 1..Len(ops)
      /\ \A i \in DOMAIN ops : ops[i] \in Operation
  BY TypeFacts DEF RowsType
<1>1. CASE UNCHANGED <<ops, told>>
  BY <1>1, RowsKept
<1>2. CASE CreateOffer
  <2>1. DOMAIN ops = {}
    BY <1>2 DEF CreateOffer, OpsInv
  <2>2. QED
    BY <1>2, <2>1, Below DEF CreateOffer, SettlementToldOnce, Forward, TerminalStates
<1>3. CASE RecordOffer
  <2> DEFINE o == IssueCredentialOutcome(proc[Offerer].st)
             t == transition({1}, o.op)
  <2>1. 1 \in DOMAIN ops
    BY <1>0, <1>3 DEF RecordOffer, OpsInv
  <2>2. o.op \in OperationStates
    BY OutcomeType
  <2>3. /\ t \in Seq(Operation) /\ DOMAIN t = DOMAIN ops
        /\ \A i \in DOMAIN ops : t[i].state = IF i \in {1} THEN o.op ELSE ops[i].state
    <3> HIDE DEF o
    <3> QED BY <1>0, <2>2, TransitionRows
  <2>4. \/ UNCHANGED <<ops, told>>
        \/ \E E : /\ isForward(1, o.op)
                  /\ ops' = [t EXCEPT ![1].ext = TRUE]
                  /\ sendInTransaction(E, IF o.op \in TerminalStates THEN {1} ELSE {})
        \/ \E E : ops' = ops /\ sendInTransaction(E, {})
    BY <1>3 DEF RecordOffer, jobs
  <2> HIDE DEF o, t
  <2>5. CASE \E E : ops' = ops /\ sendInTransaction(E, {})
    BY <2>5, NothingTold
  <2>6. ASSUME NEW E, isForward(1, o.op), ops' = [t EXCEPT ![1].ext = TRUE],
               sendInTransaction(E, IF o.op \in TerminalStates THEN {1} ELSE {})
        PROVE  SettlementToldOnce' /\ Forward
    <3>1. /\ DOMAIN ops' = DOMAIN ops
          /\ \A i \in DOMAIN ops : ops'[i].state = IF i \in {1} THEN o.op ELSE ops[i].state
      BY <2>3, <2>6, StoreExternalId
    <3>2. {1} \in SUBSET DOMAIN ops /\ \A i \in {1} : isForward(i, o.op)
      BY <2>1, <2>6
    <3>3. QED
      BY <2>2, <2>6, <3>1, <3>2, GuardedWrite
  <2>7. QED
    BY <1>1, <2>4, <2>5, <2>6
<1>4. CASE RecordOfferFailure
  <2>1. 1 \in DOMAIN ops /\ "failed" \in OperationStates /\ "failed" \in TerminalStates
    BY <1>0, <1>4, Constants DEF RecordOfferFailure, OpsInv, TerminalStates
  <2>2. \/ UNCHANGED <<ops, told>>
        \/ \E E : /\ isForward(1, "failed")
                  /\ ops' = transition({1}, "failed")
                  /\ sendInTransaction(E, {1})
        \/ \E E : ops' = ops /\ sendInTransaction(E, {})
    BY <1>4 DEF RecordOfferFailure, jobs
  <2>3. CASE \E E : ops' = ops /\ sendInTransaction(E, {})
    BY <2>3, NothingTold
  <2>4. CASE \E E : /\ isForward(1, "failed")
                    /\ ops' = transition({1}, "failed")
                    /\ sendInTransaction(E, {1})
    BY <1>0, <2>1, <2>4, Settled
  <2>5. QED
    BY <1>1, <2>2, <2>3, <2>4
<1>5. ASSUME NEW p \in Workers \cup Reconcilers \cup IssueCalls, Apply(p)
      PROVE  SettlementToldOnce' /\ Forward
  <2> DEFINE o == IssueCredentialOutcome(proc[p].st)
             found == proc[p].op
             final == o.op \in TerminalStates
             opWon == found # 0 /\ isForward(found, o.op)
             offerWon == /\ opWon /\ final
                         /\ ops[found].type \in {"accept", "issue", "reject"}
                         /\ credential.ext /\ isForward(1, o.op)
             S == (IF opWon THEN {found} ELSE {}) \cup (IF offerWon THEN {1} ELSE {})
  <2>1. /\ ops' = transition(S, o.op)
        /\ \E E : sendInTransaction(E, (IF opWon /\ final THEN {found} ELSE {}) \cup
                                       (IF offerWon THEN {1} ELSE {}))
    BY <1>5 DEF Apply
  <2>2. (IF opWon /\ final THEN {found} ELSE {}) \cup (IF offerWon THEN {1} ELSE {})
        = IF o.op \in TerminalStates THEN S ELSE {}
    OBVIOUS
  <2>3. o.op \in OperationStates
    BY OutcomeType
  <2>4. S \in SUBSET DOMAIN ops /\ \A i \in S : isForward(i, o.op)
    <3>1. found \in 0..Len(ops)
      BY Constants DEF OpsInv
    <3>2. found # 0 => found \in DOMAIN ops /\ 1 \in DOMAIN ops
      BY <1>0, <3>1
    <3> HIDE DEF o, found
    <3>3. QED
      BY <3>2
  <2> HIDE DEF o, S
  <2>5. \E E : sendInTransaction(E, IF o.op \in TerminalStates THEN S ELSE {})
    BY <2>1, <2>2
  <2>6. QED
    BY <1>0, <2>1, <2>3, <2>4, <2>5, Settled
<1>6. ASSUME NEW p \in IssueCalls, IssueClaim(p)
      PROVE  SettlementToldOnce' /\ Forward
  <2> DEFINE row == [type |-> "issue", state |-> "processing", ext |-> TRUE]
  <2>1. row \in Operation /\ row.state \in InFlightStates
    BY Constants DEF Operation, OperationTypes, InFlightStates
  <2>2. UNCHANGED <<ops, told>> \/ (ops' = Append(ops, row) /\ told' = Append(told, 0))
    BY <1>6 DEF IssueClaim
  <2> HIDE DEF row
  <2>3. QED
    BY <1>1, <2>1, <2>2, InsertRow
<1>7. ASSUME NEW p \in HolderCalls, PerformInsert(p)
      PROVE  SettlementToldOnce' /\ Forward
  <2> DEFINE row == [type |-> ActionType(p), state |-> "pending", ext |-> TRUE]
  <2>1. row \in Operation /\ row.state \in InFlightStates
    BY Constants DEF Operation, OperationTypes, InFlightStates, ActionType
  <2>2. UNCHANGED <<ops, told>> \/ (ops' = Append(ops, row) /\ told' = Append(told, 0))
    BY <1>7 DEF PerformInsert
  <2> HIDE DEF row
  <2>3. QED
    BY <1>1, <2>1, <2>2, InsertRow
<1>8. ASSUME NEW p \in IssueCalls, IssueReopen(p)
      PROVE  SettlementToldOnce' /\ Forward
  <2> DEFINE mine == proc[p].op
  <2>1. {mine} \in SUBSET DOMAIN ops /\ "failed" \in OperationStates
    <3>1. p \in Actors /\ proc[p].pc = "refused"
      BY <1>8, Constants DEF IssueReopen
    <3>2. mine \in 0..Len(ops) /\ mine # 0
      BY <3>1 DEF OpsInv
    <3>3. mine \in DOMAIN ops
      BY <1>0, <3>2
    <3>4. QED
      BY <3>3, Constants DEF ActionOutcome
  <2>2. \/ \E E : /\ isForward(mine, "failed")
                  /\ ops' = transition({mine}, "failed")
                  /\ sendInTransaction(E, IF "failed" \in TerminalStates THEN {mine} ELSE {})
        \/ \E E : ops' = ops /\ sendInTransaction(E, {})
    BY <1>8, Below DEF IssueReopen, isForward, TerminalStates, InFlightStates
  <2>3. \A i \in {mine} : isForward(mine, "failed") => isForward(i, "failed")
    OBVIOUS
  <2> HIDE DEF mine
  <2>4. QED
    BY <1>0, <2>1, <2>2, <2>3, Settled, NothingTold
<1>9. ASSUME NEW p \in HolderCalls, SettleAction(p)
      PROVE  SettlementToldOnce' /\ Forward
  <2> DEFINE mine == proc[p].op
  <2>1. {mine} \in SUBSET DOMAIN ops /\ ActionOutcome(p) \in OperationStates
    <3>1. p \in Actors /\ proc[p].pc = "settle"
      BY <1>9, Constants DEF SettleAction
    <3>2. mine \in 0..Len(ops) /\ mine # 0
      BY <3>1 DEF OpsInv
    <3>3. mine \in DOMAIN ops
      BY <1>0, <3>2
    <3>4. QED
      BY <3>3, Constants DEF ActionOutcome
  <2>2. \/ \E E : /\ isForward(mine, ActionOutcome(p))
                  /\ ops' = transition({mine}, ActionOutcome(p))
                  /\ sendInTransaction(E, IF ActionOutcome(p) \in TerminalStates THEN {mine} ELSE {})
        \/ \E E : ops' = ops /\ sendInTransaction(E, {})
    BY <1>9 DEF SettleAction, ActionOutcome, TerminalStates
  <2>3. \A i \in {mine} : isForward(mine, ActionOutcome(p)) => isForward(i, ActionOutcome(p))
    OBVIOUS
  <2> HIDE DEF mine
  <2>4. QED
    BY <1>0, <2>1, <2>2, <2>3, Settled, NothingTold
<1>10. ASSUME NEW p \in HolderCalls, SettleActionFailure(p)
      PROVE  SettlementToldOnce' /\ Forward
  <2> DEFINE mine == proc[p].op
  <2>1. {mine} \in SUBSET DOMAIN ops /\ "failed" \in OperationStates
    <3>1. p \in Actors /\ proc[p].pc = "settle-failed"
      BY <1>10, Constants DEF SettleActionFailure
    <3>2. mine \in 0..Len(ops) /\ mine # 0
      BY <3>1 DEF OpsInv
    <3>3. mine \in DOMAIN ops
      BY <1>0, <3>2
    <3>4. QED
      BY <3>3, Constants DEF ActionOutcome
  <2>2. \/ \E E : /\ isForward(mine, "failed")
                  /\ ops' = transition({mine}, "failed")
                  /\ sendInTransaction(E, IF "failed" \in TerminalStates THEN {mine} ELSE {})
        \/ \E E : ops' = ops /\ sendInTransaction(E, {})
    BY <1>10 DEF SettleActionFailure, TerminalStates
  <2>3. \A i \in {mine} : isForward(mine, "failed") => isForward(i, "failed")
    OBVIOUS
  <2> HIDE DEF mine
  <2>4. QED
    BY <1>0, <2>1, <2>2, <2>3, Settled, NothingTold
<1>11. CASE \/ AgentOffer \/ OfferAnswer \/ OfferError \/ UNCHANGED vars
            \/ \E w \in Workers : StartJob(w)
            \/ \E r \in Reconcilers : reconcile(r)
            \/ \E p \in Workers \cup Reconcilers \cup IssueCalls : LookUp(p) \/ Rollback(p)
            \/ \E m \in AgentSteps : AgentMoves(m[1], m[2])
            \/ \E p \in Actors : Crash(p)
  BY <1>1, <1>11
     DEF AgentOffer, OfferAnswer, OfferError, vars, StartJob, reconcile, LookUp,
         Rollback, AgentMoves, Crash, rows, jobs
<1>12. CASE \E c \in IssueCalls :
               \/ IssueStart(c) \/ AgentIssue(c) \/ IssueRefused(c) \/ IssueUnanswered(c)
               \/ IssueAnswered(c) \/ IssueUncertain(c)
  BY <1>1, <1>12 DEF IssueStart, AgentIssue, IssueRefused, IssueUnanswered,
     IssueAnswered, IssueUncertain, rows, jobs
<1>13. CASE \E c \in HolderCalls :
               PerformStart(c) \/ PerformWinner(c) \/ AgentAction(c) \/ ActionError(c)
  BY <1>1, <1>13 DEF PerformStart, PerformWinner, AgentAction, ActionError, rows, jobs
<1>14. QED
  BY <1>2, <1>3, <1>4, <1>5, <1>6, <1>7, <1>8, <1>9, <1>10, <1>11, <1>12, <1>13
     DEF Next, Offer, Process, Issue, Perform

-----------------------------------------------------------------------------
(* Theorem *)

\* TypeOK holds in every reachable state, for every set of concurrent actors.
THEOREM TypeCorrect == Spec => []TypeOK
<1>1. TypeInv => TypeOK
  BY DEF TypeInv
<1>2. QED
  BY TypeInit, Latest, TypeNext, <1>1, PTL DEF Spec

=============================================================================
