---------------------------- MODULE Connections -----------------------------
(***************************************************************************)
(* DIDComm connections: the requests that create, accept, reconcile and    *)
(* delete them (ConnectionService), the agent's handshakes, and the runs   *)
(* of the protocol.state-change worker that apply its reports              *)
(* (ProtocolStateChangeService.applyConnectionOutcome).                    *)
(*                                                                         *)
(* A connection is known by the agent's id for it.  It is an invitation of *)
(* ours for one use ("single"), an invitation of another party that we     *)
(* accept ("accept"), or a party that uses the reusable invitation         *)
(* ("party"), whose own row is the template.                               *)
(***************************************************************************)
EXTENDS StateMapping

CONSTANTS
    Conns,      \* the agent's connection ids
    Template    \* the row of a reusable invitation

ASSUME ConnectionsAssumption == Template \notin Conns

VARIABLES
    kind,     \* how each connection came to be
    row,      \* the connection rows
    req,      \* the creating request: where it is, and what the agent answered
    op,       \* the connection.create operation
    agent,    \* the handshake, as far as the agent has taken it
    gone,     \* the connections deleted at the agent
    job,      \* the report of each state: queued, or what its run has found
    told      \* connection.established dispatches for the row

vars == <<kind, row, req, op, agent, gone, job, told>>

-----------------------------------------------------------------------------

ConnectionStates == {"invited", "requested", "responded", "active", "completed", "abandoned"}

CONNECTION_STATE_RANK(s) ==
    CASE s = "invited"   -> 0
      [] s = "requested" -> 1
      [] s = "responded" -> 2
      [] s = "active"    -> 3
      [] OTHER           -> 4

\* Mutant: a state of the same rank may be left.
connectionStatesBelow_Equal(target) ==
    {s \in ConnectionStates \ {target} :
        CONNECTION_STATE_RANK(s) <= CONNECTION_STATE_RANK(target)}

connectionStatesBelow(target) ==
    {s \in ConnectionStates : CONNECTION_STATE_RANK(s) < CONNECTION_STATE_RANK(target)}

Ended == {"completed", "abandoned"}
Established == {"active", "completed"}

\* The steps a handshake takes; the agent may skip a state in its reports.
HandshakeSteps(s) ==
    CASE s = "requested" -> {"responded", "active", "completed", "abandoned"}
      [] s = "responded" -> {"active", "completed", "abandoned"}
      [] s = "active"    -> {"completed"}
      [] OTHER           -> {}

\* A report of an invitation that nobody has used yet changes no row, and is
\* left out.
Reported == ConnectionStates \ {"invited"}

Rows == Conns \cup {Template}
NoRow == [state |-> None, linked |-> FALSE, invited |-> FALSE]
NoReq == [pc |-> "none", remote |-> None]

TypeOK ==
    /\ kind \in [Conns -> {None, "single", "accept", "party"}]
    /\ row \in [Rows -> [state : ConnectionStates \cup {None},
                         linked : BOOLEAN, invited : BOOLEAN]]
    /\ req \in [Rows -> [pc : {"none", "calling", "reading", "saving", "failing", "marking", "done"},
                         remote : ConnectionStates \cup {None}]]
    /\ op \in [Rows -> {None, "processing", "completed", "failed"}]
    /\ agent \in [Conns -> ConnectionStates \cup {None}]
    /\ gone \subseteq Conns
    /\ job \in [Conns -> [Reported -> {None, "queued", "row", "template", "nothing"}]]
    /\ told \in [Conns -> Nat]

Init ==
    /\ kind = [x \in Conns |-> None]
    /\ row = [x \in Rows |-> NoRow]
    /\ req = [x \in Rows |-> NoReq]
    /\ op = [x \in Rows |-> None]
    /\ agent = [x \in Conns |-> None]
    /\ gone = {}
    /\ job = [x \in Conns |-> [s \in Reported |-> None]]
    /\ told = [x \in Conns |-> 0]

Exists(x) == row[x].state # None

-----------------------------------------------------------------------------
(* POST connections.  The row is inserted, the operation is processing, and  *)
(* the request calls the connector.                                          *)

Create(x, state) ==
    /\ op[x] = None
    /\ row' = [row EXCEPT ![x] = [NoRow EXCEPT !.state = state]]
    /\ req' = [req EXCEPT ![x].pc = "calling"]
    /\ op' = [op EXCEPT ![x] = "processing"]
    /\ UNCHANGED <<agent, gone, job, told>>

CreateConnection(x) ==
    /\ kind[x] = None
    /\ \/ kind' = [kind EXCEPT ![x] = "single"] /\ Create(x, "invited")
       \/ kind' = [kind EXCEPT ![x] = "accept"] /\ Create(x, "requested")

CreateTemplate == Create(Template, "invited") /\ UNCHANGED kind

Accepts(x) == x \in Conns /\ kind[x] = "accept"

\* createInvitation, or the first call of acceptInvitation, after which the
\* handshake is under way.  A call that fails may have been taken all the same.
CallAdapter(x) ==
    /\ req[x].pc = "calling"
    /\ \E pc \in {"reading", "failing"} : req' = [req EXCEPT ![x].pc = pc]
    /\ \/ /\ Accepts(x)
          /\ agent' = [agent EXCEPT ![x] = "requested"]
          /\ job' = [job EXCEPT ![x]["requested"] = "queued"]
       \/ /\ Accepts(x) => req'[x].pc = "failing"
          /\ UNCHANGED <<agent, job>>
    /\ UNCHANGED <<kind, row, op, gone, told>>

\* What is to be saved: for an acceptance the state in which the agent has the
\* connection, for an invitation the row as it is now, if it is still there.
Read(x) ==
    /\ req[x].pc = "reading"
    /\ LET state == IF Accepts(x) THEN agent[x] ELSE row[x].state
       IN  \/ /\ state # None
              /\ req' = [req EXCEPT ![x] = [pc |-> "saving", remote |-> state]]
           \/ /\ Accepts(x) \/ state = None
              /\ req' = [req EXCEPT ![x].pc = "failing"]
    /\ UNCHANGED <<kind, row, op, agent, gone, job, told>>

\* applyRemoteConnectionState and applyInvitationResult save the entity in
\* hand over whatever the row has become, and insert a row that is gone.
SaveResult(x) ==
    /\ req[x].pc = "saving"
    /\ row' = [row EXCEPT ![x] = [state |-> req[x].remote, linked |-> Accepts(x),
                                  invited |-> ~Accepts(x)]]
    /\ req' = [req EXCEPT ![x].pc = "done"]
    /\ op' = [op EXCEPT ![x] = "completed"]
    /\ UNCHANGED <<kind, agent, gone, job, told>>

\* The lookup of markAbandoned; without a row there is nothing to mark.
FailRequest(x) ==
    /\ req[x].pc = "failing"
    /\ \/ /\ Exists(x)
          /\ req' = [req EXCEPT ![x].pc = "marking"]
          /\ UNCHANGED op
       \/ /\ ~Exists(x)
          /\ req' = [req EXCEPT ![x].pc = "done"]
          /\ op' = [op EXCEPT ![x] = "failed"]
    /\ UNCHANGED <<kind, row, agent, gone, job, told>>

\* Mutant: only the operation is failed.
MarkAbandoned_OperationOnly(x) ==
    /\ req[x].pc = "marking"
    /\ req' = [req EXCEPT ![x].pc = "done"]
    /\ op' = [op EXCEPT ![x] = "failed"]
    /\ UNCHANGED <<kind, row, agent, gone, job, told>>

MarkAbandoned(x) ==
    /\ req[x].pc = "marking"
    /\ row' = [row EXCEPT ![x].state = "abandoned"]
    /\ req' = [req EXCEPT ![x].pc = "done"]
    /\ op' = [op EXCEPT ![x] = "failed"]
    /\ UNCHANGED <<kind, agent, gone, job, told>>

-----------------------------------------------------------------------------
(* The agent *)

\* A holder uses an invitation, of which it has the URL from the operation.
UseInvitation(x) ==
    /\ agent[x] = None
    /\ \/ kind[x] = "single" /\ op[x] = "completed" /\ UNCHANGED kind
       \/ /\ kind[x] = None /\ op[Template] = "completed"
          /\ kind' = [kind EXCEPT ![x] = "party"]
    /\ agent' = [agent EXCEPT ![x] = "requested"]
    /\ job' = [job EXCEPT ![x]["requested"] = "queued"]
    /\ UNCHANGED <<row, req, op, gone, told>>

\* The handshake moves on, and the agent reports it.
MoveOn(x) ==
    /\ x \notin gone
    /\ \E s \in HandshakeSteps(agent[x]) :
        /\ agent' = [agent EXCEPT ![x] = s]
        /\ job' = [job EXCEPT ![x][s] = "queued"]
    /\ UNCHANGED <<kind, row, req, op, gone, told>>

-----------------------------------------------------------------------------
(* A run of the worker.  The lookups hold no lock.                           *)

\* What a row can be found by: the agent's id, or the invitation's.
Correlated(x) == Exists(x) /\ (row[x].linked \/ row[x].invited)

\* The row of a report is the one with the agent's id, or else the one with
\* the invitation's; a reusable invitation only lends its data.
Find(x, s) ==
    /\ job[x][s] = "queued"
    /\ job' = [job EXCEPT ![x][s] =
            CASE Correlated(x)                                 -> "row"
              [] ~Exists(x) /\ kind[x] = "party" /\ Exists(Template) -> "template"
              [] OTHER                                         -> "nothing"]
    /\ UNCHANGED <<kind, row, req, op, agent, gone, told>>

\* Mutant: every report of an established connection announces it.
Establishes_Each(x, s) == s \in Established

\* Mutant: no claim of active on the way to completed.
Establishes_Active(x, s) ==
    /\ s = "active"
    /\ row[x].state \in connectionStatesBelow("active")

\* transitionConnectionState: a guarded write, preceded by one into active
\* when the backend skips it.  Whether the connection is established by it.
Establishes(x, s) ==
    /\ s \in Established
    /\ row[x].state \in connectionStatesBelow("active")

\* The run ends, and may be repeated: its commit is not always acknowledged.
EndRun(x, s) == \E again \in {None, "queued"} : job' = [job EXCEPT ![x][s] = again]

ApplyToRow(x, s) ==
    /\ job[x][s] = "row"
    /\ IF row[x].state \in connectionStatesBelow(s)
       THEN /\ row' = [row EXCEPT ![x].state = s]
            /\ told' = IF Establishes(x, s) THEN [told EXCEPT ![x] = @ + 1] ELSE told
       ELSE UNCHANGED <<row, told>>
    /\ EndRun(x, s)
    /\ UNCHANGED <<kind, req, op, agent, gone>>

\* Mutant: a report that loses the insert is spent.
ApplyToTemplate_NoRetry(x, s) ==
    /\ job[x][s] = "template"
    /\ IF Exists(x)
       THEN UNCHANGED <<row, told>>
       ELSE /\ row' = [row EXCEPT ![x] = [NoRow EXCEPT !.state = s, !.linked = TRUE]]
            /\ told' = [told EXCEPT ![x] = IF s \in Established THEN 1 ELSE 0]
    /\ EndRun(x, s)
    /\ UNCHANGED <<kind, req, op, agent, gone>>

\* createFromInvitationTemplate.  The unique index on the agent's id refuses a
\* second row, and the run is repeated.
ApplyToTemplate(x, s) ==
    /\ job[x][s] = "template"
    /\ IF Exists(x)
       THEN /\ job' = [job EXCEPT ![x][s] = "queued"]
            /\ UNCHANGED <<row, told>>
       ELSE /\ row' = [row EXCEPT ![x] = [NoRow EXCEPT !.state = s, !.linked = TRUE]]
            /\ told' = [told EXCEPT ![x] = IF s \in Established THEN 1 ELSE 0]
            /\ EndRun(x, s)
    /\ UNCHANGED <<kind, req, op, agent, gone>>

\* A report that matches nothing is logged and spent.
ApplyToNothing(x, s) ==
    /\ job[x][s] = "nothing"
    /\ EndRun(x, s)
    /\ UNCHANGED <<kind, row, req, op, agent, gone, told>>

Apply(x, s) == ApplyToRow(x, s) \/ ApplyToTemplate(x, s) \/ ApplyToNothing(x, s)

-----------------------------------------------------------------------------
(* Other requests *)

\* reconcile, on the way to an issuance: the agent's answer may be out of date
\* by the time the row is locked; then the agent's id is stored, and the state
\* moved on as by a report.
Reconcile(x) ==
    \E s \in Established :
        /\ Correlated(x)
        /\ agent[x] \in Established
        /\ CONNECTION_STATE_RANK(s) <= CONNECTION_STATE_RANK(agent[x])
        /\ row' = [row EXCEPT ![x].linked = TRUE,
                              ![x].state = IF @ \in connectionStatesBelow(s) THEN s ELSE @]
        /\ told' = IF Establishes(x, s) THEN [told EXCEPT ![x] = @ + 1] ELSE told
        /\ UNCHANGED <<kind, req, op, agent, gone, job>>

\* resolveIdentity, on the way to an exchange: the agent's id only.
ResolveIdentity(x) ==
    /\ Correlated(x) /\ ~row[x].linked
    /\ agent[x] # None
    /\ row' = [row EXCEPT ![x].linked = TRUE]
    /\ UNCHANGED <<kind, req, op, agent, gone, job, told>>

\* delete, at the connector, for a row that has the agent's id ...
DeleteAtAgent(x) ==
    /\ row[x].linked
    /\ gone' = gone \cup {x}
    /\ UNCHANGED <<kind, row, req, op, agent, job, told>>

\* ... and then here.  A row that got the id after it was looked up, as any
\* but a party's can, is deleted here only.  A run that has found the row
\* will update nothing.
DeleteRow(x) ==
    /\ Exists(x)
    /\ x \in Conns /\ kind[x] = "party" => x \in gone
    /\ row' = [row EXCEPT ![x] = NoRow]
    /\ IF x \in Conns
       THEN /\ told' = [told EXCEPT ![x] = 0]
            /\ job' = [job EXCEPT ![x] = [s \in Reported |-> IF @[s] = "row" THEN "nothing" ELSE @[s]]]
       ELSE UNCHANGED <<told, job>>
    /\ UNCHANGED <<kind, req, op, agent, gone>>

\* abandonAllForTenant, when the tenant is deactivated.
AbandonAll ==
    /\ row' = [x \in Rows |-> IF row[x].state \in Ended \cup {None} THEN row[x]
                              ELSE [row[x] EXCEPT !.state = "abandoned"]]
    /\ UNCHANGED <<kind, req, op, agent, gone, job, told>>

-----------------------------------------------------------------------------

Request(x) == CallAdapter(x) \/ Read(x) \/ SaveResult(x) \/ FailRequest(x) \/ MarkAbandoned(x)

Next ==
    \/ CreateTemplate \/ AbandonAll
    \/ \E x \in Rows : Request(x) \/ DeleteRow(x)
    \/ \E x \in Conns :
        \/ CreateConnection(x) \/ UseInvitation(x) \/ MoveOn(x)
        \/ Reconcile(x) \/ ResolveIdentity(x) \/ DeleteAtAgent(x)
        \/ \E s \in Reported : Find(x, s) \/ Apply(x, s)

\* pg-boss hands every queued report to a run, and the run ends.
Fairness == \A x \in Conns : WF_vars(Find(x, "completed") \/ Apply(x, "completed"))

Spec == Init /\ [][Next]_vars /\ Fairness

-----------------------------------------------------------------------------
(* Properties *)

\* connection.established is dispatched at most once for a row: whichever of
\* the reports and reconciliations, repeated and in any order, is the first to
\* see the connection active or completed.
EstablishedOnce == TypeOK /\ \A x \in Conns : told[x] <= 1

\* It is dispatched for every row that is active or completed, also when the
\* agent skips a state; only an acceptance that the agent answers with an
\* established connection adopts it silently.
EstablishedIsTold ==
    \A x \in Conns : row[x].state \in Established =>
        told[x] = 1 \/ req[x].remote \in Established

\* An operation that failed leaves nothing behind that looks usable.
FailedIsAbandoned ==
    \A x \in Rows : op[x] = "failed" => row[x].state \in {None, "abandoned"}

\* A row that has ended stays as it is until it is deleted: late and repeated
\* reports, reconciliations and the tenant's deactivation leave it alone.
\* Until the request that creates it is done, its own unguarded write is not
\* bound by that.
EndedStays ==
    [][\A x \in Rows : row[x].state \in Ended /\ req[x].pc \in {"none", "done"} =>
            row'[x].state \in {row[x].state, None}]_vars

\* A handshake that the agent has completed arrives in its row, unless the row
\* is abandoned or deleted.  Two cases are left out, because a report is spent
\* when it finds no row: an acceptance, whose request may not yet have stored
\* the agent's id, and a party whose template is deleted.  A row that a late
\* report makes again for a connection deleted at the agent stays behind.
HandshakeArrives ==
    \A x \in Conns :
        agent[x] = "completed" /\ kind[x] # "accept" /\ Exists(x)
            ~> \/ row[x].state \in Ended \cup {None}
               \/ x \in gone
               \/ kind[x] = "party" /\ ~Exists(Template)

=============================================================================
