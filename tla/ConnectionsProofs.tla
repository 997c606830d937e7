------------------------- MODULE ConnectionsProofs --------------------------
(***************************************************************************)
(* For any number of connections: an established connection is announced   *)
(* once, and what failed or ended stays so.                                *)
(***************************************************************************)
EXTENDS Connections, TLAPS

\* Zenon is tried first; arithmetic and most of the sequences are left to SMT.
USE ZenonT(15), SMTT(30)

\* A creating request that is under way.
Busy == {"calling", "reading", "saving", "failing", "marking"}

\* A row and the request and the operation that create it.  Until the request
\* has saved, or after it has failed, nothing correlates a report with the row.
ReqFacts(w, q, o) ==
    /\ o = None <=> q.pc = "none"
    /\ o = "processing" <=> q.pc \in Busy
    /\ q.pc \in Busy => /\ w.state \in {None, "invited", "requested", "abandoned"}
                        /\ ~w.linked /\ ~w.invited
    /\ o = "failed" => w.state \in {None, "abandoned"} /\ ~w.linked /\ ~w.invited

\* What is announced was established, and cannot be established again; what a
\* run has found is there to be found.
ConnFacts(k, w, q, o, j, t) ==
    /\ t <= 1
    /\ t = 1 => w.state \in {"active", "completed", "abandoned"}
    /\ w.state \in Established => t = 1 \/ q.remote \in Established
    /\ q.pc \in Busy => t = 0
    /\ k \in {None, "party"} => o = None
    /\ k = None => w.state = None
    /\ \A s \in Reported :
        /\ j[s] = "row" => w.state # None /\ (w.linked \/ w.invited)
        /\ j[s] = "template" => k = "party"

\* The inductive invariant.
ConnInv ==
    /\ TypeOK
    /\ \A x \in Rows : ReqFacts(row[x], req[x], op[x])
    /\ \A x \in Conns : ConnFacts(kind[x], row[x], req[x], op[x], job[x], told[x])
    /\ op[Template] = None => row[Template].state = None

RowType == [state : ConnectionStates \cup {None}, linked : BOOLEAN, invited : BOOLEAN]
ReqType == [pc : {"none", "calling", "reading", "saving", "failing", "marking", "done"},
            remote : ConnectionStates \cup {None}]

-----------------------------------------------------------------------------

\* There are no rows and no reports.
LEMMA ConnInit == Init => ConnInv
<1> SUFFICES ASSUME Init PROVE ConnInv
  OBVIOUS
<1>1. NoRow \in RowType /\ NoReq \in ReqType
  BY DEF NoRow, NoReq, RowType, ReqType
<1>2. TypeOK
  BY <1>1 DEF Init, TypeOK, RowType, ReqType
<1>3. \A x \in Rows : ReqFacts(row[x], req[x], op[x])
  BY DEF Init, ReqFacts, Busy, NoRow, NoReq, None
<1>4. \A x \in Conns : ConnFacts(kind[x], row[x], req[x], op[x], job[x], told[x])
  BY DEF Init, ConnFacts, Busy, NoRow, NoReq, None, Rows, Established
<1>5. QED
  BY <1>2, <1>3, <1>4 DEF ConnInv, Init, NoRow, Rows

\* A step at one row.
LEMMA RowStep ==
    ASSUME ConnInv, TypeOK', NEW x \in Rows,
           \A y \in Rows \ {x} : row'[y] = row[y] /\ req'[y] = req[y] /\ op'[y] = op[y],
           \A y \in Conns \ {x} : kind'[y] = kind[y] /\ job'[y] = job[y] /\ told'[y] = told[y],
           ReqFacts(row'[x], req'[x], op'[x]),
           x \in Conns => ConnFacts(kind'[x], row'[x], req'[x], op'[x], job'[x], told'[x]),
           x = Template => (op'[x] = None => row'[x].state = None)
    PROVE  ConnInv'
<1>1. \A y \in Rows : ReqFacts(row'[y], req'[y], op'[y])
  BY DEF ConnInv
<1>2. \A y \in Conns : ConnFacts(kind'[y], row'[y], req'[y], op'[y], job'[y], told'[y])
  BY DEF ConnInv, Rows
<1>3. op'[Template] = None => row'[Template].state = None
  BY DEF ConnInv, Rows
<1>4. QED
  BY <1>1, <1>2, <1>3 DEF ConnInv

\* What is known of one row, and of a connection.
LEMMA RowKnown ==
    ASSUME ConnInv, NEW x \in Rows
    PROVE  /\ row \in [Rows -> RowType] /\ req \in [Rows -> ReqType]
           /\ row[x] \in RowType /\ req[x] \in ReqType
           /\ ReqFacts(row[x], req[x], op[x])
           /\ x \in Conns => ConnFacts(kind[x], row[x], req[x], op[x], job[x], told[x])
           /\ x \notin Conns => x = Template /\ (op[x] = None => row[x].state = None)
BY DEF ConnInv, TypeOK, RowType, ReqType, Rows

\* A creating request moves from one of its steps to another, and leaves the
\* row alone.
LEMMA RequestMoves ==
    ASSUME ConnInv, NEW x \in Rows, NEW q \in ReqType, q.pc \in Busy, req[x].pc \in Busy,
           req' = [req EXCEPT ![x] = q],
           q.remote \in Established \/ q.remote = req[x].remote \/ row[x].state \notin Established,
           UNCHANGED <<kind, row, op, gone, told>>,
           agent' \in [Conns -> ConnectionStates \cup {None}],
           job' \in [Conns -> [Reported -> {None, "queued", "row", "template", "nothing"}]],
           \A y \in Conns \ {x} : job'[y] = job[y],
           x \in Conns => \A s \in Reported : job'[x][s] \in {job[x][s], "queued"}
    PROVE  ConnInv'
<1>1. /\ req \in [Rows -> ReqType] /\ ReqFacts(row[x], req[x], op[x])
      /\ x \in Conns => ConnFacts(kind[x], row[x], req[x], op[x], job[x], told[x])
      /\ x \notin Conns => x = Template /\ (op[x] = None => row[x].state = None)
  BY RowKnown
<1>2. req'[x] = q /\ req' \in [Rows -> ReqType]
  BY <1>1
<1>3. TypeOK'
  BY <1>2 DEF ConnInv, TypeOK, ReqType
<1>4. \A y \in Rows \ {x} : req'[y] = req[y]
  BY <1>1
<1>5. ReqFacts(row'[x], req'[x], op'[x])
  BY <1>1, <1>2 DEF ReqFacts, Busy
<1>6. ASSUME x \in Conns PROVE ConnFacts(kind'[x], row'[x], req'[x], op'[x], job'[x], told'[x])
  BY <1>1, <1>2, <1>6 DEF ConnFacts
<1>7. QED
  BY <1>1, <1>3, <1>4, <1>5, <1>6, RowStep, ConnectionsAssumption

\* The call of the connector, which may start a handshake.
LEMMA CallStep == ASSUME ConnInv, NEW x \in Rows, CallAdapter(x) PROVE ConnInv'
<1>1. /\ req \in [Rows -> ReqType] /\ req[x] \in ReqType /\ req[x].pc = "calling"
      /\ UNCHANGED <<kind, row, op, gone, told>>
  BY RowKnown DEF CallAdapter
<1>2. PICK pc \in {"reading", "failing"} : req' = [req EXCEPT ![x].pc = pc]
  BY DEF CallAdapter
<1> DEFINE q == [req[x] EXCEPT !.pc = pc]
<1>3. q \in ReqType /\ q.pc \in Busy /\ q.remote = req[x].remote
  BY <1>1 DEF ReqType, Busy
<1>4. req' = [req EXCEPT ![x] = q]
  BY <1>1, <1>2
<1> HIDE DEF q
<1>5. /\ agent' \in [Conns -> ConnectionStates \cup {None}]
      /\ job' \in [Conns -> [Reported -> {None, "queued", "row", "template", "nothing"}]]
      /\ \A y \in Conns \ {x} : job'[y] = job[y]
      /\ x \in Conns => \A s \in Reported : job'[x][s] \in {job[x][s], "queued"}
  <2>1. /\ agent \in [Conns -> ConnectionStates \cup {None}]
        /\ job \in [Conns -> [Reported -> {None, "queued", "row", "template", "nothing"}]]
    BY DEF ConnInv, TypeOK
  <2>2. CASE UNCHANGED <<agent, job>>
    BY <2>1, <2>2
  <2>3. CASE /\ Accepts(x)
             /\ agent' = [agent EXCEPT ![x] = "requested"]
             /\ job' = [job EXCEPT ![x]["requested"] = "queued"]
    BY <2>1, <2>3 DEF Accepts, ConnectionStates, Reported
  <2>4. QED
    BY <2>2, <2>3 DEF CallAdapter
<1>6. QED
  BY <1>1, <1>3, <1>4, <1>5, RequestMoves DEF Busy

\* What will be saved is read.
LEMMA ReadStep == ASSUME ConnInv, NEW x \in Rows, Read(x) PROVE ConnInv'
<1>1. /\ req \in [Rows -> ReqType] /\ req[x] \in ReqType /\ req[x].pc = "reading"
      /\ row[x] \in RowType /\ ReqFacts(row[x], req[x], op[x])
      /\ UNCHANGED <<kind, row, op, agent, gone, job, told>>
  BY RowKnown DEF Read
<1>2. row[x].state \notin Established
  BY <1>1 DEF ReqFacts, Busy, Established, None
<1>3. /\ agent \in [Conns -> ConnectionStates \cup {None}]
      /\ job \in [Conns -> [Reported -> {None, "queued", "row", "template", "nothing"}]]
  BY DEF ConnInv, TypeOK
<1>4. PICK q \in ReqType : q.pc \in {"saving", "failing"} /\ req' = [req EXCEPT ![x] = q]
  <2> DEFINE state == IF Accepts(x) THEN agent[x] ELSE row[x].state
  <2>1. state \in ConnectionStates \cup {None}
    BY <1>1, <1>3 DEF Accepts, RowType
  <2>2. CASE req' = [req EXCEPT ![x] = [pc |-> "saving", remote |-> state]]
    BY <2>1, <2>2 DEF ReqType
  <2>3. CASE req' = [req EXCEPT ![x].pc = "failing"]
    <3>1. [req[x] EXCEPT !.pc = "failing"] \in ReqType
      BY <1>1 DEF ReqType
    <3>2. req' = [req EXCEPT ![x] = [req[x] EXCEPT !.pc = "failing"]]
      BY <1>1, <2>3
    <3>3. [req[x] EXCEPT !.pc = "failing"].pc = "failing"
      BY <1>1 DEF ReqType
    <3>4. QED
      BY <3>1, <3>2, <3>3
  <2>4. QED
    BY <2>2, <2>3 DEF Read
<1>5. QED
  BY <1>1, <1>2, <1>3, <1>4, RequestMoves DEF Busy

\* The request comes to its end, with its row as it leaves it.
LEMMA RequestEnds ==
    ASSUME ConnInv, NEW x \in Rows, NEW w \in RowType, NEW o \in {"completed", "failed"},
           req[x].pc \in Busy, req' = [req EXCEPT ![x].pc = "done"],
           op' = [op EXCEPT ![x] = o], row' = [row EXCEPT ![x] = w],
           o = "failed" => w.state \in {None, "abandoned"} /\ ~w.linked /\ ~w.invited,
           w.state \in Established => req[x].remote \in Established,
           UNCHANGED <<kind, agent, gone, job, told>>
    PROVE  ConnInv'
<1>1. /\ row \in [Rows -> RowType] /\ req \in [Rows -> ReqType] /\ req[x] \in ReqType
      /\ ReqFacts(row[x], req[x], op[x])
      /\ x \in Conns => ConnFacts(kind[x], row[x], req[x], op[x], job[x], told[x])
      /\ x \notin Conns => x = Template
  BY RowKnown
<1> DEFINE q == [req[x] EXCEPT !.pc = "done"]
<1>2. q \in ReqType /\ q.pc = "done" /\ q.remote = req[x].remote
  BY <1>1 DEF ReqType
<1>3. req' = [req EXCEPT ![x] = q]
  BY <1>1
<1> HIDE DEF q
<1>4. /\ TypeOK' /\ row'[x] = w /\ req'[x] = q /\ op'[x] = o
      /\ \A y \in Rows \ {x} : row'[y] = row[y] /\ req'[y] = req[y] /\ op'[y] = op[y]
  <2>1. op \in [Rows -> {None, "processing", "completed", "failed"}]
    BY DEF ConnInv, TypeOK
  <2>2. /\ row' \in [Rows -> RowType] /\ req' \in [Rows -> ReqType]
        /\ op' \in [Rows -> {None, "processing", "completed", "failed"}]
    BY <1>1, <1>2, <1>3, <2>1
  <2>3. TypeOK'
    BY <2>2 DEF ConnInv, TypeOK, RowType, ReqType
  <2>4. QED
    BY <1>1, <1>3, <2>1, <2>3
<1>5. ReqFacts(row'[x], req'[x], op'[x])
  BY <1>2, <1>4 DEF ReqFacts, Busy, None
<1>6. ASSUME x \in Conns PROVE ConnFacts(kind'[x], row'[x], req'[x], op'[x], job'[x], told'[x])
  <2>1. ConnFacts(kind[x], row[x], req[x], op[x], job[x], told[x])
    BY <1>1, <1>6
  <2>2. told[x] = 0 /\ op[x] = "processing"
    BY <1>1, <2>1 DEF ConnFacts, ReqFacts
  <2>3. \A s \in Reported : job[x][s] # "row" /\ (job[x][s] = "template" => kind[x] = "party")
    BY <1>1, <2>1 DEF ConnFacts, ReqFacts
  <2>4. kind[x] \notin {None, "party"}
    BY <2>1, <2>2 DEF ConnFacts, None
  <2>5. QED
    BY <1>2, <1>4, <2>2, <2>3, <2>4 DEF ConnFacts, Busy
<1>7. QED
  BY <1>4, <1>5, <1>6, RowStep DEF None

\* The request saves what it has read, over whatever the row is.
LEMMA SaveStep == ASSUME ConnInv, NEW x \in Rows, SaveResult(x) PROVE ConnInv'
<1> DEFINE w == [state |-> req[x].remote, linked |-> Accepts(x), invited |-> ~Accepts(x)]
<1>1. Accepts(x) \in BOOLEAN /\ (~Accepts(x)) \in BOOLEAN
  BY DEF Accepts
<1>2. w \in RowType /\ w.state = req[x].remote
  BY <1>1, RowKnown DEF RowType, ReqType
<1>3. row' = [row EXCEPT ![x] = w] /\ req[x].pc \in Busy
  BY DEF SaveResult, Busy
<1> HIDE DEF w
<1>4. QED
  BY <1>2, <1>3, RequestEnds DEF SaveResult

\* The request fails, and abandons its row, if there is one.
LEMMA FailStep ==
    ASSUME ConnInv, NEW x \in Rows, FailRequest(x) \/ MarkAbandoned(x) PROVE ConnInv'
<1>1. /\ row \in [Rows -> RowType] /\ req \in [Rows -> ReqType]
      /\ row[x] \in RowType /\ req[x] \in ReqType /\ ReqFacts(row[x], req[x], op[x])
      /\ req[x].pc \in Busy
  BY RowKnown DEF FailRequest, MarkAbandoned, Busy
<1>2. ~row[x].linked /\ ~row[x].invited /\ row[x].state \notin Established
  BY <1>1 DEF ReqFacts, Established, None
<1>3. CASE MarkAbandoned(x)
  <2> DEFINE w == [row[x] EXCEPT !.state = "abandoned"]
  <2>1. /\ w \in RowType /\ w.state = "abandoned"
        /\ w.linked = row[x].linked /\ w.invited = row[x].invited
    BY <1>1 DEF RowType, ConnectionStates
  <2>2. row' = [row EXCEPT ![x] = w]
    BY <1>1, <1>3 DEF MarkAbandoned
  <2> HIDE DEF w
  <2>3. QED
    BY <1>1, <1>2, <1>3, <2>1, <2>2, RequestEnds DEF MarkAbandoned, Established
<1>4. CASE FailRequest(x) /\ Exists(x)
  <2> DEFINE q == [req[x] EXCEPT !.pc = "marking"]
  <2>1. q \in ReqType /\ q.pc \in Busy /\ q.remote = req[x].remote
    BY <1>1 DEF ReqType, Busy
  <2>2. req' = [req EXCEPT ![x] = q] /\ UNCHANGED <<kind, row, op, agent, gone, job, told>>
    BY <1>1, <1>4 DEF FailRequest
  <2> HIDE DEF q
  <2>3. /\ agent \in [Conns -> ConnectionStates \cup {None}]
        /\ job \in [Conns -> [Reported -> {None, "queued", "row", "template", "nothing"}]]
    BY DEF ConnInv, TypeOK
  <2>4. QED
    BY <1>1, <1>2, <2>1, <2>2, <2>3, RequestMoves
<1>5. CASE FailRequest(x) /\ ~Exists(x)
  <2>1. row' = [row EXCEPT ![x] = row[x]]
    BY <1>1, <1>5 DEF FailRequest
  <2>2. row[x].state = None
    BY <1>5 DEF Exists
  <2>3. QED
    BY <1>1, <1>2, <1>5, <2>1, <2>2, RequestEnds DEF FailRequest
<1>6. QED
  BY <1>3, <1>4, <1>5

\* A row is inserted, for a connection that has none.
LEMMA CreateStep ==
    ASSUME ConnInv, NEW x \in Rows, NEW state \in {"invited", "requested"}, Create(x, state),
           x = Template => UNCHANGED kind,
           x \in Conns => kind[x] = None /\ \E k \in {"single", "accept"} : kind' = [kind EXCEPT ![x] = k]
    PROVE  ConnInv'
<1> DEFINE w == [NoRow EXCEPT !.state = state]
           q == [req[x] EXCEPT !.pc = "calling"]
<1>1. /\ row \in [Rows -> RowType] /\ req \in [Rows -> ReqType] /\ req[x] \in ReqType
      /\ ReqFacts(row[x], req[x], op[x])
      /\ x \in Conns => ConnFacts(kind[x], row[x], req[x], op[x], job[x], told[x])
      /\ x \notin Conns => x = Template
  BY RowKnown
<1>2. w \in RowType /\ w.state = state /\ w.linked = FALSE /\ w.invited = FALSE
  BY DEF NoRow, RowType, ConnectionStates
<1>3. q \in ReqType /\ q.pc = "calling" /\ q.remote = req[x].remote
  BY <1>1 DEF ReqType
<1>4. /\ row' = [row EXCEPT ![x] = w] /\ req' = [req EXCEPT ![x] = q]
      /\ op' = [op EXCEPT ![x] = "processing"] /\ op[x] = None
      /\ UNCHANGED <<agent, gone, job, told>>
  BY <1>1 DEF Create
<1> HIDE DEF w, q
<1>5. /\ op \in [Rows -> {None, "processing", "completed", "failed"}]
      /\ kind \in [Conns -> {None, "single", "accept", "party"}]
  BY DEF ConnInv, TypeOK
<1>6. /\ row' \in [Rows -> RowType] /\ req' \in [Rows -> ReqType]
      /\ op' \in [Rows -> {None, "processing", "completed", "failed"}]
      /\ row'[x] = w /\ req'[x] = q /\ op'[x] = "processing"
      /\ \A y \in Rows \ {x} : row'[y] = row[y] /\ req'[y] = req[y] /\ op'[y] = op[y]
  BY <1>1, <1>2, <1>3, <1>4, <1>5
<1>7. /\ kind' \in [Conns -> {None, "single", "accept", "party"}]
      /\ \A y \in Conns \ {x} : kind'[y] = kind[y]
      /\ x \in Conns => kind'[x] \in {"single", "accept"}
  BY <1>1, <1>5, ConnectionsAssumption
<1>8. TypeOK'
  BY <1>4, <1>6, <1>7 DEF ConnInv, TypeOK, RowType, ReqType
<1>9. ReqFacts(row'[x], req'[x], op'[x])
  BY <1>2, <1>3, <1>6 DEF ReqFacts, Busy, None
<1>10. ASSUME x \in Conns
       PROVE  ConnFacts(kind'[x], row'[x], req'[x], op'[x], job'[x], told'[x])
  <2>1. ConnFacts(kind[x], row[x], req[x], op[x], job[x], told[x]) /\ kind[x] = None
    BY <1>1, <1>10
  <2>2. told[x] = 0
    <3>1. told[x] \in Nat
      BY <1>10 DEF ConnInv, TypeOK
    <3>2. QED
      BY <2>1, <3>1 DEF ConnFacts, None
  <2>3. \A s \in Reported : job[x][s] \notin {"row", "template"}
    BY <2>1 DEF ConnFacts, None
  <2>4. QED
    BY <1>2, <1>4, <1>6, <1>7, <1>10, <2>2, <2>3 DEF ConnFacts, Established, Busy, None
<1>11. QED
  BY <1>4, <1>6, <1>7, <1>8, <1>9, <1>10, RowStep DEF None

-----------------------------------------------------------------------------
(* The agent's steps and the runs of the worker *)

\* Reports are queued, found, or spent, and rows stay as they are.
LEMMA JobStep ==
    ASSUME ConnInv, NEW x \in Conns, NEW s \in Reported,
           NEW j \in {None, "queued", "row", "template", "nothing"},
           job' = [job EXCEPT ![x][s] = j],
           j = "row" => Correlated(x), j = "template" => kind[x] = "party",
           agent' \in [Conns -> ConnectionStates \cup {None}],
           kind' = kind \/ (kind[x] = None /\ kind' = [kind EXCEPT ![x] = "party"]),
           UNCHANGED <<row, req, op, gone, told>>
    PROVE  ConnInv'
<1>1. x \in Rows
  BY DEF Rows
<1>2. /\ ReqFacts(row[x], req[x], op[x])
      /\ ConnFacts(kind[x], row[x], req[x], op[x], job[x], told[x])
  BY <1>1, RowKnown
<1>3. /\ job \in [Conns -> [Reported -> {None, "queued", "row", "template", "nothing"}]]
      /\ kind \in [Conns -> {None, "single", "accept", "party"}]
  BY DEF ConnInv, TypeOK
<1>4. /\ job' \in [Conns -> [Reported -> {None, "queued", "row", "template", "nothing"}]]
      /\ \A y \in Conns \ {x} : job'[y] = job[y]
      /\ job'[x][s] = j /\ \A r \in Reported \ {s} : job'[x][r] = job[x][r]
  BY <1>3
<1>5. /\ kind' \in [Conns -> {None, "single", "accept", "party"}]
      /\ \A y \in Conns \ {x} : kind'[y] = kind[y]
      /\ kind'[x] = kind[x] \/ (kind[x] = None /\ kind'[x] = "party")
  BY <1>3
<1>6. TypeOK'
  BY <1>4, <1>5 DEF ConnInv, TypeOK
<1>7. ConnFacts(kind'[x], row'[x], req'[x], op'[x], job'[x], told'[x])
  <2>1. \A r \in Reported :
            /\ job'[x][r] = "row" => row[x].state # None /\ (row[x].linked \/ row[x].invited)
            /\ job'[x][r] = "template" => kind'[x] = "party"
    <3>1. SUFFICES ASSUME NEW r \in Reported
                   PROVE  /\ job'[x][r] = "row" =>
                                row[x].state # None /\ (row[x].linked \/ row[x].invited)
                          /\ job'[x][r] = "template" => kind'[x] = "party"
      OBVIOUS
    <3>2. CASE r = s
      BY <1>4, <1>5, <3>2 DEF Correlated, Exists, None
    <3>3. CASE r # s
      BY <1>2, <1>4, <1>5, <3>3 DEF ConnFacts, None
    <3>4. QED
      BY <3>2, <3>3
  <2>2. QED
    BY <1>2, <1>5, <2>1 DEF ConnFacts, None
<1>8. QED
  BY <1>1, <1>2, <1>4, <1>5, <1>6, <1>7, RowStep, ConnectionsAssumption

\* What the ranks say of established and ended states.
LEMMA Ranks ==
    /\ connectionStatesBelow("active") = {"invited", "requested", "responded"}
    /\ \A s \in ConnectionStates :
        /\ connectionStatesBelow(s) \cap Ended = {}
        /\ "active" \in connectionStatesBelow(s) => s \in Ended
BY DEF connectionStatesBelow, ConnectionStates, CONNECTION_STATE_RANK, Ended

\* A run, or a reconciliation, moves the row of a connection on: it announces
\* the connection exactly when it is the first to see it established.
LEMMA MoveStep ==
    ASSUME ConnInv, NEW x \in Conns, NEW w \in RowType, NEW t \in Nat,
           row' = [row EXCEPT ![x] = w], told' = [told EXCEPT ![x] = t],
           job' \in [Conns -> [Reported -> {None, "queued", "row", "template", "nothing"}]],
           \A y \in Conns \ {x} : job'[y] = job[y],
           \A s \in Reported : job'[x][s] \in {job[x][s], None, "queued"},
           Correlated(x), w.linked \/ w.invited, w.state # None,
           \/ w.state = row[x].state /\ t = told[x]
           \/ w.state \in Established /\ row[x].state \in connectionStatesBelow("active")
                /\ t = told[x] + 1
           \/ w.state = "completed" /\ row[x].state = "active" /\ t = told[x]
           \/ w.state \notin Established /\ t = told[x]
                /\ row[x].state \in connectionStatesBelow(w.state),
           UNCHANGED <<kind, req, op, agent, gone>>
    PROVE  ConnInv'
<1>1. x \in Rows
  BY DEF Rows
<1>2. /\ ReqFacts(row[x], req[x], op[x]) /\ row \in [Rows -> RowType]
      /\ ConnFacts(kind[x], row[x], req[x], op[x], job[x], told[x])
  BY <1>1, RowKnown
<1>3. told \in [Conns -> Nat]
  BY DEF ConnInv, TypeOK
<1>4. /\ row' \in [Rows -> RowType] /\ row'[x] = w /\ told' \in [Conns -> Nat] /\ told'[x] = t
      /\ \A y \in Rows \ {x} : row'[y] = row[y]
      /\ \A y \in Conns \ {x} : told'[y] = told[y]
  BY <1>1, <1>2, <1>3
<1>5. TypeOK'
  BY <1>4 DEF ConnInv, TypeOK, RowType
<1>6. row[x].linked \/ row[x].invited
  BY DEF Correlated
<1>7. req[x].pc \notin Busy /\ op[x] # "failed"
  BY <1>2, <1>6 DEF ReqFacts
<1>8. ReqFacts(row'[x], req'[x], op'[x])
  BY <1>2, <1>4, <1>7 DEF ReqFacts
<1>9. /\ t <= 1
      /\ t = 1 => w.state \in {"active", "completed", "abandoned"}
      /\ w.state \in Established => t = 1 \/ req[x].remote \in Established
  <2>1. w.state \in ConnectionStates /\ told[x] \in Nat
    BY <1>3 DEF RowType
  <2>2. CASE w.state = row[x].state /\ t = told[x]
    BY <1>2, <2>2 DEF ConnFacts
  <2>3. CASE w.state \in Established /\ row[x].state \in connectionStatesBelow("active")
                /\ t = told[x] + 1
    <3>1. row[x].state \in {"invited", "requested", "responded"}
      BY <2>3, Ranks
    <3>2. told[x] <= 1 /\ told[x] # 1
      BY <1>2, <3>1 DEF ConnFacts
    <3>3. told[x] = 0
      BY <2>1, <3>2
    <3>4. QED
      BY <2>3, <3>3 DEF Established
  <2>4. CASE w.state = "completed" /\ row[x].state = "active" /\ t = told[x]
    BY <1>2, <2>4 DEF ConnFacts, Established
  <2>5. CASE w.state \notin Established /\ t = told[x]
                /\ row[x].state \in connectionStatesBelow(w.state)
    BY <1>2, <2>1, <2>5, Ranks DEF ConnFacts, Established, Ended
  <2>6. QED
    BY <2>2, <2>3, <2>4, <2>5
<1>10. kind[x] # None
  BY <1>2 DEF ConnFacts, Correlated, Exists
<1>11. ConnFacts(kind'[x], row'[x], req'[x], op'[x], job'[x], told'[x])
  BY <1>2, <1>4, <1>7, <1>9, <1>10 DEF ConnFacts, None
<1>12. QED
  BY <1>1, <1>4, <1>5, <1>8, <1>11, RowStep, ConnectionsAssumption

\* The handshake, and the lookup of a report.
LEMMA AgentStep ==
    ASSUME ConnInv, NEW x \in Conns,
           \/ UseInvitation(x) \/ MoveOn(x)
           \/ \E s \in Reported : Find(x, s) \/ ApplyToNothing(x, s)
    PROVE  ConnInv'
<1>1. agent \in [Conns -> ConnectionStates \cup {None}]
  BY DEF ConnInv, TypeOK
<1>2. CASE UseInvitation(x)
  <2>1. /\ agent' = [agent EXCEPT ![x] = "requested"]
        /\ job' = [job EXCEPT ![x]["requested"] = "queued"]
        /\ UNCHANGED <<row, req, op, gone, told>>
        /\ kind' = kind \/ (kind[x] = None /\ kind' = [kind EXCEPT ![x] = "party"])
    BY <1>2 DEF UseInvitation
  <2>2. /\ agent' \in [Conns -> ConnectionStates \cup {None}] /\ "requested" \in Reported
    BY <1>1, <2>1 DEF ConnectionStates, Reported
  <2>3. QED
    BY <2>1, <2>2, JobStep
<1>3. CASE MoveOn(x)
  <2>1. PICK s \in HandshakeSteps(agent[x]) :
            /\ agent' = [agent EXCEPT ![x] = s] /\ job' = [job EXCEPT ![x][s] = "queued"]
    BY <1>3 DEF MoveOn
  <2>2. s \in Reported /\ s \in ConnectionStates
    BY <2>1 DEF HandshakeSteps, Reported, ConnectionStates
  <2>3. agent' \in [Conns -> ConnectionStates \cup {None}]
    BY <1>1, <2>1, <2>2
  <2>4. UNCHANGED <<kind, row, req, op, gone, told>>
    BY <1>3 DEF MoveOn
  <2>5. QED
    BY <2>1, <2>2, <2>3, <2>4, JobStep
<1>4. ASSUME NEW s \in Reported, Find(x, s) PROVE ConnInv'
  <2> DEFINE j == CASE Correlated(x)                                       -> "row"
                    [] ~Exists(x) /\ kind[x] = "party" /\ Exists(Template) -> "template"
                    [] OTHER                                               -> "nothing"
  <2>1. /\ j \in {"row", "template", "nothing"}
        /\ j = "row" => Correlated(x)
        /\ j = "template" => kind[x] = "party"
    BY DEF Correlated
  <2>2. job' = [job EXCEPT ![x][s] = j]
    BY <1>4 DEF Find
  <2> HIDE DEF j
  <2>3. QED
    BY <1>1, <1>4, <2>1, <2>2, JobStep DEF Find
<1>5. ASSUME NEW s \in Reported, ApplyToNothing(x, s) PROVE ConnInv'
  <2>1. PICK j \in {None, "queued"} : job' = [job EXCEPT ![x][s] = j]
    BY <1>5 DEF ApplyToNothing, EndRun
  <2>2. j # "row" /\ j # "template"
    BY <2>1 DEF None
  <2>3. QED
    BY <1>1, <1>5, <2>1, <2>2, JobStep DEF ApplyToNothing
<1>6. QED
  BY <1>2, <1>3, <1>4, <1>5

\* A report is applied to the row that was found.
LEMMA ApplyStep ==
    ASSUME ConnInv, NEW x \in Conns, NEW s \in Reported, ApplyToRow(x, s) PROVE ConnInv'
<1>1. /\ x \in Rows /\ row \in [Rows -> RowType] /\ row[x] \in RowType
      /\ ConnFacts(kind[x], row[x], req[x], op[x], job[x], told[x])
  BY RowKnown DEF Rows
<1>2. Correlated(x)
  BY <1>1 DEF ConnFacts, ApplyToRow, Correlated, Exists
<1>3. /\ job \in [Conns -> [Reported -> {None, "queued", "row", "template", "nothing"}]]
      /\ told \in [Conns -> Nat] /\ told[x] \in Nat
  BY DEF ConnInv, TypeOK
<1>4. PICK j \in {None, "queued"} : job' = [job EXCEPT ![x][s] = j]
  BY DEF ApplyToRow, EndRun
<1>5. /\ job' \in [Conns -> [Reported -> {None, "queued", "row", "template", "nothing"}]]
      /\ \A y \in Conns \ {x} : job'[y] = job[y]
      /\ \A r \in Reported : job'[x][r] \in {job[x][r], None, "queued"}
  BY <1>3, <1>4
<1>6. UNCHANGED <<kind, req, op, agent, gone>> /\ s \in ConnectionStates
      /\ row[x].state # None /\ (row[x].linked \/ row[x].invited)
  BY <1>2 DEF ApplyToRow, Reported, Correlated, Exists
<1>7. CASE row[x].state \in connectionStatesBelow(s)
  <2> DEFINE w == [row[x] EXCEPT !.state = s]
             t == IF Establishes(x, s) THEN told[x] + 1 ELSE told[x]
  <2>1. /\ w \in RowType /\ w.state = s /\ w.linked = row[x].linked /\ w.invited = row[x].invited
    BY <1>1, <1>6 DEF RowType
  <2>2. row' = [row EXCEPT ![x] = w] /\ told' = [told EXCEPT ![x] = t] /\ t \in Nat
    BY <1>1, <1>3, <1>7 DEF ApplyToRow
  <2>3. /\ Establishes(x, s) => s \in Established /\ t = told[x] + 1
                                /\ row[x].state \in connectionStatesBelow("active")
        /\ ~Establishes(x, s) => t = told[x]
        /\ ~Establishes(x, s) /\ s \in Established => row[x].state = "active" /\ s = "completed"
    <3>1. ~Establishes(x, s) /\ s \in Established => row[x].state = "active" /\ s = "completed"
      BY <1>7 DEF Establishes, connectionStatesBelow, Established, ConnectionStates,
                  CONNECTION_STATE_RANK
    <3>2. QED
      BY <3>1 DEF Establishes
  <2> HIDE DEF w, t
  <2>4. QED
    <3>1. \/ w.state = row[x].state /\ t = told[x]
          \/ w.state \in Established /\ row[x].state \in connectionStatesBelow("active")
               /\ t = told[x] + 1
          \/ w.state = "completed" /\ row[x].state = "active" /\ t = told[x]
          \/ w.state \notin Established /\ t = told[x]
               /\ row[x].state \in connectionStatesBelow(w.state)
      BY <1>7, <2>1, <2>3
    <3>2. (w.linked \/ w.invited) /\ w.state # None
      BY <1>6, <2>1 DEF None, ConnectionStates
    <3>3. QED
      BY <1>2, <1>5, <1>6, <2>1, <2>2, <3>1, <3>2, MoveStep
<1>8. CASE row[x].state \notin connectionStatesBelow(s)
  <2>1. row' = [row EXCEPT ![x] = row[x]] /\ told' = [told EXCEPT ![x] = told[x]]
    BY <1>1, <1>3, <1>8 DEF ApplyToRow
  <2>2. QED
    BY <1>1, <1>2, <1>3, <1>5, <1>6, <2>1, MoveStep
<1>9. QED
  BY <1>7, <1>8

\* A party's row is made from the template, unless another run has made it.
LEMMA TemplateStep ==
    ASSUME ConnInv, NEW x \in Conns, NEW s \in Reported, ApplyToTemplate(x, s) PROVE ConnInv'
<1>1. /\ x \in Rows /\ row \in [Rows -> RowType] /\ ReqFacts(row[x], req[x], op[x])
      /\ ConnFacts(kind[x], row[x], req[x], op[x], job[x], told[x])
  BY RowKnown DEF Rows
<1>2. kind[x] = "party" /\ op[x] = None /\ req[x].pc = "none"
  BY <1>1 DEF ConnFacts, ReqFacts, ApplyToTemplate
<1>3. /\ job \in [Conns -> [Reported -> {None, "queued", "row", "template", "nothing"}]]
      /\ told \in [Conns -> Nat] /\ agent \in [Conns -> ConnectionStates \cup {None}]
  BY DEF ConnInv, TypeOK
<1>4. CASE Exists(x)
  <2>1. job' = [job EXCEPT ![x][s] = "queued"] /\ UNCHANGED <<kind, row, req, op, agent, gone, told>>
    BY <1>4 DEF ApplyToTemplate
  <2>2. QED
    BY <1>3, <2>1, JobStep
<1>5. CASE ~Exists(x)
  <2> DEFINE w == [NoRow EXCEPT !.state = s, !.linked = TRUE]
             t == IF s \in Established THEN 1 ELSE 0
  <2>1. w \in RowType /\ w.state = s /\ w.linked = TRUE
    BY DEF NoRow, RowType, Reported
  <2>2. /\ t \in Nat /\ t <= 1
        /\ t = 1 => s \in {"active", "completed", "abandoned"}
        /\ s \in Established => t = 1
    BY DEF Established
  <2>3. /\ row' = [row EXCEPT ![x] = w] /\ told' = [told EXCEPT ![x] = t]
        /\ UNCHANGED <<kind, req, op, agent, gone>>
    BY <1>5 DEF ApplyToTemplate
  <2> HIDE DEF w, t
  <2>4. PICK j \in {None, "queued"} : job' = [job EXCEPT ![x][s] = j]
    BY <1>5 DEF ApplyToTemplate, EndRun
  <2>5. /\ job' \in [Conns -> [Reported -> {None, "queued", "row", "template", "nothing"}]]
        /\ \A y \in Conns \ {x} : job'[y] = job[y]
    BY <1>3, <2>4
  <2>6. /\ row' \in [Rows -> RowType] /\ row'[x] = w /\ told' \in [Conns -> Nat] /\ told'[x] = t
        /\ \A y \in Rows \ {x} : row'[y] = row[y]
        /\ \A y \in Conns \ {x} : told'[y] = told[y]
    BY <1>1, <1>3, <2>1, <2>2, <2>3
  <2>7. TypeOK'
    BY <2>3, <2>5, <2>6 DEF ConnInv, TypeOK, RowType
  <2>8. ReqFacts(row'[x], req'[x], op'[x])
    BY <1>2, <2>3 DEF ReqFacts, Busy, None
  <2>9. s # None
    BY DEF Reported, ConnectionStates, None
  <2>10. ConnFacts(kind'[x], row'[x], req'[x], op'[x], job'[x], told'[x])
    BY <1>2, <2>1, <2>2, <2>3, <2>6, <2>9 DEF ConnFacts, Busy, None
  <2>11. QED
    BY <1>1, <2>3, <2>5, <2>6, <2>7, <2>8, <2>10, RowStep, ConnectionsAssumption
<1>6. QED
  BY <1>4, <1>5

\* A reconciliation, or the lookup of the agent's id.
LEMMA ReconcileStep ==
    ASSUME ConnInv, NEW x \in Conns, Reconcile(x) \/ ResolveIdentity(x) PROVE ConnInv'
<1>1. /\ x \in Rows /\ row \in [Rows -> RowType] /\ row[x] \in RowType
  BY RowKnown DEF Rows
<1>2. Correlated(x) /\ UNCHANGED <<kind, req, op, agent, gone, job>>
  BY DEF Reconcile, ResolveIdentity
<1>3. /\ job' \in [Conns -> [Reported -> {None, "queued", "row", "template", "nothing"}]]
      /\ told \in [Conns -> Nat] /\ told[x] \in Nat
      /\ \A y \in Conns \ {x} : job'[y] = job[y]
      /\ \A r \in Reported : job'[x][r] \in {job[x][r], None, "queued"}
  BY <1>2 DEF ConnInv, TypeOK
<1>4. row[x].state # None
  BY <1>2 DEF Correlated, Exists
<1>5. CASE ResolveIdentity(x)
  <2> DEFINE w == [row[x] EXCEPT !.linked = TRUE]
  <2>1. w \in RowType /\ w.state = row[x].state /\ w.linked = TRUE
    BY <1>1 DEF RowType
  <2>2. row' = [row EXCEPT ![x] = w] /\ told' = [told EXCEPT ![x] = told[x]]
    BY <1>1, <1>3, <1>5 DEF ResolveIdentity
  <2> HIDE DEF w
  <2>3. QED
    BY <1>2, <1>3, <1>4, <2>1, <2>2, MoveStep
<1>6. ASSUME NEW s \in Established,
             row' = [row EXCEPT ![x].linked = TRUE,
                                ![x].state = IF @ \in connectionStatesBelow(s) THEN s ELSE @],
             told' = IF Establishes(x, s) THEN [told EXCEPT ![x] = @ + 1] ELSE told
      PROVE  ConnInv'
  <2> DEFINE v == IF row[x].state \in connectionStatesBelow(s) THEN s ELSE row[x].state
             w == [row[x] EXCEPT !.linked = TRUE, !.state = v]
             t == IF Establishes(x, s) THEN told[x] + 1 ELSE told[x]
  <2>1. s \in ConnectionStates /\ s # None /\ v \in ConnectionStates
    BY <1>1, <1>4 DEF Established, ConnectionStates, RowType, None
  <2>2. row' = [row EXCEPT ![x] = w]
    BY <1>1, <1>6
  <2>3. told' = [told EXCEPT ![x] = t] /\ t \in Nat
    <3>1. CASE Establishes(x, s)
      BY <1>3, <1>6, <3>1
    <3>2. CASE ~Establishes(x, s)
      BY <1>3, <1>6, <3>2
    <3>3. QED
      BY <3>1, <3>2
  <2>4. \/ v = row[x].state /\ t = told[x]
        \/ v \in Established /\ row[x].state \in connectionStatesBelow("active")
             /\ t = told[x] + 1
        \/ v = "completed" /\ row[x].state = "active" /\ t = told[x]
    <3>1. row[x].state \in ConnectionStates
      BY <1>1, <1>4 DEF RowType
    <3>2. connectionStatesBelow("completed") = {"invited", "requested", "responded", "active"}
      BY DEF connectionStatesBelow, ConnectionStates, CONNECTION_STATE_RANK
    <3>3. CASE s = "active"
      BY <3>3 DEF Establishes, Established
    <3>4. CASE s = "completed"
      BY <3>1, <3>2, <3>4, Ranks DEF Establishes, Established
    <3>5. QED
      BY <3>3, <3>4 DEF Established
  <2> HIDE DEF v, t
  <2>5. w \in RowType /\ w.state = v /\ w.linked = TRUE
    BY <1>1, <2>1 DEF RowType
  <2> HIDE DEF w
  <2>6. v # None
    BY <2>1 DEF ConnectionStates, None
  <2>7. QED
    BY <1>2, <1>3, <2>2, <2>3, <2>4, <2>5, <2>6, MoveStep
<1>7. QED
  BY <1>5, <1>6 DEF Reconcile

\* A row is deleted, under the runs that have found it.
LEMMA DeleteStep == ASSUME ConnInv, NEW x \in Rows, DeleteRow(x) PROVE ConnInv'
<1>1. /\ row \in [Rows -> RowType] /\ ReqFacts(row[x], req[x], op[x])
      /\ x \in Conns => ConnFacts(kind[x], row[x], req[x], op[x], job[x], told[x])
      /\ x \notin Conns => x = Template
  BY RowKnown
<1>2. row' = [row EXCEPT ![x] = NoRow] /\ UNCHANGED <<kind, req, op, agent, gone>>
  BY DEF DeleteRow
<1>3. NoRow \in RowType /\ NoRow.state = None /\ NoRow.linked = FALSE /\ NoRow.invited = FALSE
  BY DEF NoRow, RowType
<1>4. /\ row' \in [Rows -> RowType] /\ row'[x] = NoRow
      /\ \A y \in Rows \ {x} : row'[y] = row[y]
  BY <1>1, <1>2, <1>3
<1>5. ReqFacts(row'[x], req'[x], op'[x])
  BY <1>1, <1>2, <1>3, <1>4 DEF ReqFacts
<1>6. /\ job \in [Conns -> [Reported -> {None, "queued", "row", "template", "nothing"}]]
      /\ told \in [Conns -> Nat]
  BY DEF ConnInv, TypeOK
<1>7. CASE x \notin Conns
  <2>1. UNCHANGED <<told, job>>
    BY <1>7 DEF DeleteRow
  <2>2. TypeOK'
    BY <1>2, <1>4, <2>1 DEF ConnInv, TypeOK, RowType
  <2>3. QED
    BY <1>2, <1>3, <1>4, <1>5, <1>7, <2>1, <2>2, RowStep
<1>8. CASE x \in Conns
  <2> DEFINE j == [s \in Reported |-> IF job[x][s] = "row" THEN "nothing" ELSE job[x][s]]
  <2>1. told' = [told EXCEPT ![x] = 0] /\ job' = [job EXCEPT ![x] = j]
    BY <1>6, <1>8 DEF DeleteRow
  <2>2. /\ j \in [Reported -> {None, "queued", "row", "template", "nothing"}]
        /\ \A s \in Reported : /\ j[s] # "row"
                               /\ j[s] = "template" => job[x][s] = "template"
    BY <1>6, <1>8
  <2> HIDE DEF j
  <2>3. /\ told' \in [Conns -> Nat] /\ told'[x] = 0 /\ job'[x] = j
        /\ job' \in [Conns -> [Reported -> {None, "queued", "row", "template", "nothing"}]]
        /\ \A y \in Conns \ {x} : told'[y] = told[y] /\ job'[y] = job[y]
    BY <1>6, <1>8, <2>1, <2>2
  <2>4. TypeOK'
    BY <1>2, <1>4, <2>3 DEF ConnInv, TypeOK, RowType
  <2>5. ConnFacts(kind'[x], row'[x], req'[x], op'[x], job'[x], told'[x])
    <3>1. ConnFacts(kind[x], row[x], req[x], op[x], job[x], told[x])
      BY <1>1, <1>8
    <3>2. \A s \in Reported : j[s] # "row" /\ (j[s] = "template" => kind[x] = "party")
      BY <2>2, <3>1 DEF ConnFacts
    <3>3. QED
      BY <1>2, <1>3, <1>4, <2>3, <3>1, <3>2 DEF ConnFacts, Established, None
  <2>6. QED
    BY <1>2, <1>4, <1>5, <1>8, <2>3, <2>4, <2>5, RowStep, ConnectionsAssumption
<1>9. QED
  BY <1>7, <1>8

\* The tenant is deactivated: every row that has not ended is abandoned.
LEMMA AbandonStep == ASSUME ConnInv, AbandonAll PROVE ConnInv'
<1>1. UNCHANGED <<kind, req, op, agent, gone, job, told>> /\ row \in [Rows -> RowType]
  BY DEF AbandonAll, ConnInv, TypeOK, RowType
<1>2. ASSUME NEW x \in Rows
      PROVE  /\ row'[x] \in RowType
             /\ row'[x].linked = row[x].linked /\ row'[x].invited = row[x].invited
             /\ row'[x].state = row[x].state
                \/ (row[x].state \notin Ended \cup {None} /\ row'[x].state = "abandoned")
  <2>1. row[x] \in RowType
    BY <1>1
  <2>2. row'[x] = IF row[x].state \in Ended \cup {None} THEN row[x]
                  ELSE [row[x] EXCEPT !.state = "abandoned"]
    BY DEF AbandonAll
  <2>3. QED
    BY <2>1, <2>2 DEF RowType, ConnectionStates
<1>3. row' \in [Rows -> RowType]
  <2>1. row' = [x \in Rows |-> row'[x]]
    BY DEF AbandonAll
  <2>2. QED
    BY <1>2, <2>1
<1>4. TypeOK'
  BY <1>1, <1>3 DEF ConnInv, TypeOK, RowType
<1>5. ASSUME NEW x \in Rows PROVE ReqFacts(row'[x], req'[x], op'[x])
  <2>1. ReqFacts(row[x], req[x], op[x])
    BY DEF ConnInv
  <2>2. QED
    BY <1>1, <1>2, <2>1 DEF ReqFacts, Ended
<1>6. ASSUME NEW x \in Conns
      PROVE  ConnFacts(kind'[x], row'[x], req'[x], op'[x], job'[x], told'[x])
  <2>1. ConnFacts(kind[x], row[x], req[x], op[x], job[x], told[x]) /\ x \in Rows
    BY DEF ConnInv, Rows
  <2>2. QED
    BY <1>1, <1>2, <2>1 DEF ConnFacts, Established, None
<1>7. op'[Template] = None => row'[Template].state = None
  <2>1. Template \in Rows
    BY DEF Rows
  <2>2. QED
    BY <1>1, <1>2, <2>1 DEF ConnInv
<1>8. QED
  BY <1>4, <1>5, <1>6, <1>7 DEF ConnInv

\* Every step keeps the invariant.
LEMMA ConnNext == ConnInv /\ [Next]_vars => ConnInv'
<1> SUFFICES ASSUME ConnInv, [Next]_vars PROVE ConnInv'
  OBVIOUS
<1>1. CASE UNCHANGED vars
  BY <1>1 DEF ConnInv, TypeOK, vars
<1>2. CASE CreateTemplate
  <2>1. Template \in Rows /\ Template \notin Conns
    BY ConnectionsAssumption DEF Rows
  <2>2. QED
    BY <1>2, <2>1, CreateStep DEF CreateTemplate
<1>3. ASSUME NEW x \in Conns, CreateConnection(x) PROVE ConnInv'
  <2>1. x \in Rows /\ x # Template
    BY ConnectionsAssumption DEF Rows
  <2>2. QED
    BY <1>3, <2>1, CreateStep DEF CreateConnection
<1>4. ASSUME NEW x \in Rows, Request(x) \/ DeleteRow(x) PROVE ConnInv'
  BY <1>4, CallStep, ReadStep, SaveStep, FailStep, DeleteStep DEF Request
<1>5. ASSUME NEW x \in Conns, NEW s \in Reported, Find(x, s) \/ Apply(x, s) PROVE ConnInv'
  BY <1>5, AgentStep, ApplyStep, TemplateStep DEF Apply
<1>6. ASSUME NEW x \in Conns, UseInvitation(x) \/ MoveOn(x) PROVE ConnInv'
  BY <1>6, AgentStep
<1>7. ASSUME NEW x \in Conns, Reconcile(x) \/ ResolveIdentity(x) PROVE ConnInv'
  BY <1>7, ReconcileStep
<1>8. ASSUME NEW x \in Conns, DeleteAtAgent(x) PROVE ConnInv'
  <2>1. gone' = gone \cup {x} /\ UNCHANGED <<kind, row, req, op, agent, job, told>>
    BY <1>8 DEF DeleteAtAgent
  <2>2. TypeOK'
    BY <2>1 DEF ConnInv, TypeOK
  <2>3. QED
    BY <2>1, <2>2 DEF ConnInv
<1>9. QED
  BY <1>1, <1>2, <1>3, <1>4, <1>5, <1>6, <1>7, <1>8, AbandonStep DEF Next

-----------------------------------------------------------------------------

\* A step at one row that has not ended, or whose request is under way, or
\* that is left alone or deleted, lets every row stay that has ended.
LEMMA StaysStep ==
    ASSUME ConnInv, NEW x \in Rows,
           \A y \in Rows \ {x} : row'[y] = row[y],
           \/ row[x].state \notin Ended \/ req[x].pc \notin {"none", "done"}
           \/ row'[x].state \in {row[x].state, None}
    PROVE  \A y \in Rows : row[y].state \in Ended /\ req[y].pc \in {"none", "done"} =>
                row'[y].state \in {row[y].state, None}
OBVIOUS

\* No step moves a row that has ended, other than the request that makes it.
LEMMA EndedStep ==
    ASSUME ConnInv, Next
    PROVE  \A x \in Rows : row[x].state \in Ended /\ req[x].pc \in {"none", "done"} =>
                row'[x].state \in {row[x].state, None}
<1> DEFINE Stays == \A x \in Rows : row[x].state \in Ended /\ req[x].pc \in {"none", "done"} =>
                        row'[x].state \in {row[x].state, None}
<1> SUFFICES Stays
  OBVIOUS
<1>1. row \in [Rows -> RowType] /\ Template \in Rows /\ Conns \subseteq Rows
  BY DEF ConnInv, TypeOK, RowType, Rows
<1>2. ASSUME UNCHANGED row PROVE Stays
  BY <1>2
<1>3. ASSUME NEW x \in Rows, NEW w, row' = [row EXCEPT ![x] = w],
             row[x].state \notin Ended \/ req[x].pc \notin {"none", "done"}
      PROVE  Stays
  BY <1>1, <1>3, StaysStep
<1>4. CASE CreateTemplate
  BY <1>1, <1>3, <1>4 DEF CreateTemplate, Create, ConnInv, Ended, None
<1>5. ASSUME NEW x \in Conns, CreateConnection(x) PROVE Stays
  <2>1. row[x].state = None
    BY <1>5 DEF ConnInv, ConnFacts, CreateConnection
  <2>2. QED
    BY <1>1, <1>3, <1>5, <2>1 DEF CreateConnection, Create, Ended, None
<1>6. ASSUME NEW x \in Rows, Request(x) PROVE Stays
  <2>1. CASE SaveResult(x)
    BY <1>3, <2>1 DEF SaveResult
  <2>2. CASE MarkAbandoned(x)
    <3>1. row' = [row EXCEPT ![x] = [row[x] EXCEPT !.state = "abandoned"]]
      BY <1>1, <2>2 DEF MarkAbandoned
    <3>2. QED
      BY <1>3, <2>2, <3>1 DEF MarkAbandoned
  <2>3. QED
    BY <1>2, <1>6, <2>1, <2>2 DEF Request, CallAdapter, Read, FailRequest
<1>7. ASSUME NEW x \in Rows, DeleteRow(x) PROVE Stays
  BY <1>1, <1>7, StaysStep DEF DeleteRow, NoRow
<1>8. ASSUME NEW x \in Conns, NEW s \in Reported, Find(x, s) \/ Apply(x, s) PROVE Stays
  <2>1. CASE Find(x, s) \/ ApplyToNothing(x, s)
    BY <1>2, <2>1 DEF Find, ApplyToNothing
  <2>2. CASE ApplyToRow(x, s) /\ row[x].state \in connectionStatesBelow(s)
    <3>1. row' = [row EXCEPT ![x] = [row[x] EXCEPT !.state = s]]
      BY <1>1, <2>2 DEF ApplyToRow
    <3>2. row[x].state \notin Ended
      BY <2>2, Ranks DEF Reported
    <3>3. QED
      BY <1>1, <1>3, <3>1, <3>2
  <2>3. CASE ApplyToRow(x, s) /\ row[x].state \notin connectionStatesBelow(s)
    BY <1>2, <2>3 DEF ApplyToRow
  <2>4. CASE ApplyToTemplate(x, s)
    BY <1>1, <1>2, <1>3, <2>4 DEF ApplyToTemplate, Exists, Ended, None
  <2>5. QED
    BY <1>8, <2>1, <2>2, <2>3, <2>4 DEF Apply
<1>9. ASSUME NEW x \in Conns, ResolveIdentity(x) PROVE Stays
  <2>1. row' = [row EXCEPT ![x] = [row[x] EXCEPT !.linked = TRUE]]
    BY <1>1, <1>9 DEF ResolveIdentity
  <2>2. row'[x].state = row[x].state /\ \A y \in Rows \ {x} : row'[y] = row[y]
    BY <1>1, <2>1 DEF RowType
  <2>3. QED
    BY <1>1, <2>2, StaysStep
<1>10. ASSUME NEW x \in Conns, Reconcile(x) PROVE Stays
  <2>1. PICK s \in Established :
            row' = [row EXCEPT ![x].linked = TRUE,
                               ![x].state = IF @ \in connectionStatesBelow(s) THEN s ELSE @]
    BY <1>10 DEF Reconcile
  <2>2. CASE row[x].state \in Ended
    <3>1. row[x].state \notin connectionStatesBelow(s)
      BY <2>2, Ranks DEF Established, ConnectionStates
    <3>2. row'[x].state = row[x].state /\ \A y \in Rows \ {x} : row'[y] = row[y]
      BY <1>1, <2>1, <3>1 DEF RowType
    <3>3. QED
      BY <1>1, <3>2, StaysStep
  <2>3. CASE row[x].state \notin Ended
    BY <1>1, <2>1, <2>3, StaysStep
  <2>4. QED
    BY <2>2, <2>3
<1>11. CASE AbandonAll
  BY <1>11 DEF AbandonAll
<1>12. ASSUME NEW x \in Conns, UseInvitation(x) \/ MoveOn(x) \/ DeleteAtAgent(x) PROVE Stays
  BY <1>2, <1>12 DEF UseInvitation, MoveOn, DeleteAtAgent
<1>13. QED
  BY <1>4, <1>5, <1>6, <1>7, <1>8, <1>9, <1>10, <1>11, <1>12 DEF Next

-----------------------------------------------------------------------------

\* connection.established is dispatched at most once for a row, for any number
\* of connections and whatever is repeated, reordered or deleted.
THEOREM AnnouncedOnce == Spec => []EstablishedOnce
<1>1. ConnInv => EstablishedOnce
  BY DEF ConnInv, ConnFacts, EstablishedOnce
<1>2. QED
  BY <1>1, ConnInit, ConnNext, PTL DEF Spec

\* And for every row that is active or completed, unless the acceptance itself
\* was answered so.
THEOREM EstablishedTold == Spec => []EstablishedIsTold
<1>1. ConnInv => EstablishedIsTold
  BY DEF ConnInv, ConnFacts, EstablishedIsTold
<1>2. QED
  BY <1>1, ConnInit, ConnNext, PTL DEF Spec

\* A request that failed has left no row, or an abandoned one.
THEOREM FailedAbandoned == Spec => []FailedIsAbandoned
<1>1. ConnInv => FailedIsAbandoned
  BY DEF ConnInv, ReqFacts, FailedIsAbandoned
<1>2. QED
  BY <1>1, ConnInit, ConnNext, PTL DEF Spec

\* A connection that has ended stays so until it is deleted.
THEOREM EndedForGood == Spec => EndedStays
<1> DEFINE Stays == \A x \in Rows : row[x].state \in Ended /\ req[x].pc \in {"none", "done"} =>
                        row'[x].state \in {row[x].state, None}
<1>1. ConnInv /\ [Next]_vars => ConnInv' /\ [Stays]_vars
  BY ConnNext, EndedStep
<1>2. QED
  BY <1>1, ConnInit, PTL DEF Spec, EndedStays

=============================================================================
