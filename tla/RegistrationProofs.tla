------------------------- MODULE RegistrationProofs -------------------------
(***************************************************************************)
(* For any number of definitions and of follow-up checks: the registration *)
(* keeps row, operation and job together, and publishes every artifact at  *)
(* most once.                                                              *)
(***************************************************************************)
EXTENDS Registration, TLAPS

\* Zenon is tried first; arithmetic and most of the sequences are left to SMT.
USE ZenonT(15), SMTT(30)

Holding == {"publish", "save"}
Finished(reg) == \A a \in Artifacts : reg[a] = "finished"

\* An intent and the ledger: what was claimed but never taken is open or
\* rejected, what was submitted or can be looked up was taken once.
ArtFacts(i, l) ==
    /\ l.taken <= 1
    /\ i \in {None, "rejected"} => l.taken = 0
    /\ i = "submitted" => l.taken = 1
    /\ l.visible => l.taken = 1

\* Progress that says finished is what the ledger has.
RegFacts(reg, lg) == \A a \in Artifacts : reg[a] = "finished" => lg[a].visible

RowFacts(w, lg) ==
    /\ RegFacts(w.reg, lg)
    /\ w.exists \/ w.state = "unverified"
    /\ w.state = "ready" => Finished(w.reg)

\* A run between claim and record holds the open intent of its artifact, and
\* knows what the ledger has made of it, unless the answer was lost.
RunFacts(r, it, lg) ==
    /\ RegFacts(r.reg, lg)
    /\ r.pc \in Holding => it[r.art] = "publishing"
    /\ r.pc = "publish" => lg[r.art].taken = 0
    /\ r.pc = "save" => /\ r.out \in {"finished", "wait", "lost", "rejected"}
                        /\ r.out = "rejected" => lg[r.art].taken = 0
                        /\ r.out \in {"finished", "wait"} => lg[r.art].taken = 1
                        /\ r.out = "finished" => lg[r.art].visible
    /\ r.art = "definition" => r.reg["schema"] = "finished"
    /\ r.pc = "verify" => Finished(r.reg)
    /\ r.pc = "persist" => r.out \in {"ready", "wait", "failed"}
    /\ r.pc = "persist" /\ r.out = "ready" => Finished(r.reg)

\* Row, operation and job of one definition.
JobFacts(w, o, q, r, l) ==
    /\ o \in InFlightStates => w.state = "pending"
    /\ o = "completed" => w.state = "ready"
    /\ o = "failed" => w.state = "failed"
    /\ r.pc # "idle" => w.state = "pending"
    /\ r.pc = "idle" => r = Idle
    /\ w.state = "pending" => q # NoJob \/ r # Idle \/ l

\* The inductive invariant.
RegInv ==
    /\ TypeOK
    /\ \A a \in Artifacts : ArtFacts(intent[a], ledger[a])
    /\ \A d \in Defs : /\ RowFacts(row[d], ledger)
                       /\ RunFacts(run[d], intent, ledger)
                       /\ JobFacts(row[d], op[d], queued[d], run[d], d \in lost)
    /\ \A d, e \in Defs :
        run[d].pc \in Holding /\ run[e].pc \in Holding /\ run[d].art = run[e].art => d = e

-----------------------------------------------------------------------------

\* No definition has a row, a run or a job, and nothing was published.
LEMMA RegInit == Init => RegInv
<1> SUFFICES ASSUME Init PROVE RegInv
  OBVIOUS
<1> USE RegistrationAssumption
<1>1. NoRow \in Row /\ Idle \in Run /\ NoJob \in 0..NoJob
  BY DEF NoRow, Row, Idle, Run, NoJob, RegistrationStates, Registrations, Progress, Artifacts
<1>2. TypeOK
  BY <1>1 DEF Init, TypeOK
<1>3. \A a \in Artifacts : ArtFacts(intent[a], ledger[a])
  BY DEF Init, ArtFacts, None
<1>4. ASSUME NEW d \in Defs
      PROVE  /\ RowFacts(row[d], ledger)
             /\ RunFacts(run[d], intent, ledger)
             /\ JobFacts(row[d], op[d], queued[d], run[d], d \in lost)
             /\ run[d].pc \notin Holding
  BY DEF Init, RowFacts, RunFacts, RegFacts, JobFacts, NoRow, Idle, None, Holding,
         InFlightStates
<1>5. QED
  BY <1>2, <1>3, <1>4 DEF RegInv

\* A step of one definition.  What it does to the artifacts leaves alone the
\* ones that the runs of other definitions hold, and takes nothing off the
\* ledger.
LEMMA OneStep ==
    ASSUME RegInv, TypeOK', NEW d \in Defs,
           \A e \in Defs \ {d} :
                /\ row'[e] = row[e] /\ op'[e] = op[e] /\ queued'[e] = queued[e]
                /\ run'[e] = run[e] /\ (e \in lost' <=> e \in lost),
           \A a \in Artifacts : /\ ArtFacts(intent'[a], ledger'[a])
                                /\ ledger[a].visible => ledger'[a].visible,
           \A e \in Defs \ {d} : run[e].pc \in Holding =>
                /\ intent'[run[e].art] = intent[run[e].art]
                /\ ledger'[run[e].art] = ledger[run[e].art]
                /\ run'[d].pc \in Holding => run'[d].art # run[e].art,
           RowFacts(row'[d], ledger'),
           RunFacts(run'[d], intent', ledger'),
           JobFacts(row'[d], op'[d], queued'[d], run'[d], d \in lost')
    PROVE  RegInv'
<1>1. ASSUME NEW e \in Defs
      PROVE  /\ RowFacts(row'[e], ledger')
             /\ RunFacts(run'[e], intent', ledger')
             /\ JobFacts(row'[e], op'[e], queued'[e], run'[e], e \in lost')
  <2>1. CASE e = d
    BY <2>1
  <2>2. CASE e # d
    <3>1. RowFacts(row[e], ledger) /\ RunFacts(run[e], intent, ledger)
          /\ JobFacts(row[e], op[e], queued[e], run[e], e \in lost)
      BY DEF RegInv
    <3>2. RowFacts(row'[e], ledger')
      BY <2>2, <3>1 DEF RowFacts, RegFacts
    <3>3. RunFacts(run'[e], intent', ledger')
      BY <2>2, <3>1 DEF RunFacts, RegFacts, Holding
    <3>4. JobFacts(row'[e], op'[e], queued'[e], run'[e], e \in lost')
      BY <2>2, <3>1 DEF JobFacts
    <3>5. QED
      BY <3>2, <3>3, <3>4
  <2>3. QED
    BY <2>1, <2>2
<1>2. \A e, f \in Defs :
        run'[e].pc \in Holding /\ run'[f].pc \in Holding /\ run'[e].art = run'[f].art => e = f
  BY DEF RegInv
<1>3. QED
  BY <1>1, <1>2 DEF RegInv

\* A step of one definition that neither claims nor publishes.
LEMMA LocalStep ==
    ASSUME RegInv, TypeOK', NEW d \in Defs, UNCHANGED <<intent, ledger>>,
           \A e \in Defs \ {d} :
                /\ row'[e] = row[e] /\ op'[e] = op[e] /\ queued'[e] = queued[e]
                /\ run'[e] = run[e] /\ (e \in lost' <=> e \in lost),
           RowFacts(row'[d], ledger),
           RunFacts(run'[d], intent, ledger),
           JobFacts(row'[d], op'[d], queued'[d], run'[d], d \in lost'),
           run'[d].pc \notin Holding \/ run'[d] = run[d]
    PROVE  RegInv'
<1>1. \A a \in Artifacts : ArtFacts(intent[a], ledger[a])
  BY DEF RegInv
<1>2. \A e \in Defs \ {d} : run[e].pc \in Holding =>
        (run'[d].pc \in Holding => run'[d].art # run[e].art)
  BY DEF RegInv
<1>3. QED
  BY <1>1, <1>2, OneStep

\* The requests of a client, and the purge.
LEMMA ApiStep ==
    ASSUME RegInv, NEW d \in Defs, Api(d)
    PROVE  RegInv' /\ UNCHANGED <<intent, ledger>>
<1> USE RegistrationAssumption
<1>1. TypeOK /\ RowFacts(row[d], ledger) /\ RunFacts(run[d], intent, ledger)
      /\ JobFacts(row[d], op[d], queued[d], run[d], d \in lost)
  BY DEF RegInv
<1>2. row[d] \in Row /\ run[d] \in Run /\ queued[d] \in 0..NoJob /\ NoJob \in Nat /\ 0 # NoJob
  BY <1>1 DEF TypeOK, NoJob
<1>3. UNCHANGED <<run, intent, ledger>>
  BY DEF Api, CreateDraft, Create, Continue, Deactivate, PurgeOperation
<1>s. /\ Sent(d, 0) \in [Defs -> 0..NoJob]
      /\ Sent(d, 0)[d] # NoJob
      /\ \A e \in Defs \ {d} : Sent(d, 0)[e] = queued[e]
  BY <1>1, <1>2 DEF Sent, TypeOK
<1>4. ASSUME NEW w \in Row, StartRegistration(d, w), w.state = "pending",
             w.exists, RegFacts(w.reg, ledger)
      PROVE  RegInv'
  <2>1. TypeOK'
    BY <1>1, <1>3, <1>4, <1>s DEF TypeOK, StartRegistration, OperationStates, InFlightStates
  <2>2. row'[d] = w /\ op'[d] = "pending" /\ queued'[d] # NoJob
    BY <1>1, <1>4, <1>s DEF TypeOK, StartRegistration
  <2>3. RowFacts(row'[d], ledger)
    BY <1>4, <2>2 DEF RowFacts
  <2>4. JobFacts(row'[d], op'[d], queued'[d], run'[d], d \in lost')
    BY <1>1, <1>3, <1>4, <2>2 DEF JobFacts, InFlightStates
  <2>5. \A e \in Defs \ {d} :
            /\ row'[e] = row[e] /\ op'[e] = op[e] /\ queued'[e] = queued[e]
            /\ run'[e] = run[e] /\ (e \in lost' <=> e \in lost)
    BY <1>1, <1>3, <1>4, <1>s DEF TypeOK, StartRegistration
  <2>6. QED
    BY <1>1, <1>3, <2>1, <2>3, <2>4, <2>5, LocalStep
<1>5. CASE CreateDraft(d)
  <2> DEFINE w == [NoRow EXCEPT !.exists = TRUE, !.active = TRUE]
  <2>1. w \in Row /\ w.state = "unverified" /\ \A a \in Artifacts : w.reg[a] = None
    BY DEF NoRow, Row, RegistrationStates, Registrations, Progress
  <2>2. row' = [row EXCEPT ![d] = w] /\ UNCHANGED <<op, queued, lost>>
    BY <1>5 DEF CreateDraft
  <2> HIDE DEF w
  <2>3. TypeOK' /\ row'[d] = w
    BY <1>1, <1>3, <2>1, <2>2 DEF TypeOK
  <2>4. RowFacts(row'[d], ledger) /\ row[d].state = "unverified"
    BY <1>1, <1>5, <2>1, <2>3 DEF RowFacts, RegFacts, None, CreateDraft, NoRow, w
  <2>5. JobFacts(row'[d], op'[d], queued'[d], run'[d], d \in lost')
    BY <1>1, <1>3, <2>1, <2>2, <2>3, <2>4 DEF JobFacts
  <2>6. QED
    BY <1>1, <1>3, <2>2, <2>3, <2>4, <2>5, LocalStep DEF TypeOK
<1>6. ASSUME NEW byId \in BOOLEAN, Create(d, byId)
      PROVE  RegInv'
  <2> DEFINE reg == [a \in Artifacts |-> IF byId /\ a = "schema" THEN "finished" ELSE None]
             w == [exists |-> TRUE, active |-> TRUE, state |-> "pending", reg |-> reg]
  <2>1. reg \in Registrations /\ RegFacts(reg, ledger)
    BY <1>6 DEF Create, Registrations, Progress, RegFacts, None, Artifacts
  <2>2. StartRegistration(d, w)
    BY <1>6 DEF Create
  <2> HIDE DEF reg
  <2>3. w \in Row /\ w.state = "pending" /\ w.exists /\ RegFacts(w.reg, ledger)
    BY <2>1 DEF Row, RegistrationStates
  <2>4. QED
    BY <1>4, <2>2, <2>3
<1>7. CASE Continue(d)
  <2>1. ASSUME StartRegistration(d, [row[d] EXCEPT !.active = TRUE, !.state = "pending"])
        PROVE  RegInv'
    <3> DEFINE w == [row[d] EXCEPT !.active = TRUE, !.state = "pending"]
    <3>1. w \in Row /\ w.state = "pending" /\ w.exists /\ w.reg = row[d].reg
      BY <1>2, <1>7 DEF Row, RegistrationStates, Continue
    <3>2. RegFacts(w.reg, ledger)
      BY <1>1, <3>1 DEF RowFacts
    <3> HIDE DEF w
    <3>3. QED
      BY <1>4, <2>1, <3>1, <3>2 DEF w
  <2>2. ASSUME queued' = Sent(d, 0), lost' = lost \ {d}, UNCHANGED <<row, op>>
        PROVE  RegInv'
    <3>1. TypeOK'
      BY <1>1, <1>3, <1>s, <2>2 DEF TypeOK
    <3>2. JobFacts(row'[d], op'[d], queued'[d], run'[d], d \in lost')
      BY <1>1, <1>3, <1>s, <2>2 DEF JobFacts
    <3>3. QED
      BY <1>1, <1>3, <1>s, <2>2, <3>1, <3>2, LocalStep
  <2>3. QED
    BY <1>7, <2>1, <2>2 DEF Continue
<1>8. CASE Deactivate(d)
  <2> DEFINE w == [row[d] EXCEPT !.active = FALSE]
  <2>1. w \in Row /\ w.state = row[d].state /\ w.reg = row[d].reg /\ w.exists = row[d].exists
    BY <1>2 DEF Row
  <2>2. row' = [row EXCEPT ![d] = w] /\ UNCHANGED <<op, queued, lost>>
    BY <1>8 DEF Deactivate
  <2> HIDE DEF w
  <2>3. TypeOK' /\ row'[d] = w
    BY <1>1, <1>3, <2>1, <2>2 DEF TypeOK
  <2>4. RowFacts(row'[d], ledger)
    BY <1>1, <2>1, <2>3 DEF RowFacts
  <2>5. JobFacts(row'[d], op'[d], queued'[d], run'[d], d \in lost')
    BY <1>1, <1>3, <2>1, <2>2, <2>3 DEF JobFacts
  <2>6. QED
    BY <1>1, <1>3, <2>2, <2>3, <2>4, <2>5, LocalStep DEF TypeOK
<1>9. CASE PurgeOperation(d)
  <2>1. TypeOK' /\ op'[d] = None /\ UNCHANGED <<row, queued, lost>>
    BY <1>1, <1>3, <1>9 DEF TypeOK, PurgeOperation
  <2>2. JobFacts(row'[d], op'[d], queued'[d], run'[d], d \in lost')
    BY <1>1, <1>3, <2>1 DEF JobFacts, InFlightStates, None
  <2>3. \A e \in Defs \ {d} : op'[e] = op[e]
    BY <1>1, <1>9 DEF TypeOK, PurgeOperation
  <2>4. QED
    BY <1>1, <1>3, <2>1, <2>2, <2>3, LocalStep
<1>10. QED
  BY <1>3, <1>5, <1>6, <1>7, <1>8, <1>9 DEF Api

\* A job is taken, or is done at once.
LEMMA StartStep ==
    ASSUME RegInv, NEW d \in Defs, Start(d)
    PROVE  RegInv' /\ UNCHANGED <<intent, ledger>>
<1> USE RegistrationAssumption
<1>1. TypeOK /\ RowFacts(row[d], ledger) /\ RunFacts(run[d], intent, ledger)
      /\ JobFacts(row[d], op[d], queued[d], run[d], d \in lost)
  BY DEF RegInv
<1>2. row[d] \in Row /\ run[d] = Idle /\ queued[d] \in 0..MAX_WAIT_CHECKS
      /\ row[d].reg \in Registrations
  BY <1>1 DEF TypeOK, NoJob, Start, Row
<1>3. /\ UNCHANGED <<lost, intent, ledger>>
      /\ queued' = [queued EXCEPT ![d] = NoJob] /\ queued' \in [Defs -> 0..NoJob]
      /\ queued'[d] = NoJob
  BY <1>1 DEF Start, TypeOK, NoJob
<1>4. CASE row[d].state # "pending"
  <2>1. UNCHANGED <<row, op, run>>
    BY <1>4 DEF Start
  <2>2. TypeOK'
    BY <1>1, <1>3, <2>1 DEF TypeOK
  <2>3. JobFacts(row'[d], op'[d], queued'[d], run'[d], d \in lost')
    BY <1>1, <1>3, <1>4, <2>1 DEF JobFacts
  <2>4. QED
    BY <1>1, <1>3, <2>1, <2>2, <2>3, LocalStep DEF TypeOK
<1>5. CASE row[d].state = "pending" /\ op[d] \in {None, "failed"}
  <2> DEFINE w == [row[d] EXCEPT !.state = "failed"]
  <2>1. w \in Row /\ w.state = "failed" /\ w.reg = row[d].reg /\ w.exists = row[d].exists
    BY <1>2 DEF Row, RegistrationStates
  <2>2. row' = [row EXCEPT ![d] = w] /\ UNCHANGED <<op, run>>
    BY <1>5 DEF Start
  <2> HIDE DEF w
  <2>3. TypeOK' /\ row'[d] = w
    BY <1>1, <1>3, <2>1, <2>2 DEF TypeOK
  <2>4. RowFacts(row'[d], ledger)
    BY <1>1, <1>5, <2>1, <2>3 DEF RowFacts
  <2>5. JobFacts(row'[d], op'[d], queued'[d], run'[d], d \in lost')
    BY <1>1, <1>2, <1>3, <1>5, <2>1, <2>2, <2>3 DEF JobFacts, Idle, InFlightStates, None
  <2>6. QED
    BY <1>1, <1>3, <2>2, <2>3, <2>4, <2>5, LocalStep DEF TypeOK
<1>6. ASSUME row[d].state = "pending", NEW o \in {"processing", op[d]},
             op' = [op EXCEPT ![d] = o] \/ (o = op[d] /\ UNCHANGED op),
             op[d] \notin {None, "failed"}, UNCHANGED row,
             NEW r \in Run, run' = [run EXCEPT ![d] = r],
             r.pc \in {"lookup", "persist"}, r.pc = "persist" => r.out = "failed",
             r.reg = row[d].reg, r.art = "schema"
      PROVE  RegInv'
  <2>1. r # Idle
    BY <1>6 DEF Idle
  <2>2. run' = [run EXCEPT ![d] = r]
    BY <1>6
  <2>3. op'[d] = o /\ o \in InFlightStates \cup {"completed"} /\ op' \in [Defs -> OperationStates \cup {None}]
    BY <1>1, <1>6 DEF TypeOK, OperationStates, InFlightStates, TerminalStates
  <2>4. TypeOK' /\ run'[d] = r
    BY <1>1, <1>3, <1>6, <2>1, <2>2, <2>3 DEF TypeOK
  <2>5. RunFacts(run'[d], intent, ledger)
    BY <1>1, <1>6, <2>1, <2>4 DEF RunFacts, RowFacts, Holding, None
  <2>6. JobFacts(row'[d], op'[d], queued'[d], run'[d], d \in lost')
    BY <1>1, <1>6, <2>1, <2>3, <2>4 DEF JobFacts, InFlightStates
  <2>7. run'[d].pc \notin Holding
    BY <1>6, <2>1, <2>4 DEF Holding
  <2>8. \A e \in Defs \ {d} : op'[e] = op[e] /\ run'[e] = run[e] /\ queued'[e] = queued[e]
    BY <1>1, <1>3, <1>6, <2>2 DEF TypeOK
  <2>9. QED
    BY <1>1, <1>3, <1>6, <2>4, <2>5, <2>6, <2>7, <2>8, LocalStep
<1>7. CASE row[d].state = "pending" /\ op[d] \notin {None, "failed"}
  <2>1. CASE /\ op' = [op EXCEPT ![d] = "processing"]
             /\ run' = [run EXCEPT ![d] = [Idle EXCEPT !.pc = "lookup",
                                                !.checks = queued[d], !.reg = row[d].reg]]
             /\ UNCHANGED row
    <3> DEFINE r == [Idle EXCEPT !.pc = "lookup", !.checks = queued[d], !.reg = row[d].reg]
    <3>1. r \in Run /\ r.pc = "lookup" /\ r.reg = row[d].reg /\ r.art = "schema"
      BY <1>2 DEF Idle, Run, Progress, Artifacts, None
    <3>2. run' = [run EXCEPT ![d] = r]
      BY <2>1
    <3> HIDE DEF r
    <3>3. QED
      BY <1>3, <1>6, <1>7, <2>1, <3>1, <3>2
  <2>2. CASE /\ run' = [run EXCEPT ![d] = [Idle EXCEPT !.pc = "persist",
                                                !.checks = queued[d], !.reg = row[d].reg,
                                                !.out = "failed"]]
             /\ UNCHANGED <<row, op>>
    <3> DEFINE r == [Idle EXCEPT !.pc = "persist", !.checks = queued[d],
                                 !.reg = row[d].reg, !.out = "failed"]
    <3>1. /\ r \in Run /\ r.pc = "persist" /\ r.reg = row[d].reg /\ r.art = "schema"
          /\ r.out = "failed"
      BY <1>2 DEF Idle, Run, Progress, Artifacts, None
    <3>2. run' = [run EXCEPT ![d] = r]
      BY <2>2
    <3> HIDE DEF r
    <3>3. QED
      BY <1>3, <1>6, <1>7, <2>2, <3>1, <3>2
  <2>3. QED
    BY <1>7, <2>1, <2>2 DEF Start
<1>8. QED
  BY <1>3, <1>4, <1>5, <1>7

\* The intents still fit the ledger, and the ones of other runs are as before.
IntentsFit(d) ==
    /\ intent' \in [Artifacts -> {None, "publishing", "submitted", "rejected"}]
    /\ \A a \in Artifacts : ArtFacts(intent'[a], ledger[a])
    /\ \A e \in Defs \ {d} : run[e].pc \in Holding =>
            intent'[run[e].art] = intent[run[e].art]

\* Intents that do not change fit.
LEMMA SameIntentsFit == ASSUME RegInv, NEW d \in Defs, UNCHANGED intent PROVE IntentsFit(d)
  BY DEF RegInv, TypeOK, IntentsFit

\* A run leaves its artifact, or moves on with its own row.  Operation, jobs
\* and ledger stay, and so do the intents that other runs hold.
LEMMA RunMoves ==
    ASSUME RegInv, NEW d \in Defs, NEW w \in Row, NEW r \in Run,
           row' = [row EXCEPT ![d] = w], run' = [run EXCEPT ![d] = r],
           UNCHANGED <<op, queued, lost, ledger>>,
           IntentsFit(d), run[d].pc # "idle", r.pc \notin Holding \cup {"idle"},
           w.state = row[d].state, w.exists = row[d].exists,
           RegFacts(w.reg, ledger), RunFacts(r, intent', ledger)
    PROVE  RegInv'
<1>1. TypeOK /\ RowFacts(row[d], ledger)
      /\ JobFacts(row[d], op[d], queued[d], run[d], d \in lost)
  BY DEF RegInv
<1>2. TypeOK' /\ row'[d] = w /\ run'[d] = r
  BY <1>1 DEF TypeOK, IntentsFit
<1>3. w.state = "pending"
  BY <1>1 DEF JobFacts
<1>4. RowFacts(row'[d], ledger')
  BY <1>1, <1>2, <1>3 DEF RowFacts
<1>5. JobFacts(row'[d], op'[d], queued'[d], run'[d], d \in lost')
  BY <1>1, <1>2, <1>3 DEF JobFacts, Idle
<1>6. \A e \in Defs \ {d} : row'[e] = row[e] /\ run'[e] = run[e]
  BY <1>1 DEF TypeOK
<1>7. QED
  BY <1>1, <1>2, <1>4, <1>5, <1>6, OneStep DEF IntentsFit

\* A run goes to its end with an outcome, a row and progress.
LEMMA EndStep ==
    ASSUME RegInv, NEW d \in Defs, NEW w \in Row, row' = [row EXCEPT ![d] = w],
           w.state = row[d].state, w.exists = row[d].exists, RegFacts(w.reg, ledger),
           NEW reg \in Registrations, RegFacts(reg, ledger),
           NEW out \in {"ready", "wait", "failed"}, out = "ready" => Finished(reg),
           run' = [run EXCEPT ![d].reg = reg, ![d].pc = "persist", ![d].art = "schema",
                              ![d].out = out],
           UNCHANGED <<op, queued, lost, ledger>>, IntentsFit(d), run[d].pc # "idle"
    PROVE  RegInv'
<1> DEFINE r == [run[d] EXCEPT !.reg = reg, !.pc = "persist", !.art = "schema", !.out = out]
<1>1. run \in [Defs -> Run] /\ run[d] \in Run
  BY DEF RegInv, TypeOK
<1>2. r \in Run /\ r.reg = reg /\ r.pc = "persist" /\ r.art = "schema" /\ r.out = out
  BY <1>1 DEF Run, Progress, Artifacts
<1>3. run' = [run EXCEPT ![d] = r]
  BY <1>1
<1> HIDE DEF r
<1>4. RunFacts(r, intent', ledger)
  BY <1>2 DEF RunFacts, Holding
<1>5. r.pc \notin Holding \cup {"idle"}
  BY <1>2 DEF Holding
<1>6. QED
  BY <1>2, <1>3, <1>4, <1>5, RunMoves

\* The same, when neither row nor progress changes.
LEMMA PlainEndStep ==
    ASSUME RegInv, NEW d \in Defs, NEW out \in {"ready", "wait", "failed"}, End(d, out),
           out = "ready" => Finished(run[d].reg),
           UNCHANGED <<row, op, queued, lost, ledger>>, IntentsFit(d), run[d].pc # "idle"
    PROVE  RegInv'
<1>1. /\ run \in [Defs -> Run] /\ run[d] \in Run /\ run[d].reg \in Registrations
      /\ row \in [Defs -> Row] /\ row[d] \in Row
  BY DEF RegInv, TypeOK, Run
<1>2. RegFacts(row[d].reg, ledger) /\ RegFacts(run[d].reg, ledger)
  BY DEF RegInv, RowFacts, RunFacts
<1>3. row' = [row EXCEPT ![d] = row[d]]
  BY <1>1
<1>4. run' = [run EXCEPT ![d].reg = run[d].reg, ![d].pc = "persist", ![d].art = "schema",
                         ![d].out = out]
  BY <1>1 DEF End, Run
<1>5. QED
  BY <1>1, <1>2, <1>3, <1>4, EndStep

\* A run goes on from an artifact that is finished.
LEMMA OnwardStep ==
    ASSUME RegInv, NEW d \in Defs, NEW w \in Row, row' = [row EXCEPT ![d] = w],
           w.state = row[d].state, w.exists = row[d].exists, RegFacts(w.reg, ledger),
           NEW reg \in Registrations, RegFacts(reg, ledger), Onward(d, reg),
           reg[run[d].art] = "finished", reg["schema"] = "finished",
           UNCHANGED <<op, queued, lost, ledger>>, IntentsFit(d), run[d].pc # "idle"
    PROVE  RegInv'
<1> DEFINE pc == IF run[d].art = "schema" THEN "lookup" ELSE "verify"
           r == [run[d] EXCEPT !.reg = reg, !.art = "definition", !.out = None, !.pc = pc]
<1>1. run \in [Defs -> Run] /\ run[d] \in Run /\ run[d].art \in Artifacts
  BY DEF RegInv, TypeOK, Run
<1>2. r \in Run /\ r.reg = reg /\ r.pc = pc /\ r.art = "definition"
  BY <1>1 DEF Run, Progress, Artifacts
<1>3. run' = [run EXCEPT ![d] = r]
  BY <1>1 DEF Onward
<1>4. pc = "verify" => Finished(reg)
  BY <1>1 DEF Finished, Artifacts
<1>5. pc \in {"lookup", "verify"}
  OBVIOUS
<1> HIDE DEF r, pc
<1>6. RunFacts(r, intent', ledger)
  BY <1>2, <1>4, <1>5 DEF RunFacts, Holding
<1>7. r.pc \notin Holding \cup {"idle"}
  BY <1>2, <1>5 DEF Holding
<1>8. QED
  BY <1>2, <1>3, <1>6, <1>7, RunMoves

\* saveProgress with an artifact that is finished.
LEMMA SaveProgressStep ==
    ASSUME RegInv, NEW d \in Defs, NEW reg \in Registrations, RegFacts(reg, ledger),
           SaveProgress(d, reg), reg[run[d].art] = "finished", reg["schema"] = "finished",
           UNCHANGED <<op, queued, lost, ledger>>, IntentsFit(d), run[d].pc # "idle"
    PROVE  RegInv'
<1>1. /\ row \in [Defs -> Row] /\ row[d] \in Row /\ RegFacts(row[d].reg, ledger)
  BY DEF RegInv, TypeOK, RowFacts
<1>2. CASE row[d].active
  <2> DEFINE w == [row[d] EXCEPT !.reg = reg]
  <2>1. w \in Row /\ w.state = row[d].state /\ w.exists = row[d].exists /\ w.reg = reg
    BY <1>1 DEF Row
  <2>2. row' = [row EXCEPT ![d] = w] /\ Onward(d, reg)
    BY <1>1, <1>2 DEF SaveProgress
  <2> HIDE DEF w
  <2>3. QED
    BY <2>1, <2>2, OnwardStep
<1>3. CASE ~row[d].active
  <2>1. row' = [row EXCEPT ![d] = row[d]]
    BY <1>1, <1>3 DEF SaveProgress
  <2>2. run' = [run EXCEPT ![d].reg = reg, ![d].pc = "persist", ![d].art = "schema",
                           ![d].out = "failed"]
    BY <1>3 DEF SaveProgress
  <2>3. QED
    BY <1>1, <2>1, <2>2, EndStep
<1>4. QED
  BY <1>2, <1>3

\* What is known of a run and its artifact.
LEMMA RunKnown ==
    ASSUME RegInv, NEW d \in Defs
    PROVE  /\ run \in [Defs -> Run] /\ run[d] \in Run /\ run[d].art \in Artifacts
           /\ run[d].reg \in Registrations /\ RegFacts(run[d].reg, ledger)
           /\ row \in [Defs -> Row] /\ row[d] \in Row /\ RegFacts(row[d].reg, ledger)
           /\ run[d].art = "schema" \/ run[d].reg["schema"] = "finished"
           /\ RunFacts(run[d], intent, ledger)
  BY DEF RegInv, TypeOK, Run, RunFacts, RowFacts, Artifacts

\* advanceSchema and advance, up to the publication.
LEMMA LookupStep ==
    ASSUME RegInv, NEW d \in Defs, Lookup(d)
    PROVE  RegInv' /\ UNCHANGED <<intent, ledger>>
<1>1. UNCHANGED <<op, queued, lost, intent, ledger>> /\ run[d].pc = "lookup"
  BY DEF Lookup
<1>2. IntentsFit(d)
  BY <1>1, SameIntentsFit
<1>k. /\ run \in [Defs -> Run] /\ run[d] \in Run /\ run[d].art \in Artifacts
      /\ run[d].reg \in Registrations /\ RegFacts(run[d].reg, ledger)
      /\ row \in [Defs -> Row] /\ row[d] \in Row /\ RegFacts(row[d].reg, ledger)
      /\ run[d].art = "schema" \/ run[d].reg["schema"] = "finished"
  BY RunKnown
<1> DEFINE a == run[d].art
           reg == run[d].reg
           resolved == a = "schema" /\ reg[a] = "finished"
<1>3. ASSUME NEW out \in {"wait", "failed"}, End(d, out), UNCHANGED row
      PROVE  RegInv'
  BY <1>1, <1>2, <1>3, PlainEndStep
<1>4. CASE resolved /\ Onward(d, reg) /\ UNCHANGED row
  <2>1. row' = [row EXCEPT ![d] = row[d]]
    BY <1>4, <1>k
  <2>2. QED
    BY <1>1, <1>2, <1>4, <1>k, <2>1, OnwardStep
<1>5. CASE ledger[a].visible /\ SaveProgress(d, [reg EXCEPT ![a] = "finished"])
  <2> DEFINE new == [reg EXCEPT ![a] = "finished"]
  <2>1. new \in Registrations /\ new[a] = "finished" /\ new["schema"] = "finished"
    BY <1>k DEF Registrations, Progress, Artifacts
  <2>2. RegFacts(new, ledger)
    BY <1>5, <1>k DEF RegFacts, Registrations
  <2>3. SaveProgress(d, new)
    BY <1>5
  <2> HIDE DEF new
  <2>4. QED
    BY <1>1, <1>2, <2>1, <2>2, <2>3, SaveProgressStep
<1>6. CASE Go(d, "claim") /\ UNCHANGED row
  <2> DEFINE r == [run[d] EXCEPT !.pc = "claim"]
  <2>1. r \in Run /\ r.pc = "claim" /\ r.art = run[d].art /\ r.reg = run[d].reg
    BY <1>k DEF Run
  <2>2. run' = [run EXCEPT ![d] = r]
    BY <1>6, <1>k DEF Go
  <2>3. row' = [row EXCEPT ![d] = row[d]]
    BY <1>6, <1>k
  <2> HIDE DEF r
  <2>4. RunFacts(r, intent', ledger) /\ r.pc \notin Holding \cup {"idle"}
    BY <1>k, <2>1 DEF RunFacts, Holding, Artifacts
  <2>5. QED
    BY <1>1, <1>2, <1>k, <2>1, <2>2, <2>3, <2>4, RunMoves
<1>7. QED
  BY <1>1, <1>3, <1>4, <1>5, <1>6 DEF Lookup

\* verifyRevocation.
LEMMA VerifyStep ==
    ASSUME RegInv, NEW d \in Defs, NEW out \in {"ready", "wait", "failed"}, Verify(d, out)
    PROVE  RegInv' /\ UNCHANGED <<intent, ledger>>
<1>1. /\ UNCHANGED <<row, op, queued, lost, intent, ledger>> /\ run[d].pc = "verify"
      /\ End(d, out)
  BY DEF Verify
<1>2. IntentsFit(d)
  BY <1>1, SameIntentsFit
<1>3. Finished(run[d].reg)
  BY <1>1, RunKnown DEF RunFacts
<1>4. QED
  BY <1>1, <1>2, <1>3, PlainEndStep

\* The claim of an artifact excludes every other run from it.
LEMMA ClaimStep == ASSUME RegInv, NEW d \in Defs, Claim(d) PROVE RegInv'
<1>1. UNCHANGED <<row, op, queued, lost, ledger>> /\ run[d].pc = "claim"
  BY DEF Claim
<1>k. /\ run \in [Defs -> Run] /\ run[d] \in Run /\ run[d].art \in Artifacts
      /\ RunFacts(run[d], intent, ledger)
  BY RunKnown
<1>2. CASE ~Claimable(run[d].art)
  <2>1. End(d, "wait") /\ UNCHANGED intent
    BY <1>2 DEF Claim
  <2>2. QED
    BY <1>1, <2>1, SameIntentsFit, PlainEndStep
<1>3. CASE Claimable(run[d].art)
  <2> DEFINE a == run[d].art
             r == [run[d] EXCEPT !.pc = "publish"]
  <2>1. r \in Run /\ r.pc = "publish" /\ r.art = a /\ r.reg = run[d].reg /\ r # Idle
    BY <1>k DEF Run, Idle
  <2>2. run' = [run EXCEPT ![d] = r]
    BY <1>3, <1>k DEF Claim, Go
  <2>3. intent' = [intent EXCEPT ![a] = "publishing"]
    BY <1>3 DEF Claim
  <2> HIDE DEF r
  <2>4. TypeOK' /\ run'[d] = r
    BY <1>1, <1>k, <2>1, <2>2, <2>3 DEF RegInv, TypeOK
  <2>5. intent[a] \in {None, "rejected"} /\ ledger[a].taken = 0
    BY <1>3, <1>k DEF Claimable, RegInv, ArtFacts
  <2>6. intent'[a] = "publishing" /\ \A b \in Artifacts \ {a} : intent'[b] = intent[b]
    BY <1>k, <2>3 DEF RegInv, TypeOK
  <2>7. \A b \in Artifacts : ArtFacts(intent'[b], ledger[b])
    BY <2>5, <2>6 DEF RegInv, ArtFacts, None
  <2>8. ASSUME NEW e \in Defs \ {d}, run[e].pc \in Holding
        PROVE  run[e].art # a /\ run[e].art \in Artifacts
    <3>1. RunFacts(run[e], intent, ledger) /\ run[e].art \in Artifacts
      BY RunKnown
    <3>2. intent[run[e].art] = "publishing"
      BY <2>8, <3>1 DEF RunFacts
    <3>3. QED
      BY <2>5, <3>1, <3>2 DEF None
  <2>9. RunFacts(run'[d], intent', ledger)
    BY <1>k, <2>1, <2>4, <2>5, <2>6 DEF RunFacts, Holding
  <2>10. JobFacts(row'[d], op'[d], queued'[d], run'[d], d \in lost')
    BY <1>1, <2>1, <2>4 DEF RegInv, JobFacts
  <2>11. RowFacts(row'[d], ledger') /\ \A e \in Defs \ {d} : run'[e] = run[e]
    BY <1>1, <1>k, <2>2 DEF RegInv
  <2>12. QED
    BY <1>1, <2>1, <2>4, <2>6, <2>7, <2>8, <2>9, <2>10, <2>11, OneStep
<1>4. QED
  BY <1>2, <1>3

\* The run that publishes is the only one at its artifact, which the backend
\* has not taken yet.
LEMMA PublishStep ==
    ASSUME RegInv, NEW d \in Defs, NEW answer \in {"finished", "wait", "lost", "rejected"},
           Publish(d, answer)
    PROVE  /\ RegInv'
           /\ intent[run[d].art] = "publishing" /\ ledger[run[d].art].taken = 0
           /\ \/ /\ ledger'[run[d].art].taken = 1
                 /\ \A b \in Artifacts \ {run[d].art} : ledger'[b] = ledger[b]
              \/ UNCHANGED ledger
<1> DEFINE a == run[d].art
           r == [run[d] EXCEPT !.pc = "save", !.out = answer]
           v == ledger[a].visible \/ answer = "finished"
           l == [taken |-> ledger[a].taken + 1, visible |-> v]
<1>1. UNCHANGED <<row, op, queued, lost, intent>> /\ run[d].pc = "publish"
  BY DEF Publish
<1>k. /\ run \in [Defs -> Run] /\ run[d] \in Run /\ a \in Artifacts
      /\ RunFacts(run[d], intent, ledger)
  BY RunKnown
<1>2. intent[a] = "publishing" /\ ledger[a].taken = 0
  BY <1>1, <1>k DEF RunFacts, Holding
<1>3. ledger \in [Artifacts -> [taken : Nat, visible : BOOLEAN]]
  BY DEF RegInv, TypeOK
<1>4. /\ r \in Run /\ r.pc = "save" /\ r.out = answer /\ r.art = a /\ r.reg = run[d].reg
      /\ r # Idle
  BY <1>k DEF Run, Progress, Idle
<1>5. run' = [run EXCEPT ![d] = r]
  BY <1>k DEF Publish
<1>v. /\ v \in BOOLEAN
      /\ answer = "finished" => v
      /\ ledger[a].visible => v
  OBVIOUS
<1>7. \/ ledger' = [ledger EXCEPT ![a] = l] /\ answer \in {"finished", "wait", "lost"}
      \/ UNCHANGED ledger /\ answer \in {"rejected", "lost"}
  BY <1>k, <1>3 DEF Publish
<1> HIDE DEF v
<1>6. /\ l \in [taken : Nat, visible : BOOLEAN] /\ l.taken = 1 /\ l.visible = v
  BY <1>2, <1>v
<1> HIDE DEF r, l
<1>8. /\ ledger' \in [Artifacts -> [taken : Nat, visible : BOOLEAN]]
      /\ \A b \in Artifacts \ {a} : ledger'[b] = ledger[b]
      /\ ledger'[a] = l \/ ledger'[a] = ledger[a]
      /\ answer \in {"finished", "wait"} => ledger'[a] = l
      /\ answer = "rejected" => ledger'[a] = ledger[a]
  BY <1>3, <1>6, <1>7, <1>k
<1>9. \A b \in Artifacts : /\ ArtFacts(intent'[b], ledger'[b])
                           /\ ledger[b].visible => ledger'[b].visible
  <2>1. SUFFICES ASSUME NEW b \in Artifacts
                 PROVE  /\ ArtFacts(intent[b], ledger'[b])
                        /\ ledger[b].visible => ledger'[b].visible
    BY <1>1
  <2>2. ArtFacts(intent[b], ledger[b])
    BY DEF RegInv
  <2>3. CASE ledger'[b] = ledger[b]
    BY <2>2, <2>3
  <2>4. CASE b = a /\ ledger'[b] = l
    BY <1>2, <1>6, <1>v, <2>4 DEF ArtFacts, None
  <2>5. QED
    BY <1>8, <2>3, <2>4
<1>10. TypeOK' /\ run'[d] = r
  BY <1>1, <1>4, <1>5, <1>8, <1>k DEF RegInv, TypeOK
<1>11. ASSUME NEW e \in Defs \ {d}, run[e].pc \in Holding
       PROVE  run[e].art \in Artifacts \ {a}
  BY <1>1, <1>11, RunKnown DEF RegInv, Holding
<1>w. ASSUME NEW reg, RegFacts(reg, ledger) PROVE RegFacts(reg, ledger')
  BY <1>9, <1>w DEF RegFacts
<1>12. RowFacts(row'[d], ledger')
  BY <1>1, <1>w DEF RegInv, RowFacts
<1>13. RunFacts(run'[d], intent', ledger')
  <2>1. RegFacts(r.reg, ledger')
    BY <1>4, <1>w, <1>k DEF RunFacts
  <2>2. r.out = "rejected" => ledger'[a].taken = 0
    BY <1>2, <1>4, <1>8
  <2>3. r.out \in {"finished", "wait"} => ledger'[a].taken = 1
    BY <1>4, <1>6, <1>8
  <2>4. r.out = "finished" => ledger'[a].visible
    BY <1>4, <1>6, <1>8, <1>v
  <2>5. QED
    BY <1>1, <1>2, <1>4, <1>10, <1>k, <2>1, <2>2, <2>3, <2>4 DEF RunFacts, Holding
<1>14. JobFacts(row'[d], op'[d], queued'[d], run'[d], d \in lost')
  BY <1>1, <1>4, <1>10 DEF RegInv, JobFacts
<1>15. \A e \in Defs \ {d} : run'[e] = run[e]
  BY <1>5, <1>k
<1>16. RegInv'
  <2>1. \A e \in Defs \ {d} :
            /\ row'[e] = row[e] /\ op'[e] = op[e] /\ queued'[e] = queued[e]
            /\ run'[e] = run[e] /\ (e \in lost' <=> e \in lost)
    BY <1>1, <1>15
  <2>2. \A e \in Defs \ {d} : run[e].pc \in Holding =>
            /\ intent'[run[e].art] = intent[run[e].art]
            /\ ledger'[run[e].art] = ledger[run[e].art]
            /\ run'[d].pc \in Holding => run'[d].art # run[e].art
    BY <1>1, <1>4, <1>8, <1>10, <1>11
  <2>3. QED
    BY <1>9, <1>10, <1>12, <1>13, <1>14, <2>1, <2>2, OneStep
<1>17. CASE ledger' = [ledger EXCEPT ![a] = l]
  <2>1. ledger'[a].taken = 1
    BY <1>3, <1>6, <1>17, <1>k
  <2>2. QED
    BY <1>2, <1>8, <1>16, <2>1
<1>18. QED
  BY <1>2, <1>7, <1>16, <1>17

\* The record of the answer: only a submission that was not taken reopens the
\* intent.
LEMMA SaveSubmissionStep ==
    ASSUME RegInv, NEW d \in Defs, SaveSubmission(d)
    PROVE  /\ RegInv' /\ UNCHANGED ledger
           /\ intent[run[d].art] = "publishing"
           /\ intent' = [intent EXCEPT ![run[d].art] = Outcome(run[d].out)]
           /\ Outcome(run[d].out) = "rejected" => ledger[run[d].art].taken = 0
           /\ Outcome(run[d].out) = "submitted" => ledger[run[d].art].taken = 1
           /\ Outcome(run[d].out) \in {"publishing", "submitted", "rejected"}
<1> DEFINE a == run[d].art
           answer == run[d].out
           new == [run[d].reg EXCEPT ![a] = answer]
<1>1. /\ UNCHANGED <<op, queued, lost, ledger>> /\ run[d].pc = "save"
      /\ intent' = [intent EXCEPT ![a] = Outcome(answer)]
  BY DEF SaveSubmission
<1>k. /\ run \in [Defs -> Run] /\ run[d] \in Run /\ run[d].art \in Artifacts
      /\ run[d].reg \in Registrations /\ RegFacts(run[d].reg, ledger)
      /\ row \in [Defs -> Row] /\ row[d] \in Row /\ RegFacts(row[d].reg, ledger)
      /\ run[d].art = "schema" \/ run[d].reg["schema"] = "finished"
      /\ RunFacts(run[d], intent, ledger)
  BY RunKnown
<1>2. /\ intent[a] = "publishing" /\ answer \in {"finished", "wait", "lost", "rejected"}
      /\ answer = "rejected" => ledger[a].taken = 0
      /\ answer \in {"finished", "wait"} => ledger[a].taken = 1
      /\ answer = "finished" => ledger[a].visible
  BY <1>1, <1>k DEF RunFacts, Holding
<1>3. /\ Outcome(answer) \in {"publishing", "submitted", "rejected"}
      /\ Outcome(answer) = "rejected" => ledger[a].taken = 0
      /\ Outcome(answer) = "submitted" => ledger[a].taken = 1
  BY <1>2 DEF Outcome
<1>4. IntentsFit(d)
  <2>1. intent \in [Artifacts -> {None, "publishing", "submitted", "rejected"}]
    BY DEF RegInv, TypeOK
  <2>2. intent'[a] = Outcome(answer) /\ \A b \in Artifacts \ {a} : intent'[b] = intent[b]
    BY <1>1, <1>k, <2>1
  <2>3. intent' \in [Artifacts -> {None, "publishing", "submitted", "rejected"}]
    BY <1>1, <1>3, <2>1
  <2>4. \A b \in Artifacts : ArtFacts(intent'[b], ledger[b])
    BY <1>2, <1>3, <2>2 DEF RegInv, ArtFacts, None
  <2>5. \A e \in Defs \ {d} : run[e].pc \in Holding => run[e].art \in Artifacts \ {a}
    BY <1>1, RunKnown DEF RegInv, Holding
  <2>6. QED
    BY <2>2, <2>3, <2>4, <2>5 DEF IntentsFit
<1>5. answer \in {"finished", "wait"} =>
        /\ new \in Registrations /\ new[a] = answer
        /\ \A b \in Artifacts \ {a} : new[b] = run[d].reg[b]
  BY <1>k DEF Registrations, Progress
<1>6. ASSUME answer \in {"rejected", "lost"} /\ End(d, "failed") /\ UNCHANGED row
      PROVE  RegInv'
  BY <1>1, <1>4, <1>6, PlainEndStep
<1>7. ASSUME answer = "finished" /\ SaveProgress(d, new)
      PROVE  RegInv'
  <2>1. RegFacts(new, ledger)
    BY <1>2, <1>5, <1>7, <1>k DEF RegFacts
  <2>2. new["schema"] = "finished"
    BY <1>5, <1>7, <1>k DEF Artifacts
  <2> HIDE DEF new
  <2>3. QED
    BY <1>1, <1>4, <1>5, <1>7, <2>1, <2>2, SaveProgressStep
<1>8. ASSUME /\ answer = "wait"
             /\ row' = IF row[d].active THEN [row EXCEPT ![d].reg = new] ELSE row
             /\ run' = [run EXCEPT ![d].reg = new, ![d].pc = "persist", ![d].art = "schema",
                                   ![d].out = IF row[d].active THEN "wait" ELSE "failed"]
      PROVE  RegInv'
  <2> DEFINE w == IF row[d].active THEN [row[d] EXCEPT !.reg = new] ELSE row[d]
             out == IF row[d].active THEN "wait" ELSE "failed"
  <2>1. RegFacts(new, ledger) /\ new \in Registrations
    BY <1>5, <1>8, <1>k DEF RegFacts
  <2>2. row' = [row EXCEPT ![d] = w]
    BY <1>8, <1>k
  <2>3. /\ run' = [run EXCEPT ![d].reg = new, ![d].pc = "persist", ![d].art = "schema",
                               ![d].out = out]
        /\ out \in {"wait", "failed"}
    BY <1>8
  <2> HIDE DEF new
  <2>4. w \in Row /\ w.state = row[d].state /\ w.exists = row[d].exists
        /\ (w.reg = new \/ w.reg = row[d].reg)
    BY <1>k, <2>1 DEF Row
  <2> HIDE DEF w, out
  <2>5. RegFacts(w.reg, ledger)
    BY <1>k, <2>1, <2>4
  <2>6. QED
    BY <1>1, <1>4, <2>1, <2>2, <2>3, <2>4, <2>5, EndStep
<1>9. RegInv'
  BY <1>6, <1>7, <1>8 DEF SaveSubmission
<1>10. QED
  BY <1>1, <1>2, <1>3, <1>9

\* The end of a run: row, operation and follow-up job move together, or the
\* operation is gone and the job is lost.
LEMMA PersistStep ==
    ASSUME RegInv, NEW d \in Defs, Persist(d)
    PROVE  RegInv' /\ UNCHANGED <<intent, ledger>>
<1> USE RegistrationAssumption
<1> DEFINE out == IF TimedOut(d) THEN "failed" ELSE run[d].out
           w == [row[d] EXCEPT !.reg = run[d].reg,
                               !.state = IF out = "wait" THEN "pending" ELSE out]
           o == CASE out = "ready" -> "completed"
                  [] out = "wait"  -> "processing"
                  [] OTHER         -> "failed"
<1>1. UNCHANGED <<intent, ledger>> /\ run[d].pc = "persist" /\ run' = [run EXCEPT ![d] = Idle]
  BY DEF Persist
<1>2. TypeOK /\ RowFacts(row[d], ledger) /\ RunFacts(run[d], intent, ledger)
      /\ JobFacts(row[d], op[d], queued[d], run[d], d \in lost)
  BY DEF RegInv
<1>3. /\ row[d] \in Row /\ run[d] \in Run /\ queued[d] \in 0..NoJob /\ NoJob \in Nat
      /\ Idle \in Run /\ run[d].checks \in 0..MAX_WAIT_CHECKS
      /\ run[d].reg \in Registrations /\ row[d].state = "pending"
  BY <1>1, <1>2 DEF TypeOK, NoJob, Run, Idle, Registrations, Progress, Artifacts, JobFacts
<1>4. RunFacts(run'[d], intent, ledger) /\ run'[d].pc \notin Holding /\ run'[d] = Idle
  BY <1>1, <1>2 DEF TypeOK, RunFacts, RegFacts, Idle, Holding, None
<1>5. \A e \in Defs \ {d} : run'[e] = run[e]
  BY <1>1, <1>2 DEF TypeOK
<1>6. CASE op[d] = None
  <2>1. /\ lost' = IF queued[d] = NoJob THEN lost \cup {d} ELSE lost
        /\ UNCHANGED <<row, op, queued>>
    BY <1>6 DEF Persist
  <2>2. TypeOK'
    BY <1>1, <1>2, <1>3, <2>1 DEF TypeOK
  <2>3. \A e \in Defs \ {d} :
            /\ row'[e] = row[e] /\ op'[e] = op[e] /\ queued'[e] = queued[e]
            /\ run'[e] = run[e] /\ (e \in lost' <=> e \in lost)
    BY <1>5, <2>1
  <2>4. JobFacts(row'[d], op'[d], queued'[d], run'[d], d \in lost')
    BY <1>2, <1>4, <2>1 DEF JobFacts, Idle
  <2>5. QED
    BY <1>1, <1>2, <1>4, <2>1, <2>2, <2>3, <2>4, LocalStep
<1>7. CASE op[d] # None
  <2>1. /\ row' = [row EXCEPT ![d] = w] /\ op' = [op EXCEPT ![d] = o]
        /\ queued' = FollowUp(d) /\ UNCHANGED lost
    BY <1>2, <1>7 DEF Persist, TypeOK
  <2>2. /\ out \in {"ready", "wait", "failed"}
        /\ out = "ready" => Finished(run[d].reg)
        /\ out = "wait" => run[d].out = "wait" /\ run[d].checks < MAX_WAIT_CHECKS
    BY <1>1, <1>2, <1>3 DEF TimedOut, RunFacts
  <2>3. /\ out = "ready" => o = "completed"
        /\ out = "wait" => o = "processing"
        /\ out = "failed" => o = "failed"
    OBVIOUS
  <2> HIDE DEF out
  <2>4. /\ w \in Row /\ w.reg = run[d].reg /\ w.exists = row[d].exists
        /\ w.state = IF out = "wait" THEN "pending" ELSE out
    BY <1>3, <2>2 DEF Row, RegistrationStates
  <2> HIDE DEF w, o
  <2>5. /\ queued' \in [Defs -> 0..NoJob]
        /\ \A e \in Defs \ {d} : queued'[e] = queued[e]
        /\ out = "wait" => queued'[d] # NoJob
    BY <1>2, <1>3, <2>1, <2>2 DEF FollowUp, Sent, NoJob, TypeOK
  <2>6. TypeOK' /\ row'[d] = w /\ op'[d] = o
    BY <1>1, <1>2, <1>3, <2>1, <2>2, <2>3, <2>4, <2>5
    DEF TypeOK, OperationStates, InFlightStates, TerminalStates
  <2>7. \A e \in Defs \ {d} :
            /\ row'[e] = row[e] /\ op'[e] = op[e] /\ queued'[e] = queued[e]
            /\ run'[e] = run[e] /\ (e \in lost' <=> e \in lost)
    BY <1>2, <1>5, <2>1, <2>5 DEF TypeOK
  <2>8. RowFacts(row'[d], ledger)
    BY <1>2, <1>3, <2>2, <2>4, <2>6 DEF RowFacts, RunFacts
  <2>9. JobFacts(row'[d], op'[d], queued'[d], run'[d], d \in lost')
    <3>1. run'[d] = Idle /\ Idle.pc = "idle"
      BY <1>4 DEF Idle
    <3>2. \/ w.state = "ready" /\ o = "completed"
          \/ w.state = "pending" /\ o = "processing" /\ queued'[d] # NoJob
          \/ w.state = "failed" /\ o = "failed"
      BY <2>2, <2>3, <2>4, <2>5
    <3>3. QED
      BY <2>6, <3>1, <3>2 DEF JobFacts, InFlightStates
  <2>10. QED
    BY <1>1, <1>4, <2>6, <2>7, <2>8, <2>9, LocalStep
<1>8. QED
  BY <1>6, <1>7

\* A pod dies: what its run had claimed stays claimed.
LEMMA DieStep ==
    ASSUME RegInv, NEW d \in Defs, Die(d)
    PROVE  RegInv' /\ UNCHANGED <<intent, ledger>>
<1>1. /\ lost' = IF queued[d] = NoJob THEN lost \cup {d} ELSE lost
      /\ run' = [run EXCEPT ![d] = Idle] /\ UNCHANGED <<row, op, queued, intent, ledger>>
  BY DEF Die
<1>2. TypeOK /\ RowFacts(row[d], ledger) /\ RunFacts(run[d], intent, ledger)
      /\ JobFacts(row[d], op[d], queued[d], run[d], d \in lost)
  BY DEF RegInv
<1>3. Idle \in Run
  BY RegistrationAssumption DEF Idle, Run, Registrations, Progress, Artifacts
<1>4. RunFacts(run'[d], intent, ledger) /\ run'[d].pc \notin Holding /\ run'[d] = Idle
  BY <1>1, <1>2 DEF TypeOK, RunFacts, RegFacts, Idle, Holding, None
<1>5. TypeOK'
  BY <1>1, <1>2, <1>3 DEF TypeOK
<1>6. \A e \in Defs \ {d} :
        /\ row'[e] = row[e] /\ op'[e] = op[e] /\ queued'[e] = queued[e]
        /\ run'[e] = run[e] /\ (e \in lost' <=> e \in lost)
  BY <1>1, <1>2 DEF TypeOK
<1>7. JobFacts(row'[d], op'[d], queued'[d], run'[d], d \in lost')
  BY <1>1, <1>2, <1>4 DEF JobFacts, Idle
<1>8. QED
  BY <1>1, <1>2, <1>4, <1>5, <1>6, <1>7, LocalStep

\* An endorsement makes visible what was taken, and nothing else.
LEMMA EndorseStep ==
    ASSUME RegInv, NEW a \in Artifacts, Endorse(a)
    PROVE  /\ RegInv' /\ UNCHANGED intent
           /\ \A b \in Artifacts : ledger'[b].taken = ledger[b].taken
<1>1. /\ UNCHANGED <<row, op, queued, run, lost, intent>>
      /\ ledger' = [ledger EXCEPT ![a].visible = TRUE] /\ ledger[a].taken > 0
  BY DEF Endorse
<1>2. ledger \in [Artifacts -> [taken : Nat, visible : BOOLEAN]]
      /\ \A b \in Artifacts : ArtFacts(intent[b], ledger[b])
  BY DEF RegInv, TypeOK
<1>3. /\ ledger' \in [Artifacts -> [taken : Nat, visible : BOOLEAN]]
      /\ \A b \in Artifacts : ledger'[b].taken = ledger[b].taken
      /\ \A b \in Artifacts \ {a} : ledger'[b] = ledger[b]
      /\ ledger'[a].visible = TRUE
  BY <1>1, <1>2
<1>4. \A b \in Artifacts : ledger[b].visible => ledger'[b].visible
  BY <1>3
<1>5. \A b \in Artifacts : ArtFacts(intent'[b], ledger'[b])
  <2>1. ledger[a].taken = 1
    BY <1>1, <1>2 DEF ArtFacts
  <2>2. QED
    BY <1>1, <1>2, <1>3, <2>1 DEF ArtFacts
<1>6. ASSUME NEW reg, RegFacts(reg, ledger) PROVE RegFacts(reg, ledger')
  BY <1>4, <1>6 DEF RegFacts
<1>7. TypeOK'
  BY <1>1, <1>3 DEF RegInv, TypeOK
<1>8. ASSUME NEW d \in Defs
      PROVE  RowFacts(row'[d], ledger') /\ RunFacts(run'[d], intent', ledger')
  <2>1. RowFacts(row[d], ledger) /\ RunFacts(run[d], intent, ledger) /\ run[d].art \in Artifacts
    BY RunKnown DEF RegInv
  <2>2. RowFacts(row'[d], ledger')
    BY <1>1, <1>6, <2>1 DEF RowFacts
  <2>3. RegFacts(run[d].reg, ledger')
    BY <1>6, <2>1 DEF RunFacts
  <2>4. RunFacts(run'[d], intent', ledger')
    BY <1>1, <1>3, <1>4, <2>1, <2>3 DEF RunFacts
  <2>5. QED
    BY <2>2, <2>4
<1>9. RegInv'
  BY <1>1, <1>5, <1>7, <1>8 DEF RegInv
<1>10. QED
  BY <1>1, <1>3, <1>9

-----------------------------------------------------------------------------

Promised == [a \in Artifacts |-> ArtifactState(a)]

\* What the promise sees depends on the intents and on what was taken only.
LEMMA SameView ==
    ASSUME \A b \in Artifacts : intent'[b] = intent[b] /\ ledger'[b].taken = ledger[b].taken
    PROVE  Promised' = Promised
BY DEF Promised, ArtifactState

\* A step at one artifact that the promise allows.
LEMMA OneView ==
    ASSUME NEW a \in Artifacts,
           \A b \in Artifacts \ {a} :
                intent'[b] = intent[b] /\ ledger'[b].taken = ledger[b].taken,
           \/ ArtifactState(a) \in {"unclaimed", "rejected"} /\ ArtifactState(a)' = "claimed"
           \/ ArtifactState(a) = "claimed" /\ ArtifactState(a)' \in {"taken", "rejected"}
    PROVE  Promise!Next
<1>1. Promised' = [Promised EXCEPT ![a] = ArtifactState(a)']
  <2>1. ASSUME NEW b \in Artifacts \ {a} PROVE ArtifactState(b)' = ArtifactState(b)
    BY DEF ArtifactState
  <2>2. QED
    BY <2>1 DEF Promised
<1>2. Promised[a] = ArtifactState(a)
  BY DEF Promised
<1> HIDE DEF Promised
<1>3. CASE ArtifactState(a) \in {"unclaimed", "rejected"} /\ ArtifactState(a)' = "claimed"
  BY <1>1, <1>2, <1>3 DEF Promise!Next, Promise!Claim, Promised
<1>4. CASE ArtifactState(a) = "claimed" /\ ArtifactState(a)' \in {"taken", "rejected"}
  BY <1>1, <1>2, <1>4 DEF Promise!Next, Promise!Take, Promise!Reject, Promised
<1>5. QED
  BY <1>3, <1>4

\* A claim takes an artifact that nobody has submitted.
LEMMA ClaimView ==
    ASSUME RegInv, NEW d \in Defs, Claim(d) PROVE Promise!Next \/ Promised' = Promised
<1>1. PICK a \in Artifacts : a = run[d].art
  BY RunKnown
<1>2. intent \in [Artifacts -> {None, "publishing", "submitted", "rejected"}] /\ UNCHANGED ledger
  BY DEF RegInv, TypeOK, Claim
<1>3. CASE ~Claimable(a)
  <2>1. UNCHANGED intent
    BY <1>1, <1>3 DEF Claim
  <2>2. QED
    BY <1>2, <2>1, SameView
<1>4. CASE Claimable(a)
  <2>1. intent' = [intent EXCEPT ![a] = "publishing"] /\ intent[a] \in {None, "rejected"}
    BY <1>1, <1>4 DEF Claim, Claimable
  <2>2. ledger[a].taken = 0 /\ ledger'[a].taken = 0
    BY <1>1, <1>2, <2>1 DEF RegInv, ArtFacts
  <2>3. /\ intent'[a] = "publishing"
        /\ \A b \in Artifacts \ {a} : intent'[b] = intent[b] /\ ledger'[b].taken = ledger[b].taken
    BY <1>1, <1>2, <2>1
  <2>4. ArtifactState(a) \in {"unclaimed", "rejected"}
    BY <2>1, <2>2 DEF ArtifactState, None
  <2>5. ArtifactState(a)' = "claimed"
    BY <2>2, <2>3 DEF ArtifactState
  <2>6. QED
    BY <1>1, <2>3, <2>4, <2>5, OneView
<1>5. QED
  BY <1>3, <1>4

\* A publication happens under the claim.
LEMMA PublishView ==
    ASSUME RegInv, NEW d \in Defs, NEW answer \in {"finished", "wait", "lost", "rejected"},
           Publish(d, answer)
    PROVE  Promise!Next \/ Promised' = Promised
<1>1. PICK a \in Artifacts : a = run[d].art
  BY RunKnown
<1>2. UNCHANGED intent
  BY DEF Publish
<1>3. /\ intent[a] = "publishing" /\ ledger[a].taken = 0
      /\ \/ /\ ledger'[a].taken = 1
            /\ \A b \in Artifacts \ {a} : ledger'[b] = ledger[b]
         \/ UNCHANGED ledger
  BY <1>1, PublishStep
<1>4. CASE UNCHANGED ledger
  BY <1>2, <1>4, SameView
<1>5. CASE ledger'[a].taken = 1 /\ \A b \in Artifacts \ {a} : ledger'[b] = ledger[b]
  <2>1. ArtifactState(a) = "claimed"
    BY <1>3 DEF ArtifactState
  <2>2. ArtifactState(a)' = "taken"
    BY <1>2, <1>3, <1>5 DEF ArtifactState
  <2>3. QED
    BY <1>2, <1>5, <2>1, <2>2, OneView
<1>6. QED
  BY <1>3, <1>4, <1>5

\* Only what was not taken is given up.
LEMMA SaveView ==
    ASSUME RegInv, NEW d \in Defs, SaveSubmission(d)
    PROVE  Promise!Next \/ Promised' = Promised
<1>1. PICK a \in Artifacts : a = run[d].art
  BY RunKnown
<1>2. PICK i \in {"publishing", "submitted", "rejected"} : i = Outcome(run[d].out)
  BY SaveSubmissionStep
<1>3. /\ UNCHANGED ledger /\ intent[a] = "publishing" /\ intent' = [intent EXCEPT ![a] = i]
      /\ i = "rejected" => ledger[a].taken = 0
      /\ i = "submitted" => ledger[a].taken = 1
  BY <1>1, <1>2, SaveSubmissionStep
<1>4. /\ intent'[a] = i
      /\ \A b \in Artifacts \ {a} : intent'[b] = intent[b] /\ ledger'[b].taken = ledger[b].taken
  BY <1>3 DEF RegInv, TypeOK
<1>5. CASE i = "publishing"
  BY <1>3, <1>4, <1>5, SameView
<1>6. CASE i = "rejected"
  <2>1. ArtifactState(a) = "claimed"
    BY <1>3, <1>6 DEF ArtifactState
  <2>2. ArtifactState(a)' = "rejected"
    BY <1>3, <1>4, <1>6 DEF ArtifactState
  <2>3. QED
    BY <1>4, <2>1, <2>2, OneView
<1>7. CASE i = "submitted"
  <2>1. ASSUME NEW b \in Artifacts PROVE ArtifactState(b)' = ArtifactState(b)
    <3>1. CASE b = a
      BY <1>3, <1>4, <1>7, <3>1 DEF ArtifactState
    <3>2. CASE b # a
      BY <1>4, <3>2 DEF ArtifactState
    <3>3. QED
      BY <3>1, <3>2
  <2>2. QED
    BY <2>1 DEF Promised
<1>8. QED
  BY <1>5, <1>6, <1>7

\* Every step keeps the invariant, and is a step of the promise or none.
LEMMA RegNext ==
    RegInv /\ [Next]_vars => RegInv' /\ (Promise!Next \/ Promised' = Promised)
<1> SUFFICES ASSUME RegInv, [Next]_vars
             PROVE  RegInv' /\ (Promise!Next \/ Promised' = Promised)
  OBVIOUS
<1>1. ASSUME UNCHANGED <<intent, ledger>> PROVE Promised' = Promised
  BY <1>1, SameView
<1>2. CASE UNCHANGED vars
  <2>1. UNCHANGED <<row, op, queued, run, lost, intent, ledger>>
    BY <1>2 DEF vars
  <2>2. RegInv'
    BY <2>1 DEF RegInv, TypeOK
  <2>3. QED
    BY <1>1, <2>1, <2>2
<1>3. ASSUME NEW d \in Defs, Api(d) \/ Start(d) \/ Die(d) \/ Lookup(d) \/ Persist(d)
      PROVE  RegInv' /\ Promised' = Promised
  BY <1>1, <1>3, ApiStep, StartStep, DieStep, LookupStep, PersistStep
<1>4. ASSUME NEW d \in Defs, NEW out \in {"ready", "wait", "failed"}, Verify(d, out)
      PROVE  RegInv' /\ Promised' = Promised
  BY <1>1, <1>4, VerifyStep
<1>5. ASSUME NEW d \in Defs, Claim(d)
      PROVE  RegInv' /\ (Promise!Next \/ Promised' = Promised)
  BY <1>5, ClaimStep, ClaimView
<1>6. ASSUME NEW d \in Defs, NEW answer \in {"finished", "wait", "lost", "rejected"},
             Publish(d, answer)
      PROVE  RegInv' /\ (Promise!Next \/ Promised' = Promised)
  BY <1>6, PublishStep, PublishView
<1>7. ASSUME NEW d \in Defs, SaveSubmission(d)
      PROVE  RegInv' /\ (Promise!Next \/ Promised' = Promised)
  BY <1>7, SaveSubmissionStep, SaveView
<1>8. ASSUME NEW a \in Artifacts, Endorse(a)
      PROVE  RegInv' /\ Promised' = Promised
  BY <1>8, EndorseStep, SameView
<1>9. QED
  BY <1>2, <1>3, <1>4, <1>5, <1>6, <1>7, <1>8 DEF Next, Work

-----------------------------------------------------------------------------

\* A definition and its operation never disagree, for any number of
\* definitions and checks and whatever is deactivated, purged or lost.
THEOREM RegistrationAgrees == Spec => []RowAndOperationAgree
<1>1. RegInv => RowAndOperationAgree
  BY DEF RegInv, JobFacts, RowAndOperationAgree
<1>2. QED
  BY <1>1, RegInit, RegNext, PTL DEF Spec

\* What is called ready is on the ledger, and was submitted once.
THEOREM ReadyPublished == Spec => []ReadyIsPublished
<1>1. RegInv => ReadyIsPublished
  BY DEF RegInv, RowFacts, RegFacts, ArtFacts, Finished, ReadyIsPublished
<1>2. QED
  BY <1>1, RegInit, RegNext, PTL DEF Spec

\* A pending definition has a job, unless the run of its last one died.
THEOREM PendingCovered == Spec => []PendingHasJob
<1>1. RegInv => PendingHasJob
  BY DEF RegInv, JobFacts, PendingHasJob
<1>2. QED
  BY <1>1, RegInit, RegNext, PTL DEF Spec

\* Claim, publication and record, with any number of runs in between and with
\* runs that die, implement the promise: the backend never takes an artifact
\* twice.
THEOREM PublicationRefines == Spec => PublishedOnce
<1>1. Init => Promise!Init
  BY DEF Init, Promise!Init, ArtifactState, None
<1>2. RegInv /\ [Next]_vars => RegInv' /\ [Promise!Next]_Promised
  BY RegNext
<1>3. QED
  BY <1>1, <1>2, RegInit, PTL DEF Spec, PublishedOnce, Promise!Spec, Promised

=============================================================================
