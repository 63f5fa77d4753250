-------------------------- MODULE ApprovedCasesProofs --------------------------
(***************************************************************************)
(* Proofs about ApprovedCases, the review desk and the valuation runs      *)
(* beside it, for any number of handlers, items, changes and runs.         *)
(***************************************************************************)
EXTENDS ApprovedCases, ReviewDeskProofs

(* The desk's invariant, while runs file requests. *)

LEMMA RequestsGrow ==
  ASSUME RequestsInv, NEW snapshot, FileRequest(snapshot), UNCHANGED rulings
  PROVE  RequestsInv' /\ DOMAIN requests \subseteq DOMAIN requests'
<1> DEFINE new == [snapshot |-> snapshot, status |-> "pending"]
           L == Len(requests)
<1>1. CASE requests' = requests
  BY <1>1 DEF RequestsInv, RequestsAreDecidedOnce
<1>2. CASE requests' = Append(requests, new)
  <2>1. /\ requests \in Seq(ToSet(requests)) /\ rulings \in Seq(Ruling(DOMAIN requests))
        /\ \A p \in DOMAIN requests :
             /\ DOMAIN requests[p] = {"snapshot", "status"}
             /\ requests[p].status \in {"pending", "accepted", "implemented", "rejected"}
        /\ \A p \in DOMAIN requests : DecidedOnce(p)
    BY DEF RequestsInv, RequestsAreDecidedOnce, Ruling, DecidedOnce
  <2>2. /\ L \in Nat /\ DOMAIN requests = 1..L
        /\ requests' \in Seq(ToSet(requests) \cup {new}) /\ Len(requests') = L + 1
        /\ DOMAIN requests' = DOMAIN requests \cup {L + 1}
        /\ \A p \in DOMAIN requests : requests'[p] = requests[p]
        /\ requests'[L + 1] = new
    <3>1. L \in Nat /\ DOMAIN requests = 1..L
      BY <2>1, SeqFacts
    <3>2. requests \in Seq(ToSet(requests) \cup {new})
      BY <2>1
    <3>3. QED
      BY <1>2, <3>1, <3>2, AppendFacts
  <2>3. requests' \in Seq(ToSet(requests'))
    <3>1. DOMAIN requests' = 1..(L + 1)
      BY <2>2
    <3>2. \A p \in DOMAIN requests' : requests'[p] \in ToSet(requests')
      BY DEF ToSet
    <3>3. requests' = [p \in DOMAIN requests' |-> requests'[p]]
      BY <2>2
    <3>4. requests' \in [1..(L + 1) -> ToSet(requests')] /\ L + 1 \in Nat
      BY <2>2, <3>1, <3>2, <3>3
    <3>5. QED
      BY <3>4, FcnIsSeq
  <2>4. rulings \in Seq(Ruling(DOMAIN requests')) /\ \A k \in DOMAIN rulings : rulings[k].request \in DOMAIN requests
    <3>1. Ruling(DOMAIN requests) \subseteq Ruling(DOMAIN requests')
      BY <2>2 DEF Ruling
    <3>2. \A k \in DOMAIN rulings : rulings[k] \in Ruling(DOMAIN requests)
      BY <2>1, SeqFacts
    <3>3. rulings \in [1..Len(rulings) -> Ruling(DOMAIN requests')] /\ Len(rulings) \in Nat
      BY <2>1, <3>1, <3>2, SeqFacts
    <3>4. rulings \in Seq(Ruling(DOMAIN requests'))
      BY <3>3, FcnIsSeq
    <3>5. \A k \in DOMAIN rulings : rulings[k].request \in DOMAIN requests
      BY <3>2 DEF Ruling
    <3>6. QED
      BY <3>4, <3>5
  <2>5. ASSUME NEW p \in DOMAIN requests PROVE DecidedOnce(p)'
    <3>1. DecidedOnce(p) /\ requests'[p] = requests[p]
      BY <2>1, <2>2
    <3>2. QED
      BY <3>1 DEF DecidedOnce
  <2>6. ASSUME NEW p, p = L + 1 PROVE DecidedOnce(p)'
    <3>1. { k \in DOMAIN rulings : rulings[k].request = p } = {}
      BY <2>2, <2>4, <2>6
    <3>2. requests'[p].status = "pending"
      BY <2>2, <2>6
    <3>3. QED
      BY <3>1, <3>2 DEF DecidedOnce
  <2>7. RequestsAreDecidedOnce'
    <3>1. \A p \in DOMAIN requests' : DecidedOnce(p)'
      BY <2>2, <2>5, <2>6
    <3>2. QED
      BY <3>1 DEF RequestsAreDecidedOnce, DecidedOnce
  <2>8. \A p \in DOMAIN requests' :
          /\ DOMAIN requests'[p] = {"snapshot", "status"}
          /\ requests'[p].status \in {"pending", "accepted", "implemented", "rejected"}
    BY <2>1, <2>2
  <2>9. QED
    BY <2>2, <2>3, <2>4, <2>7, <2>8 DEF RequestsInv, Ruling
<1>3. QED
  BY <1>1, <1>2 DEF FileRequest
\* A valuation run writes no table of the desk but the requests.
LEMMA RunsFile ==
  ASSUME NEW desk \in Desks, DeskInv(desk), UNCHANGED deskVars,
         UNCHANGED requests \/ \E snapshot : FileRequest(snapshot)
  PROVE  DeskInv(desk)'
<1>1. UNCHANGED <<tableVars, queueVars, rulings, market, job>>
  BY DEF deskVars
<1>2. RequestsInv' /\ DOMAIN requests \subseteq DOMAIN requests'
  <2>1. CASE UNCHANGED requests
    BY <1>1, <2>1, KeepRequests DEF DeskInv, requestVars
  <2>2. CASE \E snapshot : FileRequest(snapshot)
    BY <1>1, <2>2, RequestsGrow DEF DeskInv
  <2>3. QED
    BY <2>1, <2>2
<1>3. Later(World, World')
  BY <1>1, <1>2, RequestsOnly
<1>4. JobsInv(desk)'
  BY <1>1, <1>3, JobGrows DEF DeskInv, JobsInv
<1>5. QED
  BY <1>1, <1>2, <1>4, RequestsOnly

LEMMA CasesStep ==
  ASSUME NEW v \in Runner,
         \/ Freeze(v) \/ LoadBundle(v) \/ Provenance(v) \/ Count(v) \/ Store(v)
         \/ Execute(v) \/ Validate(v) \/ Recount(v) \/ Judge(v) \/ Kill(v)
  PROVE  UNCHANGED deskVars /\ (UNCHANGED requests \/ \E snapshot : FileRequest(snapshot))
<1>1. CASE Freeze(v)
  BY <1>1 DEF Freeze
<1>2. CASE Judge(v)
  BY <1>2 DEF Judge
<1>3. CASE LoadBundle(v) \/ Provenance(v) \/ Count(v) \/ Store(v)
  BY <1>3 DEF LoadBundle, Provenance, Count, Store
<1>4. CASE Execute(v) \/ Validate(v) \/ Recount(v) \/ Kill(v)
  BY <1>4 DEF Execute, Validate, Recount, Kill
<1>5. QED
  BY <1>1, <1>2, <1>3, <1>4

LEMMA InitInv == CaseInit => IInv
BY Beginning DEF CaseInit, IInv

LEMMA StepInv == IInv /\ [CaseNext]_caseVars => IInv'
<1> SUFFICES ASSUME IInv, [CaseNext]_caseVars PROVE IInv'
  OBVIOUS
<1>1. PICK desk \in Desks : DeskInv(desk)
  BY DEF IInv
<1>2. CASE DeskStep
  BY <1>1, <1>2, HandlersStep DEF DeskStep, IInv
<1>3. CASE UNCHANGED caseVars
  BY <1>1, <1>3, DeskRests DEF caseVars, IInv
<1>4. ASSUME NEW v \in Runner,
             \/ Freeze(v) \/ LoadBundle(v) \/ Provenance(v) \/ Count(v) \/ Store(v)
             \/ Execute(v) \/ Validate(v) \/ Recount(v) \/ Judge(v) \/ Kill(v)
      PROVE  IInv'
  BY <1>1, <1>4, CasesStep, RunsFile DEF IInv
<1>5. QED
  BY <1>2, <1>3, <1>4 DEF CaseNext

THEOREM Invariance == CaseSpec => []IInv
BY InitInv, StepInv, PTL DEF CaseSpec
-----------------------------------------------------------------------------
(* What a valuation run has seen. *)

\* What a run has seen when it is about to report.
RunFields == {"at", "case", "status", "upheld", "clear"}

RunsInv ==
  /\ DOMAIN run = Runner
  /\ \A v \in Runner :
       /\ run[v].at \in Executing => DOMAIN run[v] = RunFields /\ run[v].status # "decision_grade"
       /\ run[v].at = "recount" => run[v].upheld
       /\ run[v].at = "ended" /\ run[v].status = "decision_grade" => run[v].upheld /\ run[v].clear
RunOK(state) ==
  /\ state.at \in Executing => DOMAIN state = RunFields /\ state.status # "decision_grade"
  /\ state.at = "recount" => state.upheld
  /\ state.at = "ended" /\ state.status = "decision_grade" => state.upheld /\ state.clear

LEMMA Watching ==
  ASSUME RunsInv
  PROVE  /\ DOMAIN Watched = Runner
         /\ \A v \in Runner :
              /\ RunOK(Watched[v]) /\ Watched[v].at = run[v].at
              /\ run[v].at \in Executing =>
                   /\ DOMAIN Watched[v] = RunFields /\ Watched[v].status = run[v].status
                   /\ run[v].upheld => Watched[v].upheld
                   /\ InForce(run[v].case) => Watched[v].upheld
                   /\ PendingFor(run[v].case.snapshot) = {} => Watched[v].clear
<1>1. DOMAIN Watched = Runner
  BY DEF Watched
<1>2. ASSUME NEW v \in Runner, run[v].at \notin Executing PROVE Watched[v] = run[v]
  BY <1>2 DEF Watched
<1>3. ASSUME NEW v \in Runner, run[v].at \in Executing
      PROVE  /\ DOMAIN Watched[v] = RunFields /\ Watched[v].status = run[v].status /\ Watched[v].at = run[v].at
             /\ run[v].upheld => Watched[v].upheld
             /\ InForce(run[v].case) => Watched[v].upheld
             /\ PendingFor(run[v].case.snapshot) = {} => Watched[v].clear
  <2>1. Watched[v] = [run[v] EXCEPT !.upheld = @ \/ InForce(run[v].case),
                                    !.clear = @ \/ PendingFor(run[v].case.snapshot) = {}]
    BY <1>3 DEF Watched
  <2>2. DOMAIN run[v] = RunFields
    BY <1>3 DEF RunsInv
  <2>3. /\ DOMAIN Watched[v] = RunFields /\ Watched[v].status = run[v].status /\ Watched[v].at = run[v].at
        /\ Watched[v].upheld = (run[v].upheld \/ InForce(run[v].case))
        /\ Watched[v].clear = (run[v].clear \/ PendingFor(run[v].case.snapshot) = {})
    BY <2>1, <2>2 DEF RunFields
  <2>4. QED
    BY <2>3
<1>4. ASSUME NEW v \in Runner PROVE RunOK(Watched[v])
  <2>1. CASE run[v].at \in Executing
    <3>1. run[v].status # "decision_grade" /\ (run[v].at = "recount" => run[v].upheld)
      BY <2>1 DEF RunsInv
    <3>2. QED
      BY <1>3, <2>1, <3>1 DEF RunOK, Executing
  <2>2. CASE run[v].at \notin Executing
    BY <1>2, <2>2 DEF RunsInv, RunOK
  <2>3. QED
    BY <2>1, <2>2
<1>5. QED
  BY <1>1, <1>2, <1>3, <1>4

\* One run moves while the others watch.
LEMMA OneRun ==
  ASSUME RunsInv, NEW v \in Runner, DOMAIN run' = Runner,
         \A u \in Runner \ {v} : run'[u] = Watched[u], RunOK(run'[v])
  PROVE  RunsInv'
<1>1. \A u \in Runner : RunOK(run'[u])
  BY Watching
<1>2. QED
  BY <1>1 DEF RunsInv, RunOK

LEMMA Ending ==
  ASSUME RunsInv, NEW v \in Runner, NEW status, status # "decision_grade", End(v, status)
  PROVE  RunsInv'
<1>1. run' = [Watched EXCEPT ![v] = Ended(status)]
  BY DEF End
<1>2. DOMAIN run' = Runner /\ run'[v] = Ended(status) /\ \A u \in Runner \ {v} : run'[u] = Watched[u]
  BY <1>1, Watching
<1>3. RunOK(run'[v])
  BY <1>2 DEF RunOK, Ended, Executing
<1>4. QED
  BY <1>2, <1>3, OneRun

\* A run that is not executing moves to a step that is not of the execution.
LEMMA Preparing ==
  ASSUME RunsInv, NEW v \in Runner, NEW at, at \notin Executing \cup {"ended"}, run[v].at \notin Executing,
         Move(v, at)
  PROVE  RunsInv'
<1>1. run' = [Watched EXCEPT ![v].at = at]
  BY DEF Move
<1>2. DOMAIN run' = Runner /\ \A u \in Runner \ {v} : run'[u] = Watched[u]
  BY <1>1, Watching
<1>3. run'[v] = [Watched[v] EXCEPT !.at = at]
  BY <1>1, Watching
<1>4. Watched[v] = run[v]
  BY Watching DEF Watched
<1>5. RunOK(run'[v])
  BY <1>3, <1>4 DEF RunOK, Executing
<1>6. QED
  BY <1>2, <1>5, OneRun
LEMMA Replacing ==
  ASSUME RunsInv, NEW v \in Runner, NEW state, run' = [Watched EXCEPT ![v] = state], RunOK(state)
  PROVE  RunsInv'
<1>1. DOMAIN run' = Runner /\ run'[v] = state /\ \A u \in Runner \ {v} : run'[u] = Watched[u]
  BY Watching
<1>2. QED
  BY <1>1, OneRun

LEMMA Freezing ==
  ASSUME RunsInv, NEW v \in Runner, Freeze(v)
  PROVE  RunsInv'
<1>1. PICK gaps \in Gaps :
        \/ End(v, "blocked")
        \/ run' = [Watched EXCEPT ![v] = [at |-> "load", snapshot |-> Snapshot(gaps)]]
  BY DEF Freeze
<1>2. RunOK([at |-> "load", snapshot |-> Snapshot(gaps)])
  BY DEF RunOK, Executing
<1>3. QED
  BY <1>1, <1>2, Ending, Replacing

LEMMA Loading ==
  ASSUME RunsInv, NEW v \in Runner, LoadBundle(v)
  PROVE  RunsInv'
<1> DEFINE state == [at |-> "provenance", case |-> CaseOf(run[v].snapshot)]
<1>1. run[v].at = "load" /\ (End(v, "blocked") \/ Move(v, "judge") \/ run' = [Watched EXCEPT ![v] = state])
  BY DEF LoadBundle
<1>2. RunOK(state)
  BY DEF RunOK, Executing
<1>3. CASE Move(v, "judge")
  BY <1>1, <1>3, Preparing DEF Executing
<1>4. QED
  BY <1>1, <1>2, <1>3, Ending, Replacing

LEMMA Storing ==
  ASSUME RunsInv, NEW v \in Runner, Provenance(v) \/ Count(v) \/ Store(v)
  PROVE  RunsInv'
<1>1. PICK at \in {"count", "store", "execute"} :
        run[v].at \in {"provenance", "count", "store"} /\ (Move(v, at) \/ End(v, "blocked"))
  BY DEF Provenance, Count, Store
<1>2. CASE Move(v, at)
  BY <1>1, <1>2, Preparing DEF Executing
<1>3. QED
  BY <1>1, <1>2, Ending

LEMMA BeginningToExecute ==
  ASSUME RunsInv, NEW v \in Runner, Execute(v)
  PROVE  RunsInv'
<1> DEFINE state == [at |-> "validate", case |-> run[v].case, status |-> "none", upheld |-> FALSE, clear |-> FALSE]
<1>1. run' = [Watched EXCEPT ![v] = state]
  BY DEF Execute
<1>2. RunOK(state)
  BY DEF RunOK, Executing, RunFields
<1>3. QED
  BY <1>1, <1>2, Replacing

\* What an execution has seen when it takes its last two steps.
LEMMA Seen ==
  ASSUME RunsInv, NEW v \in Runner, run[v].at \in Executing, NEW state, NEW at, NEW status,
         state = [Watched[v] EXCEPT !.at = at, !.status = status]
  PROVE  /\ DOMAIN state = RunFields /\ state.at = at /\ state.status = status
         /\ state.upheld = Watched[v].upheld /\ state.clear = Watched[v].clear
<1>1. DOMAIN Watched[v] = RunFields
  BY Watching
<1>2. QED
  BY <1>1 DEF RunFields

LEMMA Reporting ==
  ASSUME RunsInv, NEW v \in Runner, run[v].at \in Executing, NEW status, Report(v, status),
         status = "decision_grade" => Watched[v].upheld /\ Watched[v].clear
  PROVE  RunsInv'
<1> DEFINE state == [Watched[v] EXCEPT !.at = "ended", !.status = status]
<1>1. run' = [Watched EXCEPT ![v] = state]
  BY Watching DEF Report
<1>2. state.at = "ended" /\ state.status = status /\ state.upheld = Watched[v].upheld /\ state.clear = Watched[v].clear
  BY Seen
<1> HIDE DEF state
<1>3. RunOK(state)
  BY <1>2 DEF RunOK, Executing
<1>4. QED
  BY <1>1, <1>3, Replacing

LEMMA Validating ==
  ASSUME RunsInv, NEW v \in Runner, Validate(v)
  PROVE  RunsInv'
<1> DEFINE state == [Watched[v] EXCEPT !.at = "recount"]
<1>1. /\ run[v].at = "validate" /\ run[v].at \in Executing
      /\ IF InForce(run[v].case) THEN Move(v, "recount") ELSE Report(v, "blocked")
  BY DEF Validate, StillApproved, Executing
<1>2. CASE InForce(run[v].case)
  <2>1. run' = [Watched EXCEPT ![v] = state]
    BY <1>1, <1>2, Watching DEF Move
  <2>2. DOMAIN Watched[v] = RunFields /\ Watched[v].upheld /\ Watched[v].status # "decision_grade"
    BY <1>1, <1>2, Watching DEF RunsInv
  <2>3. /\ DOMAIN state = RunFields /\ state.at = "recount" /\ state.status = Watched[v].status
        /\ state.upheld = Watched[v].upheld
    BY <2>2 DEF RunFields
  <2> HIDE DEF state
  <2>4. RunOK(state)
    BY <2>2, <2>3 DEF RunOK
  <2>5. QED
    BY <2>1, <2>4, Replacing
<1>3. CASE ~InForce(run[v].case)
  BY <1>1, <1>3, Reporting
<1>4. QED
  BY <1>2, <1>3

LEMMA Recounting ==
  ASSUME RunsInv, NEW v \in Runner, Recount(v)
  PROVE  RunsInv'
<1>1. run[v].at = "recount" /\ run[v].at \in Executing
  BY DEF Recount, Executing
<1>2. Watched[v].upheld
  BY <1>1, Watching DEF RunsInv
<1>3. CASE PendingFor(run[v].case.snapshot) = {}
  <2>1. Report(v, "decision_grade")
    BY <1>3 DEF Recount, NothingPending
  <2>2. Watched[v].clear
    BY <1>1, <1>3, Watching
  <2>3. QED
    BY <1>1, <1>2, <2>1, <2>2, Reporting
<1>4. CASE PendingFor(run[v].case.snapshot) # {}
  <2>1. Report(v, "blocked")
    BY <1>4 DEF Recount, NothingPending
  <2>2. QED
    BY <1>1, <2>1, Reporting
<1>5. QED
  BY <1>3, <1>4

LEMMA RunsBegin == CaseInit => RunsInv
<1> SUFFICES ASSUME CaseInit PROVE RunsInv
  OBVIOUS
<1>1. PICK desk \in Desks : run = [v \in Runner |-> IF v \in desk.runs THEN Waiting ELSE Ended("none")]
  BY DEF CaseInit
<1>2. \A v \in Runner : run[v] \in {Waiting, Ended("none")}
  BY <1>1
<1>3. QED
  BY <1>1, <1>2 DEF RunsInv, Waiting, Ended, Executing

LEMMA RunsStep == RunsInv /\ [CaseNext]_caseVars => RunsInv'
<1> SUFFICES ASSUME RunsInv, [CaseNext]_caseVars PROVE RunsInv'
  OBVIOUS
<1>1. CASE DeskStep
  BY <1>1, Watching DEF DeskStep, RunsInv, RunOK
<1>2. CASE UNCHANGED caseVars
  BY <1>2 DEF caseVars, RunsInv
<1>3. ASSUME NEW v \in Runner, Judge(v) \/ Kill(v) PROVE RunsInv'
  BY <1>3, Ending DEF Judge, Kill
<1>4. QED
  BY <1>1, <1>2, <1>3, Freezing, Loading, Storing, BeginningToExecute, Validating, Recounting DEF CaseNext

THEOREM RunsInvariance == CaseSpec => []RunsInv
BY RunsBegin, RunsStep, PTL DEF CaseSpec

-----------------------------------------------------------------------------
(* The theorems. *)

\* Every table holds rows of its columns' types and refers to rows that exist,
\* whatever handlers and runs are under way.
THEOREM TypeCorrect == CaseSpec => []TypeOK
BY Invariance, InvariantTypes, PTL

\* However many handlers apply changes at once, an assumption has at most one
\* entry in force, the one applied last.
THEOREM NewestInForce == CaseSpec => []NewestEntryIsActive
BY Invariance, InvariantSays, PTL

\* However approvals overlap, a topic's newest decision is its one active decision.
THEOREM NewestDecides == CaseSpec => []NewestTreatmentIsActive
BY Invariance, InvariantSays, PTL

\* A value that a queue item's pack brings into force is one a preview of that
\* item has shown, although previews, edits, approvals and prices interleave.
THEOREM PreviewedFirst == CaseSpec => []AppliedValuesWerePreviewed
BY Invariance, InvariantPreviews, PTL

\* An approved item has its event, its treatment decision, and no change left
\* waiting, wherever a handler died.
THEOREM ApprovalsBacked == CaseSpec => []ApprovedItemsAreBacked
BY Invariance, InvariantBacks, PTL

\* The approved pack of a family item is the one its fingerprint and its event name.
THEOREM FamiliesValidate == CaseSpec => []ApprovedFamiliesValidate
BY Invariance, InvariantSays, PTL

\* An approval that was closed names the approval of its family that closed it.
THEOREM ClosedBySuccessors == CaseSpec => []SupersededHaveSuccessors
BY Invariance, InvariantSays, PTL

\* The audit trail claims no approval and no application that did not happen.
THEOREM AuditsTrue == CaseSpec => []AuditsAreReal
BY Invariance, InvariantAudits, PTL

\* A request to change the model is decided at most once, by one of the handlers
\* that found it pending.
THEOREM OneDecision == CaseSpec => []RequestsAreDecidedOnce
BY Invariance, InvariantSays, PTL

\* A run that reports decision grade saw, while it executed, the approvals of its
\* case in force.
THEOREM GradeInForce == CaseSpec => []DecisionGradeIsInForce
<1>1. RunsInv => DecisionGradeIsInForce
  BY DEF RunsInv, DecisionGradeIsInForce
<1>2. QED
  BY <1>1, RunsInvariance, PTL

\* A run that reports decision grade saw, while it executed, no request pending
\* for its snapshot.
THEOREM RequestsHold == CaseSpec => []OpenRequestsHoldBack
<1>1. RunsInv => OpenRequestsHoldBack
  BY DEF RunsInv, OpenRequestsHoldBack
<1>2. QED
  BY <1>1, RunsInvariance, PTL

\* The desk and the runs beside it implement the register: drivers are overridden
\* only by applying, as one stack, proposals the PM has approved.
THEOREM RegisterImplemented == CaseSpec => ImplementsRegister
<1>1. CaseInit => Register!Init
  BY RegisterBegins DEF CaseInit
<1>2. IInv /\ [CaseNext]_caseVars => [Register!Approve \/ Register!Apply]_Register!registerVars
  <2> SUFFICES ASSUME IInv, [CaseNext]_caseVars
               PROVE  [Register!Approve \/ Register!Apply]_Register!registerVars
    OBVIOUS
  <2>1. PICK desk \in Desks : DeskInv(desk)
    BY DEF IInv
  <2>2. CASE DeskStep
    <3>1. Next /\ DeskInv(desk)'
      BY <2>1, <2>2, HandlersStep DEF DeskStep
    <3>2. QED
      BY <2>1, <3>1, RegisterStep
  <2>3. CASE UNCHANGED caseVars
    BY <2>3, RegisterRests DEF caseVars, vars, tableVars
  <2>4. ASSUME NEW v \in Runner,
               \/ Freeze(v) \/ LoadBundle(v) \/ Provenance(v) \/ Count(v) \/ Store(v)
               \/ Execute(v) \/ Validate(v) \/ Recount(v) \/ Judge(v) \/ Kill(v)
        PROVE  UNCHANGED Register!registerVars
    BY <2>4, CasesStep, RegisterRests DEF deskVars, tableVars
  <2>5. QED
    BY <2>2, <2>3, <2>4 DEF CaseNext
<1>3. QED
  BY <1>1, <1>2, Invariance, PTL DEF CaseSpec, ImplementsRegister, Register!Spec
================================================================================
