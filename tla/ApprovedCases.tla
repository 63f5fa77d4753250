----------------------------- MODULE ApprovedCases -----------------------------
(***************************************************************************)
(* Valuation runs of a ticker whose driver families the PM has approved    *)
(* (prepare_ticker_run and execute_prepared_ticker of                      *)
(* ticker_valuation_execution.py over approved_case_replay.py and          *)
(* valuation_run_store.py), beside the review desk that approves them.  A  *)
(* run freezes a snapshot, compiles the approvals for it into a case,      *)
(* stores the replay, and, when the batch gets to it, asks once more       *)
(* whether the approvals stand.  Its SELECTs take no locks, and the PM     *)
(* goes on deciding in between.                                            *)
(***************************************************************************)
EXTENDS ReviewDesk

CONSTANTS
  DriverFamily,  \* the families a case needs an approval of
  Runner,        \* valuation runs
  Gaps           \* what the evidence of a snapshot may lack

VARIABLES
  replays,  \* approved_valuation_replays: the cases stored
  run       \* what every valuation run is doing

caseVars == <<vars, replays, run>>

\* Gaps that block a valuation (trust_status, and the blockers of the
\* preparation); any other leaves it provisional.
HardGap == {"failed_reconciliation", "failed_operating_model", "short_history", "missing_context"}

\* upheld, clear (history): since the execution began the approvals of the case
\* stood at some moment, and at some moment no request was pending.
Waiting == [at |-> "waiting"]

Ended(status) == [at |-> "ended", status |-> status, upheld |-> FALSE, clear |-> FALSE]

-----------------------------------------------------------------------------
\* build_valuation_analysis_snapshot: what is frozen decides its hash.
Snapshot(gaps) ==
  [market |-> market, treatments |-> { k \in DOMAIN treatments : treatments[k].active }, gaps |-> gaps]

\* load_approved_family_bundle: the approved family packs of this very snapshot.
ApprovedFor(snapshot) ==
  { i \in DOMAIN items : /\ items[i].status = "approved"
                         /\ IsFamily(items[i].approved)
                         /\ items[i].approved.snapshot = snapshot }

\* _validated_family_approval and its event
Validated(i) ==
  /\ items[i].approved.accepted
  /\ items[i].links.approval = FamilyFingerprint(items[i].approved)
  /\ [item |-> i, event |-> "approve", approval |-> items[i].links.approval] \in events

\* None of the rows makes the loader raise: all are valid, one per family.
Loads(snapshot) ==
  /\ \A i \in ApprovedFor(snapshot) : Validated(i)
  /\ \A i, j \in ApprovedFor(snapshot) : items[i].approved.family = items[j].approved.family => i = j

Complete(snapshot) == { items[i].approved.family : i \in ApprovedFor(snapshot) } = DriverFamily

Bundle(snapshot) ==
  [f \in DriverFamily |->
     LET i == CHOOSE j \in ApprovedFor(snapshot) : items[j].approved.family = f
     IN [pack |-> items[i].approved, approval |-> items[i].links.approval]]

\* compile_approved_valuation_case: the case is the snapshot with its bundle,
CaseOf(snapshot) == [snapshot |-> snapshot, bundle |-> Bundle(snapshot)]

\* if the packs have one common horizon, the engine's (_ordered_packs).
Compiles(case) == \A f \in DriverFamily : case.bundle[f].pack.fits

\* _validate_approved_case_provenance: the approvals are still those of the case.
InForce(case) ==
  /\ Loads(case.snapshot)
  /\ Complete(case.snapshot)
  /\ Bundle(case.snapshot) = case.bundle

\* _validate_replay_readiness counts the pending requests of the snapshot.
PendingFor(snapshot) ==
  { q \in DOMAIN requests : requests[q].snapshot = snapshot /\ requests[q].status = "pending" }

\* persist_model_change_request: one that exists stays as it was decided.
FileRequest(snapshot) ==
  requests' = IF \E q \in DOMAIN requests : requests[q].snapshot = snapshot THEN requests
              ELSE Append(requests, [snapshot |-> snapshot, status |-> "pending"])

-----------------------------------------------------------------------------
Executing == {"validate", "recount"}

\* The history of the runs that are executing, brought up to the present.
Watched ==
  [v \in Runner |->
     IF run[v].at \in Executing
     THEN [run[v] EXCEPT !.upheld = @ \/ InForce(run[v].case),
                         !.clear = @ \/ PendingFor(run[v].case.snapshot) = {}]
     ELSE run[v]]

Move(v, at) == run' = [Watched EXCEPT ![v].at = at]

End(v, status) == run' = [Watched EXCEPT ![v] = Ended(status)]

Report(v, status) == run' = [Watched EXCEPT ![v].at = "ended", ![v].status = status]

deskVars == <<tableVars, queueVars, rulings, market, job, calls>>

\* prepare_ticker_run up to the frozen snapshot; a model that does not apply
\* to the issuer is requested to change.
Freeze(v) ==
  /\ run[v] = Waiting
  /\ \E gaps \in Gaps :
       IF market = NoInputs \/ "failed_reconciliation" \in gaps THEN End(v, "blocked") /\ UNCHANGED requests
       ELSE IF "unsupported_model" \in gaps THEN End(v, "blocked") /\ FileRequest(Snapshot(gaps))
       ELSE /\ run' = [Watched EXCEPT ![v] = [at |-> "load", snapshot |-> Snapshot(gaps)]]
            /\ UNCHANGED requests
  /\ UNCHANGED <<deskVars, replays>>

\* The bundle, the readiness with it, and the compiled case.  Without all
\* families the run is left to the judgment pipeline.
LoadBundle(v) ==
  LET snapshot == run[v].snapshot IN
  /\ run[v].at = "load"
  /\ IF snapshot.gaps \cap HardGap # {} \/ ~Loads(snapshot) THEN End(v, "blocked")
     ELSE IF ~Complete(snapshot) THEN Move(v, "judge")
     ELSE IF snapshot.gaps = {} /\ Compiles(CaseOf(snapshot))
     THEN run' = [Watched EXCEPT ![v] = [at |-> "provenance", case |-> CaseOf(snapshot)]]
     ELSE End(v, "blocked")
  /\ UNCHANGED <<deskVars, requests, replays>>

\* persist_approved_valuation_replay loads the bundle again,
Provenance(v) ==
  /\ run[v].at = "provenance"
  /\ IF InForce(run[v].case) THEN Move(v, "count") ELSE End(v, "blocked")
  /\ UNCHANGED <<deskVars, requests, replays>>

\* then counts the requests,
Count(v) ==
  /\ run[v].at = "count"
  /\ IF PendingFor(run[v].case.snapshot) = {} THEN Move(v, "store") ELSE End(v, "blocked")
  /\ UNCHANGED <<deskVars, requests, replays>>

\* and inserts the replay, unless its key is there.
Store(v) ==
  /\ run[v].at = "store"
  /\ replays' = replays \cup {run[v].case}
  /\ Move(v, "execute")
  /\ UNCHANGED <<deskVars, requests>>

\* execute_prepared_ticker, perhaps much later: the stored row is loaded (rows
\* are never deleted),
Execute(v) ==
  /\ run[v].at = "execute"
  /\ run[v].case \in replays
  /\ run' = [Watched EXCEPT ![v] = [at |-> "validate", case |-> run[v].case, status |-> "none",
                                   upheld |-> FALSE, clear |-> FALSE]]
  /\ UNCHANGED <<deskVars, requests, replays>>

\* Mutant: a stored replay is not asked for its approvals again.
StoredIsEnough(case) == case \in replays

\* load_approved_valuation_replay validates what it loaded.
StillApproved(case) == InForce(case)

Validate(v) ==
  /\ run[v].at = "validate"
  /\ IF StillApproved(run[v].case) THEN Move(v, "recount") ELSE Report(v, "blocked")
  /\ UNCHANGED <<deskVars, requests, replays>>

\* Mutant: readiness is taken from the frozen case, where nothing is pending.
FrozenReadiness(case) == case.snapshot.gaps = {}

NothingPending(case) == PendingFor(case.snapshot) = {}

Recount(v) ==
  /\ run[v].at = "recount"
  /\ Report(v, IF NothingPending(run[v].case) THEN "decision_grade" ELSE "blocked")
  /\ UNCHANGED <<deskVars, requests, replays>>

\* The judgment pipeline: its critics may request a change of the model.
Judge(v) ==
  /\ run[v].at = "judge"
  /\ \E challenged \in BOOLEAN :
       IF challenged THEN FileRequest(run[v].snapshot) ELSE UNCHANGED requests
  /\ \E status \in {"provisional", "blocked"} : End(v, status)
  /\ UNCHANGED <<deskVars, replays>>

Kill(v) ==
  /\ run[v].at \notin {"waiting", "ended"}
  /\ End(v, "none")
  /\ UNCHANGED <<deskVars, requests, replays>>

-----------------------------------------------------------------------------
CaseInit ==
  \E desk \in Desks :
    /\ InitFrom(desk)
    /\ replays = {}
    /\ run = [v \in Runner |-> IF v \in desk.runs THEN Waiting ELSE Ended("none")]

DeskStep == Next /\ run' = Watched /\ UNCHANGED replays

CaseNext ==
  \/ DeskStep
  \/ \E v \in Runner :
       \/ Freeze(v) \/ LoadBundle(v) \/ Provenance(v) \/ Count(v) \/ Store(v)
       \/ Execute(v) \/ Validate(v) \/ Recount(v) \/ Judge(v) \/ Kill(v)

CaseSpec == CaseInit /\ [][CaseNext]_caseVars

-----------------------------------------------------------------------------
\* A run reports decision grade only if, while it executed, all families of
\* its case were approved at once, for its snapshot, exactly as the case has
\* them: not if the PM replaced or withdrew one after the replay was stored.
DecisionGradeIsInForce ==
  \A v \in Runner : run[v].at = "ended" /\ run[v].status = "decision_grade" => run[v].upheld

\* Nor does it if a request to change the model was open for the snapshot from
\* the beginning to the end of the execution, whoever filed it, and whenever.
OpenRequestsHoldBack ==
  \A v \in Runner : run[v].at = "ended" /\ run[v].status = "decision_grade" => run[v].clear

=============================================================================
