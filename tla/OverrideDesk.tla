------------------------------ MODULE OverrideDesk ------------------------------
(***************************************************************************)
(* How a number an agent proposes gets into config/valuation_overrides.yaml *)
(* and so into the valuation of one ticker: the recommendations file that   *)
(* every full run rewrites, the PM's decisions in it, and the workbenches   *)
(* that write the overrides file.  The API runs its writers on a small pool *)
(* of threads (api/run_tracker.py); the command line, the dashboard and the *)
(* full runs are processes of their own.  Both files are read, changed in   *)
(* memory and written back, and nothing keeps two writers apart.            *)
(***************************************************************************)
EXTENDS Naturals, Sequences, FiniteSets

CONSTANTS
  Session,   \* background runs of the API and interactive sessions
  Cast,      \* the assignments of kinds to sessions to be looked at
  Key,       \* agent:field pairs, numbered in the order they are extracted
  FieldOf,   \* the driver a key is about
  Value,     \* the numbers proposed or typed in
  Workers,   \* threads of _EXECUTOR
  MaxEdits   \* bound: edits of the recommendations file by hand

PoolKind == {"workbench", "wacc", "recommend"}

Kind == PoolKind \cup {"approve", "apply", "preview", "rerun"}

ASSUME CastAssumption == Cast \subseteq [Session -> Kind]
ASSUME KeyAssumption == Key \subseteq Nat /\ IsFiniteSet(Key) /\ FieldOf \in [Key -> STRING]
ASSUME ValueAssumption == Value \subseteq Nat
ASSUME BoundAssumption == Workers \in Nat \ {0} /\ MaxEdits \in Nat

VARIABLES
  cast,             \* what each session is
  recommendations,  \* agent_recommendations_{TICKER}.yaml: key -> proposal
  overrides,        \* the ticker's block of valuation_overrides.yaml: slot -> entry
  proposed,         \* recommendations put into pending_assumption_changes
  audited,          \* runs that have written their audit rows
  waiting,          \* the executor's queue
  status,           \* run records
  wish,             \* what the PM asked a run for
  step,             \* where a session is
  held,             \* what it has in memory
  edits,            \* edits by hand so far
  pointed,          \* history: keys the PM approved one by one or previewed
  taken,            \* history: keys a run found under the field it had been asked for
  shown             \* history: the proposals the PM had before him when approving

fileVars == <<recommendations, overrides>>
runVars == <<waiting, status, wish>>
historyVars == <<pointed, taken, shown>>
vars == <<cast, fileVars, proposed, audited, runVars, step, held, edits, historyVars>>

-----------------------------------------------------------------------------

Field == { FieldOf[k] : k \in Key }

\* The override block holds drivers and, under a name of its own, a WACC method.
Slot == Field \cup {"wacc_methodology"}

\* A proposal of an agent and the PM's decision on it.
Proposal == [value : Value, status : {"pending", "approved", "rejected"}]

\* An override.  The key it comes from is not in the file; the PM's own numbers and
\* the baseline, 0, have none.
Entry == [from : { {k} : k \in Key } \cup {{}}, value : Value \cup {0}]

Baseline == [from |-> {}, value |-> 0]

Empty == [x \in {} |-> 0]

Mapping(m, D, R) == DOMAIN m \subseteq D /\ \A x \in DOMAIN m : m[x] \in R

\* recs: to be written to the recommendations file; back: what a preview puts
\* back; plan: the entry a slot is to have, if any; copy: the block to be written.
Holding(h) ==
  /\ Mapping(h.recs, Key, Proposal)
  /\ Mapping(h.back, Key, Proposal)
  /\ Mapping(h.plan, Slot, { {e} : e \in Entry } \cup {{}})
  /\ Mapping(h.copy, Slot, Entry)

Nothing == [recs |-> Empty, back |-> Empty, plan |-> Empty, copy |-> Empty]

IsRun(s) == cast[s] \in PoolKind

Wish == [field : Field \cup {"all"}, mode : {"default", "agent", "custom"}]

NoWish == [field |-> "all", mode |-> "custom"]

Step == {"idle", "begin", "clear_recs", "put_recs", "propose", "value", "load", "read", "clear",
         "put", "audit", "over"}

Ended == {"completed", "failed", "lost"}

TypeOK ==
  /\ cast \in Cast
  /\ Mapping(recommendations, Key, Proposal)
  /\ Mapping(overrides, Slot, Entry)
  /\ proposed \subseteq Key \X Value
  /\ audited \subseteq Session
  /\ waiting \in Seq(Session)
  /\ status \in [Session -> {"none", "queued", "running"} \cup Ended]
  /\ wish \in [Session -> Wish]
  /\ step \in [Session -> Step]
  /\ \A s \in Session : Holding(held[s])
  /\ edits \in 0..MaxEdits
  /\ pointed \subseteq Key /\ taken \subseteq Key
  /\ shown \subseteq Key \X Value

\* A full run has left its recommendations; nothing is decided.
Init ==
  /\ cast \in Cast
  /\ recommendations \in { [k \in Key |-> [value |-> v, status |-> "pending"]] : v \in Value }
  /\ overrides = Empty
  /\ proposed = {}
  /\ audited = {}
  /\ waiting = <<>>
  /\ status = [s \in Session |-> "none"]
  /\ wish = [s \in Session |-> NoWish]
  /\ step = [s \in Session |-> IF cast[s] \in PoolKind THEN "idle" ELSE "begin"]
  /\ held = [s \in Session |-> Nothing]
  /\ edits = 0
  /\ pointed = {}
  /\ taken = {}
  /\ shown = {}

-----------------------------------------------------------------------------
(* Background runs: api/run_tracker.py and the endpoints of api/main.py. *)

At(s, where) == step[s] = where

Goes(s, where) == step' = [step EXCEPT ![s] = where]

\* A session is over; the record of a run says how.
Ends(s, outcome) ==
  /\ Goes(s, "over")
  /\ status' = IF IsRun(s) THEN [status EXCEPT ![s] = outcome] ELSE status
  /\ held' = [held EXCEPT ![s] = Nothing]

\* The keys of recs about field f, or all of them.
About(recs, f) == { k \in DOMAIN recs : f \in {"all", FieldOf[k]} }

\* Where several agents propose a number for one field, the last one counts.
LastOf(keys) == CHOOSE k \in keys : \A l \in keys : l <= k

\* The PM has what recs says of these keys before him.
Shows(recs, keys) == shown' = shown \cup { <<k, recs[k].value>> : k \in keys }

\* ... and approves them.
Points(recs, keys) ==
  /\ pointed' = pointed \cup keys
  /\ Shows(recs, keys)
  /\ UNCHANGED taken

\* What the PM may ask a run of this kind for.
Wishes(kind) ==
  CASE kind = "workbench" -> { w \in Wish : w.field # "all" }
    [] kind = "recommend" -> { [field |-> f, mode |-> "agent"] : f \in Field \cup {"all"} }
    [] OTHER -> {NoWish}

\* initialize_run and submit_background_run.  A run that names no field asks for what is
\* approved already.  One that names a field names no agent: the PM sees what is proposed
\* for the field now, and the run takes what it finds when it begins.
Submit(s) ==
  /\ IsRun(s) /\ At(s, "idle")
  /\ \E w \in Wishes(cast[s]) :
       /\ wish' = [wish EXCEPT ![s] = w]
       /\ IF w.mode = "agent" /\ w.field # "all"
          THEN Shows(recommendations, About(recommendations, w.field))
          ELSE UNCHANGED shown
  /\ UNCHANGED <<pointed, taken>>
  /\ status' = [status EXCEPT ![s] = "queued"]
  /\ waiting' = Append(waiting, s)
  /\ Goes(s, "begin")
  /\ UNCHANGED <<cast, fileVars, proposed, audited, held, edits>>

Busy == { s \in Session : status[s] = "running" }

\* A free thread takes the next run.
StartRun ==
  /\ waiting # <<>>
  /\ Cardinality(Busy) < Workers
  /\ status' = [status EXCEPT ![Head(waiting)] = "running"]
  /\ waiting' = Tail(waiting)
  /\ UNCHANGED <<cast, fileVars, proposed, audited, wish, step, held, edits, historyVars>>

Runs(s, where) == At(s, where) /\ (IsRun(s) => status[s] = "running")

\* Mutant: an operation that raises leaves its record as it is.
RecordUntouched(s) == status[s]

FailureRecord(s) == "failed"

\* A run's operation raises: the valuation cannot be built, a selection is not valid, a
\* file cannot be read or written, nor the audit table.  Only proposing swallows its errors.
\* What the run wrote so far stays.
RunFails(s) ==
  /\ IsRun(s)
  /\ \E where \in {"begin", "clear_recs", "put_recs", "read", "clear", "put", "audit"} : Runs(s, where)
  /\ Ends(s, FailureRecord(s))
  /\ UNCHANGED <<cast, fileVars, proposed, audited, waiting, wish, edits, historyVars>>

-----------------------------------------------------------------------------
(* The recommendations file: full runs, approvals, previews. *)

\* Mutant: the decision is kept for the field, whichever agent it was about.
StatusOfField(k) ==
  LET decided == { l \in About(recommendations, FieldOf[k]) : recommendations[l].status # "pending" }
  IN IF decided = {} THEN "pending" ELSE recommendations[LastOf(decided)].status

\* Mutant: a key that is new has no status.
StatusOrNone(k) == IF k \in DOMAIN recommendations THEN recommendations[k].status ELSE "none"

StatusKept(k) == IF k \in DOMAIN recommendations THEN recommendations[k].status ELSE "pending"

\* extract_recommendations: the agents propose anew, or no longer; the PM's
\* decision on a key stays with it.
Extract(s) ==
  /\ cast[s] = "rerun" /\ Runs(s, "begin")
  /\ \E values \in UNION { [keys -> Value] : keys \in SUBSET Key } :
       held' = [held EXCEPT ![s].recs =
         [k \in DOMAIN values |-> [value |-> values[k], status |-> StatusKept(k)]]]
  /\ Goes(s, "clear_recs")
  /\ UNCHANGED <<cast, fileVars, proposed, audited, runVars, edits, historyVars>>

Approved(recs, keys) ==
  [k \in DOMAIN recs |-> IF k \in keys THEN [recs[k] EXCEPT !.status = "approved"] ELSE recs[k]]

PendingIn(recs) == { k \in DOMAIN recs : recs[k].status = "pending" }

\* --approve: pending proposals are listed and the PM names some, or none that is
\* listed; with nothing pending, or a blank answer, that is all.
Review(s) ==
  /\ cast[s] = "approve" /\ Runs(s, "begin")
  /\ \/ \E keys \in SUBSET PendingIn(recommendations) :
          /\ PendingIn(recommendations) # {}
          /\ held' = [held EXCEPT ![s].recs = Approved(recommendations, keys)]
          /\ Points(recommendations, keys)
          /\ Goes(s, "clear_recs")
          /\ UNCHANGED status
     \/ Ends(s, "completed") /\ UNCHANGED historyVars
  /\ UNCHANGED <<cast, fileVars, proposed, audited, waiting, wish, edits>>

\* The dashboard's preview writes the selected fields as approved, values the
\* ticker, and writes back what was there.
Open(s) ==
  /\ cast[s] = "preview" /\ Runs(s, "begin")
  /\ \E k \in PendingIn(recommendations) :
       LET keys == About(recommendations, FieldOf[k])
       IN /\ held' = [held EXCEPT ![s].recs = Approved(recommendations, keys),
                                  ![s].back = recommendations]
          /\ pointed' = pointed \cup keys
  /\ Goes(s, "clear_recs")
  /\ UNCHANGED <<cast, fileVars, proposed, audited, runVars, edits, taken, shown>>

\* write_text opens the file, which empties it, and then fills it.
ClearRecs(s) ==
  /\ Runs(s, "clear_recs")
  /\ recommendations' = Empty
  /\ Goes(s, "put_recs")
  /\ UNCHANGED <<cast, overrides, proposed, audited, runVars, held, edits, historyVars>>

PutRecs(s) ==
  /\ Runs(s, "put_recs")
  /\ recommendations' = held[s].recs
  /\ Goes(s, "propose")
  /\ UNCHANGED <<cast, overrides, proposed, audited, runVars, held, edits, historyVars>>

\* What follows write_recommendations.
AfterWriting(s) ==
  CASE cast[s] = "recommend" -> "read"
    [] cast[s] = "approve" -> "load"
    [] cast[s] = "preview" /\ held[s].back # Empty -> "value"
    [] OTHER -> "over"

\* write_pending_changes_from_recommendations: a row for every proposal that has
\* none, in their order, up to an error, which is swallowed.
Propose(s) ==
  /\ Runs(s, "propose")
  /\ \E last \in {0} \cup DOMAIN held[s].recs :
       proposed' = proposed \cup { <<k, held[s].recs[k].value>> : k \in { l \in DOMAIN held[s].recs : l <= last } }
  /\ IF AfterWriting(s) = "over"
     THEN Ends(s, "completed")
     ELSE /\ Goes(s, AfterWriting(s))
          /\ held' = [held EXCEPT ![s].recs = Empty]
          /\ UNCHANGED status
  /\ UNCHANGED <<cast, fileVars, audited, waiting, wish, edits, historyVars>>

\* preview_with_approvals returns, and the file is put back; or the preview is not
\* available, or raises, and it is not.
ValuePreview(s) ==
  /\ Runs(s, "value")
  /\ \/ /\ held' = [held EXCEPT ![s].recs = held[s].back, ![s].back = Empty]
        /\ Goes(s, "clear_recs")
        /\ UNCHANGED status
     \/ Ends(s, "completed")
  /\ UNCHANGED <<cast, fileVars, proposed, audited, waiting, wish, edits, historyVars>>

\* "Edit config/agent_recommendations_... set status: approved".
EditByHand ==
  /\ edits < MaxEdits
  /\ \E k \in DOMAIN recommendations, decision \in {"approved", "rejected"} :
       /\ recommendations' = [recommendations EXCEPT ![k].status = decision]
       /\ IF decision = "approved" THEN Points(recommendations, {k}) ELSE UNCHANGED historyVars
  /\ edits' = edits + 1
  /\ UNCHANGED <<cast, overrides, proposed, audited, runVars, step, held>>

-----------------------------------------------------------------------------
(* The overrides file. *)

\* For every field the numbers of these keys, the last one of a field winning.
PlanOf(recs, keys) ==
  [f \in { FieldOf[k] : k \in keys } |->
     LET k == LastOf({ l \in keys : FieldOf[l] = f }) IN {[from |-> {k}, value |-> recs[k].value]}]

ApprovedIn(recs, f) == { k \in About(recs, f) : recs[k].status = "approved" }

\* apply_approved_to_overrides without fields: whatever the file says is approved.
\* The pending changes it then hands to apply_pending_assumption_stack are not
\* approved there, so the register does not change.
Load(s) ==
  /\ \/ Runs(s, "load")
     \/ cast[s] = "apply" /\ Runs(s, "begin")
     \/ cast[s] = "recommend" /\ wish[s].field = "all" /\ Runs(s, "begin")
  /\ LET keys == ApprovedIn(recommendations, "all")
     IN IF keys = {}
        THEN Ends(s, "completed")
        ELSE /\ held' = [held EXCEPT ![s].plan = PlanOf(recommendations, keys)]
             /\ Goes(s, "read")
             /\ UNCHANGED status
  /\ UNCHANGED <<cast, fileVars, proposed, audited, waiting, wish, edits, historyVars>>

\* What a run finds under the field it was asked for.
Takes(s) ==
  taken' = IF wish[s].mode = "agent" /\ wish[s].field # "all"
           THEN taken \cup About(recommendations, wish[s].field)
           ELSE taken

\* ... with a field: its recommendations become approved, in the file too if they
\* were not.
Mark(s) ==
  /\ cast[s] = "recommend" /\ wish[s].field # "all" /\ Runs(s, "begin")
  /\ LET keys == About(recommendations, wish[s].field)
         recs == Approved(recommendations, keys)
     IN IF keys = {}
        THEN Ends(s, "completed")
        ELSE /\ held' = [held EXCEPT ![s].plan = PlanOf(recs, keys),
                                     ![s].recs = IF recs = recommendations THEN Empty ELSE recs]
             /\ Goes(s, IF recs = recommendations THEN "read" ELSE "clear_recs")
             /\ UNCHANGED status
  /\ Takes(s)
  /\ UNCHANGED <<cast, fileVars, proposed, audited, waiting, wish, edits, pointed, shown>>

\* A plan for one slot.
Only(x, entries) == [slot \in {x} |-> entries]

\* The workbench resolves a selection.  Whether "default" removes the override or
\* sets it to the baseline depends on a valuation, which reads the overrides
\* through a cache of the process: both are possible.
Resolutions(w) ==
  LET keys == About(recommendations, w.field)
  IN CASE w.mode = "default" -> { Only(w.field, {}), Only(w.field, {Baseline}) }
       [] w.mode = "custom" -> { Only(w.field, {[from |-> {}, value |-> v]}) : v \in Value }
       [] w.mode = "agent" -> { IF keys = {} THEN Empty
                                ELSE Only(w.field, PlanOf(recommendations, keys)[w.field]) }

Select(s) ==
  /\ cast[s] \in {"workbench", "wacc"} /\ Runs(s, "begin")
  /\ \E p \in IF cast[s] = "workbench"
              THEN Resolutions(wish[s])
              ELSE { Only("wacc_methodology", {[from |-> {}, value |-> v]}) : v \in Value } :
       held' = [held EXCEPT ![s].plan = p]
  /\ Takes(s)
  /\ Goes(s, "read")
  /\ UNCHANGED <<cast, fileVars, proposed, audited, runVars, edits, pointed, shown>>

\* Without valuation inputs the workbench applies nothing, and the run completes.
NoInputs(s) ==
  /\ cast[s] = "workbench" /\ Runs(s, "begin")
  /\ Ends(s, "completed")
  /\ UNCHANGED <<cast, fileVars, proposed, audited, waiting, wish, edits, historyVars>>

\* The block after the planned changes.
Merged(block, plan) ==
  LET kept == DOMAIN block \ DOMAIN plan
      set  == { x \in DOMAIN plan : plan[x] # {} }
  IN [x \in kept \cup set |-> IF x \in kept THEN block[x] ELSE CHOOSE e \in plan[x] : TRUE]

\* The file is read, and changed in memory.
ReadOverrides(s) ==
  /\ Runs(s, "read")
  /\ held' = [held EXCEPT ![s].copy = Merged(overrides, held[s].plan), ![s].plan = Empty]
  /\ Goes(s, "clear")
  /\ UNCHANGED <<cast, fileVars, proposed, audited, runVars, edits, historyVars>>

ClearOverrides(s) ==
  /\ Runs(s, "clear")
  /\ overrides' = Empty
  /\ Goes(s, "put")
  /\ UNCHANGED <<cast, recommendations, proposed, audited, runVars, held, edits, historyVars>>

\* The two workbenches go on to clear their process's cache and to audit.
PutOverrides(s) ==
  /\ Runs(s, "put")
  /\ overrides' = held[s].copy
  /\ IF cast[s] \in {"workbench", "wacc"}
     THEN /\ Goes(s, "audit")
          /\ held' = [held EXCEPT ![s] = Nothing]
          /\ UNCHANGED status
     ELSE Ends(s, "completed")
  /\ UNCHANGED <<cast, recommendations, proposed, audited, waiting, wish, edits, historyVars>>

Audit(s) ==
  /\ Runs(s, "audit")
  /\ audited' = audited \cup {s}
  /\ Ends(s, "completed")
  /\ UNCHANGED <<cast, fileVars, proposed, waiting, wish, edits, historyVars>>

-----------------------------------------------------------------------------

SessionStep(s) ==
  \/ Extract(s) \/ Review(s) \/ Open(s) \/ ClearRecs(s) \/ PutRecs(s) \/ Propose(s)
  \/ ValuePreview(s) \/ Load(s) \/ Mark(s) \/ Select(s) \/ NoInputs(s) \/ ReadOverrides(s)
  \/ ClearOverrides(s) \/ PutOverrides(s) \/ Audit(s) \/ RunFails(s)

\* An interactive session is closed half-way.
Close(s) ==
  /\ ~IsRun(s) /\ ~At(s, "over")
  /\ Ends(s, "lost")
  /\ UNCHANGED <<cast, fileVars, proposed, audited, waiting, wish, edits, historyVars>>

Unfinished == { s \in Session : status[s] \in {"queued", "running"} }

\* The API's process ends: run records, queue and threads go with it.
RestartServer ==
  /\ Unfinished # {}
  /\ status' = [s \in Session |-> IF s \in Unfinished THEN "lost" ELSE status[s]]
  /\ step' = [s \in Session |-> IF s \in Unfinished THEN "over" ELSE step[s]]
  /\ held' = [s \in Session |-> IF s \in Unfinished THEN Nothing ELSE held[s]]
  /\ waiting' = <<>>
  /\ UNCHANGED <<cast, fileVars, proposed, audited, wish, edits, historyVars>>

Quiet == (\A s \in Session : At(s, "over")) /\ UNCHANGED vars

Next ==
  \/ StartRun
  \/ RestartServer
  \/ EditByHand
  \/ \E s \in Session : Submit(s) \/ SessionStep(s) \/ Close(s)
  \/ Quiet

(***************************************************************************)
(* Fairness: the executor's threads take runs and go on with them.         *)
(* Nothing is assumed of the PM, of interactive sessions or of full runs.  *)
(***************************************************************************)
Spec ==
  /\ Init
  /\ [][Next]_vars
  /\ WF_vars(StartRun)
  /\ \A s \in Session : WF_vars(IsRun(s) /\ SessionStep(s))

-----------------------------------------------------------------------------

(***************************************************************************)
(* Every background run that is accepted ends and says how, however many   *)
(* are submitted at once and whatever their operations raise, unless the   *)
(* server goes down (api/run_tracker.py 50-62).                            *)
(***************************************************************************)
SubmittedRunsEnd == \A s \in Session : status[s] = "queued" ~> status[s] \in Ended

(***************************************************************************)
(* No decision passes to another agent's proposal for the same field: an   *)
(* agent's proposal is marked as approved, or its number is in the         *)
(* overrides, only if the PM has approved or previewed this agent's        *)
(* proposal, or a run he asked for by the field's name found it when it    *)
(* began - although every full run rewrites the file and any writer may    *)
(* undo another's (recommendations.py 151-175, 382-490).                   *)
(*                                                                         *)
(* A request by the field's name names no agent.  Its run reads the file   *)
(* again and takes whichever agents are there then, one the PM has not     *)
(* seen or has rejected included, if a full run ended in between           *)
(* (recommendations.py 397-412; override_workbench.py 82-90, 292).         *)
(***************************************************************************)
DecisionsStayWithTheirAgent ==
  /\ \A k \in DOMAIN recommendations : recommendations[k].status = "approved" => k \in pointed \cup taken
  /\ \A x \in DOMAIN overrides : overrides[x].from \subseteq pointed \cup taken

-----------------------------------------------------------------------------
(* What the repository says and the code does not do. *)

(***************************************************************************)
(* "the PM must explicitly review and approve the adjusted EBIT ... This   *)
(* prevents automated LLM output from silently changing valuation inputs"  *)
(* (docs/handbook/qoe-agent.md 167): a number an agent proposed is in the  *)
(* overrides only if the PM had that number before him when he approved.   *)
(***************************************************************************)
AppliedNumbersWereApproved ==
  \A x \in DOMAIN overrides :
    \A k \in overrides[x].from : <<k, overrides[x].value>> \in shown
=============================================================================
