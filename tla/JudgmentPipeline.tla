-------------------------- MODULE JudgmentPipeline --------------------------
(***************************************************************************)
(* run_valuation_judgment_pipeline over one frozen snapshot, several times *)
(* at once: a retried or abandoned ticker worker, another batch, another   *)
(* process.  Each run drives its families in threads of their own through  *)
(* JudgmentGateway.execute_structured; a database-backed lease is to keep  *)
(* two runs from asking a provider the same thing at the same time, and    *)
(* answers are cached by invocation.  SQLite callbacks of the threads are  *)
(* executed by the run's own thread (_SqliteCallbackDispatcher), one       *)
(* transaction each; here each is one step.                                *)
(***************************************************************************)
EXTENDS Naturals, Sequences, DriverFamilyWorkflow

CONSTANTS
  Run,            \* calls of run_valuation_judgment_pipeline
  Family,         \* DriverFamily, numbered in enum order
  Fresh,          \* the values of force_refresh the callers use
  LeaseMayLapse,  \* whether a provider call may outlive its 900-second lease
  StorageMayFail  \* whether SQLite may raise on its own account

ASSUME FamilyAssumption == Family \subseteq Nat
ASSUME FlagAssumption ==
  /\ Fresh \subseteq BOOLEAN
  /\ LeaseMayLapse \in BOOLEAN
  /\ StorageMayFail \in BOOLEAN

VARIABLES
  leases,     \* judgment_invocation_reservations
  lapsed,     \* history: threads whose lease expired while the provider worked
  envelopes,  \* judgment_run_envelopes
  queue,      \* driver family packs in pm_decision_queue_items
  requests,   \* families with a row in valuation_model_change_requests
  phase,      \* where a run is
  fresh,      \* its force_refresh
  seenPacks,  \* existing_ids: the packs it found queued when it started
  step,       \* where a family's current call of execute_structured is
  work,       \* what the family's workflow holds
  used,       \* the envelopes its proposal and its critique came from
  answer,     \* what the call returns once its lease is released
  got,        \* envelopes the collector holds for the family
  saved,      \* how many of them are persisted
  status      \* the family's result

databaseVars == <<leases, lapsed, envelopes, queue, requests>>
runVars == <<phase, fresh, seenPacks>>
callVars == <<step, work, used, answer, got, status>>
vars == <<databaseVars, runVars, callVars, saved>>

-----------------------------------------------------------------------------

\* A thread: one family of one run.
Thread == Run \X Family

Call == [family : Family, stage : Stage, proposal : Proposal \cup {"none"},
         critique : Critique \cup {"none"}]

\* run_id is a fresh uuid; a run asks for one call at most once.
EnvelopeId == [by : Run, call : Call]

Envelope ==
  { e \in [id : EnvelopeId, status : {"succeeded", "failed"},
           payload : Proposal \cup {"unusable", "none"} \cup Critique] :
      e.payload \in IF e.status = "succeeded" THEN Payload(e.id.call.stage) ELSE {"none"} }

NoAnswer == [status |-> "none"]

\* transport errors are raised again after the failed envelope was emitted.
Answer == [envelope : Envelope, raises : BOOLEAN]

Pack == [family : Family, proposal : Proposal, critique : Critique]

ActivePhase == {"families", "persisting", "queueing"}

Phase == {"idle", "returned", "raised", "broken", "killed"} \cup ActivePhase

Step == {"lookup", "reserve", "second", "ask", "repair", "release", "over",
         "challenged", "handled"}

AtProvider == {"ask", "repair"}

CallOf(c) == Invocation(c[2], work[c])

TypeOK ==
  /\ leases \subseteq [call : Call, run : Run, expired : BOOLEAN]
  /\ lapsed \subseteq Thread
  /\ envelopes \subseteq Envelope
  /\ queue \subseteq [pack : Pack, by : Run, primary : EnvelopeId, critic : EnvelopeId]
  /\ requests \subseteq Family
  /\ phase \in [Run -> Phase]
  /\ fresh \in [Run -> Fresh]
  /\ seenPacks \in [Run -> SUBSET Pack]
  /\ step \in [Thread -> Step]
  /\ \A c \in Thread :
       /\ CallOf(c) \in Call
       /\ used[c] \in [primary : SUBSET EnvelopeId, critic : SUBSET EnvelopeId]
       /\ answer[c] \in Answer \cup {NoAnswer}
       /\ got[c] \in Seq(Envelope)
       /\ saved[c] \in 0..Len(got[c])
  /\ status \in [Thread -> {"open", "queued", "blocked", "error"}]

Init ==
  /\ leases = {}
  /\ lapsed = {}
  /\ envelopes = {}
  /\ queue = {}
  /\ requests = {}
  /\ phase = [r \in Run |-> "idle"]
  /\ fresh \in [Run -> Fresh]
  /\ seenPacks = [r \in Run |-> {}]
  /\ step = [c \in Thread |-> "lookup"]
  /\ work = [c \in Thread |-> StartWork]
  /\ used = [c \in Thread |-> [primary |-> {}, critic |-> {}]]
  /\ answer = [c \in Thread |-> NoAnswer]
  /\ got = [c \in Thread |-> <<>>]
  /\ saved = [c \in Thread |-> 0]
  /\ status = [c \in Thread |-> "open"]

\* The snapshot is persisted and passes its own checks; the queue is read once.
Start(r) ==
  /\ phase[r] = "idle"
  /\ phase' = [phase EXCEPT ![r] = "families"]
  /\ seenPacks' = [seenPacks EXCEPT ![r] = { item.pack : item \in queue }]
  /\ UNCHANGED <<databaseVars, fresh, callVars, saved>>

-----------------------------------------------------------------------------
(* One call of execute_structured, and what the workflow makes of it. *)

Runs(c, s) == phase[c[1]] = "families" /\ step[c] = s

GoesTo(c, s) == step' = [step EXCEPT ![c] = s]

SourceOf(c, e) ==
  IF work[c].stage \in CriticStage
  THEN [used[c] EXCEPT !.critic = {e.id}]
  ELSE [used[c] EXCEPT !.primary = {e.id}]

\* execute_structured returns e to the workflow.
Return(c, e) ==
  LET stage == work[c].stage
      next  == NextStage(stage, e.payload)
  IN  /\ answer' = [answer EXCEPT ![c] = NoAnswer]
      /\ IF e.status = "failed"
         THEN /\ status' = [status EXCEPT ![c] = "blocked"]
              /\ GoesTo(c, "over")
              /\ UNCHANGED <<work, used>>
         ELSE /\ used' = [used EXCEPT ![c] = SourceOf(c, e)]
              /\ IF Usable(stage, e.payload) /\ next # {}
                 THEN /\ \E s \in next :
                           work' = [work EXCEPT ![c] = [Keep(@, e.payload) EXCEPT !.stage = s]]
                      /\ GoesTo(c, "lookup")
                      /\ UNCHANGED status
                 ELSE /\ work' = [work EXCEPT ![c] = Keep(@, e.payload)]
                      /\ status' = [status EXCEPT ![c] =
                           IF Usable(stage, e.payload) /\ Accepted(stage, e.payload)
                           THEN "queued" ELSE "blocked"]
                      /\ GoesTo(c, "over")

\* ... or raises, and the family's thread ends with an exception.
Raise(c) ==
  /\ status' = [status EXCEPT ![c] = "error"]
  /\ answer' = [answer EXCEPT ![c] = NoAnswer]
  /\ GoesTo(c, "over")
  /\ UNCHANGED <<work, used>>

Emit(c, e) == got' = [got EXCEPT ![c] = Append(@, e)]

\* load_cached_successful_envelope; which of several is newest is left open.
Cached(c) ==
  { e \in envelopes : ~fresh[c[1]] /\ e.id.call = CallOf(c) /\ e.status = "succeeded" }

LookUp(c) ==
  /\ Runs(c, "lookup")
  /\ \/ \E e \in Cached(c) : Emit(c, e) /\ Return(c, e)
     \/ /\ Cached(c) = {}
        /\ GoesTo(c, "reserve")
        /\ UNCHANGED <<work, used, answer, got, status>>
  /\ UNCHANGED <<databaseVars, runVars, saved>>

LeasesOn(call) == { l \in leases : l.call = call }

Lease(c) == [call |-> CallOf(c), run |-> c[1], expired |-> FALSE]

\* Mutant: the upsert has no WHERE on the stored lease.
TakesAnyLease(c) == TRUE

LeaseIsFree(c) == \A l \in LeasesOn(CallOf(c)) : l.expired

\* reserve_judgment_invocation: take a lease that is free or has expired.
Reserve(c) ==
  /\ Runs(c, "reserve")
  /\ IF LeaseIsFree(c)
     THEN /\ leases' = (leases \ LeasesOn(CallOf(c))) \cup {Lease(c)}
          /\ GoesTo(c, "ask")
     ELSE GoesTo(c, "second") /\ UNCHANGED leases
  /\ UNCHANGED <<lapsed, envelopes, queue, requests, runVars, work, used, answer, got, status, saved>>

\* Mutant: wait for the other run instead of failing fast.
WaitsForOther(c) == FALSE

FailsFast(c) == Cached(c) = {}

\* Somebody else holds the lease: a second lookup, then
\* JudgmentInvocationInProgressError.
SecondLookUp(c) ==
  /\ Runs(c, "second")
  /\ \/ \E e \in Cached(c) : Emit(c, e) /\ Return(c, e)
     \/ FailsFast(c) /\ Raise(c) /\ UNCHANGED got
  /\ UNCHANGED <<databaseVars, runVars, saved>>

Made(c, s, payload) ==
  [id |-> [by |-> c[1], call |-> CallOf(c)], status |-> s, payload |-> payload]

\* Mutant: a failed envelope keeps the answer that was refused.
KeepsRefused(c) == Made(c, "failed", "unusable")

Failed(c) == Made(c, "failed", "none")

Answers(c, e, raises) ==
  /\ Emit(c, e)
  /\ answer' = [answer EXCEPT ![c] = [envelope |-> e, raises |-> raises]]
  /\ GoesTo(c, "release")
  /\ UNCHANGED <<databaseVars, runVars, work, used, status, saved>>

\* The provider answers with a valid payload.
ProviderSucceeds(c) ==
  /\ \E s \in AtProvider : Runs(c, s)
  /\ \E payload \in Payload(work[c].stage) : Answers(c, Made(c, "succeeded", payload), FALSE)

\* The answer does not fit the schema: one repair attempt is made.
FirstAnswerInvalid(c) ==
  /\ Runs(c, "ask")
  /\ GoesTo(c, "repair")
  /\ UNCHANGED <<databaseVars, runVars, work, used, answer, got, status, saved>>

SecondAnswerInvalid(c) == Runs(c, "repair") /\ Answers(c, Failed(c), FALSE)

\* The provider raises; only a connection error or a timeout reaches the workflow.
ProviderRaises(c) ==
  /\ \E s \in AtProvider : Runs(c, s)
  /\ \E transport \in BOOLEAN : Answers(c, Failed(c), transport)

\* Mutant: the lease on the call is deleted, whoever owns it.
ReleasesAny(c) == LeasesOn(CallOf(c))

Releases(c) == { l \in LeasesOn(CallOf(c)) : l.run = c[1] }

Release(c) ==
  /\ Runs(c, "release")
  /\ leases' = leases \ Releases(c)
  /\ lapsed' = lapsed \ {c}
  /\ IF answer[c].raises THEN Raise(c) ELSE Return(c, answer[c].envelope)
  /\ UNCHANGED <<envelopes, queue, requests, runVars, got, saved>>

\* A callback raises in the run's own thread and the family's thread with it.
CallbackFails(c) ==
  /\ StorageMayFail
  /\ \E s \in {"lookup", "reserve", "second", "release"} : Runs(c, s)
  /\ Raise(c)
  /\ UNCHANGED <<databaseVars, runVars, got, saved>>

-----------------------------------------------------------------------------
(* The run's own thread, once every family has ended. *)

Threads(r) == { c \in Thread : c[1] = r }

Earlier(c) == { d \in Threads(c[1]) : d[2] < c[2] }

AllFamiliesEnd(r) ==
  /\ phase[r] = "families"
  /\ \A c \in Threads(r) : status[c] # "open"
  /\ phase' = [phase EXCEPT ![r] = "persisting"]
  /\ UNCHANGED <<databaseVars, fresh, seenPacks, callVars, saved>>

Unsaved(c) == saved[c] < Len(got[c])

\* persist_agent_run_envelope, family by family; a cached one is already there.
PersistEnvelope(c) ==
  /\ phase[c[1]] = "persisting"
  /\ Unsaved(c)
  /\ \A d \in Earlier(c) : ~Unsaved(d)
  /\ envelopes' = envelopes \cup {got[c][saved[c] + 1]}
  /\ saved' = [saved EXCEPT ![c] = @ + 1]
  /\ UNCHANGED <<leases, lapsed, queue, requests, runVars, callVars>>

\* Mutant: the queue is written without waiting for the envelopes.
NothingToWaitFor(r) == TRUE

EnvelopesPersisted(r) == \A c \in Threads(r) : ~Unsaved(c)

StartQueueing(r) ==
  /\ phase[r] = "persisting"
  /\ EnvelopesPersisted(r)
  /\ phase' = [phase EXCEPT ![r] = "queueing"]
  /\ UNCHANGED <<databaseVars, fresh, seenPacks, callVars, saved>>

MyTurn(c, s) ==
  /\ phase[c[1]] = "queueing"
  /\ step[c] = s
  /\ \A d \in Earlier(c) : step[d] = "handled"

\* The critique of the family's result challenges the methodology.
Challenges(c, kind) ==
  /\ status[c] # "error"
  /\ work[c].critique # "none"
  /\ ChallengeOf[work[c].critique] = kind

\* Building a request looks every cited anchor up in snapshot.evidence: an
\* unfounded challenge is a KeyError, and the run ends there.
RegisterChallenge(c) ==
  /\ MyTurn(c, "over")
  /\ IF Challenges(c, "unfounded")
     THEN phase' = [phase EXCEPT ![c[1]] = "broken"] /\ UNCHANGED <<requests, step>>
     ELSE /\ requests' = IF Challenges(c, "founded") THEN requests \cup {c[2]} ELSE requests
          /\ GoesTo(c, "challenged")
          /\ UNCHANGED phase
  /\ UNCHANGED <<leases, lapsed, envelopes, queue, fresh, seenPacks, work, used, answer, got, status,
                 saved>>

PackOf(c) == [family |-> c[2], proposal |-> work[c].proposal, critique |-> work[c].critique]

Items(c) ==
  { [pack |-> PackOf(c), by |-> c[1], primary |-> p, critic |-> q] :
      p \in used[c].primary, q \in used[c].critic }

\* _persist_queue_item skips a pack that was queued when the run started; the
\* insert itself finds no duplicate, these items have no dedupe_key.
QueueFamily(c) ==
  /\ MyTurn(c, "challenged")
  /\ queue' = IF status[c] = "queued" /\ PackOf(c) \notin seenPacks[c[1]]
              THEN queue \cup Items(c)
              ELSE queue
  /\ GoesTo(c, "handled")
  /\ UNCHANGED <<leases, lapsed, envelopes, requests, runVars, work, used, answer, got, status, saved>>

\* Mutant: the run stops at the first family error it comes across.
HandledUntilError(r) ==
  \/ \A c \in Threads(r) : step[c] = "handled"
  \/ \E c \in Threads(r) : step[c] = "handled" /\ status[c] = "error"

FamiliesHandled(r) == \A c \in Threads(r) : step[c] = "handled"

\* The first family error is raised only now.
Finish(r) ==
  /\ phase[r] = "queueing"
  /\ FamiliesHandled(r)
  /\ phase' = [phase EXCEPT ![r] =
       IF \E c \in Threads(r) : status[c] = "error" THEN "raised" ELSE "returned"]
  /\ UNCHANGED <<databaseVars, fresh, seenPacks, callVars, saved>>

\* A write of the run's own thread fails: nothing of it is kept, the run ends.
StorageFails(r) ==
  /\ StorageMayFail
  /\ phase[r] \in {"persisting", "queueing"}
  /\ phase' = [phase EXCEPT ![r] = "broken"]
  /\ UNCHANGED <<databaseVars, fresh, seenPacks, callVars, saved>>

Kill(r) ==
  /\ phase[r] \in ActivePhase
  /\ phase' = [phase EXCEPT ![r] = "killed"]
  /\ UNCHANGED <<databaseVars, fresh, seenPacks, callVars, saved>>

\* The holder is still inside the try block its lease was taken for.
Holders(l) ==
  { c \in Threads(l.run) :
      CallOf(c) = l.call /\ \E s \in AtProvider \cup {"release"} : Runs(c, s) }

LeaseExpires(l) ==
  /\ ~l.expired
  /\ Holders(l) # {} => LeaseMayLapse
  /\ lapsed' = lapsed \cup Holders(l)
  /\ leases' = (leases \ {l}) \cup {[l EXCEPT !.expired = TRUE]}
  /\ UNCHANGED <<envelopes, queue, requests, runVars, callVars, saved>>

-----------------------------------------------------------------------------

FamilyStep(c) ==
  \/ LookUp(c)
  \/ Reserve(c)
  \/ SecondLookUp(c)
  \/ ProviderSucceeds(c)
  \/ FirstAnswerInvalid(c)
  \/ SecondAnswerInvalid(c)
  \/ ProviderRaises(c)
  \/ Release(c)

OwnerStep(r) ==
  \/ AllFamiliesEnd(r)
  \/ StartQueueing(r)
  \/ Finish(r)
  \/ \E c \in Threads(r) : PersistEnvelope(c) \/ RegisterChallenge(c) \/ QueueFamily(c)

\* Every run has been called and has ended.
Quiet == (\A r \in Run : phase[r] \notin ActivePhase \cup {"idle"}) /\ UNCHANGED vars

Next ==
  \/ \E r \in Run : Start(r) \/ OwnerStep(r) \/ StorageFails(r) \/ Kill(r)
  \/ \E c \in Thread : FamilyStep(c) \/ CallbackFails(c)
  \/ \E l \in leases : LeaseExpires(l)
  \/ Quiet

(***************************************************************************)
(* Fairness: the threads of a run take their steps, and a provider answers *)
(* in the end, with something: transport_timeout_seconds bounds every      *)
(* call.  Runs need not be called, leases need not expire, and no fairness *)
(* asks storage to fail.                                                   *)
(***************************************************************************)
Spec ==
  /\ Init
  /\ [][Next]_vars
  /\ \A c \in Thread : WF_vars(FamilyStep(c))
  /\ \A r \in Run : WF_vars(OwnerStep(r))

-----------------------------------------------------------------------------

(***************************************************************************)
(* Two runs are never inside a provider call for the same invocation at    *)
(* the same time, unless the call of one of them has outlived its lease:   *)
(* the lease, not the cache, keeps them apart (judgment_gateway.py         *)
(* 227-281, valuation_run_store.py 141-195).                               *)
(***************************************************************************)
Asking(c) == \E s \in AtProvider : Runs(c, s)

CallsAreExclusive ==
  \A c, d \in Thread :
    Asking(c) /\ Asking(d) /\ CallOf(c) = CallOf(d) /\ c # d
      => c \in lapsed \/ d \in lapsed

(***************************************************************************)
(* "a stale owner cannot release a successor" (valuation_run_store.py      *)
(* 183): a lease that has not expired goes only when its own run is done   *)
(* with the call.                                                          *)
(***************************************************************************)
SuccessorKeepsLease ==
  [][\A l \in leases :
       ~l.expired /\ LeasesOn(l.call)' = {}
         => \E c \in Threads(l.run) : CallOf(c) = l.call /\ Runs(c, "release")]_vars

(***************************************************************************)
(* A pack the PM is asked to decide can be traced: the runs it names as    *)
(* its primary and its critic are stored, succeeded, and hold exactly the  *)
(* proposal and the critique shown, and the model-change request a         *)
(* founded challenge of the critic asks for is stored too, whatever run    *)
(* died or failed half-way (valuation_judgment_pipeline.py 341-399).       *)
(***************************************************************************)
Holds(id, payload) ==
  \E e \in envelopes : e.id = id /\ e.status = "succeeded" /\ e.payload = payload

QueuedPacksAreTraceable ==
  \A item \in queue :
    /\ Holds(item.primary, item.pack.proposal)
    /\ Holds(item.critic, item.pack.critique)
    /\ ChallengeOf[item.pack.critique] = "founded" => item.pack.family \in requests

(***************************************************************************)
(* A family that failed hides nothing of the others: when a run returns,   *)
(* or raises the error of a family, every answer it was given is stored    *)
(* and every pack it accepted is queued                                    *)
(* (valuation_judgment_pipeline.py 334-402).                               *)
(***************************************************************************)
Queued(c) == PackOf(c) \in { item.pack : item \in queue }

FailuresStayIsolated ==
  \A c \in Thread :
    phase[c[1]] \in {"returned", "raised"} =>
      /\ \A i \in 1..Len(got[c]) : got[c][i] \in envelopes
      /\ status[c] = "queued" => Queued(c)

(***************************************************************************)
(* A run that was started ends: its families never wait for each other or  *)
(* for the lease of another run, not even one that was killed              *)
(* (judgment_gateway.py 234-263, valuation_judgment_pipeline.py 321-339).  *)
(***************************************************************************)
StartedRunsEnd == \A r \in Run : phase[r] = "families" ~> phase[r] \notin ActivePhase

-----------------------------------------------------------------------------
(* What the repository says and the code does not do. *)

(***************************************************************************)
(* "successful families stop at the PM decision queue"                     *)
(* (valuation_judgment_pipeline.py 239-240), also when another family's    *)
(* critic cites evidence that does not exist.                              *)
(***************************************************************************)
SuccessfulFamiliesReachTheQueue ==
  \A c \in Thread :
    phase[c[1]] \notin ActivePhase \cup {"killed"} /\ status[c] = "queued" => Queued(c)
=============================================================================
