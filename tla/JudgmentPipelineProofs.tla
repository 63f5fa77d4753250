------------------------ MODULE JudgmentPipelineProofs ------------------------
(***************************************************************************)
(* Proofs about JudgmentPipeline for any number of runs and families, any  *)
(* proposals and critiques, leases that lapse and storage that fails.      *)
(***************************************************************************)
EXTENDS JudgmentPipeline, TLAPS

Work ==
  [stage : Stage, proposal : Proposal \cup {"none"}, critique : Critique \cup {"none"}]

Sources == [primary : SUBSET EnvelopeId, critic : SUBSET EnvelopeId]

\* The types TypeOK gives, and the shapes of the functions it leaves open.
TypeInv ==
  /\ leases \subseteq [call : Call, run : Run, expired : BOOLEAN]
  /\ lapsed \subseteq Thread
  /\ envelopes \subseteq Envelope
  /\ queue \subseteq [pack : Pack, by : Run, primary : EnvelopeId, critic : EnvelopeId]
  /\ requests \subseteq Family
  /\ phase \in [Run -> Phase]
  /\ fresh \in [Run -> Fresh]
  /\ seenPacks \in [Run -> SUBSET Pack]
  /\ step \in [Thread -> Step]
  /\ work \in [Thread -> Work]
  /\ used \in [Thread -> Sources]
  /\ answer \in [Thread -> Answer \cup {NoAnswer}]
  /\ got \in [Thread -> Seq(Envelope)]
  /\ saved \in [Thread -> Nat]
  /\ status \in [Thread -> {"open", "queued", "blocked", "error"}]

Emitted(c, e) == \E i \in 1..Len(got[c]) : got[c][i] = e

\* ids, if any, name answers the family was given that hold payload.
Backed(c, ids, payload) ==
  /\ payload # "none" => ids # {}
  /\ \A id \in ids : \E e \in Envelope :
       Emitted(c, e) /\ e.id = id /\ e.status = "succeeded" /\ e.payload = payload

CallHasEnded == {"over", "challenged", "handled"}

\* A family between two calls or in one: what it holds comes from answers it was given.
FamilyInv(c) ==
  /\ step[c] = "release" =>
       /\ answer[c] \in Answer
       /\ answer[c].envelope.id.call = CallOf(c)
       /\ Emitted(c, answer[c].envelope)
  /\ status[c] = "open" <=> step[c] \notin CallHasEnded
  /\ work[c].stage # "primary" => work[c].proposal # "none"
  /\ status[c] = "queued" => work[c].proposal # "none" /\ work[c].critique # "none"
  /\ status[c] \in {"open", "queued"} =>
       /\ Backed(c, used[c].primary, work[c].proposal)
       /\ Backed(c, used[c].critic, work[c].critique)

FamiliesInv == \A c \in Thread : FamilyInv(c)

Holding(c) == \E s \in AtProvider \cup {"release"} : Runs(c, s)

\* A call has one lease; a family in its provider call holds it, unless it lapsed.
LeaseInv ==
  /\ \A l, m \in leases : l.call = m.call => l = m
  /\ \A c \in Thread : phase[c[1]] = "idle" => step[c] = "lookup"
  /\ \A c \in Thread : Holding(c) => c \in lapsed \/ Lease(c) \in leases

\* What is saved is stored; a run that queues has saved everything.
StoreInv ==
  \A c \in Thread :
    /\ saved[c] <= Len(got[c])
    /\ \A i \in 1..saved[c] : got[c][i] \in envelopes
    /\ phase[c[1]] \in {"queueing", "returned", "raised"} => saved[c] = Len(got[c])

\* A family whose challenge was looked at has its request, one that is handled its pack.
QueueInv ==
  /\ \A r \in Run : seenPacks[r] \subseteq { item.pack : item \in queue }
  /\ \A c \in Thread :
       /\ step[c] \in {"challenged", "handled"} /\ Challenges(c, "founded") => c[2] \in requests
       /\ step[c] = "handled" /\ status[c] = "queued" => Queued(c)
       /\ phase[c[1]] \in {"returned", "raised"} => step[c] = "handled"

IInv ==
  /\ TypeInv
  /\ FamiliesInv
  /\ LeaseInv
  /\ StoreInv
  /\ QueueInv
  /\ QueuedPacksAreTraceable

-----------------------------------------------------------------------------
(* Lemmas. *)

LEMMA ThreadPairs ==
  /\ \A c \in Thread : c[1] \in Run /\ c[2] \in Family
  /\ \A c, d \in Thread : c[1] = d[1] /\ c[2] = d[2] => c = d
BY DEF Thread

LEMMA CallTypes ==
  ASSUME TypeInv, NEW c \in Thread
  PROVE  /\ CallOf(c) \in Call
         /\ CallOf(c).family = c[2] /\ CallOf(c).stage = work[c].stage
         /\ Lease(c) \in [call : Call, run : Run, expired : BOOLEAN]
<1>1. work[c] \in Work
  BY DEF TypeInv
<1>2. QED
  BY <1>1, ThreadPairs DEF CallOf, Invocation, Call, Work, Lease

LEMMA TypeInvGivesTypeOK == TypeInv /\ StoreInv => TypeOK
<1> SUFFICES ASSUME TypeInv, StoreInv PROVE TypeOK
  OBVIOUS
<1>1. \A c \in Thread : CallOf(c) \in Call
  BY CallTypes
<1>2. \A c \in Thread : got[c] \in Seq(Envelope) /\ Len(got[c]) \in Nat /\ saved[c] \in 0..Len(got[c])
  BY DEF TypeInv, StoreInv
<1>3. QED
  BY <1>1, <1>2 DEF TypeInv, TypeOK, Sources

\* What an answer that fits its stage may hold.
LEMMA PayloadTypes ==
  ASSUME TypeInv, NEW c \in Thread, NEW e \in Envelope, e.id.call = CallOf(c),
         e.status = "succeeded"
  PROVE  /\ e.id \in EnvelopeId
         /\ work[c].stage \in CriticStage => e.payload \in Critique
         /\ work[c].stage \notin CriticStage => e.payload \in Proposal \cup {"unusable"}
BY CallTypes DEF Envelope, Payload

LEMMA EmitTypes ==
  ASSUME TypeInv, NEW c \in Thread, NEW e \in Envelope, Emit(c, e)
  PROVE  /\ got' \in [Thread -> Seq(Envelope)]
         /\ Emitted(c, e)'
         /\ \A d \in Thread : /\ Len(got[d]) <= Len(got'[d])
                              /\ \A i \in 1..Len(got[d]) : got'[d][i] = got[d][i]
                              /\ d # c => got'[d] = got[d]
<1>1. got[c] \in Seq(Envelope) /\ got' = [got EXCEPT ![c] = Append(got[c], e)]
  BY DEF TypeInv, Emit
<1>2. /\ Append(got[c], e) \in Seq(Envelope)
      /\ Len(Append(got[c], e)) = Len(got[c]) + 1
      /\ Append(got[c], e)[Len(got[c]) + 1] = e
      /\ \A i \in 1..Len(got[c]) : Append(got[c], e)[i] = got[c][i]
      /\ Len(got[c]) \in Nat
  BY <1>1
<1>3. got' \in [Thread -> Seq(Envelope)] /\ got'[c] = Append(got[c], e)
      /\ \A d \in Thread : d # c => got'[d] = got[d]
  BY <1>1, <1>2 DEF TypeInv
<1>4. Emitted(c, e)'
  BY <1>2, <1>3 DEF Emitted
<1>5. \A d \in Thread : Len(got[d]) \in Nat
  BY DEF TypeInv
<1>6. QED
  BY <1>2, <1>3, <1>4, <1>5

\* A family that no step touches stays as it is.
LEMMA FamilyFrame ==
  ASSUME NEW c \in Thread, FamilyInv(c), step'[c] = step[c], work'[c] = work[c],
         used'[c] = used[c], answer'[c] = answer[c], got'[c] = got[c], status'[c] = status[c]
  PROVE  FamilyInv(c)'
BY DEF FamilyInv, Emitted, Backed, CallOf, CallHasEnded

\* An answer a family was given stays among those it was given.
LEMMA EmittedStays ==
  ASSUME NEW c \in Thread,
         Len(got[c]) \in Nat, Len(got'[c]) \in Nat, Len(got[c]) <= Len(got'[c]),
         \A i \in 1..Len(got[c]) : got'[c][i] = got[c][i]
  PROVE  \A x : Emitted(c, x) => Emitted(c, x)'
<1> SUFFICES ASSUME NEW x, NEW i \in 1..Len(got[c]), got[c][i] = x
             PROVE  \E j \in 1..Len(got'[c]) : got'[c][j] = x
  BY DEF Emitted
<1>1. i \in 1..Len(got'[c]) /\ got'[c][i] = x
  OBVIOUS
<1>2. QED
  BY <1>1

LEMMA NextQuestion ==
  ASSUME NEW w \in Work, NEW s \in Stage
  PROVE  /\ [w EXCEPT !.stage = s] \in Work
         /\ [w EXCEPT !.stage = s].stage = s
         /\ [w EXCEPT !.stage = s].proposal = w.proposal
         /\ [w EXCEPT !.stage = s].critique = w.critique
BY DEF Work

\* execute_structured returns an answer the family was just given.
LEMMA ReturnKeeps ==
  ASSUME TypeInv, NEW c \in Thread, FamilyInv(c), NEW e \in Envelope,
         e.id.call = CallOf(c), Emitted(c, e)', status[c] = "open", Return(c, e),
         got' \in [Thread -> Seq(Envelope)], Len(got[c]) <= Len(got'[c]),
         \A i \in 1..Len(got[c]) : got'[c][i] = got[c][i]
  PROVE  /\ FamilyInv(c)'
         /\ step' \in [Thread -> Step] /\ work' \in [Thread -> Work]
         /\ used' \in [Thread -> Sources] /\ answer' \in [Thread -> Answer \cup {NoAnswer}]
         /\ status' \in [Thread -> {"open", "queued", "blocked", "error"}]
         /\ \E s \in {"lookup", "over"} : step' = [step EXCEPT ![c] = s]
         /\ \A d \in Thread \ {c} :
              /\ step'[d] = step[d] /\ work'[d] = work[d] /\ used'[d] = used[d]
              /\ answer'[d] = answer[d] /\ status'[d] = status[d]
<1> DEFINE stage == work[c].stage
           kept  == Keep(work[c], e.payload)
<1>1. /\ answer' = [answer EXCEPT ![c] = NoAnswer] /\ answer'[c] = NoAnswer
      /\ answer' \in [Thread -> Answer \cup {NoAnswer}]
      /\ \A d \in Thread \ {c} : answer'[d] = answer[d]
  BY DEF Return, TypeInv
<1>2. /\ Backed(c, used[c].primary, work[c].proposal) /\ Backed(c, used[c].critic, work[c].critique)
      /\ stage # "primary" => work[c].proposal # "none"
      /\ work[c] \in Work /\ used[c] \in Sources
  BY DEF FamilyInv, TypeInv
<1>3. CASE e.status = "failed"
  <2>1. /\ status' = [status EXCEPT ![c] = "blocked"] /\ step' = [step EXCEPT ![c] = "over"]
        /\ work' = work /\ used' = used
    BY <1>3 DEF Return, GoesTo
  <2>2. step'[c] = "over" /\ status'[c] = "blocked" /\ work'[c] = work[c]
    BY <2>1 DEF TypeInv
  <2>3. FamilyInv(c)'
    BY <1>2, <2>2 DEF FamilyInv, CallHasEnded
  <2>4. QED
    BY <1>1, <2>1, <2>3 DEF TypeInv, Step
<1>4. CASE e.status = "succeeded"
  <2>1. /\ e.id \in EnvelopeId
        /\ stage \in CriticStage => e.payload \in Critique
        /\ stage \notin CriticStage => e.payload \in Proposal \cup {"unusable"}
    BY <1>4, PayloadTypes
  <2>2. /\ Len(got[c]) \in Nat /\ Len(got'[c]) \in Nat
    BY DEF TypeInv
  <2> DEFINE Holds2(ids, payload) ==
               /\ payload # "none" => ids # {}
               /\ \A id \in ids : \E x \in Envelope :
                    Emitted(c, x)' /\ x.id = id /\ x.status = "succeeded" /\ x.payload = payload
  <2>3. Holds2(used[c].primary, work[c].proposal) /\ Holds2(used[c].critic, work[c].critique)
    <3>1. \A x : Emitted(c, x) => Emitted(c, x)'
      BY <2>2, EmittedStays
    <3>2. Holds2(used[c].primary, work[c].proposal)
      BY <1>2, <3>1 DEF Backed
    <3>3. Holds2(used[c].critic, work[c].critique)
      BY <1>2, <3>1 DEF Backed
    <3>4. QED
      BY <3>2, <3>3
  <2>4. Holds2({e.id}, e.payload)
    BY <1>4
  <2>5. /\ used' = [used EXCEPT ![c] = SourceOf(c, e)]
        /\ SourceOf(c, e) \in Sources
        /\ stage \in CriticStage => SourceOf(c, e).primary = used[c].primary /\ SourceOf(c, e).critic = {e.id}
        /\ stage \notin CriticStage => SourceOf(c, e).critic = used[c].critic /\ SourceOf(c, e).primary = {e.id}
    BY <1>2, <1>4, <2>1 DEF Return, SourceOf, Sources
  <2>6. /\ used' \in [Thread -> Sources] /\ used'[c] = SourceOf(c, e)
        /\ \A d \in Thread \ {c} : used'[d] = used[d]
    BY <2>5 DEF TypeInv
  <2>7. /\ kept \in Work /\ kept.stage = stage
        /\ stage \in CriticStage => kept.critique = e.payload /\ kept.proposal = work[c].proposal
        /\ stage \notin CriticStage /\ Usable(stage, e.payload) =>
             kept.proposal = e.payload /\ kept.critique = work[c].critique /\ e.payload # "none"
        /\ stage \in CriticStage => e.payload # "none"
    BY <1>2, <2>1, PayloadAssumption DEF Keep, Usable, Work
  <2>8. Usable(stage, e.payload) =>
          /\ Holds2(SourceOf(c, e).primary, kept.proposal)
          /\ Holds2(SourceOf(c, e).critic, kept.critique)
    <3> HIDE DEF kept, Holds2
    <3>1. CASE stage \in CriticStage
      BY <2>3, <2>4, <2>5, <2>7, <3>1
    <3>2. CASE stage \notin CriticStage
      BY <2>3, <2>4, <2>5, <2>7, <3>2
    <3>3. QED
      BY <3>1, <3>2
  <2> HIDE DEF kept, Holds2
  <2>9. CASE Usable(stage, e.payload) /\ NextStage(stage, e.payload) # {}
    <3>1. PICK s \in NextStage(stage, e.payload) : work' = [work EXCEPT ![c] = [kept EXCEPT !.stage = s]]
      BY <1>4, <2>9 DEF Return, kept
    <3>2. step' = [step EXCEPT ![c] = "lookup"] /\ status' = status
      BY <1>4, <2>9 DEF Return, GoesTo
    <3>3. /\ s \in {"critic", "revision", "recritic"} /\ s \in Stage
          /\ stage \in Stage
          /\ stage \notin CriticStage => s \in {"critic", "recritic"}
          /\ stage \in CriticStage => stage = "critic"
      BY <1>2 DEF NextStage, Work, Stage, CriticStage
    <3>4. [kept EXCEPT !.stage = s] \in Work
      <4>1. kept \in Work /\ s \in Stage
        BY <2>7, <3>3
      <4>2. QED
        BY <4>1, NextQuestion, Zenon
    <3>5. /\ work' \in [Thread -> Work] /\ work'[c] = [kept EXCEPT !.stage = s]
          /\ \A d \in Thread \ {c} : work'[d] = work[d]
      BY <3>1, <3>4 DEF TypeInv
    <3>6. /\ work'[c].proposal = kept.proposal /\ work'[c].critique = kept.critique /\ work'[c].stage = s
      BY <2>7, <3>3, <3>5, NextQuestion
    <3>7. kept.proposal # "none"
      BY <1>2, <2>7, <2>9, <3>3 DEF Stage, CriticStage
    <3>8. step'[c] = "lookup" /\ status'[c] = "open"
      BY <3>2 DEF TypeInv
    <3>9. FamilyInv(c)'
      BY <2>6, <2>8, <2>9, <3>6, <3>7, <3>8 DEF FamilyInv, Backed, CallHasEnded, Holds2
    <3>10. QED
      BY <1>1, <2>6, <3>2, <3>5, <3>9 DEF TypeInv, Step
  <2>10. CASE ~(Usable(stage, e.payload) /\ NextStage(stage, e.payload) # {})
    <3> DEFINE z == IF Usable(stage, e.payload) /\ Accepted(stage, e.payload) THEN "queued" ELSE "blocked"
    <3>1. /\ work' = [work EXCEPT ![c] = kept]
          /\ status' = [status EXCEPT ![c] = z]
          /\ step' = [step EXCEPT ![c] = "over"]
      BY <1>4, <2>10 DEF Return, GoesTo, kept
    <3>2. /\ work' \in [Thread -> Work] /\ work'[c] = kept
          /\ status' \in [Thread -> {"open", "queued", "blocked", "error"}] /\ status'[c] = z
          /\ step' \in [Thread -> Step] /\ step'[c] = "over"
          /\ \A d \in Thread \ {c} : work'[d] = work[d] /\ status'[d] = status[d] /\ step'[d] = step[d]
      BY <2>7, <3>1 DEF TypeInv, Step
    <3>3. z = "queued" => /\ stage \in CriticStage /\ Usable(stage, e.payload)
                          /\ kept.proposal # "none" /\ kept.critique # "none"
      BY <1>2, <2>7 DEF Accepted, CriticStage
    <3>4. FamilyInv(c)'
      <4>1. work'[c].stage # "primary" => work'[c].proposal # "none"
        BY <1>2, <2>7, <2>10, <3>2 DEF Keep, kept, CriticStage
      <4>2. QED
        BY <2>6, <2>8, <3>2, <3>3, <4>1 DEF FamilyInv, Backed, CallHasEnded, Holds2
    <3>5. QED
      BY <1>1, <2>6, <3>1, <3>2, <3>4
  <2>11. QED
    BY <2>9, <2>10
<1>5. QED
  BY <1>3, <1>4 DEF Envelope

-----------------------------------------------------------------------------
(* Types, and what a family holds: one step per action. *)

\* A step of one family between two answers.
LEMMA FamilyMoves ==
  ASSUME TypeInv, FamiliesInv, NEW c \in Thread, step[c] \notin CallHasEnded,
         NEW s \in Step \ (CallHasEnded \cup {"release"}), GoesTo(c, s),
         UNCHANGED <<work, used, answer, got, status>>
  PROVE  step' \in [Thread -> Step] /\ FamiliesInv'
<1>1. step' = [step EXCEPT ![c] = s] /\ step' \in [Thread -> Step] /\ step'[c] = s
      /\ \A d \in Thread \ {c} : step'[d] = step[d]
  BY DEF GoesTo, TypeInv
<1>2. FamilyInv(c) /\ status[c] = "open"
  BY DEF FamiliesInv, FamilyInv
<1>3. FamilyInv(c)'
  BY <1>1, <1>2 DEF FamilyInv, Emitted, Backed, CallOf, CallHasEnded
<1>4. \A d \in Thread \ {c} : FamilyInv(d)'
  BY <1>1, FamilyFrame DEF FamiliesInv
<1>5. QED
  BY <1>1, <1>3, <1>4 DEF FamiliesInv

LEMMA CachedReturns ==
  ASSUME TypeInv, FamiliesInv, NEW c \in Thread, step[c] \in {"lookup", "second"},
         NEW e \in Cached(c), Emit(c, e), Return(c, e)
  PROVE  /\ FamiliesInv'
         /\ step' \in [Thread -> Step] /\ work' \in [Thread -> Work]
         /\ used' \in [Thread -> Sources] /\ answer' \in [Thread -> Answer \cup {NoAnswer}]
         /\ got' \in [Thread -> Seq(Envelope)]
         /\ status' \in [Thread -> {"open", "queued", "blocked", "error"}]
<1>1. e \in Envelope /\ e.id.call = CallOf(c)
  BY DEF Cached, TypeInv
<1>2. FamilyInv(c) /\ status[c] = "open"
  BY DEF FamiliesInv, FamilyInv, CallHasEnded
<1>3. /\ got' \in [Thread -> Seq(Envelope)] /\ Emitted(c, e)'
      /\ Len(got[c]) <= Len(got'[c]) /\ \A i \in 1..Len(got[c]) : got'[c][i] = got[c][i]
      /\ \A d \in Thread \ {c} : got'[d] = got[d]
  BY <1>1, EmitTypes
<1>4. /\ FamilyInv(c)'
      /\ step' \in [Thread -> Step] /\ work' \in [Thread -> Work]
      /\ used' \in [Thread -> Sources] /\ answer' \in [Thread -> Answer \cup {NoAnswer}]
      /\ status' \in [Thread -> {"open", "queued", "blocked", "error"}]
      /\ \A d \in Thread \ {c} :
           /\ step'[d] = step[d] /\ work'[d] = work[d] /\ used'[d] = used[d]
           /\ answer'[d] = answer[d] /\ status'[d] = status[d]
  BY <1>1, <1>2, <1>3, ReturnKeeps
<1>5. \A d \in Thread \ {c} : FamilyInv(d)'
  BY <1>3, <1>4, FamilyFrame DEF FamiliesInv
<1>6. QED
  BY <1>3, <1>4, <1>5 DEF FamiliesInv

LEMMA ExceptionEnds ==
  ASSUME TypeInv, FamiliesInv, NEW c \in Thread, Raise(c), UNCHANGED got
  PROVE  /\ FamiliesInv'
         /\ step' \in [Thread -> Step] /\ work' \in [Thread -> Work]
         /\ used' \in [Thread -> Sources] /\ answer' \in [Thread -> Answer \cup {NoAnswer}]
         /\ status' \in [Thread -> {"open", "queued", "blocked", "error"}]
<1>1. /\ status' = [status EXCEPT ![c] = "error"] /\ answer' = [answer EXCEPT ![c] = NoAnswer]
      /\ step' = [step EXCEPT ![c] = "over"] /\ UNCHANGED <<work, used, got>>
  BY DEF Raise, GoesTo
<1>2. /\ step' \in [Thread -> Step] /\ work' \in [Thread -> Work]
      /\ used' \in [Thread -> Sources] /\ answer' \in [Thread -> Answer \cup {NoAnswer}]
      /\ status' \in [Thread -> {"open", "queued", "blocked", "error"}]
      /\ step'[c] = "over" /\ status'[c] = "error"
      /\ \A d \in Thread \ {c} : step'[d] = step[d] /\ answer'[d] = answer[d] /\ status'[d] = status[d]
  BY <1>1 DEF TypeInv, Step
<1>3. FamilyInv(c)'
  BY <1>1, <1>2 DEF FamiliesInv, FamilyInv, CallHasEnded
<1>4. \A d \in Thread \ {c} : FamilyInv(d)'
  BY <1>1, <1>2, FamilyFrame DEF FamiliesInv
<1>5. QED
  BY <1>2, <1>3, <1>4 DEF FamiliesInv

\* The provider is done with a call: its answer waits for the lease to be released.
LEMMA AnswerArrives ==
  ASSUME TypeInv, FamiliesInv, NEW c \in Thread, step[c] \in AtProvider, NEW e \in Envelope,
         e.id.call = CallOf(c), NEW raises \in BOOLEAN, Answers(c, e, raises)
  PROVE  /\ FamiliesInv'
         /\ step' \in [Thread -> Step] /\ answer' \in [Thread -> Answer \cup {NoAnswer}]
         /\ got' \in [Thread -> Seq(Envelope)]
<1> DEFINE a == [envelope |-> e, raises |-> raises]
<1>1. /\ Emit(c, e) /\ answer' = [answer EXCEPT ![c] = a]
      /\ step' = [step EXCEPT ![c] = "release"] /\ UNCHANGED <<work, used, status>>
  BY DEF Answers, GoesTo
<1>2. a \in Answer /\ a.envelope = e
  BY DEF Answer
<1>3. /\ step' \in [Thread -> Step] /\ answer' \in [Thread -> Answer \cup {NoAnswer}]
      /\ step'[c] = "release" /\ answer'[c] = a
      /\ \A d \in Thread \ {c} : step'[d] = step[d] /\ answer'[d] = answer[d]
  BY <1>1, <1>2 DEF TypeInv, Step
<1>4. /\ got' \in [Thread -> Seq(Envelope)] /\ Emitted(c, e)'
      /\ Len(got[c]) <= Len(got'[c]) /\ \A i \in 1..Len(got[c]) : got'[c][i] = got[c][i]
      /\ \A d \in Thread \ {c} : got'[d] = got[d]
  BY <1>1, EmitTypes
<1>5. Len(got[c]) \in Nat /\ Len(got'[c]) \in Nat
  BY <1>4 DEF TypeInv
<1>6. /\ FamilyInv(c) /\ status[c] = "open"
      /\ Backed(c, used[c].primary, work[c].proposal) /\ Backed(c, used[c].critic, work[c].critique)
  BY DEF FamiliesInv, FamilyInv, CallHasEnded, AtProvider
<1> \A x : Emitted(c, x) => Emitted(c, x)'
  BY <1>4, <1>5, EmittedStays
<1>7. Backed(c, used[c].primary, work[c].proposal)'
  <2>1. /\ work[c].proposal # "none" => used[c].primary # {}
        /\ \A id \in used[c].primary : \E x \in Envelope :
             /\ Emitted(c, x)' /\ x.id = id /\ x.status = "succeeded"
             /\ x.payload = work[c].proposal
    BY <1>6 DEF Backed
  <2>2. QED
    BY <1>1, <2>1 DEF Backed
<1>8. Backed(c, used[c].critic, work[c].critique)'
  <2>1. /\ work[c].critique # "none" => used[c].critic # {}
        /\ \A id \in used[c].critic : \E x \in Envelope :
             /\ Emitted(c, x)' /\ x.id = id /\ x.status = "succeeded"
             /\ x.payload = work[c].critique
    BY <1>6 DEF Backed
  <2>2. QED
    BY <1>1, <2>1 DEF Backed
<1>9. FamilyInv(c)'
  BY <1>1, <1>2, <1>3, <1>4, <1>6, <1>7, <1>8 DEF FamilyInv, CallOf, CallHasEnded
<1>10. \A d \in Thread \ {c} : FamilyInv(d)'
  BY <1>1, <1>3, <1>4, FamilyFrame DEF FamiliesInv
<1>11. QED
  BY <1>3, <1>4, <1>9, <1>10 DEF FamiliesInv

LEMMA FamilyStepKeeps ==
  ASSUME TypeInv, FamiliesInv, NEW c \in Thread, FamilyStep(c) \/ CallbackFails(c)
  PROVE  TypeInv' /\ FamiliesInv'
<1> USE DEF databaseVars, runVars, Runs
<1>1. CASE LookUp(c)
  <2>1. step[c] = "lookup" /\ UNCHANGED <<databaseVars, runVars, saved>>
    BY <1>1 DEF LookUp
  <2>2. CASE \E e \in Cached(c) : Emit(c, e) /\ Return(c, e)
    BY <2>1, <2>2, CachedReturns DEF TypeInv
  <2>3. CASE GoesTo(c, "reserve") /\ UNCHANGED <<work, used, answer, got, status>>
    BY <2>1, <2>3, FamilyMoves DEF TypeInv, Step, CallHasEnded
  <2>4. QED
    BY <1>1, <2>2, <2>3 DEF LookUp
<1>2. CASE Reserve(c)
  <2>1. /\ step[c] = "reserve"
        /\ UNCHANGED <<lapsed, envelopes, queue, requests, runVars, work, used, answer, got, status, saved>>
    BY <1>2 DEF Reserve
  <2>2. \E s \in {"ask", "second"} : GoesTo(c, s)
    BY <1>2 DEF Reserve
  <2>3. step' \in [Thread -> Step] /\ FamiliesInv'
    BY <2>1, <2>2, FamilyMoves DEF Step, CallHasEnded
  <2>4. leases' \subseteq [call : Call, run : Run, expired : BOOLEAN]
    BY <1>2, CallTypes DEF Reserve, TypeInv
  <2>5. QED
    BY <2>1, <2>3, <2>4 DEF TypeInv
<1>3. CASE SecondLookUp(c)
  <2>1. step[c] = "second" /\ UNCHANGED <<databaseVars, runVars, saved>>
    BY <1>3 DEF SecondLookUp
  <2>2. CASE \E e \in Cached(c) : Emit(c, e) /\ Return(c, e)
    BY <2>1, <2>2, CachedReturns DEF TypeInv
  <2>3. CASE Raise(c) /\ UNCHANGED got
    BY <2>1, <2>3, ExceptionEnds DEF TypeInv
  <2>4. QED
    BY <1>3, <2>2, <2>3 DEF SecondLookUp
<1>4. CASE ProviderSucceeds(c) \/ SecondAnswerInvalid(c) \/ ProviderRaises(c)
  <2>1. Failed(c) \in Envelope /\ Failed(c).id.call = CallOf(c)
    BY CallTypes, ThreadPairs DEF Failed, Made, Envelope, EnvelopeId, Payload
  <2>2. \A payload \in Payload(work[c].stage) :
          /\ Made(c, "succeeded", payload) \in Envelope
          /\ Made(c, "succeeded", payload).id.call = CallOf(c)
    BY CallTypes, ThreadPairs DEF Made, Envelope, EnvelopeId, Payload
  <2>3. step[c] \in AtProvider
    BY <1>4 DEF ProviderSucceeds, SecondAnswerInvalid, ProviderRaises, AtProvider
  <2>4. PICK e \in Envelope, raises \in BOOLEAN : e.id.call = CallOf(c) /\ Answers(c, e, raises)
    BY <1>4, <2>1, <2>2 DEF ProviderSucceeds, SecondAnswerInvalid, ProviderRaises
  <2>5. /\ FamiliesInv'
        /\ step' \in [Thread -> Step] /\ answer' \in [Thread -> Answer \cup {NoAnswer}]
        /\ got' \in [Thread -> Seq(Envelope)]
    BY <2>3, <2>4, AnswerArrives
  <2>6. QED
    BY <2>4, <2>5 DEF Answers, TypeInv
<1>5. CASE FirstAnswerInvalid(c)
  <2>1. /\ step[c] = "ask" /\ GoesTo(c, "repair")
        /\ UNCHANGED <<databaseVars, runVars, work, used, answer, got, status, saved>>
    BY <1>5 DEF FirstAnswerInvalid
  <2>2. QED
    BY <2>1, FamilyMoves DEF TypeInv, Step, CallHasEnded
<1>6. CASE Release(c)
  <2>1. /\ step[c] = "release" /\ leases' \subseteq leases /\ lapsed' \subseteq lapsed
        /\ UNCHANGED <<envelopes, queue, requests, runVars, got, saved>>
    BY <1>6 DEF Release
  <2>2. CASE Raise(c)
    BY <2>1, <2>2, ExceptionEnds DEF TypeInv
  <2>3. CASE Return(c, answer[c].envelope)
    <3>1. /\ FamilyInv(c) /\ status[c] = "open" /\ answer[c].envelope \in Envelope
          /\ answer[c].envelope.id.call = CallOf(c) /\ Emitted(c, answer[c].envelope)
      BY <2>1 DEF FamiliesInv, FamilyInv, CallHasEnded, Answer
    <3>2. got' \in [Thread -> Seq(Envelope)] /\ Len(got[c]) <= Len(got'[c])
      BY <2>1 DEF TypeInv
    <3>3. PICK e \in Envelope : e = answer[c].envelope
      BY <3>1
    <3>4. e.id.call = CallOf(c) /\ Return(c, e) /\ Emitted(c, e)'
      BY <2>1, <2>3, <3>1, <3>3 DEF Emitted
    <3>5. /\ FamilyInv(c)'
          /\ step' \in [Thread -> Step] /\ work' \in [Thread -> Work]
          /\ used' \in [Thread -> Sources] /\ answer' \in [Thread -> Answer \cup {NoAnswer}]
          /\ status' \in [Thread -> {"open", "queued", "blocked", "error"}]
          /\ \A d \in Thread \ {c} :
               /\ step'[d] = step[d] /\ work'[d] = work[d] /\ used'[d] = used[d]
               /\ answer'[d] = answer[d] /\ status'[d] = status[d]
      BY <2>1, <3>1, <3>2, <3>4, ReturnKeeps
    <3>6. \A d \in Thread \ {c} : FamilyInv(d)'
      BY <2>1, <3>5, FamilyFrame DEF FamiliesInv
    <3>7. QED
      BY <2>1, <3>2, <3>5, <3>6 DEF FamiliesInv, TypeInv
  <2>4. QED
    BY <1>6, <2>2, <2>3 DEF Release
<1>7. CASE CallbackFails(c)
  BY <1>7, ExceptionEnds DEF CallbackFails, TypeInv
<1>8. QED
  BY <1>1, <1>2, <1>3, <1>4, <1>5, <1>6, <1>7 DEF FamilyStep

\* The run's own thread moves on and touches no family.
LEMMA PhaseStepKeeps ==
  ASSUME TypeInv, FamiliesInv, UNCHANGED <<callVars, saved, databaseVars, fresh>>,
         phase' \in [Run -> Phase], seenPacks' \in [Run -> SUBSET Pack]
  PROVE  TypeInv' /\ FamiliesInv'
<1>1. \A c \in Thread : FamilyInv(c)'
  BY FamilyFrame DEF FamiliesInv, callVars
<1>2. QED
  BY <1>1 DEF FamiliesInv, TypeInv, callVars, databaseVars

\* The run's own thread handles a family: it moves on and keeps what it holds.
LEMMA HandledKeeps ==
  ASSUME TypeInv, FamiliesInv, NEW c \in Thread, step[c] \in CallHasEnded,
         NEW s \in CallHasEnded, GoesTo(c, s), UNCHANGED <<work, used, answer, got, status>>
  PROVE  step' \in [Thread -> Step] /\ FamiliesInv'
<1>1. step' = [step EXCEPT ![c] = s] /\ step' \in [Thread -> Step] /\ step'[c] = s
      /\ \A d \in Thread \ {c} : step'[d] = step[d]
  BY DEF GoesTo, TypeInv, CallHasEnded, Step
<1>2. FamilyInv(c)'
  BY <1>1 DEF FamiliesInv, FamilyInv, Emitted, Backed, CallOf, CallHasEnded
<1>3. \A d \in Thread \ {c} : FamilyInv(d)'
  BY <1>1, FamilyFrame DEF FamiliesInv
<1>4. QED
  BY <1>1, <1>2, <1>3 DEF FamiliesInv

LEMMA ItemTypes ==
  ASSUME TypeInv, FamiliesInv, NEW c \in Thread, status[c] = "queued"
  PROVE  Items(c) \subseteq [pack : Pack, by : Run, primary : EnvelopeId, critic : EnvelopeId]
<1>1. work[c] \in Work /\ used[c] \in Sources
  BY DEF TypeInv
<1>2. work[c].proposal \in Proposal /\ work[c].critique \in Critique
  BY <1>1 DEF FamiliesInv, FamilyInv, Work
<1>3. PackOf(c) \in Pack
  BY <1>2, ThreadPairs DEF PackOf, Pack
<1>4. QED
  BY <1>1, <1>3, ThreadPairs DEF Items, Sources

\* Every step keeps the types and what the families hold.
LEMMA StepKeepsFamilies ==
  ASSUME TypeInv, FamiliesInv, [Next]_vars
  PROVE  TypeInv' /\ FamiliesInv'
<1> USE DEF databaseVars, runVars, callVars
<1>1. ASSUME NEW r \in Run, Start(r)
      PROVE  TypeInv' /\ FamiliesInv'
  <2>1. { item.pack : item \in queue } \subseteq Pack
    BY DEF TypeInv
  <2>2. phase' \in [Run -> Phase] /\ seenPacks' \in [Run -> SUBSET Pack]
    BY <1>1, <2>1 DEF Start, TypeInv, Phase, ActivePhase
  <2>3. QED
    BY <1>1, <2>2, PhaseStepKeeps DEF Start
<1>2. ASSUME NEW r \in Run,
             AllFamiliesEnd(r) \/ StartQueueing(r) \/ Finish(r) \/ StorageFails(r) \/ Kill(r)
      PROVE  TypeInv' /\ FamiliesInv'
  <2>1. UNCHANGED <<databaseVars, fresh, seenPacks, callVars, saved>>
    BY <1>2 DEF AllFamiliesEnd, StartQueueing, Finish, StorageFails, Kill
  <2>2. \E p \in Phase : phase' = [phase EXCEPT ![r] = p]
    BY <1>2 DEF AllFamiliesEnd, StartQueueing, Finish, StorageFails, Kill, Phase, ActivePhase
  <2>3. phase' \in [Run -> Phase]
    BY <2>2 DEF TypeInv
  <2>4. QED
    BY <2>1, <2>3, PhaseStepKeeps DEF TypeInv
<1>3. ASSUME NEW c \in Thread, PersistEnvelope(c)
      PROVE  TypeInv' /\ FamiliesInv'
  <2>1. /\ saved[c] \in Nat /\ got[c] \in Seq(Envelope) /\ saved[c] < Len(got[c])
        /\ envelopes' = envelopes \cup {got[c][saved[c] + 1]}
        /\ saved' = [saved EXCEPT ![c] = saved[c] + 1]
        /\ UNCHANGED <<leases, lapsed, queue, requests, runVars, callVars>>
    BY <1>3 DEF PersistEnvelope, Unsaved, TypeInv
  <2>2. got[c][saved[c] + 1] \in Envelope /\ saved[c] + 1 \in Nat
    BY <2>1
  <2>3. TypeInv'
    BY <2>1, <2>2 DEF TypeInv
  <2>4. FamiliesInv'
    BY <2>1, FamilyFrame DEF FamiliesInv
  <2>5. QED
    BY <2>3, <2>4
<1>4. ASSUME NEW c \in Thread, RegisterChallenge(c)
      PROVE  TypeInv' /\ FamiliesInv'
  <2>1. /\ step[c] = "over"
        /\ UNCHANGED <<leases, lapsed, envelopes, queue, fresh, seenPacks, work, used, answer, got,
                       status, saved>>
    BY <1>4 DEF RegisterChallenge, MyTurn
  <2>2. CASE phase' = [phase EXCEPT ![c[1]] = "broken"] /\ UNCHANGED <<requests, step>>
    <3>1. phase' \in [Run -> Phase]
      BY <2>2 DEF TypeInv, Phase
    <3>2. QED
      BY <2>1, <2>2, <3>1, PhaseStepKeeps DEF TypeInv
  <2>3. CASE requests' \in {requests, requests \cup {c[2]}} /\ GoesTo(c, "challenged")
             /\ UNCHANGED phase
    <3>1. step' \in [Thread -> Step] /\ FamiliesInv'
      BY <2>1, <2>3, HandledKeeps DEF CallHasEnded
    <3>2. QED
      BY <2>1, <2>3, <3>1, ThreadPairs DEF TypeInv
  <2>4. QED
    BY <1>4, <2>2, <2>3 DEF RegisterChallenge
<1>5. ASSUME NEW c \in Thread, QueueFamily(c)
      PROVE  TypeInv' /\ FamiliesInv'
  <2>1. /\ step[c] = "challenged" /\ GoesTo(c, "handled")
        /\ UNCHANGED <<leases, lapsed, envelopes, requests, runVars, work, used, answer, got,
                       status, saved>>
    BY <1>5 DEF QueueFamily, MyTurn
  <2>2. step' \in [Thread -> Step] /\ FamiliesInv'
    BY <2>1, HandledKeeps DEF CallHasEnded
  <2>3. queue' \subseteq [pack : Pack, by : Run, primary : EnvelopeId, critic : EnvelopeId]
    BY <1>5, ItemTypes DEF QueueFamily, TypeInv
  <2>4. QED
    BY <2>1, <2>2, <2>3 DEF TypeInv
<1>6. ASSUME NEW l \in leases, LeaseExpires(l)
      PROVE  TypeInv' /\ FamiliesInv'
  <2>1. /\ leases' = (leases \ {l}) \cup {[l EXCEPT !.expired = TRUE]}
        /\ lapsed' = lapsed \cup Holders(l)
        /\ UNCHANGED <<envelopes, queue, requests, runVars, callVars, saved>>
    BY <1>6 DEF LeaseExpires
  <2>2. TypeInv'
    BY <2>1 DEF TypeInv, Holders, Threads
  <2>3. FamiliesInv'
    BY <2>1, FamilyFrame DEF FamiliesInv
  <2>4. QED
    BY <2>2, <2>3
<1>7. CASE UNCHANGED vars
  BY <1>7, FamilyFrame DEF FamiliesInv, TypeInv, vars
<1>8. QED
  BY <1>1, <1>2, <1>3, <1>4, <1>5, <1>6, <1>7, FamilyStepKeeps
     DEF Next, OwnerStep, Threads, Quiet

-----------------------------------------------------------------------------
(* The leases. *)

\* A step of one family leaves the others, and the runs, alone.
LEMMA FamilyStepFrame ==
  ASSUME TypeInv, NEW c \in Thread, FamilyStep(c) \/ CallbackFails(c)
  PROVE  /\ phase[c[1]] = "families" /\ step[c] \notin CallHasEnded
         /\ UNCHANGED <<envelopes, queue, requests, runVars, saved>>
         /\ \A d \in Thread \ {c} :
              /\ step'[d] = step[d] /\ work'[d] = work[d] /\ used'[d] = used[d]
              /\ answer'[d] = answer[d] /\ got'[d] = got[d] /\ status'[d] = status[d]
<1> USE DEF databaseVars, Runs
<1>1. \A s : GoesTo(c, s) => \A d \in Thread \ {c} : step'[d] = step[d]
  BY DEF GoesTo, TypeInv
<1>2. \A e : Return(c, e) \/ Raise(c) =>
        \A d \in Thread \ {c} : /\ step'[d] = step[d] /\ work'[d] = work[d] /\ used'[d] = used[d]
                                /\ answer'[d] = answer[d] /\ status'[d] = status[d]
  BY DEF Return, Raise, GoesTo, TypeInv
<1>3. \A e : Emit(c, e) => \A d \in Thread \ {c} : got'[d] = got[d]
  BY DEF Emit, TypeInv
<1>4. \A e, raises : Answers(c, e, raises) =>
        /\ UNCHANGED <<databaseVars, runVars, work, used, status, saved>>
        /\ \A d \in Thread \ {c} : answer'[d] = answer[d] /\ step'[d] = step[d] /\ got'[d] = got[d]
  BY <1>1, <1>3 DEF Answers, TypeInv
<1>5. CASE LookUp(c)
  BY <1>1, <1>2, <1>3, <1>5 DEF LookUp, CallHasEnded
<1>6. CASE Reserve(c)
  BY <1>1, <1>6 DEF Reserve, CallHasEnded
<1>7. CASE SecondLookUp(c)
  BY <1>2, <1>3, <1>7 DEF SecondLookUp, CallHasEnded
<1>8. CASE ProviderSucceeds(c) \/ SecondAnswerInvalid(c) \/ ProviderRaises(c)
  BY <1>4, <1>8 DEF ProviderSucceeds, SecondAnswerInvalid, ProviderRaises, AtProvider, CallHasEnded
<1>9. CASE FirstAnswerInvalid(c)
  BY <1>1, <1>9 DEF FirstAnswerInvalid, CallHasEnded
<1>10. CASE Release(c)
  BY <1>2, <1>10 DEF Release, CallHasEnded
<1>11. CASE CallbackFails(c)
  BY <1>2, <1>11 DEF CallbackFails, CallHasEnded
<1>12. QED
  BY <1>5, <1>6, <1>7, <1>8, <1>9, <1>10, <1>11 DEF FamilyStep

\* A family that a step leaves alone holds what it held, if its lease is still there.
LEMMA HoldingFrame ==
  ASSUME NEW d \in Thread, step'[d] = step[d], work'[d] = work[d], phase'[d[1]] = phase[d[1]]
  PROVE  /\ Holding(d)' <=> Holding(d)
         /\ CallOf(d)' = CallOf(d) /\ Lease(d)' = Lease(d)
BY DEF Holding, Runs, CallOf, Lease

LEMMA LeaseKeptByFamily ==
  ASSUME TypeInv, LeaseInv, NEW c \in Thread, FamilyStep(c) \/ CallbackFails(c)
  PROVE  LeaseInv'
<1> USE DEF databaseVars, runVars, Runs
<1>1. /\ phase[c[1]] = "families" /\ phase' = phase
      /\ \A d \in Thread \ {c} : step'[d] = step[d] /\ work'[d] = work[d]
  BY FamilyStepFrame
<1>2. \A d \in Thread : phase'[d[1]] = "idle" => step'[d] = "lookup"
  BY <1>1 DEF LeaseInv
<1>3. \A d \in Thread \ {c} :
        /\ Holding(d)' <=> Holding(d)
        /\ CallOf(d)' = CallOf(d) /\ Lease(d)' = Lease(d)
  BY <1>1, HoldingFrame
<1>4. CASE Reserve(c)
  <2>1. UNCHANGED <<lapsed, work, phase>> /\ step[c] = "reserve"
    BY <1>4 DEF Reserve
  <2>2. CASE LeaseIsFree(c) /\ leases' = (leases \ LeasesOn(CallOf(c))) \cup {Lease(c)}
    <3>1. CallOf(c)' = CallOf(c) /\ Lease(c)' = Lease(c)
      BY <2>1 DEF CallOf, Lease
    <3>2. \A l, m \in leases' : l.call = m.call => l = m
      <4>1. Lease(c).call = CallOf(c)
        BY DEF Lease
      <4>2. \A l \in leases' : l = Lease(c) \/ (l \in leases /\ l.call # CallOf(c))
        BY <2>2 DEF LeasesOn
      <4>3. QED
        BY <4>1, <4>2 DEF LeaseInv
    <3>3. \A d \in Thread \ {c} : Lease(d) \in leases => Lease(d) \in leases'
      BY <2>2 DEF LeaseIsFree, LeasesOn, Lease
    <3>4. QED
      BY <1>2, <1>3, <2>1, <2>2, <3>1, <3>2, <3>3 DEF LeaseInv
  <2>3. CASE GoesTo(c, "second") /\ UNCHANGED leases
    <3>1. ~Holding(c)'
      BY <2>3 DEF GoesTo, Holding, AtProvider, TypeInv
    <3>2. QED
      BY <1>2, <1>3, <2>1, <2>3, <3>1 DEF LeaseInv
  <2>4. QED
    BY <1>4, <2>2, <2>3 DEF Reserve
<1>5. CASE LookUp(c) \/ SecondLookUp(c) \/ CallbackFails(c)
  <2>1. UNCHANGED <<leases, lapsed>>
    BY <1>5 DEF LookUp, SecondLookUp, CallbackFails
  <2>2. step'[c] \in {"lookup", "reserve", "over"}
    BY <1>5 DEF LookUp, SecondLookUp, CallbackFails, Return, Raise, GoesTo, TypeInv
  <2>3. ~Holding(c)'
    BY <2>2 DEF Holding, AtProvider
  <2>4. QED
    BY <1>2, <1>3, <2>1, <2>3 DEF LeaseInv
<1>6. CASE FirstAnswerInvalid(c) \/ ProviderSucceeds(c) \/ SecondAnswerInvalid(c) \/ ProviderRaises(c)
  <2>1. UNCHANGED <<leases, lapsed, work>> /\ Holding(c)
    BY <1>6 DEF FirstAnswerInvalid, ProviderSucceeds, SecondAnswerInvalid, ProviderRaises, Answers,
                Holding, AtProvider
  <2>2. CallOf(c)' = CallOf(c) /\ Lease(c)' = Lease(c)
    BY <2>1 DEF CallOf, Lease
  <2>3. QED
    BY <1>2, <1>3, <2>1, <2>2 DEF LeaseInv
<1>7. CASE Release(c)
  <2>1. /\ leases' = leases \ Releases(c) /\ lapsed' = lapsed \ {c}
        /\ \E e : Raise(c) \/ Return(c, e)
    BY <1>7 DEF Release
  <2>2. step'[c] \in {"lookup", "over"}
    BY <2>1 DEF Return, Raise, GoesTo, TypeInv
  <2>3. ~Holding(c)'
    BY <2>2 DEF Holding, AtProvider
  <2>4. \A d \in Thread \ {c} : Lease(d) \notin Releases(c)
    BY CallTypes, ThreadPairs DEF Releases, LeasesOn, Lease
  <2>5. QED
    BY <1>2, <1>3, <2>1, <2>3, <2>4 DEF LeaseInv
<1>8. QED
  BY <1>4, <1>5, <1>6, <1>7 DEF FamilyStep

LEMMA StepKeepsLeases ==
  ASSUME TypeInv, LeaseInv, [Next]_vars
  PROVE  LeaseInv'
<1> USE DEF databaseVars, runVars, callVars
<1>1. ASSUME NEW r \in Run,
             Start(r) \/ AllFamiliesEnd(r) \/ StartQueueing(r) \/ Finish(r) \/ StorageFails(r) \/ Kill(r)
      PROVE  LeaseInv'
  <2>1. UNCHANGED <<leases, lapsed, step, work>>
    BY <1>1 DEF Start, AllFamiliesEnd, StartQueueing, Finish, StorageFails, Kill
  <2>2. PICK p \in Phase \ {"idle"} :
          phase' = [phase EXCEPT ![r] = p] /\ (p = "families" => phase[r] = "idle")
    BY <1>1 DEF Start, AllFamiliesEnd, StartQueueing, Finish, StorageFails, Kill, Phase, ActivePhase
  <2>3. \A q \in Run : phase'[q] = IF q = r THEN p ELSE phase[q]
    BY <2>2 DEF TypeInv
  <2>4. \A c \in Thread : c[1] \in Run
    BY ThreadPairs
  <2>5. \A c \in Thread : Lease(c)' = Lease(c)
    BY <2>1 DEF CallOf, Lease
  <2>6. \A c \in Thread : Holding(c)' => Holding(c)
    BY <2>1, <2>2, <2>3, <2>4 DEF LeaseInv, Holding, Runs, AtProvider
  <2>7. QED
    BY <2>1, <2>3, <2>4, <2>5, <2>6 DEF LeaseInv
<1>2. ASSUME NEW c \in Thread, PersistEnvelope(c)
      PROVE  LeaseInv'
  BY <1>2, HoldingFrame DEF PersistEnvelope, LeaseInv
<1>3. ASSUME NEW c \in Thread, RegisterChallenge(c) \/ QueueFamily(c)
      PROVE  LeaseInv'
  <2>1. /\ UNCHANGED <<leases, lapsed, work>>
        /\ phase[c[1]] = "queueing"
        /\ phase' = phase \/ phase' = [phase EXCEPT ![c[1]] = "broken"]
        /\ step' = step \/ \E s \in CallHasEnded : step' = [step EXCEPT ![c] = s]
    BY <1>3 DEF RegisterChallenge, QueueFamily, MyTurn, GoesTo, CallHasEnded
  <2>2. c[1] \in Run /\ \A d \in Thread : d[1] \in Run
    BY ThreadPairs
  <2>3. /\ phase'[c[1]] \in {"queueing", "broken"}
        /\ \A q \in Run \ {c[1]} : phase'[q] = phase[q]
        /\ \A d \in Thread \ {c} : step'[d] = step[d]
    BY <2>1, <2>2 DEF TypeInv
  <2>4. \A d \in Thread : Lease(d)' = Lease(d)
    BY <2>1 DEF CallOf, Lease
  <2>5. \A d \in Thread : Holding(d)' => Holding(d)
    BY <2>2, <2>3 DEF Holding, Runs
  <2>6. \A d \in Thread : phase'[d[1]] = "idle" => step'[d] = "lookup"
    BY <2>2, <2>3 DEF LeaseInv
  <2>7. QED
    BY <2>1, <2>4, <2>5, <2>6 DEF LeaseInv
<1>4. ASSUME NEW l \in leases, LeaseExpires(l)
      PROVE  LeaseInv'
  <2>1. /\ leases' = (leases \ {l}) \cup {[l EXCEPT !.expired = TRUE]}
        /\ lapsed' = lapsed \cup Holders(l)
        /\ UNCHANGED <<phase, step, work>> /\ ~l.expired
        /\ l \in [call : Call, run : Run, expired : BOOLEAN]
    BY <1>4 DEF LeaseExpires, TypeInv
  <2>2. \A c \in Thread : (Holding(c)' <=> Holding(c)) /\ Lease(c)' = Lease(c)
    BY <2>1, HoldingFrame
  <2>3. \A k, m \in leases' : k.call = m.call => k = m
    <3>1. [l EXCEPT !.expired = TRUE].call = l.call
      BY <2>1
    <3>2. \A k \in leases' : k = [l EXCEPT !.expired = TRUE] \/ (k \in leases /\ k # l)
      BY <2>1
    <3>3. QED
      BY <3>1, <3>2 DEF LeaseInv
  <2>4. \A c \in Thread : Holding(c) /\ Lease(c) = l => c \in Holders(l)
    BY DEF Holding, Holders, Threads, Lease
  <2>5. QED
    BY <2>1, <2>2, <2>3, <2>4 DEF LeaseInv
<1>5. CASE UNCHANGED vars
  BY <1>5, HoldingFrame DEF LeaseInv, vars
<1>6. QED
  BY <1>1, <1>2, <1>3, <1>4, <1>5, LeaseKeptByFamily DEF Next, OwnerStep, Threads, Quiet

-----------------------------------------------------------------------------
(* What is stored and what is queued. *)

LEMMA FamilyGains ==
  ASSUME TypeInv, NEW c \in Thread, FamilyStep(c) \/ CallbackFails(c)
  PROVE  /\ Len(got[c]) <= Len(got'[c]) /\ Len(got'[c]) \in Nat
         /\ \A i \in 1..Len(got[c]) : got'[c][i] = got[c][i]
         /\ step'[c] \notin {"challenged", "handled"}
<1> USE DEF databaseVars, Runs
<1>1. got' = got \/ \E e \in Envelope : Emit(c, e)
  <2>1. Failed(c) \in Envelope
    BY CallTypes, ThreadPairs DEF Failed, Made, Envelope, EnvelopeId, Payload
  <2>2. \A payload \in Payload(work[c].stage) : Made(c, "succeeded", payload) \in Envelope
    BY CallTypes, ThreadPairs DEF Made, Envelope, EnvelopeId, Payload
  <2>3. Cached(c) \subseteq Envelope
    BY DEF Cached, TypeInv
  <2>4. CASE LookUp(c) \/ SecondLookUp(c)
    BY <2>3, <2>4 DEF LookUp, SecondLookUp
  <2>5. CASE ProviderSucceeds(c) \/ SecondAnswerInvalid(c) \/ ProviderRaises(c)
    BY <2>1, <2>2, <2>5 DEF ProviderSucceeds, SecondAnswerInvalid, ProviderRaises, Answers
  <2>6. CASE Reserve(c) \/ FirstAnswerInvalid(c) \/ Release(c) \/ CallbackFails(c)
    BY <2>6 DEF Reserve, FirstAnswerInvalid, Release, CallbackFails
  <2>7. QED
    BY <2>4, <2>5, <2>6 DEF FamilyStep
<1>2. /\ Len(got[c]) <= Len(got'[c]) /\ Len(got'[c]) \in Nat
      /\ \A i \in 1..Len(got[c]) : got'[c][i] = got[c][i]
  <2>1. Len(got[c]) \in Nat
    BY DEF TypeInv
  <2>2. CASE got' = got
    BY <2>1, <2>2
  <2>3. CASE \E e \in Envelope : Emit(c, e)
    <3>1. /\ got' \in [Thread -> Seq(Envelope)] /\ Len(got[c]) <= Len(got'[c])
          /\ \A i \in 1..Len(got[c]) : got'[c][i] = got[c][i]
      BY <2>3, EmitTypes
    <3>2. QED
      BY <3>1
  <2>4. QED
    BY <1>1, <2>2, <2>3
<1>3. step'[c] \notin {"challenged", "handled"}
  <2>1. \A e : Return(c, e) \/ Raise(c) => step'[c] \in {"lookup", "over"}
    BY DEF Return, Raise, GoesTo, TypeInv
  <2>2. \A e, raises : Answers(c, e, raises) => step'[c] = "release"
    BY DEF Answers, GoesTo, TypeInv
  <2>3. CASE LookUp(c) \/ SecondLookUp(c) \/ Reserve(c) \/ FirstAnswerInvalid(c)
    BY <2>1, <2>3 DEF LookUp, SecondLookUp, Reserve, FirstAnswerInvalid, GoesTo, TypeInv
  <2>4. CASE ProviderSucceeds(c) \/ SecondAnswerInvalid(c) \/ ProviderRaises(c)
    BY <2>2, <2>4 DEF ProviderSucceeds, SecondAnswerInvalid, ProviderRaises
  <2>5. CASE Release(c) \/ CallbackFails(c)
    BY <2>1, <2>5 DEF Release, CallbackFails
  <2>6. QED
    BY <2>3, <2>4, <2>5 DEF FamilyStep
<1>4. QED
  BY <1>2, <1>3

\* No step takes anything from what is stored.
LEMMA StoresGrow ==
  ASSUME TypeInv, [Next]_vars
  PROVE  envelopes \subseteq envelopes' /\ requests \subseteq requests' /\ queue \subseteq queue'
<1> USE DEF databaseVars, runVars, callVars
<1>1. ASSUME NEW c \in Thread, FamilyStep(c) \/ CallbackFails(c)
      PROVE  UNCHANGED <<envelopes, requests, queue>>
  BY <1>1, FamilyStepFrame
<1>2. QED
  BY <1>1 DEF Next, OwnerStep, Threads, Quiet, vars, Start, AllFamiliesEnd, StartQueueing, Finish,
     StorageFails, Kill, PersistEnvelope, RegisterChallenge, QueueFamily, LeaseExpires

\* What the steps of a run's own thread do to its phase.
LEMMA PhaseMoves ==
  ASSUME TypeInv, NEW r \in Run,
         Start(r) \/ AllFamiliesEnd(r) \/ StartQueueing(r) \/ Finish(r) \/ StorageFails(r) \/ Kill(r)
  PROVE  /\ UNCHANGED <<databaseVars, callVars, saved>>
         /\ \A q \in Run \ {r} : phase'[q] = phase[q] /\ seenPacks'[q] = seenPacks[q]
         /\ seenPacks'[r] \in {seenPacks[r], { item.pack : item \in queue }}
         /\ phase'[r] = "queueing" => \A c \in Threads(r) : ~Unsaved(c)
         /\ phase'[r] \in {"returned", "raised"} => phase[r] = "queueing" /\ FamiliesHandled(r)
<1>1. CASE Start(r)
  BY <1>1 DEF Start, TypeInv
<1>2. CASE AllFamiliesEnd(r) \/ StorageFails(r) \/ Kill(r)
  BY <1>2 DEF AllFamiliesEnd, StorageFails, Kill, TypeInv
<1>3. CASE StartQueueing(r)
  BY <1>3 DEF StartQueueing, EnvelopesPersisted, TypeInv
<1>4. CASE Finish(r)
  BY <1>4 DEF Finish, TypeInv
<1>5. QED
  BY <1>1, <1>2, <1>3, <1>4

LEMMA StepKeepsStore ==
  ASSUME TypeInv, StoreInv, [Next]_vars
  PROVE  StoreInv'
<1> USE DEF databaseVars, runVars, callVars
<1>1. \A c \in Thread : got[c] \in Seq(Envelope) /\ Len(got[c]) \in Nat /\ saved[c] \in Nat /\ c[1] \in Run
  BY ThreadPairs DEF TypeInv
<1>2. ASSUME NEW c \in Thread, FamilyStep(c) \/ CallbackFails(c)
      PROVE  StoreInv'
  <2>1. /\ phase[c[1]] = "families"
        /\ UNCHANGED <<envelopes, phase, saved>>
        /\ \A d \in Thread \ {c} : got'[d] = got[d]
        /\ Len(got[c]) <= Len(got'[c]) /\ Len(got'[c]) \in Nat
        /\ \A i \in 1..Len(got[c]) : got'[c][i] = got[c][i]
    BY <1>2, FamilyStepFrame, FamilyGains
  <2>2. /\ saved'[c] <= Len(got'[c])
        /\ \A i \in 1..saved'[c] : got'[c][i] \in envelopes'
    BY <1>1, <2>1 DEF StoreInv
  <2>3. QED
    BY <2>1, <2>2 DEF StoreInv
<1>3. ASSUME NEW r \in Run,
             Start(r) \/ AllFamiliesEnd(r) \/ StartQueueing(r) \/ Finish(r) \/ StorageFails(r) \/ Kill(r)
      PROVE  StoreInv'
  <2>1. UNCHANGED <<envelopes, got, saved>>
    BY <1>3, PhaseMoves
  <2>2. \A c \in Thread : phase'[c[1]] \in {"queueing", "returned", "raised"} => saved[c] = Len(got[c])
    <3> TAKE c \in Thread
    <3>1. CASE c[1] = r
      BY <1>1, <1>3, <3>1, PhaseMoves DEF Threads, Unsaved, StoreInv
    <3>2. CASE c[1] # r
      BY <1>1, <1>3, <3>2, PhaseMoves DEF StoreInv
    <3>3. QED
      BY <3>1, <3>2
  <2>3. QED
    BY <2>1, <2>2 DEF StoreInv
<1>4. ASSUME NEW c \in Thread, PersistEnvelope(c)
      PROVE  StoreInv'
  <2>1. /\ phase[c[1]] = "persisting" /\ saved[c] < Len(got[c])
        /\ envelopes' = envelopes \cup {got[c][saved[c] + 1]}
        /\ saved' = [saved EXCEPT ![c] = saved[c] + 1]
        /\ UNCHANGED <<phase, got>>
    BY <1>4 DEF PersistEnvelope, Unsaved
  <2>2. saved'[c] = saved[c] + 1 /\ \A d \in Thread \ {c} : saved'[d] = saved[d]
    BY <2>1 DEF TypeInv
  <2>3. saved'[c] <= Len(got[c])
    BY <1>1, <2>1, <2>2
  <2>4. \A i \in 1..saved'[c] : got[c][i] \in envelopes'
    BY <1>1, <2>1, <2>2 DEF StoreInv
  <2>5. \A d \in Thread \ {c} : /\ saved'[d] <= Len(got'[d])
                                /\ \A i \in 1..saved'[d] : got'[d][i] \in envelopes'
    BY <2>1, <2>2 DEF StoreInv
  <2>6. \A d \in Thread : phase'[d[1]] \in {"queueing", "returned", "raised"} => saved'[d] = Len(got'[d])
    BY <2>1, <2>2 DEF StoreInv
  <2>7. QED
    BY <2>1, <2>3, <2>4, <2>5, <2>6 DEF StoreInv
<1>5. ASSUME NEW c \in Thread, RegisterChallenge(c) \/ QueueFamily(c)
      PROVE  StoreInv'
  <2>1. /\ UNCHANGED <<envelopes, got, saved>>
        /\ phase' = phase \/ phase' = [phase EXCEPT ![c[1]] = "broken"]
    BY <1>5 DEF RegisterChallenge, QueueFamily
  <2>2. \A q \in Run : phase'[q] \in {phase[q], "broken"}
    BY <2>1 DEF TypeInv
  <2>3. QED
    BY <1>1, <2>1, <2>2 DEF StoreInv
<1>6. ASSUME NEW l \in leases, LeaseExpires(l)
      PROVE  StoreInv'
  BY <1>6 DEF LeaseExpires, StoreInv
<1>7. CASE UNCHANGED vars
  BY <1>7 DEF StoreInv, vars
<1>8. QED
  BY <1>2, <1>3, <1>4, <1>5, <1>6, <1>7 DEF Next, OwnerStep, Threads, Quiet

\* A family that no step touches keeps its request and its place in the queue.
LEMMA QueueFrame ==
  ASSUME NEW c \in Thread, step'[c] = step[c], work'[c] = work[c], status'[c] = status[c],
         requests \subseteq requests', queue \subseteq queue',
         step[c] \in {"challenged", "handled"} /\ Challenges(c, "founded") => c[2] \in requests,
         step[c] = "handled" /\ status[c] = "queued" => Queued(c)
  PROVE  /\ step'[c] \in {"challenged", "handled"} /\ Challenges(c, "founded")' => c[2] \in requests'
         /\ step'[c] = "handled" /\ status'[c] = "queued" => Queued(c)'
BY DEF Challenges, Queued, PackOf

LEMMA StepKeepsQueue ==
  ASSUME TypeInv, FamiliesInv, QueueInv, [Next]_vars
  PROVE  QueueInv'
<1> USE DEF databaseVars, runVars, callVars
<1>1. requests \subseteq requests' /\ queue \subseteq queue'
  BY StoresGrow
<1>2. \A c \in Thread : c[1] \in Run
  BY ThreadPairs
<1>3. \A r \in Run : seenPacks[r] \subseteq { item.pack : item \in queue' }
  BY <1>1 DEF QueueInv
<1>4. ASSUME NEW c \in Thread, FamilyStep(c) \/ CallbackFails(c)
      PROVE  QueueInv'
  <2>1. /\ phase[c[1]] = "families"
        /\ UNCHANGED <<queue, requests, phase, seenPacks>>
        /\ \A d \in Thread \ {c} :
             step'[d] = step[d] /\ work'[d] = work[d] /\ status'[d] = status[d]
        /\ step'[c] \notin {"challenged", "handled"}
    BY <1>4, FamilyStepFrame, FamilyGains
  <2>2. \A d \in Thread \ {c} :
          /\ step'[d] \in {"challenged", "handled"} /\ Challenges(d, "founded")' => d[2] \in requests'
          /\ step'[d] = "handled" /\ status'[d] = "queued" => Queued(d)'
    BY <1>1, <2>1, QueueFrame DEF QueueInv
  <2>3. \A d \in Thread : phase'[d[1]] \in {"returned", "raised"} => step'[d] = "handled"
    BY <2>1 DEF QueueInv
  <2>4. QED
    BY <1>3, <2>1, <2>2, <2>3 DEF QueueInv
<1>5. ASSUME NEW r \in Run,
             Start(r) \/ AllFamiliesEnd(r) \/ StartQueueing(r) \/ Finish(r) \/ StorageFails(r) \/ Kill(r)
      PROVE  QueueInv'
  <2>1. UNCHANGED <<queue, requests, step, work, status>>
    BY <1>5, PhaseMoves
  <2>2. \A d \in Thread :
          /\ step'[d] \in {"challenged", "handled"} /\ Challenges(d, "founded")' => d[2] \in requests'
          /\ step'[d] = "handled" /\ status'[d] = "queued" => Queued(d)'
    BY <1>1, <2>1, QueueFrame DEF QueueInv
  <2>3. \A q \in Run : seenPacks'[q] \subseteq { item.pack : item \in queue' }
    BY <1>3, <1>5, <2>1, PhaseMoves
  <2>4. \A d \in Thread : phase'[d[1]] \in {"returned", "raised"} => step'[d] = "handled"
    <3> TAKE d \in Thread
    <3>1. CASE d[1] = r
      BY <1>5, <2>1, <3>1, PhaseMoves DEF FamiliesHandled, Threads
    <3>2. CASE d[1] # r
      BY <1>2, <1>5, <2>1, <3>2, PhaseMoves DEF QueueInv
    <3>3. QED
      BY <3>1, <3>2
  <2>5. QED
    BY <2>2, <2>3, <2>4 DEF QueueInv
<1>6. ASSUME NEW c \in Thread, PersistEnvelope(c)
      PROVE  QueueInv'
  <2>1. UNCHANGED <<queue, requests, phase, seenPacks, step, work, status>>
    BY <1>6 DEF PersistEnvelope
  <2>2. QED
    BY <2>1 DEF QueueInv, Challenges, Queued, PackOf
<1>7. ASSUME NEW c \in Thread, RegisterChallenge(c)
      PROVE  QueueInv'
  <2>1. /\ phase[c[1]] = "queueing" /\ step[c] = "over"
        /\ UNCHANGED <<queue, seenPacks, work, status>>
    BY <1>7 DEF RegisterChallenge, MyTurn
  <2>2. CASE phase' = [phase EXCEPT ![c[1]] = "broken"] /\ UNCHANGED <<requests, step>>
    <3>1. \A q \in Run : phase'[q] \in {phase[q], "broken"}
      BY <2>2 DEF TypeInv
    <3>2. QED
      BY <1>2, <2>1, <2>2, <3>1 DEF QueueInv, Challenges, Queued, PackOf
  <2>3. CASE /\ requests' = IF Challenges(c, "founded") THEN requests \cup {c[2]} ELSE requests
             /\ GoesTo(c, "challenged") /\ UNCHANGED phase
    <3>1. step'[c] = "challenged" /\ \A d \in Thread \ {c} : step'[d] = step[d]
      BY <2>3 DEF GoesTo, TypeInv
    <3>2. \A d \in Thread \ {c} :
            /\ step'[d] \in {"challenged", "handled"} /\ Challenges(d, "founded")' => d[2] \in requests'
            /\ step'[d] = "handled" /\ status'[d] = "queued" => Queued(d)'
      BY <1>1, <2>1, <3>1, QueueFrame DEF QueueInv
    <3>3. Challenges(c, "founded")' => c[2] \in requests'
      BY <2>1, <2>3 DEF Challenges
    <3>4. \A d \in Thread : phase'[d[1]] \in {"returned", "raised"} => step'[d] = "handled"
      BY <2>1, <2>3, <3>1 DEF QueueInv
    <3>5. QED
      BY <1>3, <2>1, <3>1, <3>2, <3>3, <3>4 DEF QueueInv
  <2>4. QED
    BY <1>7, <2>2, <2>3 DEF RegisterChallenge
<1>8. ASSUME NEW c \in Thread, QueueFamily(c)
      PROVE  QueueInv'
  <2>1. /\ phase[c[1]] = "queueing" /\ step[c] = "challenged"
        /\ GoesTo(c, "handled")
        /\ UNCHANGED <<requests, phase, seenPacks, work, status, used>>
    BY <1>8 DEF QueueFamily, MyTurn
  <2>2. step'[c] = "handled" /\ \A d \in Thread \ {c} : step'[d] = step[d]
    BY <2>1 DEF GoesTo, TypeInv
  <2>3. \A d \in Thread \ {c} :
          /\ step'[d] \in {"challenged", "handled"} /\ Challenges(d, "founded")' => d[2] \in requests'
          /\ step'[d] = "handled" /\ status'[d] = "queued" => Queued(d)'
    BY <1>1, <2>1, <2>2, QueueFrame DEF QueueInv
  <2>4. Challenges(c, "founded")' => c[2] \in requests'
    BY <2>1 DEF Challenges, QueueInv
  <2>5. status[c] = "queued" => PackOf(c) \in { item.pack : item \in queue' }
    <3>1. HAVE status[c] = "queued"
    <3>2. CASE PackOf(c) \in seenPacks[c[1]]
      BY <1>2, <1>3, <3>2
    <3>3. CASE PackOf(c) \notin seenPacks[c[1]]
      <4>1. used[c].primary # {} /\ used[c].critic # {}
        BY <3>1 DEF FamiliesInv, FamilyInv, Backed
      <4>2. \E item \in Items(c) : item.pack = PackOf(c)
        <5>1. PICK p \in used[c].primary, q \in used[c].critic : TRUE
          BY <4>1
        <5>2. [pack |-> PackOf(c), by |-> c[1], primary |-> p, critic |-> q] \in Items(c)
          BY DEF Items
        <5>3. QED
          BY <5>2
      <4>3. Items(c) \subseteq queue'
        BY <1>8, <3>1, <3>3 DEF QueueFamily
      <4>4. QED
        BY <4>2, <4>3
    <3>4. QED
      BY <3>2, <3>3
  <2>6. status'[c] = "queued" => Queued(c)'
    BY <2>1, <2>5 DEF Queued, PackOf
  <2>7. \A d \in Thread : phase'[d[1]] \in {"returned", "raised"} => step'[d] = "handled"
    BY <2>1, <2>2 DEF QueueInv
  <2>8. QED
    BY <1>3, <2>1, <2>2, <2>3, <2>4, <2>6, <2>7 DEF QueueInv
<1>9. ASSUME NEW l \in leases, LeaseExpires(l)
      PROVE  QueueInv'
  BY <1>9 DEF LeaseExpires, QueueInv, Challenges, Queued, PackOf
<1>10. CASE UNCHANGED vars
  BY <1>10 DEF QueueInv, Challenges, Queued, PackOf, vars
<1>11. QED
  BY <1>4, <1>5, <1>6, <1>7, <1>8, <1>9, <1>10 DEF Next, OwnerStep, Threads, Quiet

\* What a run queues, it has saved before, and it has looked at the challenge.
LEMMA StepKeepsTraces ==
  ASSUME TypeInv, FamiliesInv, StoreInv, QueueInv, QueuedPacksAreTraceable, [Next]_vars
  PROVE  QueuedPacksAreTraceable'
<1> USE DEF databaseVars, runVars, callVars
<1>1. envelopes \subseteq envelopes' /\ requests \subseteq requests'
  BY StoresGrow
<1>2. CASE queue' = queue
  BY <1>1, <1>2 DEF QueuedPacksAreTraceable, Holds
<1>3. ASSUME NEW c \in Thread, QueueFamily(c)
      PROVE  QueuedPacksAreTraceable'
  <2>1. /\ phase[c[1]] = "queueing" /\ step[c] = "challenged"
        /\ queue' = queue \/ (status[c] = "queued" /\ queue' = queue \cup Items(c))
    BY <1>3 DEF QueueFamily, MyTurn
  <2>2. CASE status[c] = "queued" /\ queue' = queue \cup Items(c)
    <3>1. /\ Backed(c, used[c].primary, work[c].proposal)
          /\ Backed(c, used[c].critic, work[c].critique)
          /\ work[c].critique # "none"
      BY <2>2 DEF FamiliesInv, FamilyInv
    <3>2. \A e : Emitted(c, e) => e \in envelopes'
      BY <1>1, <2>1 DEF StoreInv, Emitted
    <3>3. ChallengeOf[work[c].critique] = "founded" => c[2] \in requests'
      BY <1>1, <2>1, <2>2, <3>1 DEF QueueInv, Challenges
    <3>4. \A item \in Items(c) : /\ item.pack = PackOf(c)
                                 /\ item.primary \in used[c].primary
                                 /\ item.critic \in used[c].critic
      BY DEF Items
    <3>5. /\ PackOf(c).proposal = work[c].proposal /\ PackOf(c).critique = work[c].critique
          /\ PackOf(c).family = c[2]
      BY DEF PackOf
    <3>6. \A item \in Items(c) : Holds(item.primary, item.pack.proposal)'
      BY <3>1, <3>2, <3>4, <3>5 DEF Holds, Backed
    <3>7. \A item \in Items(c) : Holds(item.critic, item.pack.critique)'
      BY <3>1, <3>2, <3>4, <3>5 DEF Holds, Backed
    <3>8. \A item \in Items(c) :
            ChallengeOf[item.pack.critique] = "founded" => item.pack.family \in requests'
      BY <3>3, <3>4, <3>5
    <3>9. QED
      BY <1>1, <2>2, <3>6, <3>7, <3>8 DEF QueuedPacksAreTraceable, Holds
  <2>3. QED
    BY <1>2, <2>1, <2>2
<1>4. ASSUME NEW c \in Thread, FamilyStep(c) \/ CallbackFails(c)
      PROVE  queue' = queue
  BY <1>4, FamilyStepFrame
<1>5. QED
  BY <1>2, <1>3, <1>4 DEF Next, OwnerStep, Threads, Quiet, vars, Start, AllFamiliesEnd,
     StartQueueing, Finish, StorageFails, Kill, PersistEnvelope, RegisterChallenge, LeaseExpires

-----------------------------------------------------------------------------

LEMMA InitHolds == Init => IInv
<1> SUFFICES ASSUME Init PROVE IInv
  OBVIOUS
<1>1. StartWork \in Work /\ StartWork.stage = "primary"
      /\ StartWork.proposal = "none" /\ StartWork.critique = "none"
  BY DEF StartWork, Work, Stage
<1>2. /\ <<>> \in Seq(Envelope) /\ Len(<<>>) = 0
  OBVIOUS
<1>3. TypeInv
  BY <1>1, <1>2 DEF Init, TypeInv, Phase, Step, Sources
<1>4. FamiliesInv
  <2>1. \A c \in Thread : /\ step[c] = "lookup" /\ status[c] = "open" /\ work[c] = StartWork
                          /\ used[c] = [primary |-> {}, critic |-> {}]
    BY DEF Init
  <2>2. QED
    BY <1>1, <2>1 DEF FamiliesInv, FamilyInv, Backed, CallHasEnded
<1>5. LeaseInv
  BY ThreadPairs DEF Init, LeaseInv, Holding, Runs, AtProvider
<1>6. StoreInv
  BY <1>2, ThreadPairs DEF Init, StoreInv
<1>7. QueueInv
  BY ThreadPairs DEF Init, QueueInv
<1>8. QueuedPacksAreTraceable
  BY DEF Init, QueuedPacksAreTraceable
<1>9. QED
  BY <1>3, <1>4, <1>5, <1>6, <1>7, <1>8 DEF IInv

LEMMA StepKeeps == IInv /\ [Next]_vars => IInv'
BY StepKeepsFamilies, StepKeepsLeases, StepKeepsStore, StepKeepsQueue, StepKeepsTraces DEF IInv

LEMMA Invariance == Spec => []IInv
<1>1. QED
  BY InitHolds, StepKeeps, PTL DEF Spec

(***************************************************************************)
(* Every variable keeps its type: what a family asks is always one of the  *)
(* judgments of its workflow, and it saves no more answers than it was     *)
(* given.                                                                  *)
(***************************************************************************)
THEOREM TypeCorrect == Spec => []TypeOK
<1>1. IInv => TypeOK
  BY TypeInvGivesTypeOK DEF IInv
<1>2. QED
  BY <1>1, Invariance, PTL

(***************************************************************************)
(* Two runs are never at the provider with the same invocation, unless one *)
(* of their leases lapsed (valuation_run_store.py 141-195): a lease that   *)
(* has not expired is there for each of them, a call has only one, and it  *)
(* names its run.                                                          *)
(***************************************************************************)
THEOREM Exclusive == Spec => []CallsAreExclusive
<1>1. IInv => CallsAreExclusive
  <2> SUFFICES ASSUME IInv, NEW c \in Thread, NEW d \in Thread, Asking(c), Asking(d),
                      CallOf(c) = CallOf(d), c \notin lapsed, d \notin lapsed
               PROVE  c = d
    BY DEF CallsAreExclusive
  <2>1. Lease(c) \in leases /\ Lease(d) \in leases
    BY DEF IInv, LeaseInv, Holding, Asking
  <2>2. Lease(c) = Lease(d)
    BY <2>1 DEF IInv, LeaseInv, Lease
  <2>3. c[1] = d[1] /\ c[2] = d[2]
    BY <2>2, CallTypes DEF IInv, Lease
  <2>4. QED
    BY <2>3, ThreadPairs
<1>2. QED
  BY <1>1, Invariance, PTL

(***************************************************************************)
(* "a stale owner cannot release a successor" (valuation_run_store.py      *)
(* 183): no step takes away a lease that has not expired, but the release  *)
(* of the family the lease was taken for.                                  *)
(***************************************************************************)
THEOREM SuccessorsKeepLeases == Spec => SuccessorKeepsLease
<1> USE DEF databaseVars, runVars, callVars
<1> DEFINE Kept ==
      \A l \in leases :
        ~l.expired /\ LeasesOn(l.call)' = {}
          => \E c \in Threads(l.run) : CallOf(c) = l.call /\ Runs(c, "release")
<1>1. IInv /\ [Next]_vars => Kept
  <2> SUFFICES ASSUME IInv, [Next]_vars, NEW l \in leases, ~l.expired, LeasesOn(l.call)' = {}
               PROVE  \E c \in Threads(l.run) : CallOf(c) = l.call /\ Runs(c, "release")
    OBVIOUS
  <2>1. l \notin leases' /\ leases' # leases
    BY DEF LeasesOn
  <2>2. \A k \in leases' : k.call # l.call
    BY DEF LeasesOn
  <2>3. \A c \in Thread : Lease(c).call = CallOf(c)
    BY DEF Lease
  <2>4. ASSUME NEW c \in Thread, Reserve(c)
        PROVE  FALSE
    <3>1. leases' = (leases \ LeasesOn(CallOf(c))) \cup {Lease(c)}
      BY <2>1, <2>4 DEF Reserve
    <3>2. QED
      BY <2>1, <2>2, <2>3, <3>1 DEF LeasesOn
  <2>5. ASSUME NEW c \in Thread, Release(c)
        PROVE  \E d \in Threads(l.run) : CallOf(d) = l.call /\ Runs(d, "release")
    <3>1. l \in Releases(c) /\ Runs(c, "release")
      BY <2>1, <2>5 DEF Release
    <3>2. QED
      BY <3>1 DEF Releases, LeasesOn, Threads
  <2>6. ASSUME NEW k \in leases, LeaseExpires(k)
        PROVE  FALSE
    <3>1. k \in [call : Call, run : Run, expired : BOOLEAN]
      BY DEF IInv, TypeInv
    <3>2. [k EXCEPT !.expired = TRUE].call = k.call
      BY <3>1
    <3>3. leases' = (leases \ {k}) \cup {[k EXCEPT !.expired = TRUE]}
      BY <2>6 DEF LeaseExpires
    <3>4. QED
      BY <2>1, <2>2, <3>2, <3>3
  <2>7. QED
    BY <2>1, <2>4, <2>5, <2>6
       DEF Next, OwnerStep, Threads, Quiet, vars, FamilyStep, Start, AllFamiliesEnd, StartQueueing,
           Finish, StorageFails, Kill, PersistEnvelope, RegisterChallenge, QueueFamily, LookUp,
           SecondLookUp, ProviderSucceeds, FirstAnswerInvalid, SecondAnswerInvalid, ProviderRaises,
           Answers, CallbackFails
<1>2. Spec => [][Kept]_vars
  BY <1>1, Invariance, PTL DEF Spec
<1>3. QED
  BY <1>2 DEF SuccessorKeepsLease

(***************************************************************************)
(* A pack in the PM's queue can be traced, whatever run died half-way: the *)
(* answers it names are stored and hold what it shows, and the request a   *)
(* founded challenge asks for is stored                                    *)
(* (valuation_judgment_pipeline.py 341-399).                               *)
(***************************************************************************)
THEOREM PacksTraceable == Spec => []QueuedPacksAreTraceable
<1>1. IInv => QueuedPacksAreTraceable
  BY DEF IInv
<1>2. QED
  BY <1>1, Invariance, PTL

(***************************************************************************)
(* When a run returns, or raises the error of a family, every answer is    *)
(* stored and every accepted pack is queued                                *)
(* (valuation_judgment_pipeline.py 334-402): a run comes to its queue only *)
(* when all is saved, and to its end only when every family is handled.    *)
(***************************************************************************)
THEOREM FailuresIsolated == Spec => []FailuresStayIsolated
<1>1. IInv => FailuresStayIsolated
  BY DEF IInv, StoreInv, QueueInv, FailuresStayIsolated
<1>2. QED
  BY <1>1, Invariance, PTL
==============================================================================
