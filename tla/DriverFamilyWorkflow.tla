------------------------ MODULE DriverFamilyWorkflow ------------------------
(***************************************************************************)
(* run_driver_family_workflow: what one driver family does with the answer *)
(* of each judgment it asks for.  A primary proposes, a critic reviews; a  *)
(* critic may send the primary back once, and then reviews the revision.   *)
(* The workflow is sequential and keeps no state of its own: here is the   *)
(* step from one answer to the next question or to the result.             *)
(***************************************************************************)
CONSTANTS
  Proposal,    \* what a primary or a revision may validly propose
  Critique,    \* the critiques a critic may validly return
  VerdictOf,   \* their verdict
  ChallengeOf  \* whether they challenge the methodology

(***************************************************************************)
(* An "unusable" payload fits its schema, but names another family or      *)
(* cites an anchor that was not shown.  A methodology challenge is         *)
(* unfounded when it cites evidence the frozen snapshot does not hold.     *)
(***************************************************************************)
Verdict == {"accept", "revise", "block", "unusable"}

Challenge == {"none", "founded", "unfounded"}

ASSUME PayloadAssumption ==
  /\ {"none", "unusable"} \cap (Proposal \cup Critique) = {}
  /\ VerdictOf \in [Critique -> Verdict]
  /\ ChallengeOf \in [Critique -> Challenge]

Stage == {"primary", "critic", "revision", "recritic"}

CriticStage == {"critic", "recritic"}

\* What the provider may validly answer at a stage.
Payload(stage) ==
  IF stage \in CriticStage THEN Critique ELSE Proposal \cup {"unusable"}

(***************************************************************************)
(* The task of a judgment is determined by the family, the stage and what  *)
(* the prompt quotes; its invocation_hash, by the task (one route a role). *)
(***************************************************************************)
StartWork == [stage |-> "primary", proposal |-> "none", critique |-> "none"]

Invocation(f, w) ==
  [family |-> f, stage |-> w.stage, proposal |-> w.proposal, critique |-> w.critique]

Usable(stage, payload) ==
  IF stage \in CriticStage
  THEN VerdictOf[payload] # "unusable" /\ ChallengeOf[payload] # "unfounded"
  ELSE payload # "unusable"

\* What is kept of a payload: the critique even when it is not usable.
Keep(w, payload) ==
  IF w.stage \in CriticStage
  THEN [w EXCEPT !.critique = payload]
  ELSE IF Usable(w.stage, payload) THEN [w EXCEPT !.proposal = payload] ELSE w

\* The question after a usable payload; none when the family is finished.
NextStage(stage, payload) ==
  CASE stage = "primary" -> {"critic"}
    [] stage = "revision" -> {"recritic"}
    [] stage = "critic" /\ VerdictOf[payload] = "revise" -> {"revision"}
    [] OTHER -> {}

Accepted(stage, payload) == stage \in CriticStage /\ VerdictOf[payload] = "accept"
=============================================================================
