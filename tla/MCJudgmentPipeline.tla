-------------------------- MODULE MCJudgmentPipeline --------------------------
(* Two overlapping runs of one family, and one or two runs of two families. *)
EXTENDS JudgmentPipeline

CONSTANTS r1, r2

BothRuns == {r1, r2}

OneFamily == {1}

TwoFamilies == {1, 2}

-----------------------------------------------------------------------------
\* One critique of every kind the workflow tells apart.
AllCritiques == {"accepted", "challenged", "revise", "blocked", "wrong_family", "unfounded"}

AllVerdicts ==
  [k \in AllCritiques |->
     CASE k = "revise" -> "revise"
       [] k = "blocked" -> "block"
       [] k = "wrong_family" -> "unusable"
       [] OTHER -> "accept"]

AllChallenges ==
  [k \in AllCritiques |->
     CASE k \in {"challenged", "wrong_family"} -> "founded" [] k = "unfounded" -> "unfounded" [] OTHER -> "none"]

\* A critic that only ever accepts, with or without a challenge.
AcceptingCritiques == {"accepted", "unfounded"}

AcceptingVerdicts == [k \in AcceptingCritiques |-> "accept"]

AcceptingChallenges ==
  [k \in AcceptingCritiques |-> IF k = "accepted" THEN "none" ELSE k]

-----------------------------------------------------------------------------
\* A critic that accepts with a founded challenge, or blocks.
StrictCritiques == {"challenged", "blocked"}

StrictVerdicts ==
  [k \in StrictCritiques |-> IF k = "blocked" THEN "block" ELSE "accept"]

StrictChallenges ==
  [k \in StrictCritiques |-> IF k = "challenged" THEN "founded" ELSE "none"]
===============================================================================
