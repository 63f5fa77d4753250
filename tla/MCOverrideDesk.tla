------------------------------ MODULE MCOverrideDesk ------------------------------
(* Three sessions; two agents propose a number for the same driver. *)
EXTENDS OverrideDesk, TLC

CONSTANTS s1, s2, s3

MCFieldOf == 1 :> "ebit_margin_start" @@ 2 :> "ebit_margin_start"

Three(k, l, n) == s1 :> k @@ s2 :> l @@ s3 :> n

\* More background runs than threads; writers of either file beside a full run.
Casts ==
  { Three("workbench", "wacc", "recommend"), Three("wacc", "wacc", "wacc"),
    Three("recommend", "recommend", "apply"), Three("approve", "apply", "rerun"),
    Three("preview", "apply", "rerun"), Three("wacc", "apply", "rerun"),
    Three("workbench", "apply", "rerun"), Three("recommend", "apply", "rerun") }

\* An approval, a full run, and whoever applies next.
Approval == { Three("approve", "rerun", "apply") }
===================================================================================
