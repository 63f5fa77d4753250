---------------------------- MODULE MCStatementLedger ----------------------------
(***************************************************************************)
(* Documents for the checks of StatementLedger: two fiscal years that end  *)
(* on days 20 and 30, each with one required income and one required cash  *)
(* flow figure, the cash change, assets, claims and cash.                  *)
(***************************************************************************)
EXTENDS StatementLedger, TLC

Day(id, source, origin, filed, statement, key, start, end, kind, value, parts) ==
  [id |-> id, source |-> source, origin |-> origin, filed |-> filed, statement |-> statement,
   key |-> key, start |-> start, end |-> end, kind |-> kind, value |-> value, parts |-> parts,
   context |-> 0]

\* A year's figures: flows over <<start, end>>, balances at end.
Year(base, source, origin, filed, start, end, flows, balances) ==
  LET flow(k)    == IF k \in IncomeKeys THEN "income" ELSE "cash_flow"
      position   == [k \in {"net_income", "da", "combined_da", "net_change",
                            "net_change_restricted", "assets", "claims", "cash"} |->
                       CASE k = "net_income" -> 1 [] k \in {"da", "combined_da"} -> 2
                         [] k \in NetChangeKeys -> 3 [] k = "assets" -> 4
                         [] k = "claims" -> 5 [] OTHER -> 6]
  IN  { Day(base + position[k], source, origin, filed, flow(k), k, start, end, "annual", flows[k], {}) :
          k \in DOMAIN flows }
        \cup
      { Day(base + position[k], source, origin, filed, "balance", k, 0, end, "annual", balances[k], {}) :
          k \in DOMAIN balances }

Trailing(base, source, origin, filed, start, end, income, da, parts) ==
  { Day(base + 1, source, origin, filed, "income", "net_income", start, end, "ltm", income, parts),
    Day(base + 2, source, origin, filed, "cash_flow", "da", start, end, "ltm", da, parts) }

\* The 10-K with both years.
TenK(combined) ==
  LET da == IF combined THEN "combined_da" ELSE "da"
      flows(n, d, c) == [k \in {"net_income", da, "net_change"} |->
                           CASE k = "net_income" -> n [] k = da -> d [] OTHER -> c]
  IN  Year(100, "presentation", 1, 33, 11, 20, flows(30, 12, 6),
           [assets |-> 90, claims |-> 90, cash |-> 16])
        \cup
      Year(110, "presentation", 1, 33, 21, 30, flows(40, 14, 8),
           [assets |-> 99, claims |-> 99, cash |-> 24])

\* A CIQ run with the start of its second year; the filing's is 21.
Workbook(base, run, second, income, change, keys) ==
  { f \in Year(base, "ciq", run, 0, 11 - (21 - second), 20,
               [net_income |-> 30, da |-> 12, net_change |-> 6], [assets |-> 90, cash |-> 16])
            \cup
          Year(base + 10, "ciq", run, 0, second, 30,
               [net_income |-> income, da |-> 14, net_change |-> change], [assets |-> 99, cash |-> 24]) :
      f.key \in keys }

AllKeys == {"net_income", "da", "net_change", "assets", "cash"}

Restricted(F) ==
  { IF f.key = "net_change" THEN [f EXCEPT !.key = "net_change_restricted"] ELSE f : f \in F }

Documents ==
  [annual    |-> TenK(FALSE),
   combined  |-> TenK(TRUE),
   workbook  |-> Workbook(200, 1, 20, 40, 8, AllKeys),
   nolines   |-> Workbook(220, 1, 20, 40, 8, AllKeys \ {"da"}),
   quarter   |-> Trailing(300, "derived", 2, 36, 24, 33, 44, 15, {111, 112}),
   amended   |-> { Day(321, "presentation", 3, 39, "income", "net_income", 21, 30, "annual", 60, {}) },
   unbalanced |-> { Day(325, "presentation", 3, 39, "balance", "claims", 0, 30, "annual", 70, {}) },
   corrected |-> Workbook(400, 2, 20, 60, 8, AllKeys),
   refreshed |-> Workbook(420, 2, 20, 40, 8, AllKeys)
                   \cup Trailing(440, "ciq", 2, 0, 24, 33, 44, 15, {}),
   aligned    |-> Workbook(460, 2, 21, 40, 8, AllKeys),
   normalized |-> Workbook(480, 2, 14, 40, 8, AllKeys),
   rebased   |-> { Day(326, "presentation", 3, 39, "balance", "cash", 0, 30, "annual", 34, {}) },
   recashed  |-> { IF f.key = "cash" /\ f.end = 30 THEN [f EXCEPT !.value = 34] ELSE f :
                     f \in Workbook(520, 2, 20, 40, 8, AllKeys) },
   alternate |-> Restricted(Workbook(500, 2, 20, 40, 28, AllKeys)),
   partial   |-> {}]

Source(d) == IF d \in {"workbook", "nolines", "corrected", "refreshed", "aligned", "normalized", "recashed", "alternate"}
             THEN "ciq" ELSE "presentation"

Origin(d) ==
  CASE d \in {"annual", "combined", "partial", "workbook", "nolines"} -> 1
    [] d \in {"amended", "unbalanced", "rebased"} -> 3
    [] OTHER -> 2

\* evidence_cutoff: the filing date, or the workbook's date.
DatedAs(d) ==
  CASE d \in {"annual", "combined"} -> 33 [] Source(d) = "ciq" /\ Origin(d) = 1 -> 34
    [] d = "quarter" -> 36 [] d \in {"amended", "unbalanced", "rebased"} -> 39 [] OTHER -> 42

Manifests ==
  [d \in DOMAIN Documents |->
     [id |-> d, source |-> Source(d), origin |-> Origin(d), cutoff |-> DatedAs(d),
      completed |-> TRUE, complete |-> d # "partial",
      facts |-> { f.id : f \in { g \in Documents[d] : g.source # "derived" } }]]

Income == {"net_income"}
CashFlow == {"da"}

AsOf == {0, 35}

\* The trailing income, whose findings come and go with the quarter and the workbook.
TakenUp == {<<"net_income", 33>>}

All == { [first |-> <<"annual", "workbook">>, later |-> {"amended", "corrected"}],
         [first |-> <<"annual", "workbook">>, later |-> {"quarter", "refreshed"}],
         [first |-> <<"annual", "workbook">>, later |-> {"unbalanced", "partial"}],
         [first |-> <<"combined", "nolines">>, later |-> {"aligned"}],
         [first |-> <<"annual", "workbook">>, later |-> {"normalized"}],
         [first |-> <<"annual", "workbook">>, later |-> {"rebased", "recashed"}] }

\* TLC evaluates a table once when the constant's definition only names it.
Published == Documents
Listed == Manifests

Processes == Permutations(Reconciler) \cup Permutations(Handler)

OneAlternate == { [first |-> <<"annual">>, later |-> {"alternate"}] }
==================================================================================
