---------------------------- MODULE StatementReadiness ----------------------------
(***************************************************************************)
(* What a reconciliation makes of a view: the figures both sources must    *)
(* show, the findings of comparing them, the two statement checks, and the *)
(* status a valuation is gated on.                                         *)
(*                                                                         *)
(* Units, currencies, sign rules and FX contexts agree, the tolerance is   *)
(* one number, and calculation rollups are left out.  Within a view,       *)
(* findings are told apart as by what the code hashes into their ids.      *)
(***************************************************************************)
EXTENDS StatementView

Statement(key) ==
  CASE key \in IncomeKeys            -> "income"
    [] key \in CashKeys \cup {"assets"} -> "balance"
    [] OTHER                         -> "cash_flow"

-----------------------------------------------------------------------------
(* The quantities both sources must show. *)

\* The first candidate's start; an instant, or a figure that is not there, has none.
StartOf(year, key) ==
  LET starts == { f.start : f \in { g \in On(year, Statement(key)) : g.key = key } }
  IN  IF starts = {} THEN 0 ELSE CHOOSE s \in starts : \A t \in starts : s <= t

\* The cash line is chosen from the balance sheet, the net change from the year.
YearKeys(year, combined) ==
  (RequiredKeys \ (IF combined THEN {"da"} ELSE {}))
    \cup {"assets",
          IF "cash_restricted" \in Keys(On(year, "balance")) THEN "cash_restricted" ELSE "cash",
          IF "net_change_restricted" \in Keys(year) THEN "net_change_restricted" ELSE "net_change"}

Quantity(key, start, end, kind) ==
  [statement |-> Statement(key), key |-> key, start |-> start, end |-> end, kind |-> kind]

\* A trailing window no newer than the newest complete year asks for nothing.
Superseded(w, ends) == \E e \in ends : e >= w.end

AnnualExpected(year, e, V) ==
  { Quantity(k, StartOf(year, k), e, "annual") :
      k \in YearKeys(year, CombinedDa(At(V, e, "annual"))) }

TrailingExpected(w, V) ==
  { Quantity(k, w.start, w.end, "ltm") :
      k \in RequiredKeys \ (IF CombinedDa(At(V, w.end, "ltm")) THEN {"da"} ELSE {}) }

\* X is the consolidated XBRL side of the view V, ends its complete years.
Expected(V, X, ends, window) ==
  (UNION { AnnualExpected(At(X, e, "annual"), e, V) : e \in ends })
    \cup (UNION { TrailingExpected(w, V) : w \in { v \in window : ~Superseded(v, ends) } })

-----------------------------------------------------------------------------
(* Comparing the filings with CIQ: a consolidated view holds one vintage of a
   figure and a bound view one CIQ run, so all of both sides is current. *)

Distance(a, b) == IF a < b THEN b - a ELSE a - b

\* Providers date the start of the same window up to a day apart.
OneWindow(s, t) == s = t \/ (s # 0 /\ t # 0 /\ Distance(s, t) <= 1)

\* "reported" stands for any kind.
PeriodCompatible(f, g) ==
  /\ f.end = g.end /\ OneWindow(f.start, g.start)
  /\ f.kind = g.kind \/ "reported" \in {f.kind, g.kind}

Overlap(x, c) == x.statement = c.statement /\ x.key = c.key /\ PeriodCompatible(x, c)

Alternates(k, l) == k = l \/ {k, l} \subseteq NetChangeKeys

Matches(q, f) ==
  /\ q.statement = f.statement \/ q.key = "net_income"
  /\ Alternates(q.key, f.key)
  /\ q.end = f.end /\ q.kind = f.kind
  /\ q.start = 0 \/ OneWindow(q.start, f.start)

Finding(type, blocking, key, end, start, of) ==
  [type |-> type, blocking |-> blocking, key |-> key, end |-> end, start |-> start,
   facts |-> { f.id : f \in of }]

\* Zero against a figure, or opposite signs, is no difference of classification.
Structural(x, c) == (x.value = 0) # (c.value = 0) \/ x.value * c.value < 0

Disagree(x, c) == Distance(x.value, c.value) > Tolerance

Disagreements(X, C) ==
  { Finding("material_disagreement", Structural(p[1], p[2]), p[1].key, p[1].end, 0, {p[1], p[2]}) :
      p \in { q \in X \X C : Overlap(q[1], q[2]) /\ Disagree(q[1], q[2]) } }

OtherWindows(q, counterpart) ==
  { f \in counterpart : Alternates(q.key, f.key) /\ f.end = q.end /\ f.start # q.start }

\* Another window of the quantity is a known limitation, no data at all is not.
Absence(q, shown, other) ==
  IF other # {}
  THEN Finding("non_comparable_fiscal_window", FALSE, q.key, q.end, q.start, other)
  ELSE Finding("missing_source_overlap", TRUE, q.key, q.end, q.start, shown)

Shown(q, A) == { f \in A : Matches(q, f) }

Missing(X, C, expected) ==
  { Absence(q, Shown(q, X \cup C), OtherWindows(q, IF Shown(q, C) = {} THEN C ELSE X)) :
      q \in { p \in expected : Shown(p, X) = {} \/ Shown(p, C) = {} } }

-----------------------------------------------------------------------------
(* The two checks on the filing's own statements. *)

StatementRank(f) ==
  CASE f.statement = "balance" -> 1 [] f.statement = "cash_flow" -> 2 [] OTHER -> 3

\* _amount: the last in the order of the consolidated view; none or one.
AmountOf(X, keys, end) ==
  LET rank(f) == <<StatementRank(f), f.start, One(f.kind = "ltm"), f.context>>
      figures == { f \in X : f.key \in keys /\ f.end = end }
  IN  { f \in figures : \A g \in figures : ~Before(rank(f), rank(g)) }

Value(F) == (CHOOSE f \in F : TRUE).value

Check(name, end, status, of) ==
  [name |-> name, end |-> end, status |-> status, facts |-> of]

Verdict(expected, actual) == IF Distance(expected, actual) <= Tolerance THEN "pass" ELSE "fail"

\* claims is liabilities_and_equity; without it, both liabilities and equity.
BalanceCheck(e, assets, claims, liabilities, equity) ==
  LET identity(status, of) == Check("balance_sheet_identity", e, status, assets \cup of)
  IN  CASE claims # {} -> identity(Verdict(Value(claims), Value(assets)), claims)
        [] claims = {} /\ {} \notin {liabilities, equity} ->
             identity(Verdict(Value(liabilities) + Value(equity), Value(assets)), liabilities \cup equity)
        [] OTHER -> identity("not_ready", liabilities \cup equity)

BalanceChecks(X, ends) ==
  { BalanceCheck(e, AmountOf(X, {"assets"}, e), AmountOf(X, {"claims"}, e),
                 AmountOf(X, {"liabilities"}, e), AmountOf(X, {"equity"}, e)) :
      e \in { d \in ends : AmountOf(X, {"assets"}, d) # {} } }

BridgeOf(e, opening, change, ending) ==
  Check("cash_flow_to_cash_bridge", e,
        IF {} \in {opening, change, ending} THEN "not_ready"
        ELSE Verdict(Value(opening) + Value(change), Value(ending)),
        opening \cup change \cup ending)

FirstOf(F, G) == IF F # {} THEN F ELSE G

\* The opening balance may be presented under the other cash line.
Opening(X, line, change) ==
  LET of(keys) == UNION { AmountOf(X, keys, f.start - 1) : f \in { g \in change : g.start # 0 } }
  IN  FirstOf(of(line), of(CashKeys \ line))

\* The cash line goes with the net change.
Bridge(X, e, line, change) == BridgeOf(e, Opening(X, line, change), change, AmountOf(X, line, e))

CashBridge(X, e) ==
  IF AmountOf(X, {"net_change_restricted"}, e) # {}
  THEN Bridge(X, e, {"cash_restricted"}, AmountOf(X, {"net_change_restricted"}, e))
  ELSE Bridge(X, e, {"cash"}, AmountOf(X, {"net_change"}, e))

\* The earliest year has no opening balance in the view: it is not asked to bridge.
CashBridges(X, ends) ==
  { c \in { CashBridge(X, e) : e \in { d \in ends : \E b \in ends : b < d } } : c.facts # {} }

-----------------------------------------------------------------------------
(* Readiness. *)

CheckFindings(checks) ==
  { Finding(c.name, TRUE, c.status, c.end, 0, c.facts) :
      c \in { d \in checks : d.status # "pass" } }

\* A combined line neither CIQ nor an approved treatment takes apart.
PureDaMissing(V, supplied) ==
  CombinedOnly(Keys(On(Xbrl(V), "cash_flow"))) /\ ~CombinedDa(V) /\ "da" \notin supplied

LtmReady(window) == \E w \in window : HasRequired(w)

\* assess_statement_readiness: a blocking finding or a failed check blocks; anything
\* missing or left to review keeps the run short of decision-grade.
Status(blocked, incomplete) ==
  IF blocked THEN "blocked" ELSE IF incomplete THEN "provisional" ELSE "decision_grade"

Readiness(findings, checks, pureDaMissing, incomplete) ==
  [status   |-> Status(\/ \E f \in findings : f.blocking
                       \/ \E c \in checks : c.status = "fail"
                       \/ pureDaMissing,
                       \/ incomplete \/ findings # {}
                       \/ { c.name : c \in checks }
                            # {"balance_sheet_identity", "cash_flow_to_cash_bridge"}
                       \/ \E c \in checks : c.status # "pass"),
   findings |-> findings \cup CheckFindings(checks)]

Compared(X, C) == \E x \in X, c \in C : Overlap(x, c)

\* attested: manifests of both sources, every one with a complete inventory.
Assess(V, supplied, attested) ==
  LET X        == Consolidated(V)
      C        == Ciq(V)
      ends     == AnnualEnds(X, V, supplied)
      window   == PreferredWindow(X, V)
      expected == IF attested THEN Expected(V, X, ends, window) ELSE {}
  IN  Readiness(Disagreements(X, C) \cup Missing(X, C, expected),
                BalanceChecks(X, ends) \cup CashBridges(X, ends),
                PureDaMissing(V, supplied),
                \/ expected = {} \/ ~Compared(X, C)
                \/ Cardinality(ends) < MinAnnual
                \/ ~LtmReady(window))

Attested(chosen) ==
  { m.source : m \in chosen } = {"presentation", "ciq"} /\ \A m \in chosen : m.complete

-----------------------------------------------------------------------------

Row(cutoff, chosen, V, readiness) ==
  [asOf      |-> cutoff,
   manifests |-> { m.id : m \in chosen },
   view      |-> { f.id : f \in V },
   status    |-> readiness.status,
   findings  |-> readiness.findings]

\* reconcile_ticker_statements up to its writes, on what was loaded.
Reconciled(F, ms, supplied, asked) ==
  LET cutoff    == ResolvedCutoff(F, ms, asked)
      filings   == { ms[i] : i \in XbrlManifests(ms, cutoff) }
      workbooks == { ms[i] : i \in CiqManifests(ms, cutoff) }
      V         == View(ManifestBound(FactsAsOf(F, cutoff), filings, workbooks), supplied)
      chosen    == filings \cup workbooks
  IN  Row(cutoff, chosen, V, Assess(V, supplied, Attested(chosen)))
==================================================================================
