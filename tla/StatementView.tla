------------------------------ MODULE StatementView ------------------------------
(***************************************************************************)
(* From the facts and the coverage manifests in the database to the view   *)
(* of a ticker's statements that a reconciliation looks at: as of a        *)
(* cutoff, bound to the manifests of both sources, limited to the newest   *)
(* complete years and one trailing window (reconcile_ticker_statements).   *)
(*                                                                         *)
(* Facts are consolidated and numeric, in one unit and currency, and       *)
(* presented under a statement role; their keys are the canonical ones.    *)
(* A date is a number and 0 is no date; a fact without start is an         *)
(* instant.  `id' also stands for the ingestion fingerprint.               *)
(***************************************************************************)
EXTENDS Integers, FiniteSets, Sequences

CONSTANTS
  IncomeKeys,    \* _ANNUAL_REQUIRED_KEYS of the income statement
  CashFlowKeys,  \* ... and of the cash flow statement, "da" among them
  MinAnnual,     \* annual periods a decision needs: 3 in the code
  MaxAnnual,     \* _MAX_ANNUAL_PERIODS: 5 in the code
  Tolerance      \* what two figures may differ by

ASSUME BoundsAssumption == MinAnnual \in Nat /\ MaxAnnual \in Nat \ {0} /\ Tolerance \in Nat

RequiredKeys == IncomeKeys \cup CashFlowKeys

NetChangeKeys == {"net_change", "net_change_restricted"}

CashKeys == {"cash", "cash_restricted"}

ASSUME KeysAssumption == RequiredKeys \cap (NetChangeKeys \cup CashKeys \cup {"assets"}) = {}

Filed == {"presentation", "derived"}

Keys(F) == { f.key : f \in F }

Xbrl(F) == { f \in F : f.source \in Filed }

Ciq(F) == { f \in F : f.source = "ciq" }

On(F, statement) == { f \in F : f.statement = statement }

At(F, end, kind) == { f \in F : f.end = end /\ f.kind = kind }

\* Lexicographic order of equally long tuples of numbers.
Before(a, b) ==
  \E i \in DOMAIN a : a[i] < b[i] /\ \A j \in 1..(i - 1) : a[j] = b[j]

One(bool) == IF bool THEN 1 ELSE 0

-----------------------------------------------------------------------------
(* As of a cutoff: manifests, and the facts they name. *)

DateOf(f) == IF f.filed # 0 THEN f.filed ELSE f.end

\* Mutant: the facts are not cut off, only the manifests.
AnyDate(F, cutoff) == F

FactsAsOf(F, cutoff) == { f \in F : DateOf(f) <= cutoff }

\* Without a cutoff of the caller's: the latest date of all the evidence.
ResolvedCutoff(F, ms, asked) ==
  LET dates == { DateOf(f) : f \in F } \cup { ms[i].cutoff : i \in DOMAIN ms } \cup {0}
  IN  IF asked # 0 THEN asked ELSE CHOOSE d \in dates : \A e \in dates : e <= d

\* Positions in ms, which is in the order of created_at.
Loaded(ms, cutoff) == { i \in DOMAIN ms : ms[i].cutoff <= cutoff /\ ms[i].completed }

\* The newest of each accession, unless its inventory is incomplete; at most
\* _MAX_ANNUAL_PERIODS + 1 of them.
XbrlManifests(ms, cutoff) ==
  LET filings == { i \in Loaded(ms, cutoff) : ms[i].source = "presentation" }
      newest  == { i \in filings : \A j \in filings : ms[j].origin = ms[i].origin => j <= i }
      usable  == { i \in newest : ms[i].complete }
  IN  { i \in usable : Cardinality({ j \in usable : j > i }) <= MaxAnnual }

\* The first in store order: by cutoff, then by created_at.
CiqManifests(ms, cutoff) ==
  LET workbooks == { i \in Loaded(ms, cutoff) : ms[i].source = "ciq" }
  IN  { i \in workbooks : \A j \in workbooks \ {i} : Before(<<ms[j].cutoff, j>>, <<ms[i].cutoff, i>>) }

\* Derived trailing facts are named by no manifest.
ManifestBound(F, filings, workbooks) ==
  LET named(M) == UNION { m.facts : m \in M }
  IN  { f \in F :
          \/ f.source = "presentation" /\ f.id \in named(filings)
          \/ f.source = "derived" /\ filings # {}
          \/ f.source = "ciq" /\ f.id \in named(workbooks) /\ \E m \in workbooks : m.origin = f.origin }

-----------------------------------------------------------------------------
(* Vintages, complete years and the trailing window. *)

SameQuantity(f, g) ==
  <<f.statement, f.key, f.start, f.end, f.kind, f.context>>
    = <<g.statement, g.key, g.start, g.end, g.kind, g.context>>

Vintage(f) == <<One(f.source = "presentation"), f.filed, f.origin, f.id>>

\* Mutant: the oldest vintage of a quantity instead of the newest.
Oldest(F) ==
  { f \in Xbrl(F) : \A g \in Xbrl(F) : SameQuantity(f, g) => ~Before(Vintage(g), Vintage(f)) }

Consolidated(F) ==
  { f \in Xbrl(F) : \A g \in Xbrl(F) : SameQuantity(f, g) => ~Before(Vintage(f), Vintage(g)) }

CombinedOnly(filed) == "da" \notin filed /\ "combined_da" \in filed

\* A combined "depreciation, amortization, and other" line takes da from CIQ.
CombinedDa(F) ==
  CombinedOnly(Keys(On(Xbrl(F), "cash_flow"))) /\ "da" \in Keys(On(Ciq(F), "cash_flow"))

CashFlowIsComplete(keys) == CashFlowKeys \subseteq keys /\ NetChangeKeys \cap keys # {}

BalanceIsComplete(keys) ==
  /\ "assets" \in keys /\ CashKeys \cap keys # {}
  /\ "claims" \in keys \/ {"liabilities", "equity"} \subseteq keys

YearIsComplete(year, end, F, supplied) ==
  /\ IncomeKeys \subseteq Keys(On(year, "income"))
  /\ CashFlowIsComplete(Keys(On(year, "cash_flow")) \cup supplied
                          \cup (IF CombinedDa(At(F, end, "annual")) THEN {"da"} ELSE {}))
  /\ BalanceIsComplete(Keys(On(year, "balance")))

Annual(X) == { f \in X : f.source = "presentation" /\ f.kind = "annual" }

Latest(ends) == { e \in ends : Cardinality({ d \in ends : d > e }) < MaxAnnual }

\* X is the consolidated XBRL side of F.
AnnualEnds(X, F, supplied) ==
  Latest({ e \in { f.end : f \in Annual(X) } :
             YearIsComplete(At(Annual(X), e, "annual"), e, F, supplied) })

\* The CIQ facts that complete a window whose filing combines da.
ApprovedSource(F, start, end, kind) ==
  { f \in On(Ciq(At(F, end, kind)), "cash_flow") :
      f.key = "da" /\ f.start = start /\ CombinedDa(At(F, end, kind)) }

Windowed(X, w) ==
  { f \in X : f.kind = "ltm" /\ <<f.source, f.origin, f.start, f.end>> = w }

TrailingGroups(X, F) ==
  { [family |-> w[1], origin |-> w[2], start |-> w[3], end |-> w[4],
     facts |-> Windowed(X, w) \cup ApprovedSource(F, w[3], w[4], "ltm")] :
      w \in { <<f.source, f.origin, f.start, f.end>> : f \in { g \in X : g.kind = "ltm" } } }

YearStart(year) == (CHOOSE f \in year : f.start # 0).start

Window(year, start, end, F) ==
  [family |-> "annual", origin |-> 0, start |-> start, end |-> end,
   facts |-> year \cup ApprovedSource(F, start, end, "annual")]

\* A complete year is a trailing window too; treatments do not count here.
AnnualGroup(year, end, F) == Window(year, YearStart(year), end, F)

HasRequired(group) == RequiredKeys \subseteq Keys(group.facts)

YearGroups(X, F) == { AnnualGroup(At(Annual(X), e, "annual"), e, F) : e \in AnnualEnds(X, F, {}) }

AnnualGroups(X, F) == { g \in YearGroups(X, F) : HasRequired(g) }

GroupRank(g) ==
  <<g.end, One(HasRequired(g)), One(g.family = "presentation"), g.start, g.origin>>

BestOf(groups) ==
  { g \in groups : \A h \in groups : ~Before(GroupRank(g), GroupRank(h)) }

\* The newest window; a complete year wins a tie.
Newer(year, trailing) ==
  IF \E y \in year : \A t \in trailing : y.end >= t.end THEN year ELSE trailing

\* At most one; a year that CIQ completes only where there is nothing better.
PreferredWindow(X, F) ==
  IF AnnualGroups(X, F) = {} /\ TrailingGroups(X, F) = {}
  THEN BestOf(YearGroups(X, F))
  ELSE Newer(BestOf(AnnualGroups(X, F)), BestOf(TrailingGroups(X, F)))

Parts(window) == UNION { f.parts : f \in UNION { w.facts : w \in window } }

\* The annual facts of the years, one trailing window with its parts, and the balances
\* the years open with.
Bounded(F, ends) ==
  LET X       == Consolidated(F)
      window  == PreferredWindow(X, F)
      opening == { f.start - 1 : f \in { g \in X : g.end \in ends /\ g.key \in NetChangeKeys } }
  IN  { f \in F :
          \/ f.kind = "annual" /\ f.end \in ends
          \/ f.kind = "ltm" /\ \E w \in window : <<w.start, w.end>> = <<f.start, f.end>>
          \/ f.id \in Parts(window)
          \/ f.start = 0 /\ f.end \in opening }

\* The complete years: of the consolidated filings, and CIQ completes them.
CompleteYears(F, supplied) == AnnualEnds(Consolidated(F), F, supplied)

\* Mutant: the years are selected without what a treatment supplies.
UntreatedView(F, supplied) == Bounded(F, CompleteYears(F, {}))

\* _bounded_selected_view
View(F, supplied) == Bounded(F, CompleteYears(F, supplied))
==================================================================================
