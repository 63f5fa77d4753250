----------------------------- MODULE MCReviewDesk -----------------------------
(* Two handlers at once over small queues, one situation per initial state. *)
EXTENDS ApprovedCases, TLC

CONSTANTS r1, r2, v1, v2

TwoReviewers == {r1, r2}

TwoRunners == {v1, v2}

ReviewersSymmetric == Permutations(TwoReviewers)

-----------------------------------------------------------------------------
Scalar(proposals) == [family |-> Missing, proposals |-> proposals]

Raise == Scalar(<<[name |-> "growth", mode |-> "delta", amount |-> 1]>>)

Fix == Scalar(<<[name |-> "growth", mode |-> "target", amount |-> 3]>>)

Both ==
  Scalar(<<[name |-> "growth", mode |-> "inapplicable", amount |-> Missing],
           [name |-> "margin", mode |-> "delta", amount |-> 2]>>)

Frozen(treated) == [market |-> 0, treatments |-> treated, gaps |-> {}]

FamilyPack(family, name, amount, snapshot) ==
  [family |-> family, snapshot |-> snapshot, accepted |-> TRUE, fits |-> TRUE,
   proposals |-> <<[name |-> name, mode |-> "scenarios", amount |-> amount]>>]

Growth(amount) == FamilyPack("growth_family", "growth", amount, Frozen({}))

Margin(snapshot) == FamilyPack("margin_family", "margin", 1, snapshot)

Desk(queue, proposed, bound) ==
  [items |-> queue, events |-> {}, changes |-> proposed, requests |-> <<>>, runs |-> {}, calls |-> bound]

Pack(pack) == NewItem("pack", pack, Missing, FALSE)

Accounting(corpus) == NewItem("pack", Fix, "leases", corpus)

Finding == NewItem("advisory", Missing, Missing, FALSE)

Disclosure == NewItem("advisory", Missing, "leases", TRUE)

ScalarDesk == Desk(<<Pack(Raise)>>, <<>>, 4)

TwoDesk == Desk(<<Pack(Both)>>, <<>>, 4)

AccountingDesk == Desk(<<Accounting(TRUE), Disclosure>>, <<>>, 3)

UnhashedDesk == Desk(<<Accounting(FALSE)>>, <<>>, 4)

FamilyDesk == Desk(<<Pack(Growth(1)), Pack(Growth(2))>>, <<>>, 4)

AgentDesk == Desk(<<>>, <<NewChange("growth", 1, 0), NewChange("growth", 2, 0)>>, 4)

Requested == [snapshot |-> Frozen({}), status |-> "pending"]

RequestDesk == [Desk(<<>>, <<>>, 4) EXCEPT !.requests = <<Requested, Requested>>]

FindingDesk == Desk(<<Finding>>, <<>>, 4)

\* A family approved in the past, and its event.
Approved(pack) ==
  [Pack(pack) EXCEPT !.status = "approved", !.approved = pack,
     !.links.fingerprint = FamilyFingerprint(pack), !.links.approval = FamilyFingerprint(pack)]

ApprovalOf(i, pack) == [item |-> i, event |-> "approve", approval |-> FamilyFingerprint(pack)]

\* Of a pack that was previewed.
Previewed(pack) ==
  [Pack(pack) EXCEPT !.status = "previewed", !.links.fingerprint = FamilyFingerprint(pack)]

TwoApproved == <<Approved(Margin(Frozen({}))), Approved(Growth(1))>>

TheirEvents == {ApprovalOf(1, Margin(Frozen({}))), ApprovalOf(2, Growth(1))}

\* A complete bundle, rivals for one of its families, a request to rule on.
CaseDesk ==
  [Desk(TwoApproved \o <<Previewed(Growth(2)), Previewed([Growth(3) EXCEPT !.fits = FALSE])>>, <<>>, 3)
     EXCEPT !.events = TheirEvents, !.requests = <<Requested>>, !.runs = {v1}]

\* One family is missing: a run may ask for a change of the model meanwhile.
FilingDesk ==
  [Desk(<<Approved(Margin(Frozen({}))), Previewed(Growth(1))>>, <<>>, 2)
     EXCEPT !.events = {ApprovalOf(1, Margin(Frozen({})))}, !.runs = {v1, v2}]

\* A treatment is about to change the snapshot; a critic did not accept a pack.
StaleDesk ==
  [Desk(TwoApproved \o <<Accounting(TRUE), Pack([Margin(Frozen({1})) EXCEPT !.accepted = FALSE])>>, <<>>, 2)
     EXCEPT !.events = TheirEvents, !.runs = {v1}]

AllDesks ==
  {ScalarDesk, TwoDesk, AccountingDesk, UnhashedDesk, FamilyDesk, AgentDesk, RequestDesk, FindingDesk,
   CaseDesk, FilingDesk, StaleDesk}

JustFindings == {FindingDesk}

MCEdits == {Fix, Growth(3)}

MCGaps ==
  {{}, {"failed_reconciliation"}, {"missing_context"}, {"unsupported_model"}, {"unresolved_clamps"}}
=============================================================================
