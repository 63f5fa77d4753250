------------------------ MODULE StatementLedgerProofs ------------------------
(***************************************************************************)
(* Proofs about StatementLedger for any documents with any facts, any      *)
(* number of reconcilers and any cutoffs.                                  *)
(***************************************************************************)
EXTENDS StatementLedger, TLAPS, FiniteSetTheorems, WellFoundedInduction

\* The orders in which the manifests of a history can have been persisted.
Orders(h) == { h.first \o s : s \in SetToAllKPermutations(h.later) }

Insertions(h) == { ToSet(h.first) \cup S : S \in SUBSET h.later }

Treatments == {{}, {"da"}}

Reading(h) == [facts : Insertions(h), manifests : Orders(h), treated : Treatments, asked : Cutoffs]

\* What the database holds of a history of which `later' is still to come.
LedgerInv(h) ==
  /\ later \subseteq h.later
  /\ facts = ToSet(h.first) \cup (h.later \ later)
  /\ manifests \in Orders(h)
  /\ ToSet(manifests) \subseteq facts
  /\ treated \in Treatments

\* Every run is one a reading gives, and the facts it read are still there.
RunsInv ==
  /\ runs \subseteq Assessments
  /\ \A x \in runs : x.read.facts \subseteq facts

Statuses == Open \cup {"decided", "superseded"}

Found(i) ==
  \E x \in runs : \E f \in x.row.findings :
    \E status \in Statuses, family \in BOOLEAN : i = Item(x.row, f, status, family)

ItemsInv == \A i \in items : Found(i)

\* What the PM's handlers have read is an item, found by the reconciliation that queued
\* last or in hand when it did.
HandledInv ==
  /\ open = [h \in Handler |-> open[h]]
  /\ \A c \in Handled :
       /\ Key(c) \in found \cup inHand
       /\ \E i \in items : Key(i) = Key(c)

DeskInv == ItemsInv /\ HandledInv /\ OneViewButForWorkInHand

\* A reading in progress is one of the history's, as far as it goes, and its facts are
\* among those stored, F; what is to be put before the PM is a run that is persisted, in R.
Doing(h, j, F, R) ==
  /\ j.at \in {"idle", "facts", "manifests", "persisted"}
  /\ j.at = "facts" =>
       \E read \in Insertions(h), c \in Cutoffs :
         /\ read \subseteq F
         /\ j = [at   |-> "facts",
                 read |-> [facts |-> read, manifests |-> <<>>, treated |-> {}, asked |-> c]]
  /\ j.at = "manifests" =>
       \E read \in Insertions(h), m \in Orders(h), c \in Cutoffs :
         /\ read \subseteq F
         /\ j = [at   |-> "manifests",
                 read |-> [facts |-> read, manifests |-> m, treated |-> {}, asked |-> c]]
  /\ j.at = "persisted" => RunOf(j.read) \in R

JobInv(h) == \A r \in Reconciler : Doing(h, job[r], facts, runs)

HistoryInv(h) == LedgerInv(h) /\ JobInv(h)

IInv ==
  /\ \E h \in Histories : HistoryInv(h)
  /\ job = [r \in Reconciler |-> job[r]]
  /\ RunsInv
  /\ DeskInv

-----------------------------------------------------------------------------
(* The operators. *)

\* SetToAllKPermutations lists the sequences over a finite set without duplicates.
LEMMA PermutationsAre ==
  ASSUME NEW S, IsFiniteSet(S), NEW s \in SetToAllKPermutations(S)
  PROVE  s \in Seq(S) /\ IsInjective(s)
<1>1. PICK T \in SUBSET S : s \in SetToSeqs(T)
  BY DEF SetToAllKPermutations
<1>2. Cardinality(T) \in Nat
  BY FS_Subset, FS_CardinalityType
<1>3. s \in [1..Cardinality(T) -> T] /\ \A i, j \in 1..Cardinality(T) : i # j => s[i] # s[j]
  BY <1>1 DEF SetToSeqs
<1>4. s \in [1..Cardinality(T) -> S]
  BY <1>3
<1>5. s \in Seq(S)
  BY <1>2, <1>4
<1> QED
  BY <1>3, <1>5 DEF IsInjective

\* The range of a sequence without duplicates is as large as the sequence is long.
LEMMA InjectiveLength ==
  ASSUME NEW S, NEW s \in Seq(S), IsInjective(s)
  PROVE  IsFiniteSet(ToSet(s)) /\ Cardinality(ToSet(s)) = Len(s)
<1>1. Len(s) \in Nat /\ DOMAIN s = 1..Len(s)
  OBVIOUS
<1>2. s \in [1..Len(s) -> ToSet(s)]
  BY <1>1 DEF ToSet
<1>3. s \in Bijection(1..Len(s), ToSet(s))
  BY <1>1, <1>2 DEF Bijection, Injection, Surjection, IsInjective, ToSet
<1>4. IsFiniteSet(1..Len(s)) /\ Cardinality(1..Len(s)) = Len(s)
  BY <1>1, FS_Interval
<1> QED
  BY <1>3, <1>4, FS_Bijection DEF ExistsBijection

\* ... and the other way round.
LEMMA InjectiveIsPermutation ==
  ASSUME NEW S, NEW s \in Seq(S), IsInjective(s)
  PROVE  s \in SetToAllKPermutations(S)
<1>1. Cardinality(ToSet(s)) = Len(s)
  BY InjectiveLength
<1>2. Len(s) \in Nat /\ DOMAIN s = 1..Len(s) /\ s \in [1..Len(s) -> S]
  OBVIOUS
<1>3. ToSet(s) \in SUBSET S
  BY <1>2 DEF ToSet
<1>4. s \in [1..Cardinality(ToSet(s)) -> ToSet(s)]
  BY <1>1, <1>2 DEF ToSet
<1>5. s \in SetToSeqs(ToSet(s))
  BY <1>1, <1>2, <1>4 DEF SetToSeqs, IsInjective
<1> QED
  BY <1>3, <1>5 DEF SetToAllKPermutations

\* No manifest is persisted twice.
LEMMA OrdersAre ==
  ASSUME NEW h \in Histories, NEW m \in Orders(h)
  PROVE  m \in Seq(DOMAIN Manifest) /\ IsInjective(m)
<1>1. PICK s \in SetToAllKPermutations(h.later) : m = h.first \o s
  BY DEF Orders
<1>2. s \in Seq(h.later) /\ IsInjective(s)
  BY HistoriesAssumption, PermutationsAre
<1>3. h.first \in Seq(DOMAIN Manifest) /\ IsInjective(h.first)
  BY HistoriesAssumption
<1>4. h.later \subseteq DOMAIN Manifest /\ \A i \in DOMAIN h.first : h.first[i] \notin h.later
  BY HistoriesAssumption DEF ToSet
<1>5. s \in Seq(DOMAIN Manifest)
  BY <1>2, <1>4
<1>6. m \in Seq(DOMAIN Manifest)
  BY <1>1, <1>3, <1>5
<1>7. ASSUME NEW i \in DOMAIN m, NEW j \in DOMAIN m, m[i] = m[j]
      PROVE  i = j
  <2>1. /\ DOMAIN h.first = 1..Len(h.first) /\ Len(h.first) \in Nat
        /\ DOMAIN s = 1..Len(s) /\ Len(s) \in Nat
        /\ DOMAIN m = 1..(Len(h.first) + Len(s))
    BY <1>1, <1>3, <1>5
  <2>2. ASSUME NEW k \in DOMAIN m
        PROVE  \/ k \in DOMAIN h.first /\ m[k] = h.first[k]
               \/ k - Len(h.first) \in DOMAIN s /\ m[k] = s[k - Len(h.first)]
    BY <1>1, <1>3, <1>5, <2>1
  <2>3. \A k \in DOMAIN s : s[k] \in h.later
    BY <1>2
  <2>4. /\ \/ i \in DOMAIN h.first /\ m[i] = h.first[i]
           \/ i - Len(h.first) \in DOMAIN s /\ m[i] = s[i - Len(h.first)]
        /\ \/ j \in DOMAIN h.first /\ m[j] = h.first[j]
           \/ j - Len(h.first) \in DOMAIN s /\ m[j] = s[j - Len(h.first)]
    BY <2>2
  <2> QED
    BY <1>2, <1>3, <1>4, <1>7, <2>1, <2>3, <2>4 DEF IsInjective
<1> QED
  BY <1>6, <1>7 DEF IsInjective

\* Before anything is published the manifests are those of the history.
LEMMA FirstIsAnOrder ==
  ASSUME NEW h \in Histories
  PROVE  h.first \in Orders(h)
<1>1. <<>> \in SetToAllKPermutations(h.later)
  <2>1. <<>> \in Seq(h.later) /\ IsInjective(<<>>)
    BY DEF IsInjective
  <2> QED
    BY <2>1, InjectiveIsPermutation
<1>2. h.first = h.first \o <<>>
  BY HistoriesAssumption
<1> QED
  BY <1>1, <1>2 DEF Orders

\* Sequences of one length with the same elements are equal.
LEMMA SeqEqual ==
  ASSUME NEW S, NEW s \in Seq(S), NEW t \in Seq(S), Len(s) = Len(t),
         \A i \in 1..Len(s) : s[i] = t[i]
  PROVE  s = t
  OBVIOUS

\* Names for two operators of sequences the provers take apart.
Joined(s, t) == s \o t

Longer(s, d) == Append(s, d)

\* Appending to the second of two joined sequences.
LEMMA AppendToConcat ==
  ASSUME NEW S, NEW s \in Seq(S), NEW t \in Seq(S), NEW d \in S
  PROVE  Longer(Joined(s, t), d) = Joined(s, Longer(t, d))
<1> DEFINE u == Append(t, d)
           v == s \o t
<1>1. /\ u \in Seq(S) /\ Len(u) = Len(t) + 1 /\ u[Len(t) + 1] = d
      /\ \A i \in 1..Len(t) : u[i] = t[i]
  OBVIOUS
<1>2. /\ v \in Seq(S) /\ Len(v) = Len(s) + Len(t)
      /\ \A i \in 1..Len(s) : v[i] = s[i]
      /\ \A i \in 1..Len(t) : v[Len(s) + i] = t[i]
  OBVIOUS
<1>3. Len(s) \in Nat /\ Len(t) \in Nat
  OBVIOUS
<1> HIDE DEF u, v
<1>4. /\ Append(v, d) \in Seq(S) /\ Len(Append(v, d)) = Len(s) + Len(t) + 1
      /\ Append(v, d)[Len(s) + Len(t) + 1] = d
      /\ \A i \in 1..(Len(s) + Len(t)) : Append(v, d)[i] = v[i]
  BY <1>2, <1>3
<1>5. /\ s \o u \in Seq(S) /\ Len(s \o u) = Len(s) + Len(t) + 1
      /\ \A i \in 1..Len(s) : (s \o u)[i] = s[i]
      /\ \A i \in 1..(Len(t) + 1) : (s \o u)[Len(s) + i] = u[i]
  BY <1>1, <1>3
<1>6. ASSUME NEW i \in 1..(Len(s) + Len(t) + 1)
      PROVE  Append(v, d)[i] = (s \o u)[i]
  <2>1. CASE i \in 1..Len(s)
    BY <1>2, <1>3, <1>4, <1>5, <2>1
  <2>2. CASE i \notin 1..Len(s)
    <3>1. PICK j \in 1..(Len(t) + 1) : i = Len(s) + j
      <4>1. i - Len(s) \in 1..(Len(t) + 1) /\ i = Len(s) + (i - Len(s))
        BY <1>3, <2>2
      <4> QED
        BY <4>1
    <3>2. CASE j = Len(t) + 1
      BY <1>1, <1>3, <1>4, <1>5, <3>1, <3>2
    <3>3. CASE j \in 1..Len(t)
      BY <1>1, <1>2, <1>3, <1>4, <1>5, <3>1, <3>3
    <3>4. j = Len(t) + 1 \/ j \in 1..Len(t)
      BY <1>3
    <3> QED
      BY <3>2, <3>3, <3>4
  <2> QED
    BY <2>1, <2>2
<1>7. Append(v, d) = s \o u
  BY <1>3, <1>4, <1>5, <1>6, SeqEqual
<1> QED
  BY <1>7 DEF u, v, Joined, Longer

\* A manifest that is not there yet can be the next.
LEMMA OrderGrows ==
  ASSUME NEW h \in Histories, NEW m \in Orders(h), NEW d \in h.later,
         \A i \in DOMAIN m : m[i] # d
  PROVE  Append(m, d) \in Orders(h)
<1>1. PICK s \in SetToAllKPermutations(h.later) : m = h.first \o s
  BY DEF Orders
<1>2. s \in Seq(h.later) /\ IsInjective(s)
  BY HistoriesAssumption, PermutationsAre
<1>3. h.first \in Seq(DOMAIN Manifest)
  BY HistoriesAssumption
<1>4. Append(m, d) = h.first \o Append(s, d)
  <2>1. s \in Seq(DOMAIN Manifest) /\ d \in DOMAIN Manifest
    BY <1>2, HistoriesAssumption
  <2> DEFINE first == h.first
             D == DOMAIN Manifest
  <2>2. first \in Seq(D) /\ s \in Seq(D) /\ d \in D
    BY <1>3, <2>1
  <2> HIDE DEF first, D
  <2>3. Longer(Joined(first, s), d) = Joined(first, Longer(s, d))
    BY <2>2, AppendToConcat
  <2> QED
    BY <1>1, <2>3 DEF first, Joined, Longer
<1>5. \A i \in DOMAIN s : s[i] # d
  <2> SUFFICES ASSUME NEW i \in DOMAIN s
               PROVE  s[i] # d
    OBVIOUS
  <2>1. Len(h.first) + i \in DOMAIN m /\ m[Len(h.first) + i] = s[i]
    BY <1>1, <1>2, <1>3
  <2> QED
    BY <2>1
<1>6. Append(s, d) \in Seq(h.later) /\ IsInjective(Append(s, d))
  BY <1>2, <1>5 DEF IsInjective
<1> QED
  BY <1>4, <1>6, InjectiveIsPermutation DEF Orders

\* The run of a reading is the one that was assessed from it.
LEMMA RunOfReading ==
  ASSUME NEW h \in Histories, NEW read \in Reading(h)
  PROVE  RunOf(read) = Assessed(read) /\ RunOf(read) \in Assessments
<1>1. read \in Readings
  <2>1. Readings = UNION { Reading(g) : g \in Histories }
    BY DEF Reading, Readings, Insertions, Orders, Treatments
  <2> QED
    BY <2>1
<1>2. Assessed(read) \in Assessments /\ Assessed(read).read = read
  BY <1>1 DEF Assessments, Assessed
<1>3. RunOf(read) \in Assessments /\ RunOf(read).read = read
  BY <1>2 DEF RunOf
<1>4. PICK x \in Readings : RunOf(read) = Assessed(x)
  BY <1>3 DEF Assessments
<1>5. x = read
  BY <1>3, <1>4 DEF Assessed
<1> QED
  BY <1>3, <1>4, <1>5

\* Every run is one of a reading of some history.
LEMMA AssessmentsAre ==
  ASSUME NEW x \in Assessments
  PROVE  \E h \in Histories : x.read \in Reading(h) /\ x = Assessed(x.read)
<1>1. PICK read \in Readings : x = Assessed(read)
  BY DEF Assessments
<1>2. x.read = read
  BY <1>1 DEF Assessed
<1> QED
  BY <1>1, <1>2 DEF Readings, Reading, Insertions, Orders, Treatments

\* What the row of a run shows: a view of facts it read, and one of three statuses.
LEMMA RowsAre ==
  ASSUME NEW x \in Assessments
  PROVE  /\ x.row.status \in {"blocked", "provisional", "decision_grade"}
         /\ x.row.view \subseteq { f.id : f \in FactsOf(x.read.facts) }
<1>1. PICK read : x = Assessed(read)
  BY DEF Assessments
<1> DEFINE F == FactsOf(read.facts)
           ms == ManifestsOf(read.manifests)
           cutoff == ResolvedCutoff(F, ms, read.asked)
           filings == { ms[i] : i \in XbrlManifests(ms, cutoff) }
           workbooks == { ms[i] : i \in CiqManifests(ms, cutoff) }
           bound == ManifestBound(FactsAsOf(F, cutoff), filings, workbooks)
           V == View(bound, read.treated)
           chosen == filings \cup workbooks
           readiness == Assess(V, read.treated, Attested(chosen))
<1>2. x.read = read /\ x.row = Row(cutoff, chosen, V, readiness)
  BY <1>1 DEF Assessed, Reconciled
<1>3. bound \subseteq F
  BY DEF ManifestBound, FactsAsOf
<1>4. V \subseteq bound
  BY DEF View, Bounded
<1>5. readiness.status \in {"blocked", "provisional", "decision_grade"}
  BY DEF Assess, Readiness, Status
<1> HIDE DEF F, ms, cutoff, filings, workbooks, bound, V, chosen, readiness
<1>6. x.row.status = readiness.status /\ x.row.view = { f.id : f \in V }
  BY <1>2 DEF Row
<1>7. F = FactsOf(x.read.facts)
  BY <1>2 DEF F
<1> QED
  BY <1>3, <1>4, <1>5, <1>6, <1>7

\* More documents, more facts.
LEMMA MoreFacts ==
  ASSUME NEW D, NEW E, D \subseteq E
  PROVE  { f.id : f \in FactsOf(D) } \subseteq { f.id : f \in FactsOf(E) }
  BY DEF FactsOf

-----------------------------------------------------------------------------
(* The invariant. *)

\* A reconciler goes on; the others do not notice what is added.
LEMMA Going ==
  ASSUME NEW h \in Histories, JobInv(h), job = [r \in Reconciler |-> job[r]],
         facts \subseteq facts', runs \subseteq runs',
         NEW r \in Reconciler, NEW to, Goes(r, to), Doing(h, to, facts', runs')
  PROVE  JobInv(h)' /\ (job = [s \in Reconciler |-> job[s]])'
<1>1. job' = [s \in Reconciler |-> IF s = r THEN to ELSE job[s]]
  BY DEF Goes
<1>2. ASSUME NEW s \in Reconciler, s # r
      PROVE  Doing(h, job[s], facts', runs')
  <2>1. Doing(h, job[s], facts, runs)
    BY DEF JobInv
  <2> DEFINE j == job[s]
  <2> HIDE DEF j
  <2>2. Doing(h, j, facts, runs)
    BY <2>1 DEF j
  <2>3. Doing(h, j, facts', runs')
    BY <2>2, SMTT(30) DEF Doing
  <2> QED
    BY <2>3 DEF j
<1>3. \A s \in Reconciler : job'[s] = IF s = r THEN to ELSE job[s]
  BY <1>1
<1>4. \A s \in Reconciler : Doing(h, job'[s], facts', runs')
  BY <1>2, <1>3
<1>5. job' = [s \in Reconciler |-> job'[s]]
  BY <1>1
<1> QED
  BY <1>4, <1>5 DEF JobInv

\* A step of somebody else.
LEMMA Staying ==
  ASSUME NEW h \in Histories, JobInv(h), job = [r \in Reconciler |-> job[r]],
         facts \subseteq facts', runs \subseteq runs', job' = job
  PROVE  JobInv(h)' /\ (job = [s \in Reconciler |-> job[s]])'
<1>1. ASSUME NEW s \in Reconciler
      PROVE  Doing(h, job[s], facts', runs')
  <2>1. Doing(h, job[s], facts, runs)
    BY DEF JobInv
  <2> DEFINE j == job[s]
  <2> HIDE DEF j
  <2>2. Doing(h, j, facts, runs)
    BY <2>1 DEF j
  <2>3. Doing(h, j, facts', runs')
    BY <2>2, SMTT(30) DEF Doing
  <2> QED
    BY <2>3 DEF j
<1> QED
  BY <1>1 DEF JobInv

\* The desk does not notice more runs.
LEMMA DeskStays ==
  ASSUME DeskInv, UNCHANGED desk, runs \subseteq runs'
  PROVE  DeskInv'
<1>1. ASSUME NEW i \in items
      PROVE  Found(i)'
  <2>1. Found(i)
    BY DEF DeskInv, ItemsInv
  <2> QED
    BY <2>1 DEF Found, Item, ViewOf
<1>2. ItemsInv'
  BY <1>1 DEF ItemsInv, desk
<1>3. Handled' = Handled
  BY DEF Handled, desk
<1>4. HandledInv'
  BY <1>3 DEF DeskInv, HandledInv, desk, Key
<1>5. OneViewButForWorkInHand'
  BY DEF DeskInv, OneViewButForWorkInHand, desk, Key
<1> QED
  BY <1>2, <1>4, <1>5 DEF DeskInv

\* Facts are never taken back.
LEMMA RunsStay ==
  ASSUME RunsInv, facts \subseteq facts', runs' = runs
  PROVE  RunsInv'
  BY DEF RunsInv

\* Any history's documents before a reconciler starts.
THEOREM InitInv == Init => IInv
<1> SUFFICES ASSUME Init
             PROVE  IInv
  OBVIOUS
<1>1. PICK h \in Histories : later = h.later /\ facts = ToSet(h.first) /\ manifests = h.first
  BY DEF Init, ToSet
<1>2. treated = {} /\ runs = {} /\ items = {} /\ open = [k \in Handler |-> {}] /\ job = [r \in Reconciler |-> Idle]
  BY DEF Init
<1>3. LedgerInv(h)
  BY <1>1, <1>2, FirstIsAnOrder DEF LedgerInv, Treatments
<1>4. Doing(h, Idle, facts, runs)
  BY DEF Idle, Doing
<1>5. JobInv(h)
  BY <1>2, <1>4 DEF JobInv
<1>6. RunsInv /\ DeskInv
  <2>1. Handled = {}
    BY <1>2 DEF Handled
  <2>2. open = [k \in Handler |-> open[k]]
    BY <1>2
  <2> QED
    BY <1>2, <2>1, <2>2 DEF RunsInv, DeskInv, ItemsInv, HandledInv, OneViewButForWorkInHand
<1>7. job = [r \in Reconciler |-> job[r]]
  BY <1>2
<1> QED
  BY <1>1, <1>3, <1>5, <1>6, <1>7 DEF IInv, HistoryInv

\* The ledger is only written by ingestion and by the PM.
LEMMA LedgerStays ==
  ASSUME NEW h \in Histories, LedgerInv(h),
         UNCHANGED <<later, facts, manifests, treated>>
  PROVE  LedgerInv(h)' /\ facts \subseteq facts'
  BY DEF LedgerInv

\* What a reconciliation with this row does to the desk.
Queues(row) ==
  /\ items' = { IF Supersedes(row, i) THEN [i EXCEPT !.status = "superseded"] ELSE i : i \in Inserted(row) }
  /\ found' = { <<ViewOf(row), f>> : f \in row.findings }
  /\ inHand' = { Key(i) : i \in { j \in items : j.status = "previewed" } \cup Handled } \ found'
  /\ open' = open

\* Writing one column of an item's record, or two.
LEMMA Columns ==
  ASSUME NEW i, NEW v, NEW f, NEW st, NEW fam, NEW status, NEW family,
         i = [view |-> v, finding |-> f, status |-> st, family |-> fam]
  PROVE  /\ [i EXCEPT !.status = status] = [view |-> v, finding |-> f, status |-> status, family |-> fam]
         /\ [i EXCEPT !.status = status, !.family = family]
              = [view |-> v, finding |-> f, status |-> status, family |-> family]
<1> DEFINE written == [i EXCEPT !.status = status]
<1>1. [i EXCEPT !.status = status, !.family = family] = [written EXCEPT !.family = family]
  OBVIOUS
<1>2. written = [view |-> v, finding |-> f, status |-> status, family |-> fam]
  OBVIOUS
<1>3. ASSUME NEW r, r = [view |-> v, finding |-> f, status |-> status, family |-> fam]
      PROVE  [r EXCEPT !.family = family] = [view |-> v, finding |-> f, status |-> status, family |-> family]
  BY <1>3
<1> HIDE DEF written
<1>4. [written EXCEPT !.family = family] = [view |-> v, finding |-> f, status |-> status, family |-> family]
  BY <1>2, <1>3
<1>5. written = [i EXCEPT !.status = status]
  BY DEF written
<1> QED
  BY <1>1, <1>2, <1>4, <1>5

\* An item of a finding, whatever its status is.
LEMMA OfAFinding ==
  ASSUME NEW y \in runs, NEW f \in y.row.findings, NEW st \in Statuses, NEW fam \in BOOLEAN
  PROVE  LET i == Item(y.row, f, st, fam)
         IN  Found(i) /\ Key(i) = <<ViewOf(y.row), f>> /\ i.status = st
<1>1. Found(Item(y.row, f, st, fam))
  BY DEF Found
<1> QED
  BY <1>1 DEF Item, Key

\* An item whose status is written, alone or with its pack, is one of the same finding.
LEMMA Rewritten ==
  ASSUME NEW i, Found(i), NEW status \in Statuses, NEW family \in BOOLEAN,
         NEW k, k \in {[i EXCEPT !.status = status], [i EXCEPT !.status = status, !.family = family]}
  PROVE  Found(k) /\ Key(k) = Key(i) /\ k.status = status
<1>0. PICK y \in runs : \E f \in y.row.findings :
        \E st \in Statuses, fam \in BOOLEAN : i = Item(y.row, f, st, fam)
  BY DEF Found
<1>1. PICK f \in y.row.findings, st \in Statuses, fam \in BOOLEAN : i = Item(y.row, f, st, fam)
  BY <1>0
<1> DEFINE V == ViewOf(y.row)
<1>2. i = [view |-> V, finding |-> f, status |-> st, family |-> fam]
  BY <1>1 DEF Item
<1> HIDE DEF V
<1>3. \/ k = [view |-> V, finding |-> f, status |-> status, family |-> fam]
      \/ k = [view |-> V, finding |-> f, status |-> status, family |-> family]
  BY <1>2, Columns
<1>4. PICK g \in BOOLEAN : k = Item(y.row, f, status, g)
  BY <1>3 DEF Item, V
<1>5. Key(i) = <<ViewOf(y.row), f>>
  BY <1>1, OfAFinding
<1> QED
  BY <1>4, <1>5, OfAFinding

\* An item just inserted.
LEMMA Fresh ==
  ASSUME NEW x \in runs, NEW f \in x.row.findings
  PROVE  LET i == Item(x.row, f, "pending", FALSE)
         IN  Found(i) /\ Key(i) = <<ViewOf(x.row), f>> /\ i.status = "pending"
  BY OfAFinding DEF Statuses, Open

\* What the desk holds after the findings of a persisted run are queued.
LEMMA Queueing ==
  ASSUME DeskInv, runs' = runs, NEW x \in runs, Queues(x.row)
  PROVE  DeskInv'
<1> DEFINE After(i) == IF Supersedes(x.row, i) THEN [i EXCEPT !.status = "superseded"] ELSE i
           new == { Item(x.row, f, "pending", FALSE) : f \in { g \in x.row.findings : ~Queued(x.row, g) } }
<1>1. Inserted(x.row) = items \cup new
  BY DEF Inserted
<1>2. ASSUME NEW i \in new
      PROVE  /\ Found(i) /\ i.status = "pending"
             /\ \E f \in x.row.findings : Key(i) = <<ViewOf(x.row), f>> /\ ~Queued(x.row, f)
  BY Fresh
<1>3. ASSUME NEW i \in Inserted(x.row)
      PROVE  /\ Found(i)
             /\ Found(After(i)) /\ Key(After(i)) = Key(i)
             /\ After(i).status \in Open => Key(i) \in found' \cup inHand'
  <2>1. Found(i)
    BY <1>1, <1>2 DEF DeskInv, ItemsInv
  <2>2. CASE Supersedes(x.row, i)
    <3>1. After(i) = [i EXCEPT !.status = "superseded"]
      BY <2>2
    <3> HIDE DEF After
    <3>2. "superseded" \in Statuses /\ "superseded" \notin Open
      BY DEF Statuses, Open
    <3>3. FALSE \in BOOLEAN
      OBVIOUS
    <3>4. Found(After(i)) /\ Key(After(i)) = Key(i) /\ After(i).status = "superseded"
      <4>1. ASSUME NEW k, k = [i EXCEPT !.status = "superseded"]
            PROVE  Found(k) /\ Key(k) = Key(i) /\ k.status = "superseded"
        BY <2>1, <3>2, <3>3, <4>1, Rewritten
      <4> QED
        BY <3>1, <4>1
    <3> QED
      BY <2>1, <3>2, <3>4
  <2>3. CASE ~Supersedes(x.row, i)
    <3>1. After(i) = i
      BY <2>3
    <3>2. CASE i.status = "pending"
      <4>1. Key(i) \in found'
        BY <2>3, <3>2 DEF Supersedes, Current, Queues, Key
      <4> HIDE DEF After
      <4> QED
        BY <2>1, <3>1, <4>1
    <3>3. CASE i.status = "previewed"
      <4>1. i \in items
        BY <1>1, <1>2, <3>3
      <4>2. Key(i) \in found' \cup inHand'
        BY <3>3, <4>1 DEF Queues
      <4> HIDE DEF After
      <4> QED
        BY <2>1, <3>1, <4>2
    <3> HIDE DEF After
    <3> QED
      BY <2>1, <3>1, <3>2, <3>3 DEF Open
  <2> QED
    BY <2>1, <2>2, <2>3
<1>4. ASSUME NEW i \in Inserted(x.row), NEW j \in Inserted(x.row), Key(i) = Key(j)
      PROVE  i = j
  <2>1. CASE i \in items /\ j \in items
    BY <1>4, <2>1 DEF DeskInv, OneViewButForWorkInHand
  <2>3. CASE i \in new /\ j \in new
    <3>1. PICK f \in x.row.findings : i = Item(x.row, f, "pending", FALSE)
      BY <2>3
    <3>2. PICK g \in x.row.findings : j = Item(x.row, g, "pending", FALSE)
      BY <2>3
    <3>3. i.finding = f /\ j.finding = g
      BY <3>1, <3>2 DEF Item
    <3>4. i.finding = j.finding
      BY <1>4 DEF Key
    <3> QED
      BY <3>1, <3>2, <3>3, <3>4
  <2>4. ASSUME NEW k \in items, NEW l \in new
        PROVE  Key(k) # Key(l)
    BY <1>2 DEF Queued, Key
  <2> QED
    BY <1>1, <1>4, <2>1, <2>3, <2>4
<1>5. items' = { After(i) : i \in Inserted(x.row) }
  BY DEF Queues
<1> HIDE DEF After, new
<1>6. \A k : Found(k)' <=> Found(k)
  BY DEF Found, Item, ViewOf
<1>7. ItemsInv'
  BY <1>3, <1>5, <1>6 DEF ItemsInv
<1>8. HandledInv'
  <2>1. Handled' = Handled /\ open' = open
    BY DEF Handled, Queues
  <2>2. ASSUME NEW c \in Handled
        PROVE  /\ Key(c) \in found' \cup inHand'
               /\ \E i \in items' : Key(i) = Key(c)
    <3>1. Key(c) \in found' \cup inHand'
      BY DEF Queues
    <3>2. PICK i \in items : Key(i) = Key(c)
      BY DEF DeskInv, HandledInv
    <3>3. After(i) \in items' /\ Key(After(i)) = Key(c)
      BY <1>1, <1>3, <1>5, <3>2
    <3> QED
      BY <3>1, <3>3
  <2> QED
    BY <2>1, <2>2 DEF DeskInv, HandledInv, Key
<1>9. OneViewButForWorkInHand'
  <2>1. ASSUME NEW k \in items', NEW l \in items'
        PROVE  /\ k.status \in Open => Key(k) \in found' \cup inHand'
               /\ Key(k) = Key(l) => k = l
    <3>1. PICK i \in Inserted(x.row), j \in Inserted(x.row) : k = After(i) /\ l = After(j)
      BY <1>5
    <3>2. Key(k) = Key(i) /\ Key(l) = Key(j) /\ (k.status \in Open => Key(i) \in found' \cup inHand')
      BY <1>3, <3>1
    <3> QED
      BY <1>4, <3>1, <3>2
  <2> QED
    BY <2>1 DEF OneViewButForWorkInHand, Key
<1> QED
  BY <1>7, <1>8, <1>9 DEF DeskInv

\* What it holds after a handler writes an item it has read, whatever the item is by now.
LEMMA Writing ==
  ASSUME DeskInv, runs' = runs, NEW h \in Handler, NEW c \in open[h], Done(h),
         NEW W, \A i \in items : Found(i) => Found(W[i]) /\ Key(W[i]) = Key(i),
         items' = { IF Key(j) = Key(c) THEN W[j] ELSE j : j \in items }
  PROVE  DeskInv'
<1> DEFINE After(i) == IF Key(i) = Key(c) THEN W[i] ELSE i
<1>1. c \in Handled
  BY DEF Handled
<1>2. ASSUME NEW i \in items
      PROVE  /\ Found(After(i)) /\ Key(After(i)) = Key(i)
             /\ After(i).status \in Open => Key(i) \in found \cup inHand
  <2>1. Found(i) /\ (i.status \in Open => Key(i) \in found \cup inHand)
    BY DEF DeskInv, ItemsInv, OneViewButForWorkInHand
  <2>2. Key(c) \in found \cup inHand
    BY <1>1 DEF DeskInv, HandledInv
  <2>3. CASE Key(i) = Key(c)
    BY <2>1, <2>2, <2>3
  <2>4. CASE Key(i) # Key(c)
    BY <2>1, <2>4
  <2> QED
    BY <2>3, <2>4
<1>3. items' = { After(i) : i \in items }
  OBVIOUS
<1>4. found' = found /\ inHand' = inHand /\ open' = [open EXCEPT ![h] = {}]
  BY DEF Done
<1> HIDE DEF After
<1>5. \A k : Found(k)' <=> Found(k)
  BY DEF Found, Item, ViewOf
<1>6. ItemsInv'
  BY <1>2, <1>3, <1>5 DEF ItemsInv
<1>7. Handled' \subseteq Handled /\ (open = [k \in Handler |-> open[k]])'
  BY <1>4 DEF DeskInv, HandledInv, Handled
<1>8. HandledInv'
  <2>1. ASSUME NEW d \in Handled'
        PROVE  /\ Key(d) \in found' \cup inHand'
               /\ \E i \in items' : Key(i) = Key(d)
    <3>1. d \in Handled
      BY <1>7
    <3>2. Key(d) \in found' \cup inHand'
      BY <1>4, <3>1 DEF DeskInv, HandledInv
    <3>3. PICK i \in items : Key(i) = Key(d)
      BY <3>1 DEF DeskInv, HandledInv
    <3>4. After(i) \in items' /\ Key(After(i)) = Key(d)
      BY <1>2, <1>3, <3>3
    <3> QED
      BY <3>2, <3>4
  <2> QED
    BY <1>7, <2>1 DEF HandledInv, Key
<1>9. OneViewButForWorkInHand'
  <2>1. \A i, j \in items : Key(i) = Key(j) => i = j
    BY DEF DeskInv, OneViewButForWorkInHand
  <2>2. ASSUME NEW k \in items', NEW l \in items'
        PROVE  /\ k.status \in Open => Key(k) \in found' \cup inHand'
               /\ Key(k) = Key(l) => k = l
    <3>1. PICK i \in items, j \in items : k = After(i) /\ l = After(j)
      BY <1>3
    <3>2. Key(k) = Key(i) /\ Key(l) = Key(j) /\ (k.status \in Open => Key(i) \in found \cup inHand)
      BY <1>2, <3>1
    <3> QED
      BY <1>4, <2>1, <3>1, <3>2
  <2> QED
    BY <2>2 DEF OneViewButForWorkInHand, Key
<1> QED
  BY <1>6, <1>8, <1>9 DEF DeskInv

\* Any step of a handler.
LEMMA Handling ==
  ASSUME DeskInv, NEW h \in Handler, Handle(h)
  PROVE  DeskInv'
<1>1. runs' = runs /\ found' = found /\ inHand' = inHand
  BY DEF Handle, ReadItem, Edit, Preview, Decide, Leave, Done
<1>2. ASSUME NEW i \in items, ReadItem(h, i)
      PROVE  DeskInv'
  <2>1. /\ i.status \in Open /\ open' = [open EXCEPT ![h] = {Copy(i)}] /\ items' = items
    BY <1>2 DEF ReadItem
  <2>2. Key(Copy(i)) = Key(i) /\ Key(i) \in found \cup inHand
    BY <2>1 DEF Key, Copy, DeskInv, OneViewButForWorkInHand
  <2>3. Handled' \subseteq Handled \cup {Copy(i)} /\ (open = [k \in Handler |-> open[k]])'
    BY <2>1 DEF DeskInv, HandledInv, Handled
  <2>4. HandledInv'
    BY <1>1, <2>1, <2>2, <2>3 DEF DeskInv, HandledInv, Key
  <2>5. \A k : Found(k)' <=> Found(k)
    BY <1>1 DEF Found, Item, ViewOf
  <2>6. ItemsInv'
    BY <2>1, <2>5 DEF DeskInv, ItemsInv
  <2>7. OneViewButForWorkInHand'
    BY <1>1, <2>1 DEF DeskInv, OneViewButForWorkInHand, Key
  <2> QED
    BY <2>4, <2>6, <2>7 DEF DeskInv
<1>3. ASSUME NEW c \in open[h], NEW family \in BOOLEAN, Edit(h, c, family)
      PROVE  DeskInv'
  <2> DEFINE W == [j \in items |-> [j EXCEPT !.status = "pending", !.family = family]]
  <2>1. items' = { IF Key(j) = Key(c) THEN W[j] ELSE j : j \in items } /\ Done(h)
    BY <1>3 DEF Edit
  <2>2. \A i \in items : Found(i) => Found(W[i]) /\ Key(W[i]) = Key(i)
    BY Rewritten DEF Statuses, Open
  <2> HIDE DEF W
  <2> QED
    BY <1>1, <2>1, <2>2, Writing
<1>4. ASSUME NEW c \in open[h], NEW status \in Statuses, items' = Written(c, status), Done(h)
      PROVE  DeskInv'
  <2> DEFINE W == [j \in items |-> [j EXCEPT !.status = status]]
  <2>1. items' = { IF Key(j) = Key(c) THEN W[j] ELSE j : j \in items }
    BY <1>4 DEF Written
  <2>2. \A i \in items : Found(i) => Found(W[i]) /\ Key(W[i]) = Key(i)
    BY Rewritten
  <2> HIDE DEF W
  <2> QED
    BY <1>1, <1>4, <2>1, <2>2, Writing
<1>5. ASSUME NEW c \in open[h], Preview(h, c) \/ Decide(h, c)
      PROVE  DeskInv'
  BY <1>4, <1>5 DEF Preview, Decide, Statuses, Open
<1>6. ASSUME Leave(h)
      PROVE  DeskInv'
  <2>1. items' = items /\ open' = [open EXCEPT ![h] = {}]
    BY <1>6 DEF Leave, Done
  <2>2. Handled' \subseteq Handled /\ (open = [k \in Handler |-> open[k]])'
    BY <2>1 DEF DeskInv, HandledInv, Handled
  <2>3. HandledInv'
    BY <1>1, <2>1, <2>2 DEF DeskInv, HandledInv, Key
  <2>4. \A k : Found(k)' <=> Found(k)
    BY <1>1 DEF Found, Item, ViewOf
  <2>5. ItemsInv'
    BY <2>1, <2>4 DEF DeskInv, ItemsInv
  <2>6. OneViewButForWorkInHand'
    BY <1>1, <2>1 DEF DeskInv, OneViewButForWorkInHand, Key
  <2> QED
    BY <2>3, <2>5, <2>6 DEF DeskInv
<1> QED
  BY <1>2, <1>3, <1>5, <1>6 DEF Handle

\* Every commit of every process keeps it.
THEOREM StepInv ==
  IInv /\ [Next]_vars => IInv'
<1> SUFFICES ASSUME IInv, [Next]_vars
             PROVE  IInv'
  OBVIOUS
<1>1. PICK h \in Histories : HistoryInv(h)
  BY DEF IInv
<1>2. /\ LedgerInv(h) /\ JobInv(h) /\ job = [r \in Reconciler |-> job[r]]
      /\ RunsInv /\ DeskInv
  BY <1>1 DEF IInv, HistoryInv
<1>4. ASSUME NEW d \in DOMAIN Manifest, InsertFacts(d)
      PROVE  IInv'
  <2>1. LedgerInv(h)' /\ facts \subseteq facts'
    BY <1>2, <1>4 DEF InsertFacts, LedgerInv
  <2>2. JobInv(h)' /\ (job = [r \in Reconciler |-> job[r]])'
    BY <1>2, <1>4, <2>1, Staying DEF InsertFacts
  <2>3. RunsInv' /\ DeskInv'
    BY <1>2, <1>4, <2>1, DeskStays, RunsStay DEF InsertFacts
  <2> QED
    BY <2>1, <2>2, <2>3 DEF IInv, HistoryInv
<1>5. ASSUME NEW d \in DOMAIN Manifest, PersistManifest(d)
      PROVE  IInv'
  <2>1. d \in facts /\ (\A i \in DOMAIN manifests : manifests[i] # d) /\ manifests' = Append(manifests, d)
    BY <1>5 DEF PersistManifest
  <2>2. d \in h.later
    <3>1. PICK s \in SetToAllKPermutations(h.later) : manifests = h.first \o s
      BY <1>2 DEF LedgerInv, Orders
    <3>2. s \in Seq(h.later) /\ h.first \in Seq(DOMAIN Manifest)
      BY HistoriesAssumption, PermutationsAre, <3>1
    <3>3. \A i \in DOMAIN h.first : i \in DOMAIN manifests /\ manifests[i] = h.first[i]
      BY <3>1, <3>2
    <3>4. d \notin ToSet(h.first)
      BY <2>1, <3>3 DEF ToSet
    <3> QED
      BY <1>2, <2>1, <3>4 DEF LedgerInv
  <2>3. Append(manifests, d) \in Orders(h)
    BY <1>2, <2>1, <2>2, OrderGrows DEF LedgerInv
  <2>4. manifests \in Seq(DOMAIN Manifest)
    BY <1>2, OrdersAre DEF LedgerInv
  <2>5. ToSet(Append(manifests, d)) \subseteq ToSet(manifests) \cup {d}
    BY <2>4 DEF ToSet
  <2>6. LedgerInv(h)'
    <3>1. ToSet(manifests') \subseteq facts'
      BY <1>2, <1>5, <2>1, <2>5 DEF LedgerInv, PersistManifest
    <3> QED
      BY <1>2, <1>5, <2>1, <2>3, <3>1 DEF LedgerInv, PersistManifest
  <2>7. JobInv(h)' /\ (job = [r \in Reconciler |-> job[r]])'
    BY <1>2, <1>5, Staying DEF PersistManifest
  <2>8. RunsInv' /\ DeskInv'
    BY <1>2, <1>5, DeskStays, RunsStay DEF PersistManifest
  <2> QED
    BY <2>6, <2>7, <2>8 DEF IInv, HistoryInv
<1>6. CASE ApproveTreatment
  <2>1. LedgerInv(h)'
    BY <1>2, <1>6 DEF ApproveTreatment, LedgerInv, Treatments
  <2>2. JobInv(h)' /\ (job = [r \in Reconciler |-> job[r]])'
    BY <1>2, <1>6, Staying DEF ApproveTreatment
  <2>3. RunsInv' /\ DeskInv'
    BY <1>2, <1>6, DeskStays, RunsStay DEF ApproveTreatment
  <2> QED
    BY <2>1, <2>2, <2>3 DEF IInv, HistoryInv
<1>7. ASSUME NEW r \in Reconciler, NEW c \in Cutoffs, LoadFacts(r, c)
      PROVE  IInv'
  <2> DEFINE to == [at   |-> "facts",
                    read |-> [facts |-> facts, manifests |-> <<>>, treated |-> {}, asked |-> c]]
  <2>1. Goes(r, to)
    BY <1>7 DEF LoadFacts
  <2>2. facts \in Insertions(h)
    BY <1>2 DEF LedgerInv, Insertions
  <2>3. UNCHANGED <<later, facts, manifests, treated, runs, desk>>
    BY <1>7 DEF LoadFacts
  <2>4. Doing(h, to, facts', runs')
    BY <2>2, <2>3 DEF Doing
  <2>5. LedgerInv(h)' /\ facts \subseteq facts'
    BY <1>2, <2>3, LedgerStays
  <2> HIDE DEF to
  <2>6. JobInv(h)' /\ (job = [s \in Reconciler |-> job[s]])'
    BY <1>2, <2>1, <2>3, <2>4, Going
  <2>7. RunsInv' /\ DeskInv'
    BY <1>2, <2>3, DeskStays, RunsStay
  <2> QED
    BY <2>5, <2>6, <2>7 DEF IInv, HistoryInv
<1>8. ASSUME NEW r \in Reconciler, LoadManifests(r)
      PROVE  IInv'
  <2>1. Doing(h, job[r], facts, runs) /\ job[r].at = "facts"
    BY <1>2, <1>8 DEF JobInv, LoadManifests
  <2>2. PICK F \in Insertions(h), c \in Cutoffs :
          /\ F \subseteq facts
          /\ job[r] = [at   |-> "facts",
                       read |-> [facts |-> F, manifests |-> <<>>, treated |-> {}, asked |-> c]]
    BY <2>1 DEF Doing
  <2> DEFINE to == [at   |-> "manifests",
                    read |-> [facts |-> F, manifests |-> manifests, treated |-> {}, asked |-> c]]
  <2>3. Goes(r, to)
    <3>1. Goes(r, [at |-> "manifests", read |-> [job[r].read EXCEPT !.manifests = manifests]])
      BY <1>8 DEF LoadManifests
    <3> DEFINE read == job[r].read
               nothing == <<>>
               none == {}
    <3>2. read = [facts |-> F, manifests |-> nothing, treated |-> none, asked |-> c]
      BY <2>2
    <3> HIDE DEF read, nothing, none
    <3>3. [read EXCEPT !.manifests = manifests]
            = [facts |-> F, manifests |-> manifests, treated |-> none, asked |-> c]
      BY <3>2
    <3> QED
      BY <3>1, <3>3 DEF read, none
  <2>4. UNCHANGED <<later, facts, manifests, treated, runs, desk>>
    BY <1>8 DEF LoadManifests
  <2>5. Doing(h, to, facts', runs')
    BY <1>2, <2>2, <2>4 DEF Doing, LedgerInv
  <2> HIDE DEF to
  <2>6. LedgerInv(h)' /\ facts \subseteq facts'
    BY <1>2, <2>4, LedgerStays
  <2>7. JobInv(h)' /\ (job = [s \in Reconciler |-> job[s]])'
    BY <1>2, <2>3, <2>4, <2>5, Going
  <2>8. RunsInv' /\ DeskInv'
    BY <1>2, <2>4, DeskStays, RunsStay
  <2> QED
    BY <2>6, <2>7, <2>8 DEF IInv, HistoryInv
<1>9. ASSUME NEW r \in Reconciler, PersistRun(r)
      PROVE  IInv'
  <2>1. Doing(h, job[r], facts, runs) /\ job[r].at = "manifests"
    BY <1>2, <1>9 DEF JobInv, PersistRun
  <2>2. PICK F \in Insertions(h), m \in Orders(h), c \in Cutoffs :
          /\ F \subseteq facts
          /\ job[r] = [at   |-> "manifests",
                       read |-> [facts |-> F, manifests |-> m, treated |-> {}, asked |-> c]]
    BY <2>1 DEF Doing
  <2> DEFINE read == [facts |-> F, manifests |-> m, treated |-> treated, asked |-> c]
             to == [at |-> "persisted", read |-> read]
  <2>3. [job[r].read EXCEPT !.treated = treated] = read
    BY <2>2
  <2>4. read \in Reading(h)
    BY <1>2 DEF Reading, LedgerInv
  <2>5. read.facts \subseteq facts
    BY <2>2
  <2> HIDE DEF read
  <2>6. /\ runs' = runs \cup {RunOf(read)} /\ Goes(r, to)
        /\ UNCHANGED <<later, facts, manifests, treated, desk>>
    BY <1>9, <2>3 DEF PersistRun, WithRun
  <2>7. RunOf(read) = Assessed(read) /\ RunOf(read) \in Assessments
    BY <2>4, RunOfReading
  <2>8. RunOf(read).read.facts \subseteq facts
    BY <2>5, <2>7 DEF Assessed
  <2>9. RunsInv'
    BY <1>2, <2>6, <2>7, <2>8 DEF RunsInv
  <2>10. to.at = "persisted" /\ to.read = read
    OBVIOUS
  <2> HIDE DEF to
  <2>11. Doing(h, to, facts', runs')
    BY <2>6, <2>10 DEF Doing
  <2>12. LedgerInv(h)' /\ facts \subseteq facts' /\ runs \subseteq runs'
    BY <1>2, <2>6, LedgerStays
  <2>13. JobInv(h)' /\ (job = [s \in Reconciler |-> job[s]])'
    BY <1>2, <2>6, <2>11, <2>12, Going
  <2>14. DeskInv'
    BY <1>2, <2>6, <2>12, DeskStays
  <2> QED
    BY <2>9, <2>12, <2>13, <2>14 DEF IInv, HistoryInv
<1>10. ASSUME NEW r \in Reconciler, QueueFindings(r)
       PROVE  IInv'
  <2>1. RunOf(job[r].read) \in runs
    BY <1>2, <1>10 DEF JobInv, Doing, QueueFindings
  <2> DEFINE x == RunOf(job[r].read)
  <2>2. Queues(x.row)
    BY <1>10 DEF QueueFindings, Queues
  <2>3. Goes(r, Idle) /\ UNCHANGED <<later, facts, manifests, treated, runs>>
    BY <1>10 DEF QueueFindings
  <2> HIDE DEF x
  <2>4. DeskInv'
    BY <1>2, <2>1, <2>2, <2>3, Queueing DEF x
  <2>5. Doing(h, Idle, facts', runs')
    BY DEF Doing, Idle
  <2>6. LedgerInv(h)' /\ facts \subseteq facts' /\ RunsInv'
    BY <1>2, <2>3, LedgerStays, RunsStay
  <2>7. JobInv(h)' /\ (job = [s \in Reconciler |-> job[s]])'
    BY <1>2, <2>3, <2>5, <2>6, Going
  <2> QED
    BY <2>4, <2>6, <2>7 DEF IInv, HistoryInv
<1>11. ASSUME NEW r \in Reconciler, Crash(r)
       PROVE  IInv'
  <2>1. Goes(r, Idle) /\ UNCHANGED <<later, facts, manifests, treated, runs, desk>>
    BY <1>11 DEF Crash
  <2>2. Doing(h, Idle, facts', runs')
    BY DEF Doing, Idle
  <2>3. LedgerInv(h)' /\ facts \subseteq facts' /\ RunsInv'
    BY <1>2, <2>1, LedgerStays, RunsStay
  <2>4. JobInv(h)' /\ (job = [s \in Reconciler |-> job[s]])'
    BY <1>2, <2>1, <2>2, <2>3, Going
  <2>5. DeskInv'
    BY <1>2, <2>1, DeskStays
  <2> QED
    BY <2>3, <2>4, <2>5 DEF IInv, HistoryInv
<1>12. ASSUME NEW k \in Handler, Handle(k)
       PROVE  IInv'
  <2>1. UNCHANGED <<later, facts, manifests, treated, runs, job>>
    BY <1>12 DEF Handle, ReadItem, Edit, Preview, Decide, Leave, Done
  <2>2. DeskInv'
    BY <1>2, <1>12, Handling
  <2>3. LedgerInv(h)' /\ facts \subseteq facts' /\ RunsInv'
    BY <1>2, <2>1, LedgerStays, RunsStay
  <2>4. JobInv(h)' /\ (job = [r \in Reconciler |-> job[r]])'
    BY <1>2, <2>1, <2>3, Staying
  <2> QED
    BY <2>2, <2>3, <2>4 DEF IInv, HistoryInv
<1>13. CASE UNCHANGED vars
  <2>1. UNCHANGED <<later, facts, manifests, treated, runs, job, desk>>
    BY <1>13 DEF vars
  <2>2. LedgerInv(h)' /\ facts \subseteq facts' /\ RunsInv'
    BY <1>2, <2>1, LedgerStays, RunsStay
  <2>3. JobInv(h)' /\ (job = [s \in Reconciler |-> job[s]])'
    BY <1>2, <2>1, <2>2, Staying
  <2>4. DeskInv'
    BY <1>2, <2>1, DeskStays
  <2> QED
    BY <2>2, <2>3, <2>4 DEF IInv, HistoryInv
<1> QED
  BY <1>4, <1>5, <1>6, <1>7, <1>8, <1>9, <1>10, <1>11, <1>12, <1>13 DEF Next

\* Hence it holds after any interleaving of commits and crashes.
THEOREM Invariance == Spec => []IInv
<1> QED
  BY InitInv, StepInv, PTL DEF Spec

-----------------------------------------------------------------------------
(* The theorems. *)

\* Facts are never taken back or inserted twice, no document has two manifests, a view
\* is made of facts the ledger holds, and every item on the desk is a finding of a run
\* that is persisted: ingestion, reconcilers and the PM in any order, with any crashes.
THEOREM TypeCorrect == Spec => []TypeOK
<1>1. IInv => TypeOK
  <2> SUFFICES ASSUME IInv
               PROVE  TypeOK
    OBVIOUS
  <2>1. PICK h \in Histories : LedgerInv(h) /\ JobInv(h)
    BY DEF IInv, HistoryInv
  <2>2. RunsInv /\ ItemsInv /\ HandledInv
    BY DEF IInv, DeskInv
  <2>3. later \cap facts = {}
    BY <2>1, HistoriesAssumption DEF LedgerInv
  <2>4. ToSet(manifests) \subseteq facts /\ Cardinality(ToSet(manifests)) = Len(manifests)
    BY <2>1, OrdersAre, InjectiveLength DEF LedgerInv
  <2>5. ASSUME NEW x \in runs
        PROVE  /\ x.row.status \in {"blocked", "provisional", "decision_grade"}
               /\ x.row.view \subseteq { f.id : f \in FactsOf(facts) }
    <3>1. x \in Assessments /\ x.read.facts \subseteq facts
      BY <2>2 DEF RunsInv
    <3> DEFINE D == x.read.facts
    <3>2. x.row.view \subseteq { f.id : f \in FactsOf(D) }
      BY <3>1, RowsAre
    <3>3. { f.id : f \in FactsOf(D) } \subseteq { f.id : f \in FactsOf(facts) }
      BY <3>1, MoreFacts
    <3> QED
      BY <3>1, <3>2, <3>3, RowsAre
  <2>6. ASSUME NEW i \in items
        PROVE  /\ i.status \in {"pending", "previewed", "decided", "superseded"}
               /\ \E x \in runs : i.view = ViewOf(x.row) /\ i.finding \in x.row.findings
    <3>1. PICK x \in runs : \E f \in x.row.findings :
            \E status \in Statuses, family \in BOOLEAN : i = Item(x.row, f, status, family)
      BY <2>2 DEF ItemsInv, Found
    <3> QED
      BY <3>1 DEF Item, Statuses, Open
  <2>7. \A r \in Reconciler : job[r].at \in {"idle", "facts", "manifests", "persisted"}
    BY <2>1 DEF JobInv, Doing
  <2>8. { Key(i) : i \in Handled } \subseteq { Key(i) : i \in items }
    BY <2>2 DEF HandledInv
  <2> QED
    BY <2>3, <2>4, <2>5, <2>6, <2>7, <2>8 DEF TypeOK
<1> QED
  BY Invariance, <1>1, PTL

\* Whichever reconciler queues last, and wherever one dies: what is open on the desk was
\* found by it, or was previewed or in a handler's hands when it queued; no finding of a
\* view is asked twice, and a superseded one comes back only from the PM's hands.
THEOREM OneView == Spec => []OneViewButForWorkInHand
<1>1. IInv => OneViewButForWorkInHand
  BY DEF IInv, DeskInv
<1> QED
  BY Invariance, <1>1, PTL

\* Reconciliations close pending findings only; whatever else changes a finding is a
\* handler of the PM that has read it.
THEOREM PmReopens == Spec => OnlyThePmReopens
<1> DEFINE ByThePm(i) == \E h \in Handler : open'[h] = {} /\ \E j \in open[h] : Key(j) = Key(i)
<1>1. IInv /\ [Next]_vars
        => [\A i \in items : i.status # "pending" /\ i \notin items' => ByThePm(i)]_vars
  <2> SUFFICES ASSUME IInv, Next, NEW i \in items, i.status # "pending", i \notin items'
               PROVE  ByThePm(i)
    OBVIOUS
  <2>1. ASSUME NEW r \in Reconciler, QueueFindings(r)
        PROVE  FALSE
    <3> DEFINE run == RunOf(job[r].read).row
    <3>1. items' = { IF Supersedes(run, k) THEN [k EXCEPT !.status = "superseded"] ELSE k :
                       k \in Inserted(run) }
      BY <2>1 DEF QueueFindings
    <3> HIDE DEF run
    <3>2. i \in Inserted(run) /\ ~Supersedes(run, i)
      BY DEF Inserted, Supersedes
    <3> QED
      BY <3>1, <3>2
  <2>2. ASSUME NEW h \in Handler, Handle(h)
        PROVE  ByThePm(i)
    <3>1. ASSUME NEW c \in open[h], Done(h), NEW W,
                 items' = { IF Key(j) = Key(c) THEN W[j] ELSE j : j \in items }
          PROVE  ByThePm(i)
      <4>1. Key(c) = Key(i)
        BY <3>1
      <4>2. open'[h] = {}
        BY <3>1 DEF Done, IInv, DeskInv, HandledInv
      <4> QED
        BY <4>1, <4>2
    <3>2. ASSUME NEW c \in open[h], NEW family \in BOOLEAN, Edit(h, c, family)
          PROVE  ByThePm(i)
      <4> DEFINE W == [j \in items |-> [j EXCEPT !.status = "pending", !.family = family]]
      <4>1. items' = { IF Key(j) = Key(c) THEN W[j] ELSE j : j \in items } /\ Done(h)
        BY <3>2 DEF Edit
      <4> HIDE DEF W
      <4> QED
        BY <3>1, <4>1
    <3>3. ASSUME NEW c \in open[h], NEW status, items' = Written(c, status), Done(h)
          PROVE  ByThePm(i)
      <4> DEFINE W == [j \in items |-> [j EXCEPT !.status = status]]
      <4>1. items' = { IF Key(j) = Key(c) THEN W[j] ELSE j : j \in items }
        BY <3>3 DEF Written
      <4> HIDE DEF W
      <4> QED
        BY <3>1, <3>3, <4>1
    <3>4. ASSUME NEW c \in open[h], Preview(h, c) \/ Decide(h, c)
          PROVE  ByThePm(i)
      BY <3>3, <3>4 DEF Preview, Decide
    <3>5. ASSUME items' = items
          PROVE  FALSE
      BY <3>5
    <3> HIDE DEF ByThePm
    <3> QED
      BY <2>2, <3>2, <3>4, <3>5 DEF Handle, ReadItem, Leave
  <2>3. CASE UNCHANGED items
    BY <2>3
  <2> HIDE DEF ByThePm
  <2> QED
    BY <2>1, <2>2, <2>3
       DEF Next, InsertFacts, PersistManifest, ApproveTreatment, LoadFacts, LoadManifests, PersistRun, Crash, desk
<1> QED
  BY Invariance, <1>1, PTL DEF Spec, OnlyThePmReopens

-----------------------------------------------------------------------------
(* Reconciling again.  Which manifests a reading selects, written of the   *)
(* pairs of published documents in the order of their manifests alone.     *)

Pairs(m, asked) ==
  LET published == { i \in DOMAIN m : Manifest[m[i]].cutoff <= asked }
  IN  { <<m[p[1]], m[p[2]]>> : p \in { q \in published \X published : q[1] <= q[2] } }

LoadedIn(P) == { d \in { p[1] : p \in P } : Manifest[d].completed }

FilingsIn(P) == { d \in LoadedIn(P) : Manifest[d].source = "presentation" }

NewestIn(P) ==
  { d \in FilingsIn(P) :
      \A e \in FilingsIn(P) : Manifest[e].origin = Manifest[d].origin => <<e, d>> \in P }

UsableIn(P) == { d \in NewestIn(P) : Manifest[d].complete }

XbrlIn(P) ==
  { d \in UsableIn(P) :
      Cardinality({ e \in UsableIn(P) : <<d, e>> \in P /\ e # d }) <= MaxAnnual }

WorkbooksIn(P) == { d \in LoadedIn(P) : Manifest[d].source = "ciq" }

CiqIn(P) ==
  { d \in WorkbooksIn(P) :
      \A e \in WorkbooksIn(P) \ {d} :
        \/ Manifest[e].cutoff < Manifest[d].cutoff
        \/ Manifest[e].cutoff = Manifest[d].cutoff /\ <<e, d>> \in P }

\* A set of positions has as many documents.
LEMMA SameNumber ==
  ASSUME NEW S, NEW m \in Seq(S), IsInjective(m), NEW J \in SUBSET DOMAIN m
  PROVE  Cardinality({ m[j] : j \in J }) = Cardinality(J)
<1> DEFINE T == { m[j] : j \in J }
           f == [j \in J |-> m[j]]
<1>1. f \in Bijection(J, T)
  BY DEF Bijection, Injection, Surjection, IsInjective
<1>2. DOMAIN m = 1..Len(m) /\ Len(m) \in Nat
  OBVIOUS
<1>3. IsFiniteSet(J)
  <2>1. IsFiniteSet(DOMAIN m)
    BY <1>2, FS_Interval
  <2> QED
    BY <2>1, FS_Subset
<1> QED
  BY <1>1, <1>3, FS_Bijection DEF ExistsBijection

\* The order of pairs of numbers.
LEMMA BeforePair ==
  ASSUME NEW a, NEW b \in Int, NEW c, NEW d \in Int
  PROVE  Before(<<a, b>>, <<c, d>>) <=> a < c \/ (a = c /\ b < d)
<1>1. DOMAIN <<a, b>> = {1, 2}
  OBVIOUS
<1>2. 1..(1 - 1) = {} /\ 1..(2 - 1) = {1}
  OBVIOUS
<1> QED
  BY <1>1, <1>2 DEF Before

\* The manifests a reading selects depend on the published ones and their order alone.
LEMMA Selected ==
  ASSUME NEW m \in Seq(DOMAIN Manifest), IsInjective(m), NEW asked
  PROVE  LET ms == ManifestsOf(m)
         IN  /\ { ms[i] : i \in XbrlManifests(ms, asked) } = { Manifest[d] : d \in XbrlIn(Pairs(m, asked)) }
             /\ { ms[i] : i \in CiqManifests(ms, asked) } = { Manifest[d] : d \in CiqIn(Pairs(m, asked)) }
<1> DEFINE ms == ManifestsOf(m)
           P == Pairs(m, asked)
           published == { i \in DOMAIN m : Manifest[m[i]].cutoff <= asked }
           loaded == { i \in DOMAIN m : Manifest[m[i]].cutoff <= asked /\ Manifest[m[i]].completed }
           filings == { i \in loaded : Manifest[m[i]].source = "presentation" }
           newest == { i \in filings :
                         \A j \in filings : Manifest[m[j]].origin = Manifest[m[i]].origin => j <= i }
           usable == { i \in newest : Manifest[m[i]].complete }
           xbrl == { i \in usable : Cardinality({ j \in usable : j > i }) <= MaxAnnual }
           workbooks == { i \in loaded : Manifest[m[i]].source = "ciq" }
           ciq == { i \in workbooks :
                      \A j \in workbooks \ {i} :
                        Before(<<Manifest[m[j]].cutoff, j>>, <<Manifest[m[i]].cutoff, i>>) }
           Of(X) == { m[i] : i \in X }
<1>1. /\ DOMAIN m = 1..Len(m) /\ Len(m) \in Nat /\ DOMAIN m \subseteq Int
      /\ DOMAIN ms = DOMAIN m /\ \A i \in DOMAIN m : ms[i] = Manifest[m[i]]
  BY DEF ManifestsOf
<1>2. XbrlManifests(ms, asked) = xbrl
  <2> HIDE DEF ms
  <2>1. Loaded(ms, asked) = loaded
    BY <1>1 DEF Loaded
  <2> DEFINE f == { i \in Loaded(ms, asked) : ms[i].source = "presentation" }
             n == { i \in f : \A j \in f : ms[j].origin = ms[i].origin => j <= i }
             u == { i \in n : ms[i].complete }
  <2>2. f = filings
    BY <1>1, <2>1
  <2> HIDE DEF f
  <2>3. n = newest
    BY <1>1, <2>2
  <2> HIDE DEF n
  <2>4. u = usable
    BY <1>1, <2>3
  <2> HIDE DEF u, usable, newest, filings, loaded
  <2>5. XbrlManifests(ms, asked) = { i \in u : Cardinality({ j \in u : j > i }) <= MaxAnnual }
    BY DEF XbrlManifests, f, n, u
  <2> QED
    BY <2>4, <2>5
<1>3. CiqManifests(ms, asked) = ciq
  <2> HIDE DEF ms
  <2>1. Loaded(ms, asked) = loaded
    BY <1>1 DEF Loaded
  <2> DEFINE w == { i \in Loaded(ms, asked) : ms[i].source = "ciq" }
  <2>2. w = workbooks /\ w \subseteq DOMAIN m
    BY <1>1, <2>1
  <2> HIDE DEF w, workbooks
  <2>3. CiqManifests(ms, asked)
          = { i \in w : \A j \in w \ {i} : Before(<<ms[j].cutoff, j>>, <<ms[i].cutoff, i>>) }
    BY DEF CiqManifests, w
  <2> QED
    BY <1>1, <2>2, <2>3
<1>4. ASSUME NEW i \in published, NEW j \in published
      PROVE  <<m[i], m[j]>> \in P <=> i <= j
  <2>1. ASSUME i <= j
        PROVE  <<m[i], m[j]>> \in P
    <3>1. <<i, j>> \in { q \in published \X published : q[1] <= q[2] }
      BY <2>1
    <3> QED
      BY <3>1 DEF Pairs
  <2>2. ASSUME <<m[i], m[j]>> \in P
        PROVE  i <= j
    <3>1. PICK p \in published \X published : p[1] <= p[2] /\ <<m[i], m[j]>> = <<m[p[1]], m[p[2]]>>
      BY <2>2 DEF Pairs
    <3>2. p[1] \in published /\ p[2] \in published /\ m[p[1]] = m[i] /\ m[p[2]] = m[j]
      BY <3>1
    <3>3. p[1] = i /\ p[2] = j
      BY <3>2 DEF IsInjective
    <3> QED
      BY <3>1, <3>3
  <2> QED
    BY <2>1, <2>2
<1>5. { p[1] : p \in P } = Of(published)
  <2>1. ASSUME NEW p \in P
        PROVE  p[1] \in Of(published)
    BY DEF Pairs
  <2>2. ASSUME NEW i \in published
        PROVE  m[i] \in { p[1] : p \in P }
    <3>1. <<m[i], m[i]>> \in P
      <4>1. i \in Int /\ i <= i
        BY <1>1
      <4> HIDE DEF P, published
      <4> QED
        BY <1>4, <4>1
    <3> HIDE DEF P
    <3>2. <<m[i], m[i]>>[1] = m[i]
      OBVIOUS
    <3> QED
      BY <3>1, <3>2
  <2> HIDE DEF P, published
  <2> QED
    BY <2>1, <2>2
<1>6. ASSUME NEW X \in SUBSET published, NEW i \in published
      PROVE  m[i] \in Of(X) <=> i \in X
  BY DEF IsInjective
<1>7. loaded \subseteq published /\ filings \subseteq loaded /\ workbooks \subseteq loaded
  OBVIOUS
<1>8. newest \subseteq filings /\ usable \subseteq newest
  OBVIOUS
<1> HIDE DEF P, ms
<1>9. LoadedIn(P) = Of(loaded)
  BY <1>5 DEF LoadedIn
<1> HIDE DEF published
<1>10. FilingsIn(P) = Of(filings)
  BY <1>9 DEF FilingsIn
<1>11. WorkbooksIn(P) = Of(workbooks)
  BY <1>9 DEF WorkbooksIn
<1> HIDE DEF loaded
<1>12. NewestIn(P) = Of(newest)
  <2> HIDE DEF filings
  <2> QED
    BY <1>4, <1>7, <1>10 DEF NewestIn
<1> HIDE DEF filings
<1>13. UsableIn(P) = Of(usable)
  BY <1>12 DEF UsableIn
<1> HIDE DEF newest
<1>14. ASSUME NEW i \in usable
       PROVE  Cardinality({ e \in UsableIn(P) : <<m[i], e>> \in P /\ e # m[i] })
                = Cardinality({ j \in usable : j > i })
  <2> DEFINE J == { j \in usable : j > i }
  <2>1. usable \subseteq published /\ published \subseteq DOMAIN m
    BY <1>7, <1>8 DEF published
  <2> HIDE DEF usable
  <2>2. { e \in UsableIn(P) : <<m[i], e>> \in P /\ e # m[i] } = Of(J)
    <3>1. ASSUME NEW j \in usable
          PROVE  (<<m[i], m[j]>> \in P /\ m[j] # m[i]) <=> j > i
      <4>1. i \in published /\ j \in published /\ i \in Int /\ j \in Int
        BY <1>1, <2>1
      <4>2. <<m[i], m[j]>> \in P <=> i <= j
        BY <1>4, <4>1
      <4>3. m[i] = m[j] <=> i = j
        BY <2>1, <4>1 DEF IsInjective
      <4> QED
        BY <4>1, <4>2, <4>3
    <3> QED
      BY <1>13, <3>1
  <2>3. Cardinality(Of(J)) = Cardinality(J)
    <3>1. J \in SUBSET DOMAIN m
      BY <2>1
    <3> HIDE DEF J
    <3> QED
      BY <3>1, SameNumber
  <2> QED
    BY <2>2, <2>3
<1> HIDE DEF usable
<1>15. XbrlIn(P) = Of(xbrl)
  <2>1. ASSUME NEW i \in usable
        PROVE  m[i] \in XbrlIn(P) <=> i \in xbrl
    BY <1>13, <1>14 DEF XbrlIn
  <2>2. XbrlIn(P) \subseteq Of(usable) /\ xbrl \subseteq usable
    BY <1>13 DEF XbrlIn
  <2> HIDE DEF xbrl
  <2> QED
    BY <2>1, <2>2
<1>16. CiqIn(P) = Of(ciq)
  <2>1. workbooks \subseteq published /\ published \subseteq DOMAIN m
    BY <1>7 DEF published
  <2> HIDE DEF workbooks
  <2>2. ASSUME NEW i \in workbooks, NEW j \in workbooks, i # j
        PROVE  /\ m[j] # m[i]
               /\ Before(<<Manifest[m[j]].cutoff, j>>, <<Manifest[m[i]].cutoff, i>>)
                    <=> \/ Manifest[m[j]].cutoff < Manifest[m[i]].cutoff
                        \/ Manifest[m[j]].cutoff = Manifest[m[i]].cutoff /\ <<m[j], m[i]>> \in P
    <3>1. i \in Int /\ j \in Int /\ m[j] # m[i]
      BY <1>1, <2>1, <2>2 DEF IsInjective
    <3>2. <<m[j], m[i]>> \in P <=> j < i
      BY <1>4, <2>1, <2>2, <3>1
    <3> QED
      BY <3>1, <3>2, BeforePair
  <2>3. ASSUME NEW i \in workbooks
        PROVE  m[i] \in CiqIn(P) <=> i \in ciq
    <3>1. WorkbooksIn(P) \ {m[i]} = { m[j] : j \in workbooks \ {i} }
      <4>1. \A j \in workbooks \ {i} : m[j] # m[i]
        BY <2>2
      <4> QED
        BY <1>11, <4>1
    <3>2. m[i] \in CiqIn(P) <=>
            \A j \in workbooks \ {i} :
              \/ Manifest[m[j]].cutoff < Manifest[m[i]].cutoff
              \/ Manifest[m[j]].cutoff = Manifest[m[i]].cutoff /\ <<m[j], m[i]>> \in P
      <4>1. m[i] \in WorkbooksIn(P)
        BY <1>11
      <4> QED
        BY <3>1, <4>1 DEF CiqIn
    <3>3. i \in ciq <=> \A j \in workbooks \ {i} :
                          Before(<<Manifest[m[j]].cutoff, j>>, <<Manifest[m[i]].cutoff, i>>)
      OBVIOUS
    <3> HIDE DEF ciq
    <3> QED
      BY <2>2, <3>2, <3>3
  <2>4. CiqIn(P) \subseteq Of(workbooks) /\ ciq \subseteq workbooks
    BY <1>11 DEF CiqIn
  <2> HIDE DEF ciq
  <2> QED
    BY <2>3, <2>4
<1>17. xbrl \subseteq DOMAIN m
  BY <1>7, <1>8 DEF published
<1>18. ciq \subseteq DOMAIN m
  BY <1>7 DEF published
<1> HIDE DEF xbrl, ciq
<1>19. ASSUME NEW X \in SUBSET DOMAIN m
       PROVE  { ms[i] : i \in X } = { Manifest[d] : d \in Of(X) }
  BY <1>1
<1> QED
  BY <1>2, <1>3, <1>15, <1>16, <1>17, <1>18, <1>19 DEF P, ms

ManifestsAt(ms, positions) == { ms[i] : i \in positions }

\* With a cutoff, the facts and the manifests selected up to it are all that is used.
LEMMA CutOff ==
  ASSUME NEW F, NEW G, NEW ms, NEW ns, NEW supplied, NEW asked, asked # 0,
         FactsAsOf(F, asked) = FactsAsOf(G, asked),
         ManifestsAt(ms, XbrlManifests(ms, asked)) = ManifestsAt(ns, XbrlManifests(ns, asked)),
         ManifestsAt(ms, CiqManifests(ms, asked)) = ManifestsAt(ns, CiqManifests(ns, asked))
  PROVE  Reconciled(F, ms, supplied, asked) = Reconciled(G, ns, supplied, asked)
<1>1. ResolvedCutoff(F, ms, asked) = asked /\ ResolvedCutoff(G, ns, asked) = asked
  BY DEF ResolvedCutoff
<1> QED
  BY <1>1 DEF Reconciled, ManifestsAt

\* No evidence dated after the cutoff reaches a run: whatever is ingested in between and
\* wherever the reconcilers read, the same evidence as of a cutoff gives the same row.
THEOREM Replayed == Spec => []ReplaysAgree
<1>1. IInv => ReplaysAgree
  <2> SUFFICES ASSUME IInv, NEW r \in runs, NEW s \in runs,
                      r.read.asked # 0, r.read.asked = s.read.asked, Evidence(r.read) = Evidence(s.read)
               PROVE  r.row = s.row
    BY DEF ReplaysAgree
  <2> DEFINE c == r.read.asked
  <2>1. ASSUME NEW x \in runs, x.read.asked = c
        PROVE  /\ x.read.manifests \in Seq(DOMAIN Manifest) /\ IsInjective(x.read.manifests)
               /\ x.row = Reconciled(FactsOf(x.read.facts), ManifestsOf(x.read.manifests), x.read.treated, c)
               /\ Evidence(x.read).facts = FactsAsOf(FactsOf(x.read.facts), c)
               /\ Evidence(x.read).manifests = Pairs(x.read.manifests, c)
               /\ Evidence(x.read).treated = x.read.treated
    <3>1. x \in Assessments
      BY DEF IInv, RunsInv
    <3>2. PICK h \in Histories : x.read \in Reading(h) /\ x = Assessed(x.read)
      BY <3>1, AssessmentsAre
    <3>3. x.read.manifests \in Orders(h)
      BY <3>2 DEF Reading
    <3>4. x.row = Reconciled(FactsOf(x.read.facts), ManifestsOf(x.read.manifests), x.read.treated, c)
      <4> DEFINE read == x.read
      <4>1. x = Assessed(read) /\ read.asked = c
        BY <2>1, <3>2
      <4> HIDE DEF read
      <4>2. x.row = Reconciled(FactsOf(read.facts), ManifestsOf(read.manifests), read.treated, c)
        BY <4>1 DEF Assessed
      <4> QED
        BY <4>2 DEF read
    <3>5. /\ Evidence(x.read).facts = FactsAsOf(FactsOf(x.read.facts), c)
          /\ Evidence(x.read).manifests = Pairs(x.read.manifests, c)
          /\ Evidence(x.read).treated = x.read.treated
      BY <2>1 DEF Evidence, FactsAsOf, Pairs
    <3> QED
      BY <3>3, <3>4, <3>5, OrdersAre
  <2> DEFINE rs == ManifestsOf(r.read.manifests)
             ss == ManifestsOf(s.read.manifests)
  <2>2. /\ FactsAsOf(FactsOf(r.read.facts), c) = FactsAsOf(FactsOf(s.read.facts), c)
        /\ Pairs(r.read.manifests, c) = Pairs(s.read.manifests, c)
        /\ r.read.treated = s.read.treated
    BY <2>1
  <2>3. /\ ManifestsAt(rs, XbrlManifests(rs, c)) = ManifestsAt(ss, XbrlManifests(ss, c))
        /\ ManifestsAt(rs, CiqManifests(rs, c)) = ManifestsAt(ss, CiqManifests(ss, c))
    <3> DEFINE X(p) == { Manifest[d] : d \in XbrlIn(p) }
               C(p) == { Manifest[d] : d \in CiqIn(p) }
    <3>1. ASSUME NEW x \in {r, s}
          PROVE  LET ms == ManifestsOf(x.read.manifests)
                 IN  /\ ManifestsAt(ms, XbrlManifests(ms, c)) = X(Pairs(x.read.manifests, c))
                     /\ ManifestsAt(ms, CiqManifests(ms, c)) = C(Pairs(x.read.manifests, c))
      <4>1. x.read.manifests \in Seq(DOMAIN Manifest) /\ IsInjective(x.read.manifests)
        BY <2>1
      <4> QED
        BY <4>1, Selected DEF ManifestsAt
    <3> HIDE DEF X, C
    <3> QED
      BY <2>2, <3>1
  <2>4. Reconciled(FactsOf(r.read.facts), rs, r.read.treated, c)
          = Reconciled(FactsOf(s.read.facts), ss, r.read.treated, c)
    <3> DEFINE F == FactsOf(r.read.facts)
               G == FactsOf(s.read.facts)
               t == r.read.treated
    <3>1. c # 0 /\ FactsAsOf(F, c) = FactsAsOf(G, c)
      BY <2>2
    <3> HIDE DEF F, G, t, rs, ss, c
    <3>2. Reconciled(F, rs, t, c) = Reconciled(G, ss, t, c)
      BY <2>3, <3>1, CutOff
    <3> QED
      BY <3>2 DEF F, G, t
  <2> QED
    BY <2>1, <2>2, <2>4
<1> QED
  BY Invariance, <1>1, PTL

-----------------------------------------------------------------------------
(* Least numbers, and orders of tuples. *)

\* A set of numbers has a least one.
LEMMA LeastNumber ==
  ASSUME NEW S, S \subseteq Nat, S # {}
  PROVE  \E n \in S : \A m \in S : n <= m
<1>1. PICK n \in S : \A m \in S : ~ (<<m, n>> \in OpToRel(<, Nat))
  BY WFMin, NatLessThanWellFounded, Zenon
<1>2. ASSUME NEW m \in S
      PROVE  n <= m
  <2>1. ~(m < n)
    BY <1>1 DEF OpToRel
  <2> QED
    BY <2>1
<1> QED
  BY <1>2

\* A finite set has an element that a strict order, given as its pairs, does not exceed.
LEMMA FiniteMaximal ==
  ASSUME NEW S, IsFiniteSet(S), S # {}, NEW R,
         \A a \in S : <<a, a>> \notin R,
         \A a, b, c \in S : <<a, b>> \in R /\ <<b, c>> \in R => <<a, c>> \in R
  PROVE  \E a \in S : \A b \in S : <<a, b>> \notin R
<1> DEFINE Above(a) == { b \in S : <<a, b>> \in R }
           sizes == { Cardinality(Above(a)) : a \in S }
<1>1. ASSUME NEW a \in S
      PROVE  IsFiniteSet(Above(a)) /\ Cardinality(Above(a)) \in Nat
  BY FS_Subset, FS_CardinalityType
<1>2. sizes \subseteq Nat /\ sizes # {}
  <2> HIDE DEF Above
  <2> QED
    BY <1>1
<1>3. PICK n \in sizes : \A m \in sizes : n <= m
  BY <1>2, LeastNumber
<1>4. PICK a \in S : n = Cardinality(Above(a))
  OBVIOUS
<1>5. ASSUME NEW b \in S, <<a, b>> \in R
      PROVE  FALSE
  <2>1. Above(b) \subseteq Above(a) /\ b \in Above(a) /\ b \notin Above(b)
    BY <1>5
  <2>2. Cardinality(Above(b)) \in sizes
    OBVIOUS
  <2> HIDE DEF Above, sizes
  <2>3. Cardinality(Above(b)) = Cardinality(Above(a))
    <3>1. Cardinality(Above(b)) <= Cardinality(Above(a))
      BY <1>1, <2>1, FS_Subset
    <3>2. Cardinality(Above(a)) <= Cardinality(Above(b))
      BY <1>3, <1>4, <2>2
    <3> QED
      BY <1>1, <3>1, <3>2
  <2>4. Above(a) = Above(b)
    BY <1>1, <2>1, <2>3, FS_Subset
  <2> QED
    BY <2>1, <2>4
<1> QED
  BY <1>5

\* Tuples of n numbers.
Tuples(n) == [1..n -> Int]

\* The lexicographic order is a strict one ...
LEMMA BeforeIsStrict ==
  ASSUME NEW n \in Nat
  PROVE  /\ \A a \in Tuples(n) : ~Before(a, a)
         /\ \A a, b, c \in Tuples(n) : Before(a, b) /\ Before(b, c) => Before(a, c)
<1>1. ASSUME NEW a \in Tuples(n)
      PROVE  ~Before(a, a)
  BY DEF Before, Tuples
<1>2. ASSUME NEW a \in Tuples(n), NEW b \in Tuples(n), NEW c \in Tuples(n), Before(a, b), Before(b, c)
      PROVE  Before(a, c)
  <2>1. PICK i \in 1..n : a[i] < b[i] /\ \A j \in 1..(i - 1) : a[j] = b[j]
    BY <1>2 DEF Before, Tuples
  <2>2. PICK k \in 1..n : b[k] < c[k] /\ \A j \in 1..(k - 1) : b[j] = c[j]
    BY <1>2 DEF Before, Tuples
  <2>3. \A j \in 1..n : a[j] \in Int /\ b[j] \in Int /\ c[j] \in Int
    BY DEF Tuples
  <2>4. ASSUME NEW m \in 1..n, m <= i, m <= k, m = i \/ m = k
        PROVE  a[m] < c[m] /\ \A j \in 1..(m - 1) : a[j] = c[j]
    <3>1. \A j \in 1..(m - 1) : j \in 1..(i - 1) /\ j \in 1..(k - 1)
      BY <2>4
    <3>2. \A j \in 1..(m - 1) : a[j] = c[j]
      BY <2>1, <2>2, <3>1
    <3>3. CASE m = i /\ m = k
      BY <2>1, <2>2, <2>3, <3>3
    <3>4. CASE m = i /\ m < k
      <4>1. b[m] = c[m]
        BY <2>2, <3>4
      <4> QED
        BY <2>1, <3>2, <3>4, <4>1
    <3>5. CASE m = k /\ m < i
      <4>1. a[m] = b[m]
        BY <2>1, <3>5
      <4> QED
        BY <2>2, <3>2, <3>5, <4>1
    <3> QED
      BY <2>4, <3>3, <3>4, <3>5
  <2>5. \E m \in 1..n : m <= i /\ m <= k /\ (m = i \/ m = k)
    OBVIOUS
  <2>6. DOMAIN a = 1..n
    BY DEF Tuples
  <2> QED
    BY <2>4, <2>5, <2>6 DEF Before
<1> QED
  BY <1>1, <1>2

\* ... and total.
LEMMA BeforeIsTotal ==
  ASSUME NEW n \in Nat, NEW a \in Tuples(n), NEW b \in Tuples(n), ~Before(a, b), ~Before(b, a)
  PROVE  a = b
<1> DEFINE D == { i \in 1..n : a[i] # b[i] }
<1>1. CASE D = {}
  BY <1>1 DEF Tuples
<1>2. CASE D # {}
  <2>1. D \subseteq Nat
    OBVIOUS
  <2>2. PICK i \in D : \A j \in D : i <= j
    <3> HIDE DEF D
    <3> QED
      BY <1>2, <2>1, LeastNumber
  <2>3. i \in 1..n /\ \A j \in 1..(i - 1) : a[j] = b[j]
    BY <2>2
  <2>4. a[i] < b[i] \/ b[i] < a[i]
    BY <2>2 DEF Tuples
  <2>5. DOMAIN a = 1..n /\ DOMAIN b = 1..n
    BY DEF Tuples
  <2> QED
    BY <2>3, <2>4, <2>5 DEF Before
<1> QED
  BY <1>1, <1>2

\* Ranks of numbers are tuples.
LEMMA FourAndFive ==
  /\ \A a, b, c, d \in Int : <<a, b, c, d>> \in Tuples(4)
  /\ \A a, b, c, d, e \in Int : <<a, b, c, d, e>> \in Tuples(5)
  BY DEF Tuples

\* A finite set ranked by tuples of numbers has an element of the highest rank.
LEMMA HighestRank ==
  ASSUME NEW S, IsFiniteSet(S), S # {}, NEW n \in Nat, NEW rank \in [S -> Tuples(n)]
  PROVE  \E a \in S : \A b \in S : ~Before(rank[a], rank[b])
<1> DEFINE R == { p \in S \X S : Before(rank[p[1]], rank[p[2]]) }
<1>1. \A a, b \in S : <<a, b>> \in R <=> Before(rank[a], rank[b])
  OBVIOUS
<1>2. \A a \in S : rank[a] \in Tuples(n)
  OBVIOUS
<1> HIDE DEF R
<1>3. \A a \in S : <<a, a>> \notin R
  BY <1>1, <1>2, BeforeIsStrict
<1>4. \A a, b, c \in S : <<a, b>> \in R /\ <<b, c>> \in R => <<a, c>> \in R
  <2> SUFFICES ASSUME NEW a \in S, NEW b \in S, NEW c \in S, <<a, b>> \in R, <<b, c>> \in R
               PROVE  <<a, c>> \in R
    OBVIOUS
  <2>1. Before(rank[a], rank[b]) /\ Before(rank[b], rank[c])
    BY <1>1
  <2>2. Before(rank[a], rank[c])
    BY <1>2, <2>1, BeforeIsStrict
  <2> QED
    BY <1>1, <2>2
<1>5. PICK a \in S : \A b \in S : <<a, b>> \notin R
  BY <1>3, <1>4, FiniteMaximal
<1> QED
  BY <1>1, <1>5

-----------------------------------------------------------------------------
(* The newest figures. *)

\* What is assumed of facts holds of fewer facts.
LEMMA FewerFacts ==
  ASSUME NEW F, IsFiniteSet(F), FactAssumption(F), NEW V \in SUBSET F
  PROVE  IsFiniteSet(V) /\ FactAssumption(V)
<1>1. IsFiniteSet(V)
  BY FS_Subset
<1>2. FactAssumption(V)
  BY DEF FactAssumption
<1> QED
  BY <1>1, <1>2

\* Finitely many facts have finitely many dates.
LEMMA DatesAreFinite ==
  ASSUME NEW F, IsFiniteSet(F)
  PROVE  IsFiniteSet({ f.end : f \in F })
<1> DEFINE dates == { f.end : f \in F }
           dated == [f \in F |-> f.end]
<1>1. dated \in Surjection(F, dates)
  BY DEF Surjection
<1> QED
  BY <1>1, FS_Surjection DEF ExistsSurjection

\* Figures of one quantity differ in source, vintage and value alone.
LEMMA SameQuantityIs ==
  ASSUME NEW f, NEW g
  PROVE  SameQuantity(f, g) <=> /\ f.statement = g.statement /\ f.key = g.key
                                /\ f.start = g.start /\ f.end = g.end
                                /\ f.kind = g.kind /\ f.context = g.context
  BY DEF SameQuantity

\* Vintages are tuples of numbers.
LEMMA VintageIs ==
  ASSUME NEW F, FactAssumption(F), NEW f \in F
  PROVE  Vintage(f) \in Tuples(4)
<1>1. One(f.source = "presentation") \in Int /\ f.filed \in Int /\ f.origin \in Int /\ f.id \in Int
  BY DEF One, FactAssumption
<1> QED
  BY <1>1, FourAndFive DEF Vintage

\* A newer vintage ranks higher.
LEMMA NewerRanksHigher ==
  ASSUME NEW F, FactAssumption(F), NEW f \in F, NEW g \in F, NewerVintage(g, f)
  PROVE  Before(Vintage(f), Vintage(g))
<1>1. DOMAIN Vintage(f) = 1..4
  BY DEF Vintage
<1>2. /\ Vintage(f)[1] = One(f.source = "presentation") /\ Vintage(f)[2] = f.filed
      /\ Vintage(g)[1] = One(g.source = "presentation") /\ Vintage(g)[2] = g.filed
  BY DEF Vintage
<1>3. f.filed \in Nat /\ g.filed \in Nat
  BY DEF FactAssumption
<1>4. CASE g.source = "presentation" /\ f.source = "derived"
  <2>1. Vintage(f)[1] < Vintage(g)[1]
    BY <1>2, <1>4 DEF One
  <2> HIDE DEF Vintage
  <2> QED
    BY <1>1, <2>1 DEF Before
<1>5. CASE g.source = f.source /\ g.filed > f.filed
  <2>1. Vintage(f)[1] = Vintage(g)[1] /\ Vintage(f)[2] < Vintage(g)[2]
    BY <1>2, <1>3, <1>5
  <2>2. \A j \in 1..(2 - 1) : j = 1
    OBVIOUS
  <2> QED
    BY <1>1, <2>1, <2>2 DEF Before
<1> QED
  BY <1>4, <1>5 DEF NewerVintage

\* Every filed quantity has a consolidated figure, a presented one if it is presented.
LEMMA NewestShown ==
  ASSUME NEW V, IsFiniteSet(V), FactAssumption(V), NEW f \in Xbrl(V)
  PROVE  \E x \in Consolidated(V) :
           SameQuantity(f, x) /\ (f.source = "presentation" => x.source = "presentation")
<1> DEFINE S == { g \in Xbrl(V) : SameQuantity(f, g) }
           rank == [g \in S |-> Vintage(g)]
<1>1. S \subseteq V /\ Xbrl(V) \subseteq V
  BY DEF Xbrl
<1>2. IsFiniteSet(S)
  BY <1>1, FS_Subset
<1>3. f \in S
  BY DEF SameQuantity
<1>4. rank \in [S -> Tuples(4)]
  <2>1. \A g \in S : Vintage(g) \in Tuples(4)
    BY <1>1, VintageIs
  <2> HIDE DEF S
  <2> QED
    BY <2>1
<1>5. PICK a \in S : \A b \in S : ~Before(rank[a], rank[b])
  <2> HIDE DEF S, rank
  <2> QED
    BY <1>2, <1>3, <1>4, HighestRank
<1>6. \A b \in S : ~Before(Vintage(a), Vintage(b))
  <2> HIDE DEF S
  <2> QED
    BY <1>5
<1>7. a \in Consolidated(V)
  <2>1. ASSUME NEW g \in Xbrl(V), SameQuantity(a, g)
        PROVE  ~Before(Vintage(a), Vintage(g))
    <3>1. SameQuantity(f, g)
      BY <2>1, SameQuantityIs
    <3> QED
      BY <1>6, <3>1
  <2> QED
    BY <2>1 DEF Consolidated
<1>8. ASSUME f.source = "presentation", a.source # "presentation"
      PROVE  FALSE
  <2>1. a.source = "derived"
    BY <1>8 DEF Xbrl, Filed
  <2>2. NewerVintage(f, a)
    BY <1>8, <2>1 DEF NewerVintage
  <2>3. f \in V /\ a \in V
    BY <1>1
  <2> HIDE DEF S
  <2> QED
    BY <1>3, <1>6, <2>2, <2>3, NewerRanksHigher
<1> QED
  BY <1>7, <1>8

\* The consolidated figures are among the newest filed, and include those filed alone.
LEMMA ConsolidatedIsNewest ==
  ASSUME NEW V, FactAssumption(V)
  PROVE  /\ Consolidated(V) \subseteq NewestFiled(V) /\ SoleNewest(V) \subseteq Consolidated(V)
         /\ Consolidated(V) \subseteq V /\ NewestFiled(V) \subseteq V
<1>1. Xbrl(V) \subseteq V
  BY DEF Xbrl
<1>2. ASSUME NEW f \in Consolidated(V)
      PROVE  f \in NewestFiled(V)
  <2>1. ASSUME NEW g \in Xbrl(V), SameQuantity(f, g), NewerVintage(g, f)
        PROVE  FALSE
    <3>1. Before(Vintage(f), Vintage(g))
      BY <1>1, <2>1, NewerRanksHigher DEF Consolidated
    <3> QED
      BY <2>1, <3>1 DEF Consolidated
  <2> QED
    BY <2>1 DEF NewestFiled, Consolidated
<1>3. ASSUME NEW f \in SoleNewest(V)
      PROVE  f \in Consolidated(V)
  <2>1. f \in Xbrl(V) /\ f \in V
    BY <1>1 DEF SoleNewest
  <2>2. ASSUME NEW g \in Xbrl(V), SameQuantity(f, g), Before(Vintage(f), Vintage(g))
        PROVE  FALSE
    <3>1. g \in V /\ Vintage(f) \in Tuples(4) /\ Vintage(g) \in Tuples(4)
      BY <1>1, <2>1, VintageIs
    <3>2. g # f
      BY <2>2, <3>1, BeforeIsStrict
    <3>3. NewerVintage(f, g)
      BY <2>2, <3>2 DEF SoleNewest
    <3>4. Before(Vintage(g), Vintage(f))
      BY <2>1, <3>1, <3>3, NewerRanksHigher
    <3>5. Before(Vintage(f), Vintage(f))
      BY <2>2, <3>1, <3>4, BeforeIsStrict
    <3> QED
      BY <3>1, <3>5, BeforeIsStrict
  <2> QED
    BY <2>1, <2>2 DEF Consolidated
<1> QED
  BY <1>1, <1>2, <1>3 DEF Consolidated, NewestFiled

\* Whatever else is filed makes the same years complete as the consolidated figures.
LEMMA SameYears ==
  ASSUME NEW V, IsFiniteSet(V), FactAssumption(V), NEW supplied,
         NEW N, Consolidated(V) \subseteq N, N \subseteq Xbrl(V)
  PROVE  AnnualEnds(N, V, supplied) = CompleteYears(V, supplied)
<1> DEFINE X == Consolidated(V)
<1>1. X \subseteq N /\ N \subseteq Xbrl(V)
  OBVIOUS
<1>2. \A f \in N : \E x \in X : SameQuantity(f, x) /\ (f.source = "presentation" => x.source = "presentation")
  BY <1>1, NewestShown
<1> HIDE DEF X
<1>3. Annual(X) \subseteq Annual(N)
  BY <1>1 DEF Annual
<1>4. ASSUME NEW f \in Annual(N)
      PROVE  \E x \in Annual(X) : x.statement = f.statement /\ x.key = f.key /\ x.end = f.end
  <2>1. f \in N /\ f.source = "presentation" /\ f.kind = "annual"
    BY DEF Annual
  <2>2. PICK x \in X : SameQuantity(f, x) /\ x.source = "presentation"
    BY <1>2, <2>1
  <2>3. x.statement = f.statement /\ x.key = f.key /\ x.end = f.end /\ x.kind = f.kind
    BY <2>2, SameQuantityIs
  <2> QED
    BY <2>1, <2>2, <2>3 DEF Annual
<1>5. { f.end : f \in Annual(N) } = { f.end : f \in Annual(X) }
  BY <1>3, <1>4
<1>6. ASSUME NEW e, NEW statement
      PROVE  Keys(On(At(Annual(N), e, "annual"), statement)) = Keys(On(At(Annual(X), e, "annual"), statement))
  <2> DEFINE KeysIn(A) == Keys(On(At(A, e, "annual"), statement))
  <2>1. ASSUME NEW A, NEW k
        PROVE  k \in KeysIn(A) <=>
                 \E f \in A : f.key = k /\ f.end = e /\ f.kind = "annual" /\ f.statement = statement
    BY DEF Keys, On, At
  <2>2. \A f \in Annual(N) \cup Annual(X) : f.kind = "annual"
    BY DEF Annual
  <2> HIDE DEF KeysIn
  <2>3. \A k \in KeysIn(Annual(X)) : k \in KeysIn(Annual(N))
    BY <1>3, <2>1
  <2>4. \A k \in KeysIn(Annual(N)) : k \in KeysIn(Annual(X))
    BY <1>4, <2>1, <2>2
  <2>5. KeysIn(Annual(N)) = KeysIn(Annual(X))
    BY <2>3, <2>4
  <2> QED
    BY <2>5 DEF KeysIn
<1>7. ASSUME NEW e
      PROVE  YearIsComplete(At(Annual(N), e, "annual"), e, V, supplied)
               = YearIsComplete(At(Annual(X), e, "annual"), e, V, supplied)
  BY <1>6 DEF YearIsComplete
<1>8. AnnualEnds(N, V, supplied) = AnnualEnds(X, V, supplied)
  <2> DEFINE A == { e \in { f.end : f \in Annual(N) } : YearIsComplete(At(Annual(N), e, "annual"), e, V, supplied) }
             B == { e \in { f.end : f \in Annual(X) } : YearIsComplete(At(Annual(X), e, "annual"), e, V, supplied) }
  <2>1. A = B
    BY <1>5, <1>7
  <2>2. AnnualEnds(N, V, supplied) = Latest(A) /\ AnnualEnds(X, V, supplied) = Latest(B)
    BY DEF AnnualEnds
  <2> HIDE DEF A, B
  <2> QED
    BY <2>1, <2>2
<1> QED
  BY <1>8 DEF CompleteYears, X

-----------------------------------------------------------------------------
(* A view keeps the years. *)

\* The ends of the years that all the filings of F make complete.
CompleteEnds(F, supplied) ==
  { e \in { f.end : f \in Annual(F) } : YearIsComplete(At(Annual(F), e, "annual"), e, F, supplied) }

\* The complete years do not depend on which vintage of a figure is kept.
LEMMA YearsAre ==
  ASSUME NEW F, IsFiniteSet(F), FactAssumption(F), NEW supplied
  PROVE  CompleteYears(F, supplied) = Latest(CompleteEnds(F, supplied))
<1>1. Consolidated(F) \subseteq Xbrl(F)
  BY DEF Consolidated
<1>2. CompleteYears(F, supplied) = AnnualEnds(Xbrl(F), F, supplied)
  BY <1>1, SameYears
<1>3. Annual(Xbrl(F)) = Annual(F)
  BY DEF Annual, Xbrl, Filed
<1> QED
  BY <1>2, <1>3 DEF AnnualEnds, CompleteEnds

\* What more keys complete.
LEMMA MoreKeys ==
  ASSUME NEW keys, NEW more, keys \subseteq more
  PROVE  /\ CashFlowIsComplete(keys) => CashFlowIsComplete(more)
         /\ BalanceIsComplete(keys) => BalanceIsComplete(more)
  BY DEF CashFlowIsComplete, BalanceIsComplete

\* Fewer facts complete no more years: a combined line that CIQ may take apart among
\* fewer facts stands beside the filing's own figure among all of them.
LEMMA NoYearsAdded ==
  ASSUME NEW F, FactAssumption(F), NEW V \in SUBSET F, NEW supplied
  PROVE  CompleteEnds(V, supplied) \subseteq CompleteEnds(F, supplied)
<1> SUFFICES ASSUME NEW e \in CompleteEnds(V, supplied)
             PROVE  e \in CompleteEnds(F, supplied)
  OBVIOUS
<1>1. Annual(V) \subseteq Annual(F)
  BY DEF Annual
<1>2. e \in { f.end : f \in Annual(F) } /\ YearIsComplete(At(Annual(V), e, "annual"), e, V, supplied)
  BY <1>1 DEF CompleteEnds
<1> DEFINE keys(A, statement) == Keys(On(At(Annual(A), e, "annual"), statement))
           extra(A) == IF CombinedDa(At(A, e, "annual")) THEN {"da"} ELSE {}
<1>3. \A statement : keys(V, statement) \subseteq keys(F, statement)
  BY <1>1 DEF Keys, On, At
<1>4. extra(V) \subseteq keys(F, "cash_flow") \cup extra(F)
  <2> SUFFICES ASSUME CombinedDa(At(V, e, "annual")), ~CombinedDa(At(F, e, "annual"))
               PROVE  "da" \in keys(F, "cash_flow")
    OBVIOUS
  <2> DEFINE filed(A) == Keys(On(Xbrl(At(A, e, "annual")), "cash_flow"))
             shown(A) == Keys(On(Ciq(At(A, e, "annual")), "cash_flow"))
  <2>1. filed(V) \subseteq filed(F) /\ shown(V) \subseteq shown(F)
    BY DEF Keys, On, Xbrl, Ciq, At
  <2>2. "combined_da" \in filed(V) /\ "da" \in shown(V)
    BY DEF CombinedDa, CombinedOnly
  <2>3. ~("da" \notin filed(F) /\ "combined_da" \in filed(F) /\ "da" \in shown(F))
    BY DEF CombinedDa, CombinedOnly
  <2>4. "da" \in filed(F)
    <3> HIDE DEF filed, shown
    <3> QED
      BY <2>1, <2>2, <2>3
  <2>5. PICK f \in F : /\ f.key = "da" /\ f.statement = "cash_flow" /\ f.end = e
                       /\ f.kind = "annual" /\ f.source \in Filed
    BY <2>4 DEF Keys, On, Xbrl, At
  <2>6. f.source = "presentation"
    BY <2>5 DEF Filed, FactAssumption
  <2> QED
    BY <2>5, <2>6 DEF Keys, On, At, Annual
<1>5. YearIsComplete(At(Annual(F), e, "annual"), e, F, supplied)
  <2>1. /\ IncomeKeys \subseteq keys(V, "income") /\ BalanceIsComplete(keys(V, "balance"))
        /\ CashFlowIsComplete(keys(V, "cash_flow") \cup supplied \cup extra(V))
    BY <1>2 DEF YearIsComplete
  <2> HIDE DEF keys, extra
  <2>2. keys(V, "cash_flow") \cup supplied \cup extra(V)
          \subseteq keys(F, "cash_flow") \cup supplied \cup extra(F)
    BY <1>3, <1>4
  <2>3. /\ IncomeKeys \subseteq keys(F, "income") /\ BalanceIsComplete(keys(F, "balance"))
        /\ CashFlowIsComplete(keys(F, "cash_flow") \cup supplied \cup extra(F))
    BY <1>3, <2>1, <2>2, MoreKeys
  <2> QED
    BY <2>3 DEF YearIsComplete, keys, extra
<1> QED
  BY <1>2, <1>5 DEF CompleteEnds

\* The facts of a year complete it, wherever else they are.
LEMMA YearsKept ==
  ASSUME NEW F, NEW V \in SUBSET F, NEW supplied, NEW e \in CompleteEnds(F, supplied),
         \A f \in F : f.kind = "annual" /\ f.end = e => f \in V
  PROVE  e \in CompleteEnds(V, supplied)
<1>1. At(Annual(V), e, "annual") = At(Annual(F), e, "annual") /\ At(V, e, "annual") = At(F, e, "annual")
  BY DEF At, Annual
<1>2. e \in { f.end : f \in Annual(V) }
  BY DEF CompleteEnds, Annual
<1> QED
  BY <1>1, <1>2 DEF CompleteEnds, YearIsComplete

\* The newest of a set of dates are the newest of what is left when only older ones go.
LEMMA LatestOfFewer ==
  ASSUME NEW C, IsFiniteSet(C), C \subseteq Int, NEW D, Latest(C) \subseteq D, D \subseteq C
  PROVE  Latest(D) = Latest(C)
<1> DEFINE newer(A, e) == { d \in A : d > e }
<1>1. \A A : Latest(A) = { e \in A : Cardinality(newer(A, e)) < MaxAnnual }
  BY DEF Latest
<1>2. \A e : newer(D, e) \subseteq newer(C, e)
  OBVIOUS
<1>3. \A e : IsFiniteSet(newer(C, e)) /\ IsFiniteSet(newer(D, e))
  <2>1. \A e : newer(C, e) \subseteq C /\ newer(D, e) \subseteq C
    OBVIOUS
  <2> HIDE DEF newer
  <2> QED
    BY <2>1, FS_Subset
<1>4. \A e : Cardinality(newer(C, e)) \in Nat /\ Cardinality(newer(D, e)) \in Nat
  <2> HIDE DEF newer
  <2> QED
    BY <1>3, FS_CardinalityType
<1>5. ASSUME NEW e \in Latest(C)
      PROVE  e \in Latest(D)
  <2> HIDE DEF newer
  <2>1. Cardinality(newer(D, e)) <= Cardinality(newer(C, e))
    BY <1>2, <1>3, FS_Subset
  <2>2. Cardinality(newer(C, e)) < MaxAnnual
    BY <1>1
  <2>3. Cardinality(newer(D, e)) < MaxAnnual
    BY <1>4, <2>1, <2>2, BoundsAssumption
  <2> QED
    BY <1>1, <2>3
<1>6. ASSUME NEW e \in D, e \notin Latest(C)
      PROVE  e \notin Latest(D)
  <2> DEFINE S == C \ Latest(C)
             R == { p \in S \X S : p[1] < p[2] }
  <2>1. IsFiniteSet(S) /\ e \in S
    BY <1>6, FS_Subset
  <2>2. PICK m \in S : \A b \in S : <<m, b>> \notin R
    <3>1. \A a \in S : <<a, a>> \notin R
      OBVIOUS
    <3>2. \A a, b, c \in S : <<a, b>> \in R /\ <<b, c>> \in R => <<a, c>> \in R
      OBVIOUS
    <3> HIDE DEF R, S
    <3> QED
      BY <2>1, <3>1, <3>2, FiniteMaximal
  <2>3. ASSUME NEW b \in S
        PROVE  b <= m
    <3>1. b \in Int /\ m \in Int
      OBVIOUS
    <3>2. <<m, b>> \in R <=> m < b
      OBVIOUS
    <3> HIDE DEF R, S
    <3> QED
      BY <2>2, <3>1, <3>2
  <2>4. newer(C, m) \subseteq newer(D, e)
    <3> SUFFICES ASSUME NEW d \in C, d > m
                 PROVE  d \in D /\ d > e
      OBVIOUS
    <3>1. d \in Int /\ m \in Int /\ e \in Int
      OBVIOUS
    <3>2. d \notin S
      BY <2>3, <3>1
    <3>3. e <= m
      BY <2>1, <2>3
    <3> QED
      BY <3>1, <3>2, <3>3
  <2> HIDE DEF newer
  <2>5. Cardinality(newer(C, m)) <= Cardinality(newer(D, e))
    BY <1>3, <2>4, FS_Subset
  <2>6. ~(Cardinality(newer(C, m)) < MaxAnnual)
    BY <1>1, <2>2
  <2>7. ~(Cardinality(newer(D, e)) < MaxAnnual)
    BY <1>4, <2>5, <2>6, BoundsAssumption
  <2> QED
    BY <1>1, <2>7
<1>7. Latest(D) \subseteq D
  BY DEF Latest
<1> QED
  BY <1>5, <1>6, <1>7

\* A view has the complete years of the facts it is selected from.
LEMMA ViewHasTheYears ==
  ASSUME NEW F, IsFiniteSet(F), FactAssumption(F), NEW supplied, NEW V, V = View(F, supplied)
  PROVE  CompleteYears(V, supplied) = CompleteYears(F, supplied)
<1> DEFINE C == CompleteEnds(F, supplied)
           D == CompleteEnds(V, supplied)
<1>1. V \subseteq F
  BY DEF View, Bounded
<1>2. IsFiniteSet(V) /\ FactAssumption(V)
  BY <1>1, FewerFacts
<1>3. CompleteYears(F, supplied) = Latest(C) /\ CompleteYears(V, supplied) = Latest(D)
  BY <1>2, YearsAre
<1>4. D \subseteq C
  BY <1>1, NoYearsAdded
<1>5. \A f \in F : f.kind = "annual" /\ f.end \in Latest(C) => f \in V
  <2>1. V = Bounded(F, Latest(C))
    BY <1>3 DEF View
  <2> HIDE DEF C
  <2> QED
    BY <2>1 DEF Bounded
<1>6. Latest(C) \subseteq C
  BY DEF Latest
<1>7. Latest(C) \subseteq D
  BY <1>1, <1>5, <1>6, YearsKept
<1>8. IsFiniteSet(C) /\ C \subseteq Int
  <2>1. C \subseteq { f.end : f \in F }
    BY DEF CompleteEnds, Annual
  <2>2. IsFiniteSet({ f.end : f \in F })
    BY DatesAreFinite
  <2>3. { f.end : f \in F } \subseteq Int
    BY DEF FactAssumption
  <2> QED
    BY <2>1, <2>2, <2>3, FS_Subset
<1> HIDE DEF C, D
<1>9. Latest(D) = Latest(C)
  BY <1>4, <1>7, <1>8, LatestOfFewer
<1> QED
  BY <1>3, <1>9

-----------------------------------------------------------------------------
(* What the grade requires. *)

\* A decision-grade assessment is attested, and left with nothing to review.
LEMMA GradeRequires ==
  ASSUME NEW V, NEW supplied, NEW attested,
         Assess(V, supplied, attested).status = "decision_grade",
         NEW X, X = Consolidated(V), NEW C, C = Ciq(V),
         NEW ends, ends = AnnualEnds(X, V, supplied), NEW window, window = PreferredWindow(X, V)
  PROVE  /\ Disagreements(X, C) = {} /\ Missing(X, C, Expected(V, X, ends, window)) = {}
         /\ \A c \in BalanceChecks(X, ends) \cup CashBridges(X, ends) : c.status = "pass"
         /\ ~(Cardinality(ends) < MinAnnual)
<1> DEFINE expected == IF attested THEN Expected(V, X, ends, window) ELSE {}
           findings == Disagreements(X, C) \cup Missing(X, C, expected)
           checks == BalanceChecks(X, ends) \cup CashBridges(X, ends)
           pure == PureDaMissing(V, supplied)
           incomplete == \/ expected = {} \/ ~Compared(X, C)
                         \/ Cardinality(ends) < MinAnnual
                         \/ ~LtmReady(window)
<1>1. Assess(V, supplied, attested) = Readiness(findings, checks, pure, incomplete)
  BY DEF Assess
<1> HIDE DEF expected, findings, checks, pure, incomplete
<1>2. Readiness(findings, checks, pure, incomplete).status = "decision_grade"
  BY <1>1
<1>3. /\ ~(incomplete \/ findings # {})
      /\ ~\E c \in checks : c.status # "pass"
  BY <1>2 DEF Readiness, Status
<1>4. expected # {} /\ ~(Cardinality(ends) < MinAnnual)
  BY <1>3 DEF incomplete
<1>5. expected = Expected(V, X, ends, window)
  BY <1>4 DEF expected
<1>6. Disagreements(X, C) = {} /\ Missing(X, C, expected) = {}
  BY <1>3 DEF findings
<1> QED
  BY <1>3, <1>4, <1>5, <1>6 DEF checks

\* A distance has no sign and no direction.
LEMMA DistanceIs ==
  ASSUME NEW a \in Int, NEW b \in Int
  PROVE  Distance(a, b) \in Nat /\ Distance(a, b) = Distance(b, a)
  BY DEF Distance

\* Without disagreements, comparable figures agree.
LEMMA NoDisagreement ==
  ASSUME NEW X, NEW C, Disagreements(X, C) = {}, NEW x \in X, NEW c \in C, Overlap(x, c),
         x.value \in Int, c.value \in Int
  PROVE  Agrees(x, c)
<1>1. ~Disagree(x, c)
  <2> DEFINE Q == { q \in X \X C : Overlap(q[1], q[2]) /\ Disagree(q[1], q[2]) }
  <2>1. Q = {}
    <3> DEFINE record(p) == Finding("material_disagreement", Structural(p[1], p[2]), p[1].key, p[1].end, 0, {p[1], p[2]})
    <3>1. Disagreements(X, C) = { record(p) : p \in Q }
      BY DEF Disagreements
    <3> HIDE DEF Q, record
    <3> QED
      BY <3>1
  <2>2. <<x, c>> \in X \X C /\ <<x, c>>[1] = x /\ <<x, c>>[2] = c
    OBVIOUS
  <2>3. ~(Overlap(<<x, c>>[1], <<x, c>>[2]) /\ Disagree(<<x, c>>[1], <<x, c>>[2]))
    BY <2>1, <2>2
  <2> QED
    BY <2>2, <2>3
<1>2. Distance(x.value, c.value) \in Nat
  BY DistanceIs
<1> QED
  BY <1>1, <1>2, BoundsAssumption DEF Disagree, Agrees

\* Without missing figures, both sources show what is expected.
LEMMA NothingMissing ==
  ASSUME NEW X, NEW C, NEW expected, Missing(X, C, expected) = {}, NEW q \in expected
  PROVE  (\E x \in X : Matches(q, x)) /\ (\E c \in C : Matches(q, c))
<1> DEFINE Q == { p \in expected : Shown(p, X) = {} \/ Shown(p, C) = {} }
           absence(p) == Absence(p, Shown(p, X \cup C), OtherWindows(p, IF Shown(p, C) = {} THEN C ELSE X))
<1>1. Missing(X, C, expected) = { absence(p) : p \in Q }
  BY DEF Missing
<1>2. Q = {}
  <2> HIDE DEF Q, absence
  <2> QED
    BY <1>1
<1>3. Shown(q, X) # {} /\ Shown(q, C) # {}
  BY <1>2
<1> QED
  BY <1>3 DEF Shown

\* A filed figure and a CIQ figure of one window corroborate a key, on one statement or
\* for net income.
LEMMA Corroborates ==
  ASSUME NEW X, NEW C, Disagreements(X, C) = {}, NEW N, X \subseteq N, NEW x \in X, NEW c \in C,
         x.value \in Int, c.value \in Int, NEW key, x.key = key, c.key = key,
         x.end = c.end, x.kind = c.kind, OneWindow(x.start, c.start),
         x.statement = c.statement \/ key = "net_income"
  PROVE  Corroborated(N, C, key, x.end, x.kind)
<1>1. x.statement = c.statement => Agrees(x, c)
  BY NoDisagreement DEF Overlap, PeriodCompatible
<1> HIDE DEF OneWindow, Agrees
<1> QED
  BY <1>1 DEF Corroborated

\* A required key is no cash line, no net change and not total assets.
LEMMA RequiredIs ==
  ASSUME NEW key \in RequiredKeys
  PROVE  /\ key \notin NetChangeKeys /\ key \notin CashKeys /\ key # "assets"
         /\ Statement(key) = IF key \in IncomeKeys THEN "income" ELSE "cash_flow"
<1>1. key \notin NetChangeKeys /\ key \notin CashKeys /\ key # "assets"
  BY KeysAssumption
<1>2. CASE key \in IncomeKeys
  BY <1>1, <1>2 DEF Statement
<1>3. CASE key \notin IncomeKeys
  BY <1>1, <1>3 DEF Statement
<1> QED
  BY <1>1, <1>2, <1>3

\* Total assets are no required flow and stand on the balance sheet.
LEMMA AssetsAre ==
  "assets" \notin RequiredKeys /\ "assets" \notin NetChangeKeys /\ Statement("assets") = "balance"
<1>1. "assets" \notin RequiredKeys /\ "assets" \notin NetChangeKeys
  BY KeysAssumption DEF NetChangeKeys
<1>2. "assets" \notin IncomeKeys
  BY <1>1 DEF RequiredKeys
<1> QED
  BY <1>1, <1>2 DEF Statement

\* What a complete year shows.
LEMMA YearShows ==
  ASSUME NEW X, NEW V, NEW supplied \in Treatments, NEW e \in AnnualEnds(X, V, supplied)
  PROVE  LET year == At(Annual(X), e, "annual")
         IN  /\ \A k \in IncomeKeys : \E f \in year : f.key = k /\ f.statement = "income"
             /\ \A k \in CashFlowKeys \ {"da"} : \E f \in year : f.key = k /\ f.statement = "cash_flow"
             /\ \E f \in year : f.key = "assets" /\ f.statement = "balance"
             /\ \E f \in year : f.key \in NetChangeKeys
<1> DEFINE year == At(Annual(X), e, "annual")
           ends == { d \in { f.end : f \in Annual(X) } :
                       YearIsComplete(At(Annual(X), d, "annual"), d, V, supplied) }
           flows == Keys(On(year, "cash_flow"))
           extra == IF CombinedDa(At(V, e, "annual")) THEN {"da"} ELSE {}
<1>1. YearIsComplete(year, e, V, supplied)
  <2>1. e \in Latest(ends)
    BY DEF AnnualEnds
  <2>2. e \in ends
    BY <2>1 DEF Latest
  <2> QED
    BY <2>2
<1>2. /\ IncomeKeys \subseteq Keys(On(year, "income"))
      /\ CashFlowIsComplete(flows \cup supplied \cup extra)
      /\ BalanceIsComplete(Keys(On(year, "balance")))
  BY <1>1 DEF YearIsComplete
<1>3. ASSUME NEW statement, NEW k \in Keys(On(year, statement))
      PROVE  \E f \in year : f.key = k /\ f.statement = statement
  BY DEF Keys, On
<1>4. supplied \cup extra \subseteq {"da"}
  BY DEF Treatments
<1> HIDE DEF year, extra, ends
<1>5. CashFlowKeys \subseteq flows \cup {"da"}
  BY <1>2, <1>4 DEF CashFlowIsComplete
<1>6. NetChangeKeys \cap flows # {}
  <2>1. "da" \notin NetChangeKeys
    BY DEF NetChangeKeys
  <2> QED
    BY <1>2, <1>4, <2>1 DEF CashFlowIsComplete
<1>7. "assets" \in Keys(On(year, "balance"))
  BY <1>2 DEF BalanceIsComplete
<1>8. \A k \in IncomeKeys : \E f \in year : f.key = k /\ f.statement = "income"
  BY <1>2, <1>3
<1>9. \A k \in CashFlowKeys \ {"da"} : \E f \in year : f.key = k /\ f.statement = "cash_flow"
  BY <1>3, <1>5
<1>10. \E f \in year : f.key = "assets" /\ f.statement = "balance"
  BY <1>3, <1>7
<1>11. \E f \in year : f.key \in NetChangeKeys
  BY <1>3, <1>6
<1> QED
  BY <1>8, <1>9, <1>10, <1>11 DEF year

\* The start of a figure is that of one of its candidates.
LEMMA StartIs ==
  ASSUME NEW year, NEW key, NEW f \in year, f.statement = Statement(key), f.key = key,
         \A g \in year : g.start \in Nat
  PROVE  \E x \in year : x.statement = Statement(key) /\ x.key = key /\ x.start = StartOf(year, key)
<1> DEFINE starts == { g.start : g \in { h \in On(year, Statement(key)) : h.key = key } }
<1>1. f.start \in starts
  BY DEF On
<1>2. starts \subseteq Nat
  BY DEF On
<1>3. StartOf(year, key) = CHOOSE s \in starts : \A t \in starts : s <= t
  BY <1>1 DEF StartOf
<1>4. StartOf(year, key) \in starts
  <2> HIDE DEF starts
  <2>1. \E s \in starts : \A t \in starts : s <= t
    BY <1>1, <1>2, LeastNumber
  <2> QED
    BY <1>3, <2>1
<1> QED
  BY <1>4 DEF On

\* What matches a required figure or total assets.
LEMMA MatchIs ==
  ASSUME NEW key \in RequiredKeys \cup {"assets"}, NEW start, NEW e, NEW kind, NEW f,
         Matches(Quantity(key, start, e, kind), f)
  PROVE  /\ f.key = key /\ f.end = e /\ f.kind = kind
         /\ f.statement = Statement(key) \/ key = "net_income"
         /\ start = 0 \/ OneWindow(start, f.start)
<1>1. key \notin NetChangeKeys
  BY RequiredIs, AssetsAre
<1> HIDE DEF OneWindow, Statement
<1> QED
  BY <1>1 DEF Matches, Quantity, Alternates

\* The figures of a complete year are corroborated.
LEMMA YearCorroborated ==
  ASSUME NEW V, FactAssumption(V), NEW supplied \in Treatments,
         NEW X, X = Consolidated(V), NEW C, C = Ciq(V), NEW N, X \subseteq N,
         NEW ends, ends = AnnualEnds(X, V, supplied), NEW window,
         Disagreements(X, C) = {}, Missing(X, C, Expected(V, X, ends, window)) = {},
         NEW e \in ends,
         NEW key \in (RequiredKeys \ (IF CombinedDa(At(V, e, "annual")) THEN {"da"} ELSE {})) \cup {"assets"}
  PROVE  Corroborated(N, C, key, e, "annual")
<1> DEFINE year == At(X, e, "annual")
           q == Quantity(key, StartOf(year, key), e, "annual")
<1>1. X \subseteq V /\ C \subseteq V
  BY DEF Consolidated, Xbrl, Ciq
<1>2. q \in Expected(V, X, ends, window)
  <2>1. key \in YearKeys(year, CombinedDa(At(V, e, "annual")))
    BY DEF YearKeys
  <2>2. q \in AnnualExpected(year, e, V)
    BY <2>1 DEF AnnualExpected
  <2> HIDE DEF q
  <2> QED
    BY <2>2 DEF Expected
<1>3. (\E x \in X : Matches(q, x)) /\ (\E c \in C : Matches(q, c))
  <2> HIDE DEF q
  <2> QED
    BY <1>2, NothingMissing
<1>4. PICK c \in C : Matches(q, c)
  BY <1>3
<1> HIDE DEF year
<1>5. ASSUME NEW f, Matches(q, f)
      PROVE  /\ f.key = key /\ f.end = e /\ f.kind = "annual"
             /\ f.statement = Statement(key) \/ key = "net_income"
             /\ StartOf(year, key) = 0 \/ OneWindow(StartOf(year, key), f.start)
  BY <1>5, MatchIs
<1>6. \E f \in year : f.statement = Statement(key) /\ f.key = key
  <2> DEFINE filed == At(Annual(X), e, "annual")
  <2>1. filed \subseteq year
    BY DEF At, Annual, year
  <2>2. CASE key # "net_income"
    <3>1. PICK x \in X : Matches(q, x)
      BY <1>3
    <3>2. x.key = key /\ x.end = e /\ x.kind = "annual" /\ x.statement = Statement(key)
      BY <1>5, <2>2, <3>1
    <3> QED
      BY <3>2 DEF year, At
  <2>3. CASE key = "net_income"
    <3>1. key \in RequiredKeys
      BY <2>3
    <3>2. CASE key \in IncomeKeys
      <4>1. \E f \in filed : f.key = key /\ f.statement = "income"
        BY <3>2, YearShows
      <4> QED
        BY <2>1, <3>1, <3>2, <4>1, RequiredIs
    <3>3. CASE key \notin IncomeKeys
      <4>1. key \in CashFlowKeys \ {"da"}
        BY <2>3, <3>1, <3>3 DEF RequiredKeys
      <4>2. \E f \in filed : f.key = key /\ f.statement = "cash_flow"
        BY <4>1, YearShows
      <4> QED
        BY <2>1, <3>1, <3>3, <4>2, RequiredIs
    <3> QED
      BY <3>2, <3>3
  <2> QED
    BY <2>2, <2>3
<1>7. PICK x \in year : x.statement = Statement(key) /\ x.key = key /\ x.start = StartOf(year, key)
  <2>1. \A g \in year : g.start \in Nat
    BY <1>1 DEF year, At, FactAssumption
  <2> QED
    BY <1>6, <2>1, StartIs
<1>8. x \in X /\ x.end = e /\ x.kind = "annual"
  BY DEF year, At
<1>9. c.key = key /\ c.end = e /\ c.kind = "annual" /\ (c.statement = Statement(key) \/ key = "net_income")
  BY <1>4, <1>5
<1>10. x \in V /\ c \in V /\ x.value \in Int /\ c.value \in Int
  BY <1>1, <1>8 DEF FactAssumption
<1>11. OneWindow(x.start, c.start)
  <2>1. CASE key = "assets"
    <3>1. x.start = 0 /\ c.start = 0
      BY <1>7, <1>9, <1>10, <2>1 DEF FactAssumption
    <3> QED
      BY <3>1 DEF OneWindow
  <2>2. CASE key # "assets"
    <3>1. x.start # 0
      BY <1>7, <1>8, <1>10, <2>2 DEF FactAssumption
    <3> QED
      BY <1>4, <1>5, <1>7, <3>1
  <2> QED
    BY <2>1, <2>2
<1> HIDE DEF q
<1>12. Corroborated(N, C, key, x.end, x.kind)
  <2> HIDE DEF OneWindow, Statement
  <2> QED
    BY <1>7, <1>8, <1>9, <1>10, <1>11, Corroborates
<1> QED
  BY <1>8, <1>12

\* ... and those of a trailing window newer than the years, when it is the only one.
LEMMA WindowCorroborated ==
  ASSUME NEW V, FactAssumption(V), NEW X, X = Consolidated(V), NEW C, C = Ciq(V), NEW N, X \subseteq N,
         NEW ends, NEW window, NEW w \in window, ~Superseded(w, ends), w.start # 0,
         \A f, g \in V : f.kind = "ltm" /\ g.kind = "ltm" /\ f.start # 0 /\ g.start # 0 => f.start = g.start,
         Disagreements(X, C) = {}, Missing(X, C, Expected(V, X, ends, window)) = {},
         NEW key \in RequiredKeys \ (IF CombinedDa(At(V, w.end, "ltm")) THEN {"da"} ELSE {})
  PROVE  Corroborated(N, C, key, w.end, "ltm")
<1> DEFINE q == Quantity(key, w.start, w.end, "ltm")
<1>1. X \subseteq V /\ C \subseteq V
  BY DEF Consolidated, Xbrl, Ciq
<1>2. q \in Expected(V, X, ends, window)
  <2>1. q \in TrailingExpected(w, V)
    BY DEF TrailingExpected
  <2>2. w \in { v \in window : ~Superseded(v, ends) }
    OBVIOUS
  <2> HIDE DEF q
  <2> DEFINE asked == UNION { TrailingExpected(v, V) : v \in { u \in window : ~Superseded(u, ends) } }
  <2>3. q \in asked
    BY <2>1, <2>2
  <2>4. asked \subseteq Expected(V, X, ends, window)
    BY Zenon DEF Expected
  <2> HIDE DEF asked
  <2> QED
    BY <2>3, <2>4
<1>3. (\E x \in X : Matches(q, x)) /\ (\E c \in C : Matches(q, c))
  <2> HIDE DEF q
  <2> QED
    BY <1>2, NothingMissing
<1>4. PICK x \in X, c \in C : Matches(q, x) /\ Matches(q, c)
  BY <1>3
<1>5. ASSUME NEW f, Matches(q, f)
      PROVE  /\ f.key = key /\ f.end = w.end /\ f.kind = "ltm"
             /\ f.statement = Statement(key) \/ key = "net_income"
  BY <1>5, MatchIs
<1> HIDE DEF q
<1>6. /\ x.key = key /\ x.end = w.end /\ x.kind = "ltm"
      /\ c.key = key /\ c.end = w.end /\ c.kind = "ltm"
      /\ x.statement = c.statement \/ key = "net_income"
  BY <1>4, <1>5
<1>7. x \in V /\ c \in V /\ x.value \in Int /\ c.value \in Int /\ x.start # 0 /\ c.start # 0
  BY <1>1, <1>6 DEF FactAssumption
<1>8. OneWindow(x.start, c.start)
  BY <1>6, <1>7 DEF OneWindow
<1>9. Corroborated(N, C, key, x.end, x.kind)
  <2> HIDE DEF OneWindow
  <2> QED
    BY <1>6, <1>7, <1>8, Corroborates
<1> QED
  BY <1>6, <1>9

-----------------------------------------------------------------------------
(* The trailing window. *)

\* The group of a trailing figure.
TrailingOf(X, F, f) ==
  [family |-> f.source, origin |-> f.origin, start |-> f.start, end |-> f.end,
   facts |-> Windowed(X, <<f.source, f.origin, f.start, f.end>>) \cup ApprovedSource(F, f.start, f.end, "ltm")]

\* Every trailing group is that of a trailing figure.
LEMMA TrailingGroupsAre ==
  ASSUME NEW X, NEW F
  PROVE  TrailingGroups(X, F) = { TrailingOf(X, F, f) : f \in { g \in X : g.kind = "ltm" } }
<1> DEFINE T == { g \in X : g.kind = "ltm" }
           group(w) == [family |-> w[1], origin |-> w[2], start |-> w[3], end |-> w[4],
                        facts |-> Windowed(X, w) \cup ApprovedSource(F, w[3], w[4], "ltm")]
           of(f) == <<f.source, f.origin, f.start, f.end>>
<1>1. TrailingGroups(X, F) = { group(w) : w \in { of(f) : f \in T } }
  BY DEF TrailingGroups
<1>2. \A f : group(of(f)) = TrailingOf(X, F, f)
  BY DEF TrailingOf
<1> HIDE DEF T, group, of
<1>3. { group(w) : w \in { of(f) : f \in T } } = { group(of(f)) : f \in T }
  OBVIOUS
<1> QED
  BY <1>1, <1>2, <1>3 DEF T

\* The group of a complete year.
YearOf(X, F, e) == AnnualGroup(At(Annual(X), e, "annual"), e, F)

\* Every annual group is that of a complete year.
LEMMA AnnualGroupsAre ==
  ASSUME NEW X, NEW F, FactAssumption(F), X \subseteq F, NEW g \in AnnualGroups(X, F)
  PROVE  \E e \in AnnualEnds(X, F, {}) : g = YearOf(X, F, e)
  BY DEF AnnualGroups, YearGroups, YearOf

\* What completes a window are facts.
LEMMA ApprovedAreFacts ==
  ASSUME NEW F, NEW start, NEW end, NEW kind
  PROVE  ApprovedSource(F, start, end, kind) \subseteq F
  BY DEF ApprovedSource, On, Ciq, At

\* A window starts and ends at numbers and consists of facts.
WindowOK(g, F) ==
  g.start \in Int /\ g.end \in Int /\ GroupRank(g) \in Tuples(5) /\ g.facts \subseteq F

\* Groups are ranked by tuples of numbers.
LEMMA RankOf ==
  ASSUME NEW g, g.start \in Int, g.end \in Int, g.origin \in Int
  PROVE  GroupRank(g) \in Tuples(5)
<1>1. One(HasRequired(g)) \in Int /\ One(g.family = "presentation") \in Int
  BY DEF One
<1> QED
  BY <1>1, FourAndFive DEF GroupRank

\* The group of a trailing figure is a window,
LEMMA TrailingOK ==
  ASSUME NEW F, FactAssumption(F), NEW X, X \subseteq F, NEW f \in X, f.kind = "ltm"
  PROVE  WindowOK(TrailingOf(X, F, f), F)
<1> DEFINE g == TrailingOf(X, F, f)
<1>1. g.start = f.start /\ g.end = f.end /\ g.origin = f.origin
  BY DEF TrailingOf
<1>2. g.facts = Windowed(X, <<f.source, f.origin, f.start, f.end>>) \cup ApprovedSource(F, f.start, f.end, "ltm")
  BY DEF TrailingOf
<1>3. Windowed(X, <<f.source, f.origin, f.start, f.end>>) \subseteq F
  BY DEF Windowed
<1>4. f.start \in Int /\ f.end \in Int /\ f.origin \in Int
  BY DEF FactAssumption
<1> HIDE DEF g
<1> QED
  BY <1>1, <1>2, <1>3, <1>4, ApprovedAreFacts, RankOf DEF WindowOK, g

\* ... and so is a complete year, which has a start by its net change in cash.
LEMMA YearOK ==
  ASSUME NEW F, FactAssumption(F), NEW X, X \subseteq F, NEW e \in AnnualEnds(X, F, {})
  PROVE  WindowOK(YearOf(X, F, e), F) /\ YearOf(X, F, e).end = e /\ e \in Int
<1> DEFINE year == At(Annual(X), e, "annual")
           g == YearOf(X, F, e)
<1>1. year \subseteq F
  BY DEF At, Annual
<1>2. PICK f \in year : f.key \in NetChangeKeys
  BY YearShows DEF Treatments
<1>3. f.start # 0 /\ f.end = e /\ f.end \in Int
  BY <1>1, <1>2 DEF FactAssumption, At
<1>4. YearStart(year) \in Int
  <2>1. (CHOOSE h \in year : h.start # 0) \in year
    BY <1>3
  <2> HIDE DEF year
  <2> QED
    BY <1>1, <2>1 DEF YearStart, FactAssumption
<1>5. /\ g.start = YearStart(year) /\ g.end = e /\ g.origin = 0
      /\ g.facts = year \cup ApprovedSource(F, YearStart(year), e, "annual")
  BY DEF YearOf, AnnualGroup, Window
<1> HIDE DEF g, year
<1> QED
  BY <1>1, <1>3, <1>4, <1>5, ApprovedAreFacts, RankOf DEF WindowOK, g

\* Windows that tie cover the same days.
LEMMA BestTie ==
  ASSUME NEW groups, NEW F, \A g \in groups : WindowOK(g, F),
         NEW g \in BestOf(groups), NEW h \in BestOf(groups)
  PROVE  g.start = h.start /\ g.end = h.end
<1>1. GroupRank(g) \in Tuples(5) /\ GroupRank(h) \in Tuples(5)
  BY DEF WindowOK, BestOf
<1>2. ~Before(GroupRank(g), GroupRank(h)) /\ ~Before(GroupRank(h), GroupRank(g))
  BY DEF BestOf
<1>3. GroupRank(g) = GroupRank(h)
  BY <1>1, <1>2, BeforeIsTotal
<1>4. GroupRank(g)[1] = GroupRank(h)[1] /\ GroupRank(g)[4] = GroupRank(h)[4]
  BY <1>3
<1> QED
  BY <1>4 DEF GroupRank

\* All that a window is chosen from are windows.
LEMMA GroupsOK ==
  ASSUME NEW F, FactAssumption(F), NEW X, X \subseteq F
  PROVE  \A g \in YearGroups(X, F) \cup TrailingGroups(X, F) : WindowOK(g, F)
<1>1. ASSUME NEW g \in YearGroups(X, F)
      PROVE  WindowOK(g, F)
  BY YearOK DEF YearGroups, YearOf
<1>2. ASSUME NEW g \in TrailingGroups(X, F)
      PROVE  WindowOK(g, F)
  BY TrailingGroupsAre, TrailingOK
<1> QED
  BY <1>1, <1>2

\* The preferred window covers one span of days and consists of facts.
LEMMA WindowIsOne ==
  ASSUME NEW F, FactAssumption(F), NEW X, X \subseteq F
  PROVE  /\ \A v, w \in PreferredWindow(X, F) : v.start = w.start /\ v.end = w.end
         /\ \A w \in PreferredWindow(X, F) : w.facts \subseteq F
<1>1. \/ PreferredWindow(X, F) = BestOf(YearGroups(X, F))
      \/ PreferredWindow(X, F) = BestOf(AnnualGroups(X, F))
      \/ PreferredWindow(X, F) = BestOf(TrailingGroups(X, F))
  BY DEF PreferredWindow, Newer
<1>2. /\ \A g \in YearGroups(X, F) : WindowOK(g, F)
      /\ \A g \in AnnualGroups(X, F) : WindowOK(g, F)
      /\ \A g \in TrailingGroups(X, F) : WindowOK(g, F)
  BY GroupsOK DEF AnnualGroups
<1>3. ASSUME NEW groups, \A g \in groups : WindowOK(g, F)
      PROVE  /\ \A v, w \in BestOf(groups) : v.start = w.start /\ v.end = w.end
             /\ \A w \in BestOf(groups) : w.facts \subseteq F
  <2>1. \A v, w \in BestOf(groups) : v.start = w.start /\ v.end = w.end
    BY <1>3, BestTie
  <2>2. \A w \in BestOf(groups) : w.facts \subseteq F
    BY <1>3 DEF BestOf, WindowOK
  <2> QED
    BY <2>1, <2>2
<1> QED
  BY <1>1, <1>2, <1>3

\* A view holds the trailing figures of one window: its parts are those of filed periods.
LEMMA OneTrailingWindow ==
  ASSUME NEW F, FactAssumption(F), NEW supplied, NEW V, V = View(F, supplied),
         NEW f \in V, NEW g \in V, f.kind = "ltm", g.kind = "ltm", f.start # 0, g.start # 0
  PROVE  f.start = g.start /\ f.end = g.end
<1> DEFINE X == Consolidated(F)
           window == PreferredWindow(X, F)
<1>1. X \subseteq F
  BY DEF Consolidated, Xbrl
<1> HIDE DEF X
<1>2. ASSUME NEW h \in V, h.kind = "ltm", h.start # 0
      PROVE  \E w \in window : w.start = h.start /\ w.end = h.end
  <2>1. h \in F
    BY DEF View, Bounded
  <2>2. h.id \notin Parts(window)
    <3>1. ASSUME h.id \in Parts(window)
          PROVE  FALSE
      <4>1. PICK w \in window : \E p \in w.facts : h.id \in p.parts
        BY <3>1 DEF Parts
      <4>2. PICK p \in w.facts : h.id \in p.parts
        BY <4>1
      <4>3. p \in F
        BY <1>1, <4>2, WindowIsOne
      <4> QED
        BY <1>2, <2>1, <4>2, <4>3 DEF FactAssumption
    <3> QED
      BY <3>1
  <2>3. \E w \in window : <<w.start, w.end>> = <<h.start, h.end>>
    BY <1>2, <2>2 DEF View, Bounded, X
  <2> QED
    BY <2>3
<1>3. PICK v \in window : v.start = f.start /\ v.end = f.end
  BY <1>2
<1>4. PICK w \in window : w.start = g.start /\ w.end = g.end
  BY <1>2
<1> QED
  BY <1>1, <1>3, <1>4, WindowIsOne

\* With treatments the newest complete year is no older than without.
LEMMA MoreSupplied ==
  ASSUME NEW F, IsFiniteSet(F), FactAssumption(F), NEW X, X \subseteq F, NEW supplied \in Treatments,
         NEW d \in AnnualEnds(X, F, {})
  PROVE  \E e \in AnnualEnds(X, F, supplied) : e >= d
<1> DEFINE complete(s) == { e \in { f.end : f \in Annual(X) } :
                              YearIsComplete(At(Annual(X), e, "annual"), e, F, s) }
           A == complete(supplied)
           S == { f \in Annual(X) : f.end \in A }
           rank == [f \in S |-> <<f.end>>]
<1>1. \A s : AnnualEnds(X, F, s) = Latest(complete(s))
  BY DEF AnnualEnds
<1>2. d \in complete({})
  <2> HIDE DEF complete
  <2> QED
    BY <1>1 DEF Latest
<1>3. d \in A
  <2>1. \A keys, more : CashFlowIsComplete(keys) => CashFlowIsComplete(keys \cup more)
    BY DEF CashFlowIsComplete
  <2> DEFINE year == At(Annual(X), d, "annual")
             flows == Keys(On(year, "cash_flow"))
             extra == IF CombinedDa(At(F, d, "annual")) THEN {"da"} ELSE {}
  <2>2. YearIsComplete(year, d, F, {})
    BY <1>2
  <2>3. /\ IncomeKeys \subseteq Keys(On(year, "income")) /\ BalanceIsComplete(Keys(On(year, "balance")))
        /\ CashFlowIsComplete(flows \cup {} \cup extra)
    BY <2>2 DEF YearIsComplete
  <2>4. CashFlowIsComplete(flows \cup supplied \cup extra)
    <3>1. flows \cup supplied \cup extra = (flows \cup {} \cup extra) \cup supplied
      OBVIOUS
    <3> HIDE DEF flows, extra
    <3> QED
      BY <2>1, <2>3, <3>1
  <2>5. YearIsComplete(year, d, F, supplied)
    BY <2>3, <2>4 DEF YearIsComplete
  <2> QED
    BY <1>2, <2>5
<1>4. Annual(X) \subseteq F
  BY DEF Annual
<1>5. \A e \in A : e \in Int /\ \E f \in S : f.end = e
  BY <1>4 DEF FactAssumption
<1>6. S \subseteq F /\ IsFiniteSet(S)
  BY <1>4, FS_Subset
<1>7. PICK a \in S : \A b \in S : ~(a.end < b.end)
  <2>1. \A f \in S : f.end \in Int
    BY <1>5
  <2> HIDE DEF S
  <2>2. \A f \in S : <<f.end>> \in Tuples(1)
    BY <2>1 DEF Tuples
  <2>3. rank \in [S -> Tuples(1)]
    BY <2>2
  <2>4. \A f \in S : rank[f] = <<f.end>>
    OBVIOUS
  <2> HIDE DEF rank
  <2>5. S # {}
    BY <1>3, <1>5
  <2>6. PICK a \in S : \A b \in S : ~Before(rank[a], rank[b])
    BY <1>6, <2>3, <2>5, HighestRank
  <2>7. ASSUME NEW b \in S, a.end < b.end
        PROVE  FALSE
    <3>1. Before(<<a.end>>, <<b.end>>)
      <4>1. DOMAIN <<a.end>> = {1} /\ 1..(1 - 1) = {}
        OBVIOUS
      <4> QED
        BY <2>7, <4>1 DEF Before
    <3> QED
      BY <2>4, <2>6, <3>1
  <2> QED
    BY <2>7
<1> DEFINE m == a.end
<1>8. m \in A
  OBVIOUS
<1>9. \A e \in A : ~(e > m)
  BY <1>5, <1>7
<1>10. m \in Int /\ d \in Int /\ m >= d
  <2> HIDE DEF A
  <2> QED
    BY <1>3, <1>5, <1>8, <1>9
<1>11. m \in Latest(A)
  <2> HIDE DEF A, m
  <2>1. { e \in A : e > m } = {}
    BY <1>9
  <2>2. Cardinality({ e \in A : e > m }) < MaxAnnual
    BY <2>1, FS_EmptySet, BoundsAssumption
  <2> QED
    BY <1>8, <2>2 DEF Latest
<1> HIDE DEF complete, m
<1> QED
  BY <1>1, <1>10, <1>11

\* A trailing figure newer than the complete years makes a trailing window preferred that
\* is as new.
LEMMA TrailingPreferred ==
  ASSUME NEW F, IsFiniteSet(F), FactAssumption(F), NEW X, X \subseteq F, NEW supplied \in Treatments,
         NEW f \in X, f.kind = "ltm", ~\E e \in AnnualEnds(X, F, supplied) : e >= f.end
  PROVE  \E x \in X : /\ x.kind = "ltm" /\ x.end >= f.end
                      /\ TrailingOf(X, F, x) \in PreferredWindow(X, F)
<1> DEFINE T == { g \in X : g.kind = "ltm" }
           rank == [g \in T |-> GroupRank(TrailingOf(X, F, g))]
<1>1. IsFiniteSet(T) /\ f \in T
  BY FS_Subset
<1>2. \A g \in T : WindowOK(TrailingOf(X, F, g), F)
  BY TrailingOK
<1>3. rank \in [T -> Tuples(5)]
  <2> HIDE DEF T
  <2> QED
    BY <1>2 DEF WindowOK
<1>4. PICK a \in T : \A b \in T : ~Before(rank[a], rank[b])
  <2> HIDE DEF T, rank
  <2> QED
    BY <1>1, <1>3, HighestRank
<1>5. \A b \in T : ~Before(GroupRank(TrailingOf(X, F, a)), GroupRank(TrailingOf(X, F, b)))
  <2> HIDE DEF T
  <2> QED
    BY <1>4
<1>6. TrailingGroups(X, F) = { TrailingOf(X, F, g) : g \in T }
  BY TrailingGroupsAre
<1> DEFINE best == TrailingOf(X, F, a)
<1>7. best \in BestOf(TrailingGroups(X, F))
  <2> HIDE DEF T
  <2> QED
    BY <1>5, <1>6 DEF BestOf
<1>8. a.end \in Int /\ f.end \in Int /\ a.end >= f.end
  <2>1. a.end \in Int /\ f.end \in Int
    BY DEF FactAssumption
  <2>2. ~Before(GroupRank(best), GroupRank(TrailingOf(X, F, f)))
    BY <1>1, <1>5
  <2>3. \A g : GroupRank(TrailingOf(X, F, g))[1] = g.end /\ DOMAIN GroupRank(TrailingOf(X, F, g)) = 1..5
    BY DEF GroupRank, TrailingOf
  <2>4. ~(a.end < f.end)
    <3> HIDE DEF best
    <3>1. 1 \in 1..5 /\ 1..(1 - 1) = {}
      OBVIOUS
    <3> QED
      BY <2>2, <2>3, <3>1 DEF Before, best
  <2> QED
    BY <2>1, <2>4
<1>9. ASSUME NEW y \in BestOf(AnnualGroups(X, F))
      PROVE  ~(y.end >= best.end)
  <2>1. PICK d \in AnnualEnds(X, F, {}) : y = YearOf(X, F, d)
    BY AnnualGroupsAre DEF BestOf
  <2>2. y.end = d /\ d \in Int
    BY <2>1, YearOK
  <2>3. PICK e \in AnnualEnds(X, F, supplied) : e >= d
    BY MoreSupplied
  <2>4. e \in Int
    <3>1. e \in { h.end : h \in Annual(X) }
      BY DEF AnnualEnds, Latest
    <3> QED
      BY <3>1 DEF Annual, FactAssumption
  <2>5. best.end = a.end
    BY DEF TrailingOf
  <2> HIDE DEF best
  <2> QED
    BY <1>8, <2>2, <2>3, <2>4, <2>5
<1>10. best \in PreferredWindow(X, F)
  <2> HIDE DEF best
  <2>0. TrailingGroups(X, F) # {}
    BY <1>7 DEF BestOf
  <2>1. PreferredWindow(X, F) = BestOf(TrailingGroups(X, F))
    BY <1>7, <1>9, <2>0 DEF PreferredWindow, Newer
  <2> QED
    BY <1>7, <2>1
<1> QED
  BY <1>8, <1>10

-----------------------------------------------------------------------------
(* The two statement checks. *)

AmountRank(f) == <<StatementRank(f), f.start, One(f.kind = "ltm"), f.context>>

\* Figures are ranked by tuples of numbers.
LEMMA AmountRankIs ==
  ASSUME NEW F, FactAssumption(F), NEW f \in F
  PROVE  AmountRank(f) \in Tuples(4)
<1>1. StatementRank(f) \in Int
  BY DEF StatementRank
<1>2. One(f.kind = "ltm") \in Int /\ f.start \in Int /\ f.context \in Int
  BY DEF One, FactAssumption
<1> HIDE DEF StatementRank
<1> QED
  BY <1>1, <1>2, FourAndFive DEF AmountRank

\* An amount is a figure no other exceeds in rank.
LEMMA AmountIs ==
  ASSUME NEW X, NEW keys, NEW end
  PROVE  AmountOf(X, keys, end)
           = { f \in X : /\ f.key \in keys /\ f.end = end
                         /\ \A g \in X : g.key \in keys /\ g.end = end => ~Before(AmountRank(f), AmountRank(g)) }
<1> DEFINE figures == { f \in X : f.key \in keys /\ f.end = end }
<1>1. AmountOf(X, keys, end) = { f \in figures : \A g \in figures : ~Before(AmountRank(f), AmountRank(g)) }
  BY DEF AmountOf, AmountRank
<1> HIDE DEF AmountRank
<1> QED
  BY <1>1

\* There is an amount where there is a figure; amounts that tie start on one day.
LEMMA AmountShown ==
  ASSUME NEW X, IsFiniteSet(X), FactAssumption(X), NEW keys, NEW end
  PROVE  /\ \A f \in X : f.key \in keys /\ f.end = end => AmountOf(X, keys, end) # {}
         /\ \A f, g \in AmountOf(X, keys, end) : f.start = g.start
<1> DEFINE figures == { f \in X : f.key \in keys /\ f.end = end }
           rank == [f \in figures |-> AmountRank(f)]
<1>1. IsFiniteSet(figures)
  BY FS_Subset
<1>2. \A f \in figures : AmountRank(f) \in Tuples(4)
  BY AmountRankIs
<1>3. ASSUME figures # {}
      PROVE  AmountOf(X, keys, end) # {}
  <2>1. rank \in [figures -> Tuples(4)]
    <3> HIDE DEF figures
    <3> QED
      BY <1>2
  <2>2. PICK a \in figures : \A b \in figures : ~Before(rank[a], rank[b])
    <3> HIDE DEF figures, rank
    <3> QED
      BY <1>1, <1>3, <2>1, HighestRank
  <2>3. \A b \in figures : ~Before(AmountRank(a), AmountRank(b))
    <3> HIDE DEF figures
    <3> QED
      BY <2>2
  <2>4. a \in AmountOf(X, keys, end)
    BY <2>3, AmountIs
  <2> QED
    BY <2>4
<1>4. ASSUME NEW f \in AmountOf(X, keys, end), NEW g \in AmountOf(X, keys, end)
      PROVE  f.start = g.start
  <2>1. /\ f \in X /\ g \in X
        /\ ~Before(AmountRank(f), AmountRank(g)) /\ ~Before(AmountRank(g), AmountRank(f))
    BY AmountIs
  <2>2. AmountRank(f) = AmountRank(g)
    BY <2>1, AmountRankIs, BeforeIsTotal
  <2>3. AmountRank(f)[2] = AmountRank(g)[2]
    BY <2>2
  <2> QED
    BY <2>3 DEF AmountRank
<1> QED
  BY <1>3, <1>4

\* The value of a choice is that of a figure.
LEMMA ValueIs ==
  ASSUME NEW F, F # {}
  PROVE  \E f \in F : Value(F) = f.value
  BY DEF Value

\* What passes is within the tolerance.
LEMMA VerdictPasses ==
  ASSUME NEW expected, NEW actual, Verdict(expected, actual) = "pass"
  PROVE  Distance(expected, actual) <= Tolerance
  BY DEF Verdict

\* The balance sheet of a complete year is checked.
LEMMA YearBalances ==
  ASSUME NEW X, IsFiniteSet(X), FactAssumption(X), NEW N, X \subseteq N,
         NEW V, NEW supplied \in Treatments, NEW ends, ends = AnnualEnds(X, V, supplied), NEW e \in ends,
         \A c \in BalanceChecks(X, ends) : c.status = "pass"
  PROVE  Balances(N, e)
<1> DEFINE assets == AmountOf(X, {"assets"}, e)
           claims == AmountOf(X, {"claims"}, e)
           liabilities == AmountOf(X, {"liabilities"}, e)
           equity == AmountOf(X, {"equity"}, e)
<1>1. assets # {}
  <2>1. PICK f \in At(Annual(X), e, "annual") : f.key = "assets"
    BY YearShows
  <2>2. f \in X /\ f.end = e
    BY DEF At, Annual
  <2> QED
    BY <2>1, <2>2, AmountShown
<1>2. BalanceCheck(e, assets, claims, liabilities, equity) \in BalanceChecks(X, ends)
  BY <1>1 DEF BalanceChecks
<1>3. ASSUME NEW key, NEW f \in AmountOf(X, {key}, e)
      PROVE  f \in N /\ f.key = key /\ f.end = e /\ f.value \in Int
  BY AmountIs DEF FactAssumption
<1>4. /\ \A f \in assets : f \in N /\ f.key = "assets" /\ f.end = e /\ f.value \in Int
      /\ \A f \in claims : f \in N /\ f.key = "claims" /\ f.end = e /\ f.value \in Int
      /\ \A f \in liabilities : f \in N /\ f.key = "liabilities" /\ f.end = e /\ f.value \in Int
      /\ \A f \in equity : f \in N /\ f.key = "equity" /\ f.end = e /\ f.value \in Int
  BY <1>3
<1> HIDE DEF assets, claims, liabilities, equity
<1>5. PICK a \in assets : Value(assets) = a.value
  BY <1>1, ValueIs
<1>6. BalanceCheck(e, assets, claims, liabilities, equity).status = "pass"
  BY <1>2
<1>7. CASE claims # {}
  <2>1. Verdict(Value(claims), Value(assets)) = "pass"
    BY <1>6, <1>7 DEF BalanceCheck, Check
  <2>2. PICK c \in claims : Value(claims) = c.value
    BY <1>7, ValueIs
  <2>3. Agrees(a, c)
    <3>1. Distance(c.value, a.value) <= Tolerance
      BY <1>5, <2>1, <2>2, VerdictPasses
    <3>2. a.value \in Int /\ c.value \in Int
      BY <1>4
    <3>3. Distance(a.value, c.value) = Distance(c.value, a.value)
      BY <3>2, DistanceIs
    <3> QED
      BY <3>1, <3>3 DEF Agrees
  <2> HIDE DEF Agrees
  <2> QED
    BY <1>4, <2>3 DEF Balances
<1>8. CASE claims = {}
  <2>1. {} \notin {liabilities, equity} /\ Verdict(Value(liabilities) + Value(equity), Value(assets)) = "pass"
    BY <1>6, <1>8 DEF BalanceCheck, Check
  <2>2. PICK l \in liabilities, q \in equity : Value(liabilities) = l.value /\ Value(equity) = q.value
    BY <2>1, ValueIs
  <2>3. Distance(l.value + q.value, a.value) <= Tolerance
    BY <1>5, <2>1, <2>2, VerdictPasses
  <2> HIDE DEF Agrees
  <2> QED
    BY <1>4, <2>3 DEF Balances
<1> QED
  BY <1>7, <1>8

\* A bridge that passes leads from the cash before the year to the cash at its end.
LEMMA BridgePasses ==
  ASSUME NEW X, IsFiniteSet(X), FactAssumption(X), NEW N, X \subseteq N, NEW e,
         NEW key \in NetChangeKeys, NEW line, line = {IF key = "net_change" THEN "cash" ELSE "cash_restricted"},
         Bridge(X, e, line, AmountOf(X, {key}, e)).status = "pass"
  PROVE  Bridges(N, e)
<1> DEFINE change == AmountOf(X, {key}, e)
           ending == AmountOf(X, line, e)
           opening == Opening(X, line, change)
<1>1. BridgeOf(e, opening, change, ending).status = "pass"
  BY DEF Bridge
<1>2. \A f \in change : f \in X /\ f.key = key /\ f.end = e
  BY AmountIs
<1>3. \A f \in ending : f \in X /\ f.key \in line /\ f.end = e
  BY AmountIs
<1>4. \A f, g \in change : f.start = g.start
  BY AmountShown
<1>5. ASSUME NEW f \in opening
      PROVE  f \in X /\ f.key \in CashKeys /\ \E g \in change : f.end = g.start - 1
  <2>1. PICK keys \in {line, CashKeys \ line} :
          f \in UNION { AmountOf(X, keys, g.start - 1) : g \in { h \in change : h.start # 0 } }
    <3> HIDE DEF change
    <3> QED
      BY DEF Opening, FirstOf
  <2> HIDE DEF change
  <2>2. PICK g \in change : f \in AmountOf(X, keys, g.start - 1)
    BY <2>1
  <2>3. f \in X /\ f.key \in keys /\ f.end = g.start - 1
    BY <2>2, AmountIs
  <2>4. keys \subseteq CashKeys
    BY DEF CashKeys
  <2> QED
    BY <2>3, <2>4
<1> HIDE DEF opening, change, ending
<1>6. {} \notin {opening, change, ending} /\ Verdict(Value(opening) + Value(change), Value(ending)) = "pass"
  BY <1>1 DEF BridgeOf, Check
<1>7. PICK o \in opening, c \in change, d \in ending :
        Value(opening) = o.value /\ Value(change) = c.value /\ Value(ending) = d.value
  BY <1>6, ValueIs
<1>8. Distance(o.value + c.value, d.value) <= Tolerance
  BY <1>6, <1>7, VerdictPasses
<1>9. o.end = c.start - 1
  BY <1>4, <1>5
<1>10. o \in N /\ c \in N /\ d \in N /\ o.key \in CashKeys /\ c.key = key /\ c.end = e /\ d.end = e /\ d.key \in line
  BY <1>2, <1>3, <1>5
<1> QED
  BY <1>8, <1>9, <1>10 DEF Bridges

\* The cash bridge of a complete year that is not the first is checked.
LEMMA YearBridges ==
  ASSUME NEW X, IsFiniteSet(X), FactAssumption(X), NEW N, X \subseteq N,
         NEW V, NEW supplied \in Treatments, NEW ends, ends = AnnualEnds(X, V, supplied),
         NEW d \in ends, NEW e \in ends, d < e, \A c \in CashBridges(X, ends) : c.status = "pass"
  PROVE  Bridges(N, e)
<1> DEFINE key == IF AmountOf(X, {"net_change_restricted"}, e) # {} THEN "net_change_restricted" ELSE "net_change"
           line == {IF key = "net_change" THEN "cash" ELSE "cash_restricted"}
           change == AmountOf(X, {key}, e)
<1>1. key \in NetChangeKeys
  BY DEF NetChangeKeys
<1>2. change # {}
  <2>1. PICK f \in At(Annual(X), e, "annual") : f.key \in NetChangeKeys
    BY YearShows
  <2>2. f \in X /\ f.end = e
    BY DEF At, Annual
  <2>3. AmountOf(X, {f.key}, e) # {}
    BY <2>2, AmountShown
  <2> QED
    BY <2>1, <2>3 DEF NetChangeKeys
<1>3. CashBridge(X, e) = Bridge(X, e, line, change)
  BY DEF CashBridge
<1> HIDE DEF key, line, change
<1>4. CashBridge(X, e).facts # {}
  BY <1>2, <1>3 DEF Bridge, BridgeOf, Check
<1>5. CashBridge(X, e) \in CashBridges(X, ends)
  BY <1>4 DEF CashBridges
<1>6. Bridge(X, e, line, AmountOf(X, {key}, e)).status = "pass"
  BY <1>3, <1>5 DEF change
<1> QED
  BY <1>1, <1>6, BridgePasses DEF line

-----------------------------------------------------------------------------
(* The grade is earned. *)

\* Whatever the facts, a view assessed as decision-grade shows what it must.
LEMMA GradeIsEarned ==
  ASSUME NEW F, IsFiniteSet(F), FactAssumption(F), NEW supplied \in Treatments,
         NEW V, V = View(F, supplied), NEW attested, Assess(V, supplied, attested).status = "decision_grade"
  PROVE  Earned(V, supplied)
<1> DEFINE X == Consolidated(V)
           C == Ciq(V)
           N == NewestFiled(V)
           ends == AnnualEnds(X, V, supplied)
           years == AnnualEnds(N, V, supplied)
           window == PreferredWindow(X, V)
           demanded(e, kind) == RequiredKeys \ (IF CombinedDa(At(V, e, kind)) THEN {"da"} ELSE {})
           windows == { f.end : f \in { g \in N : g.kind = "ltm" /\ ~\E e \in years : e >= g.end } }
<1>1. IsFiniteSet(V) /\ FactAssumption(V)
  <2>1. V \subseteq F
    BY DEF View, Bounded
  <2> QED
    BY <2>1, FewerFacts
<1>2. X \subseteq N /\ SoleNewest(V) \subseteq X /\ X \subseteq V /\ N \subseteq V /\ C \subseteq V
  BY <1>1, ConsolidatedIsNewest DEF Ciq
<1>3. IsFiniteSet(X) /\ FactAssumption(X)
  BY <1>1, <1>2, FewerFacts
<1>4. years = ends
  <2>1. N \subseteq Xbrl(V)
    BY DEF NewestFiled
  <2> QED
    BY <1>1, <1>2, <2>1, SameYears DEF CompleteYears
<1>5. /\ Disagreements(X, C) = {} /\ Missing(X, C, Expected(V, X, ends, window)) = {}
      /\ \A c \in BalanceChecks(X, ends) \cup CashBridges(X, ends) : c.status = "pass"
      /\ ~(Cardinality(ends) < MinAnnual)
  BY GradeRequires
<1>6. Cardinality(years) >= MinAnnual
  <2>1. IsFiniteSet(ends)
    <3> DEFINE dates == { f.end : f \in X }
    <3>1. ends \subseteq dates
      BY DEF AnnualEnds, Latest, Annual
    <3>2. IsFiniteSet(dates)
      BY <1>3, DatesAreFinite
    <3> QED
      BY <3>1, <3>2, FS_Subset
  <2>2. Cardinality(ends) \in Nat
    BY <2>1, FS_CardinalityType
  <2> HIDE DEF ends
  <2> QED
    BY <1>4, <1>5, <2>2, BoundsAssumption
<1>7. \A f \in SoleNewest(V), c \in C : Overlap(f, c) => Agrees(f, c)
  <2> SUFFICES ASSUME NEW f \in SoleNewest(V), NEW c \in C, Overlap(f, c)
               PROVE  Agrees(f, c)
    OBVIOUS
  <2>1. f \in X /\ f.value \in Int /\ c.value \in Int
    BY <1>1, <1>2 DEF FactAssumption
  <2> HIDE DEF X, C
  <2> QED
    BY <1>5, <2>1, NoDisagreement
<1>8. \A e \in years : \A k \in demanded(e, "annual") \cup {"assets"} : Corroborated(N, C, k, e, "annual")
  <2> HIDE DEF N, window
  <2> QED
    BY <1>1, <1>2, <1>4, <1>5, YearCorroborated
<1>9. \A e \in windows : \A k \in demanded(e, "ltm") : Corroborated(N, C, k, e, "ltm")
  <2> SUFFICES ASSUME NEW g \in N, g.kind = "ltm", ~\E e \in years : e >= g.end, NEW k \in demanded(g.end, "ltm")
               PROVE  Corroborated(N, C, k, g.end, "ltm")
    OBVIOUS
  <2>1. g \in Xbrl(V) /\ \A f \in Xbrl(V) : f \in V /\ f.source \in Filed
    BY DEF NewestFiled, Xbrl
  <2>2. PICK f \in X : SameQuantity(g, f)
    BY <1>1, <2>1, NewestShown
  <2>3. f.kind = "ltm" /\ f.end = g.end
    BY <2>2, SameQuantityIs
  <2>4. PICK x \in X : /\ x.kind = "ltm" /\ x.end >= f.end /\ TrailingOf(X, V, x) \in window
    <3>1. ~\E e \in AnnualEnds(X, V, supplied) : e >= f.end
      BY <1>4, <2>3
    <3> HIDE DEF X
    <3> QED
      BY <1>1, <1>2, <2>3, <3>1, TrailingPreferred
  <2>5. x \in Xbrl(V)
    BY DEF Consolidated
  <2>6. x.start # 0 /\ g.start # 0
    BY <1>1, <2>1, <2>4, <2>5 DEF FactAssumption
  <2>7. x.end = g.end
    BY <1>2, <2>1, <2>4, <2>6, OneTrailingWindow
  <2>8. \A f1, f2 \in V : f1.kind = "ltm" /\ f2.kind = "ltm" /\ f1.start # 0 /\ f2.start # 0 => f1.start = f2.start
    BY OneTrailingWindow
  <2> DEFINE w == TrailingOf(X, V, x)
  <2>9. w.start = x.start /\ w.end = g.end
    BY <2>7 DEF TrailingOf
  <2> HIDE DEF w, N, X, C, ends, years, window
  <2>10. ~Superseded(w, ends)
    BY <1>4, <2>9 DEF Superseded
  <2>11. k \in RequiredKeys \ (IF CombinedDa(At(V, w.end, "ltm")) THEN {"da"} ELSE {})
    BY <2>9
  <2>12. w \in window /\ w.start # 0
    BY <2>4, <2>6, <2>9 DEF w
  <2>13. Corroborated(N, C, k, w.end, "ltm")
    BY <1>1, <1>2, <1>5, <2>8, <2>10, <2>11, <2>12, WindowCorroborated DEF X, C
  <2> QED
    BY <2>9, <2>13
<1>10. \A e \in years : Balances(N, e)
  <2> HIDE DEF X, N
  <2> QED
    BY <1>2, <1>3, <1>4, <1>5, YearBalances
<1>11. \A d, e \in years : d < e => Bridges(N, e)
  <2> HIDE DEF X, N
  <2> QED
    BY <1>2, <1>3, <1>4, <1>5, YearBridges
<1> HIDE DEF X
<1> QED
  BY <1>6, <1>7, <1>8, <1>9, <1>10, <1>11 DEF Earned

\* A run is assessed from a view of what it is bound to, and its ids are those of the view.
LEMMA Assessing ==
  ASSUME NEW x \in Assessments
  PROVE  /\ IsFiniteSet(BoundTo(x)) /\ FactAssumption(BoundTo(x)) /\ x.read.treated \in Treatments
         /\ Viewed(x) = View(BoundTo(x), x.read.treated)
         /\ \E attested : x.row.status = Assess(Viewed(x), x.read.treated, attested).status
<1>1. PICK h \in Histories : x.read \in Reading(h) /\ x = Assessed(x.read)
  BY AssessmentsAre
<1> DEFINE read == x.read
           F == FactsOf(read.facts)
           ms == ManifestsOf(read.manifests)
           cutoff == ResolvedCutoff(F, ms, read.asked)
           filings == { ms[i] : i \in XbrlManifests(ms, cutoff) }
           workbooks == { ms[i] : i \in CiqManifests(ms, cutoff) }
           bound == ManifestBound(FactsAsOf(F, cutoff), filings, workbooks)
           V == View(bound, read.treated)
           chosen == filings \cup workbooks
           readiness == Assess(V, read.treated, Attested(chosen))
<1>2. x.row = Row(cutoff, chosen, V, readiness)
  <2> DEFINE y == x.read
  <2>1. x = Assessed(y)
    BY <1>1
  <2> HIDE DEF y
  <2>2. x.row = Assessed(y).row
    BY <2>1
  <2>3. x.row = Reconciled(FactsOf(y.facts), ManifestsOf(y.manifests), y.treated, y.asked)
    BY <2>2 DEF Assessed
  <2> QED
    BY <2>3 DEF Reconciled, y
<1>3. x.row.asOf = cutoff /\ x.row.status = readiness.status /\ x.row.view = { f.id : f \in V }
  <2> HIDE DEF readiness, V, cutoff, chosen
  <2> QED
    BY <1>2 DEF Row
<1>4. BoundTo(x) = bound
  <2> HIDE DEF cutoff
  <2> QED
    BY <1>3 DEF BoundTo
<1>5. IsFiniteSet(F) /\ FactAssumption(F)
  <2> DEFINE all == FactsOf(ToSet(h.first) \cup h.later)
  <2>1. IsFiniteSet(all) /\ FactAssumption(all)
    BY FactsAssumption
  <2>2. read.facts \subseteq ToSet(h.first) \cup h.later
    BY <1>1 DEF Reading, Insertions
  <2>3. F \subseteq all
    BY <2>2 DEF FactsOf
  <2> HIDE DEF all, F
  <2> QED
    BY <2>1, <2>3, FewerFacts
<1>6. bound \subseteq F
  BY DEF ManifestBound, FactsAsOf
<1>7. V \subseteq bound
  BY DEF View, Bounded
<1>8. read.treated \in Treatments
  BY <1>1 DEF Reading
<1> HIDE DEF F, ms, cutoff, filings, workbooks, bound, chosen, read
<1>9. IsFiniteSet(bound) /\ FactAssumption(bound)
  BY <1>5, <1>6, FewerFacts
<1>10. Viewed(x) = V
  <2>1. Viewed(x) = { f \in F : f.id \in x.row.view }
    BY DEF Viewed, F, read
  <2> HIDE DEF V
  <2>2. \A f, g \in F : f.id = g.id => f = g
    BY <1>5 DEF FactAssumption
  <2> QED
    BY <1>3, <1>6, <1>7, <2>1, <2>2
<1>11. \E attested : x.row.status = Assess(V, read.treated, attested).status
  BY <1>3
<1> QED
  BY <1>4, <1>8, <1>9, <1>10, <1>11 DEF read

\* A run called decision-grade earned it.
LEMMA GradedIsEarned ==
  ASSUME NEW x \in Graded(Assessments)
  PROVE  Earned(Viewed(x), x.read.treated)
<1>1. x \in Assessments /\ x.row.status = "decision_grade"
  BY DEF Graded
<1>2. PICK attested : x.row.status = Assess(Viewed(x), x.read.treated, attested).status
  BY <1>1, Assessing
<1> QED
  BY <1>1, <1>2, Assessing, GradeIsEarned

\* A decision-grade run stands on MinAnnual years whose newest filed figures CIQ shows too
\* and agrees with, on balance sheets that balance and years that bridge: whatever facts the
\* documents hold, whichever are ingested, in whichever order, and wherever a reconciler
\* reads between two commits.
THEOREM GradesAreEarned == Spec => []DecisionGradeIsEarned
<1>1. IInv => DecisionGradeIsEarned
  <2> SUFFICES ASSUME IInv, NEW x \in Graded(runs)
               PROVE  x \in EarnedRuns
    BY DEF DecisionGradeIsEarned
  <2>1. x \in Graded(Assessments)
    BY DEF Graded, IInv, RunsInv
  <2> QED
    BY <2>1, GradedIsEarned DEF EarnedRuns
<1> QED
  BY Invariance, <1>1, PTL

\* Limiting the evidence to a view loses no year: whatever facts a run is bound to, and
\* whatever CIQ or a treatment supplies, the view has their complete years.
THEOREM YearsStay == Spec => []ViewKeepsTheYears
<1>1. IInv => ViewKeepsTheYears
  <2> SUFFICES ASSUME IInv, NEW x \in runs
               PROVE  x \in KeepingRuns
    BY DEF ViewKeepsTheYears
  <2>1. x \in Assessments
    BY DEF IInv, RunsInv
  <2>2. CompleteYears(Viewed(x), x.read.treated) = CompleteYears(BoundTo(x), x.read.treated)
    BY <2>1, Assessing, ViewHasTheYears
  <2> QED
    BY <2>1, <2>2 DEF KeepingRuns
<1> QED
  BY Invariance, <1>1, PTL

=============================================================================
