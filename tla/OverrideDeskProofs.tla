-------------------------- MODULE OverrideDeskProofs --------------------------
(***************************************************************************)
(* Proofs about OverrideDesk for any number of sessions of any kinds, any  *)
(* finite number of keys, any numbers and any edits by hand.               *)
(***************************************************************************)
EXTENDS OverrideDesk, TLAPS, FiniteSetTheorems, WellFoundedInduction

(***************************************************************************)
(* The invariant.  What is in the files is what some session had in        *)
(* memory, so what is said of the files has to be said of every copy held: *)
(* of the recommendations read, of those a preview is to put back, of the  *)
(* plan for the overrides and of the block to be written.                  *)
(***************************************************************************)
Recs == UNION { [keys -> Proposal] : keys \in SUBSET Key }

Block == UNION { [slots -> Entry] : slots \in SUBSET Slot }

Plan == UNION { [slots -> { {e} : e \in Entry } \cup {{}}] : slots \in SUBSET Slot }

Held == [recs : Recs, back : Recs, plan : Plan, copy : Block]

TypeInv ==
  /\ cast \in [Session -> Kind]
  /\ recommendations \in Recs
  /\ overrides \in Block
  /\ proposed \subseteq Key \X Value
  /\ audited \subseteq Session
  /\ waiting \in Seq(Session)
  /\ status \in [Session -> {"none", "queued", "running"} \cup Ended]
  /\ wish \in [Session -> Wish]
  /\ step \in [Session -> Step]
  /\ held \in [Session -> Held]
  /\ edits \in 0..MaxEdits
  /\ pointed \subseteq Key /\ taken \subseteq Key
  /\ shown \subseteq Key \X Value

\* The keys the PM pointed at, or a run found under the field he named.
Chosen == pointed \cup taken

\* Only keys of P are approved in recs, planned or written.
Decided(recs, P) == \A k \in DOMAIN recs : recs[k].status = "approved" => k \in P

Planned(plan, P) == \A x \in DOMAIN plan : \A e \in plan[x] : e.from \subseteq P

Written(block, P) == \A x \in DOMAIN block : block[x].from \subseteq P

Sound(h, P) ==
  Decided(h.recs, P) /\ Decided(h.back, P) /\ Planned(h.plan, P) /\ Written(h.copy, P)

\* A run that goes on was asked for what its kind may be asked for.
WishInv ==
  \A s \in Session :
    IsRun(s) /\ step[s] \notin {"idle", "over"} => wish[s] \in Wishes(cast[s])

FilesInv == Decided(recommendations, Chosen) /\ Written(overrides, Chosen)

HeldInv == \A s \in Session : Sound(held[s], Chosen)

IInv == TypeInv /\ cast \in Cast /\ WishInv /\ FilesInv /\ HeldInv

-----------------------------------------------------------------------------
(* The operators of the model. *)

\* Of finitely many numbers one is the last.
LEMMA LastExists ==
  ASSUME NEW S, IsFiniteSet(S), S \subseteq Nat, S # {}
  PROVE  \E k \in S : \A l \in S : l <= k
<1> DEFINE Unbounded == { T \in FiniteSubsetsOf(S) : T # {} /\ ~ \E k \in T : \A l \in T : l <= k }
<1>1. SUFFICES Unbounded = {}
  <2>1. S \in FiniteSubsetsOf(S)
    BY DEF FiniteSubsetsOf
  <2>2. QED
    BY <1>1, <2>1
<1>2. SUFFICES ASSUME Unbounded # {} PROVE FALSE
  OBVIOUS
<1>3. PICK T \in Unbounded : \A U \in Unbounded : ~ (<<U, T>> \in StrictSubsetOrdering(S))
  <2>1. Unbounded \subseteq FiniteSubsetsOf(S)
    OBVIOUS
  <2> HIDE DEF Unbounded
  <2>2. QED
    BY <1>2, <2>1, FS_StrictSubsetOrderingWellFounded, WFMin
<1>4. /\ T \subseteq S /\ IsFiniteSet(T) /\ T # {}
      /\ ~ \E k \in T : \A l \in T : l <= k
  BY DEF FiniteSubsetsOf
<1>5. PICK x \in T : TRUE
  BY <1>4
<1>6. IsFiniteSet(T \ {x})
  BY <1>4, FS_RemoveElement
<1>7. T \ {x} # {}
  BY <1>4, <1>5
<1>8. T \ {x} \notin Unbounded
  <2>1. <<T \ {x}, T>> \in StrictSubsetOrdering(S)
    BY <1>4, <1>5 DEF StrictSubsetOrdering
  <2>2. QED
    BY <1>3, <2>1
<1>9. PICK k \in T \ {x} : \A l \in T \ {x} : l <= k
  BY <1>4, <1>6, <1>7, <1>8 DEF FiniteSubsetsOf
<1>10. k \in Nat /\ x \in Nat /\ \A l \in T : l \in Nat
  BY <1>4, <1>5, <1>9
<1>11. (\A l \in T : l <= k) \/ (\A l \in T : l <= x)
  BY <1>9, <1>10
<1>12. QED
  BY <1>4, <1>5, <1>9, <1>11

LEMMA RecsShape ==
  \A r : r \in Recs <=> /\ r = [k \in DOMAIN r |-> r[k]] /\ DOMAIN r \subseteq Key
                        /\ \A k \in DOMAIN r : r[k] \in Proposal
<1>1. ASSUME NEW r \in Recs
      PROVE  /\ r = [k \in DOMAIN r |-> r[k]] /\ DOMAIN r \subseteq Key
             /\ \A k \in DOMAIN r : r[k] \in Proposal
  <2>1. PICK keys \in SUBSET Key : r \in [keys -> Proposal]
    BY DEF Recs
  <2>2. QED
    BY <2>1
<1>2. ASSUME NEW r, r = [k \in DOMAIN r |-> r[k]], DOMAIN r \subseteq Key,
             \A k \in DOMAIN r : r[k] \in Proposal
      PROVE  r \in Recs
  <2>1. r \in [DOMAIN r -> Proposal]
    BY <1>2
  <2>2. QED
    BY <1>2, <2>1 DEF Recs
<1>3. QED
  BY <1>1, <1>2

LEMMA BlockShape ==
  \A b : b \in Block <=> /\ b = [x \in DOMAIN b |-> b[x]] /\ DOMAIN b \subseteq Slot
                         /\ \A x \in DOMAIN b : b[x] \in Entry
<1>1. ASSUME NEW b \in Block
      PROVE  /\ b = [x \in DOMAIN b |-> b[x]] /\ DOMAIN b \subseteq Slot
             /\ \A x \in DOMAIN b : b[x] \in Entry
  <2>1. PICK slots \in SUBSET Slot : b \in [slots -> Entry]
    BY DEF Block
  <2>2. QED
    BY <2>1
<1>2. ASSUME NEW b, b = [x \in DOMAIN b |-> b[x]], DOMAIN b \subseteq Slot,
             \A x \in DOMAIN b : b[x] \in Entry
      PROVE  b \in Block
  <2>1. b \in [DOMAIN b -> Entry]
    BY <1>2
  <2>2. QED
    BY <1>2, <2>1 DEF Block
<1>3. QED
  BY <1>1, <1>2

Entries == { {e} : e \in Entry } \cup {{}}

LEMMA PlanShape ==
  \A p : p \in Plan <=> /\ p = [x \in DOMAIN p |-> p[x]] /\ DOMAIN p \subseteq Slot
                        /\ \A x \in DOMAIN p : p[x] \in Entries
<1>1. ASSUME NEW p \in Plan
      PROVE  /\ p = [x \in DOMAIN p |-> p[x]] /\ DOMAIN p \subseteq Slot
             /\ \A x \in DOMAIN p : p[x] \in Entries
  <2>1. PICK slots \in SUBSET Slot : p \in [slots -> Entries]
    BY DEF Plan, Entries
  <2>2. QED
    BY <2>1
<1>2. ASSUME NEW p, p = [x \in DOMAIN p |-> p[x]], DOMAIN p \subseteq Slot,
             \A x \in DOMAIN p : p[x] \in Entries
      PROVE  p \in Plan
  <2>1. p \in [DOMAIN p -> Entries]
    BY <1>2
  <2>2. QED
    BY <1>2, <2>1 DEF Plan, Entries
<1>3. QED
  BY <1>1, <1>2

LEMMA EmptyFits ==
  /\ Empty \in Recs /\ Empty \in Block /\ Empty \in Plan
  /\ Nothing \in Held
  /\ \A P : Decided(Empty, P) /\ Planned(Empty, P) /\ Written(Empty, P) /\ Sound(Nothing, P)
<1>1. DOMAIN Empty = {} /\ Empty = [x \in DOMAIN Empty |-> Empty[x]]
  BY DEF Empty
<1>2. Empty \in Recs /\ Empty \in Block /\ Empty \in Plan
  BY <1>1, RecsShape, BlockShape, PlanShape
<1>3. \A P : Decided(Empty, P) /\ Planned(Empty, P) /\ Written(Empty, P)
  BY <1>1 DEF Decided, Planned, Written
<1>4. QED
  BY <1>2, <1>3 DEF Nothing, Held, Sound

\* Every proposal of the listed keys becomes approved, the rest stays.
LEMMA ApprovedKeeps ==
  ASSUME NEW r \in Recs, NEW keys
  PROVE  /\ Approved(r, keys) \in Recs /\ DOMAIN Approved(r, keys) = DOMAIN r
         /\ \A P : Decided(r, P) => \A Q : P \cup keys \subseteq Q => Decided(Approved(r, keys), Q)
<1>1. /\ DOMAIN Approved(r, keys) = DOMAIN r
      /\ Approved(r, keys) = [k \in DOMAIN Approved(r, keys) |-> Approved(r, keys)[k]]
      /\ \A k \in DOMAIN r :
           Approved(r, keys)[k] = IF k \in keys THEN [r[k] EXCEPT !.status = "approved"] ELSE r[k]
  BY DEF Approved
<1>2. DOMAIN r \subseteq Key /\ \A k \in DOMAIN r : r[k] \in Proposal
  BY RecsShape
<1>3. \A k \in DOMAIN r : Approved(r, keys)[k] \in Proposal
  BY <1>1, <1>2 DEF Proposal
<1>4. Approved(r, keys) \in Recs
  BY <1>1, <1>2, <1>3, RecsShape
<1>5. \A P : Decided(r, P) => \A Q : P \cup keys \subseteq Q => Decided(Approved(r, keys), Q)
  BY <1>1 DEF Decided
<1>6. QED
  BY <1>1, <1>4, <1>5

\* The last proposal of a field is one of its proposals.
LEMMA LastIsOne ==
  ASSUME NEW keys \in SUBSET Key, keys # {}
  PROVE  LastOf(keys) \in keys
<1>1. IsFiniteSet(keys) /\ keys \subseteq Nat
  BY KeyAssumption, FS_Subset
<1>2. \E k \in keys : \A l \in keys : l <= k
  BY <1>1, LastExists
<1>3. QED
  BY <1>2 DEF LastOf

\* The plan made from the proposals of these keys names one of these keys for each field.
LEMMA PlanOfFits ==
  ASSUME NEW r \in Recs, NEW keys \in SUBSET DOMAIN r
  PROVE  /\ PlanOf(r, keys) \in Plan
         /\ DOMAIN PlanOf(r, keys) = { FieldOf[k] : k \in keys }
         /\ \A x \in DOMAIN PlanOf(r, keys) : PlanOf(r, keys)[x] \in Entries
         /\ \A P : keys \subseteq P => Planned(PlanOf(r, keys), P)
<1> DEFINE of(f) == { l \in keys : FieldOf[l] = f }
           plan == PlanOf(r, keys)
<1>1. /\ DOMAIN plan = { FieldOf[k] : k \in keys }
      /\ plan = [f \in DOMAIN plan |-> plan[f]]
      /\ \A f \in DOMAIN plan : plan[f] = {[from |-> {LastOf(of(f))}, value |-> r[LastOf(of(f))].value]}
  BY DEF PlanOf
<1>2. DOMAIN r \subseteq Key /\ \A k \in DOMAIN r : r[k] \in Proposal
  BY RecsShape
<1>3. \A f \in DOMAIN plan : LastOf(of(f)) \in keys
  <2> TAKE f \in DOMAIN plan
  <2>1. of(f) \in SUBSET Key /\ of(f) # {}
    BY <1>1, <1>2
  <2>2. LastOf(of(f)) \in of(f)
    BY <2>1, LastIsOne
  <2>3. QED
    BY <2>2
<1> HIDE DEF of
<1>4. \A k \in keys : [from |-> {k}, value |-> r[k].value] \in Entry
  BY <1>2 DEF Entry, Proposal
<1>5. \A f \in DOMAIN plan : plan[f] \in Entries
  BY <1>1, <1>3, <1>4 DEF Entries
<1>6. DOMAIN plan \subseteq Slot
  BY <1>1, <1>2 DEF Slot, Field
<1>7. plan \in Plan
  BY <1>1, <1>5, <1>6, PlanShape
<1>8. \A P : keys \subseteq P => Planned(plan, P)
  BY <1>1, <1>3 DEF Planned
<1>9. QED
  BY <1>1, <1>5, <1>7, <1>8

LEMMA MergedFits ==
  ASSUME NEW b \in Block, NEW p \in Plan
  PROVE  /\ Merged(b, p) \in Block
         /\ \A P : Written(b, P) /\ Planned(p, P) => Written(Merged(b, p), P)
<1> DEFINE kept == DOMAIN b \ DOMAIN p
           set  == { x \in DOMAIN p : p[x] # {} }
           m    == Merged(b, p)
<1>1. /\ DOMAIN m = kept \cup set
      /\ m = [x \in DOMAIN m |-> m[x]]
      /\ \A x \in DOMAIN m : m[x] = IF x \in kept THEN b[x] ELSE CHOOSE e \in p[x] : TRUE
  BY DEF Merged
<1>2. /\ DOMAIN b \subseteq Slot /\ \A x \in DOMAIN b : b[x] \in Entry
      /\ DOMAIN p \subseteq Slot /\ \A x \in DOMAIN p : p[x] \in Entries
  BY BlockShape, PlanShape
<1>3. \A x \in set : (CHOOSE e \in p[x] : TRUE) \in p[x]
  OBVIOUS
<1>4. \A x \in DOMAIN p : p[x] \subseteq Entry
  BY <1>2 DEF Entries
<1>5. \A x \in DOMAIN m : m[x] \in Entry
  BY <1>1, <1>2, <1>3, <1>4
<1>6. m \in Block
  BY <1>1, <1>2, <1>5, BlockShape
<1>7. \A P : Written(b, P) /\ Planned(p, P) => Written(m, P)
  BY <1>1, <1>3 DEF Written, Planned
<1>8. QED
  BY <1>6, <1>7

\* Being chosen is never taken back.
LEMMA SoundGrows ==
  ASSUME NEW P, NEW Q, P \subseteq Q
  PROVE  /\ \A h : Sound(h, P) => Sound(h, Q)
         /\ \A r : Decided(r, P) => Decided(r, Q)
         /\ \A b : Written(b, P) => Written(b, Q)
<1>1. /\ \A r : Decided(r, P) => Decided(r, Q)
      /\ \A b : Written(b, P) => Written(b, Q)
      /\ \A p : Planned(p, P) => Planned(p, Q)
  BY DEF Decided, Written, Planned
<1>2. QED
  BY <1>1 DEF Sound

LEMMA HeldParts ==
  ASSUME NEW h \in Held
  PROVE  /\ h.recs \in Recs /\ h.back \in Recs /\ h.plan \in Plan /\ h.copy \in Block
         /\ \A r \in Recs : /\ [h EXCEPT !.recs = r] \in Held
                            /\ \A P : Sound(h, P) /\ Decided(r, P) => Sound([h EXCEPT !.recs = r], P)
         /\ \A r \in Recs, b \in Recs :
              /\ [h EXCEPT !.recs = r, !.back = b] \in Held
              /\ \A P : Sound(h, P) /\ Decided(r, P) /\ Decided(b, P)
                          => Sound([h EXCEPT !.recs = r, !.back = b], P)
         /\ \A p \in Plan, r \in Recs :
              /\ [h EXCEPT !.plan = p, !.recs = r] \in Held
              /\ \A P : Sound(h, P) /\ Decided(r, P) /\ Planned(p, P)
                          => Sound([h EXCEPT !.plan = p, !.recs = r], P)
         /\ \A p \in Plan : /\ [h EXCEPT !.plan = p] \in Held
                            /\ \A P : Sound(h, P) /\ Planned(p, P) => Sound([h EXCEPT !.plan = p], P)
         /\ \A b \in Block, p \in Plan :
              /\ [h EXCEPT !.copy = b, !.plan = p] \in Held
              /\ \A P : Sound(h, P) /\ Written(b, P) /\ Planned(p, P)
                          => Sound([h EXCEPT !.copy = b, !.plan = p], P)
BY DEF Held, Sound

-----------------------------------------------------------------------------
(* What the steps have in common. *)

LEMMA StepTypes ==
  ASSUME TypeInv, NEW s \in Session, NEW where \in Step, Goes(s, where)
  PROVE  /\ step' \in [Session -> Step]
         /\ step'[s] = where /\ \A t \in Session \ {s} : step'[t] = step[t]
BY DEF Goes, TypeInv

LEMMA WishKept ==
  ASSUME WishInv, UNCHANGED <<cast, wish>>,
         \A t \in Session : step[t] \in {"idle", "over"} => step'[t] \in {"idle", "over"}
  PROVE  WishInv'
BY DEF WishInv, IsRun

LEMMA HeldKept ==
  ASSUME TypeInv, HeldInv, NEW s \in Session, NEW h \in Held, Sound(h, Chosen'),
         held' = [held EXCEPT ![s] = h], Chosen \subseteq Chosen'
  PROVE  held' \in [Session -> Held] /\ HeldInv'
<1>1. held' \in [Session -> Held] /\ \A t \in Session : held'[t] = IF t = s THEN h ELSE held[t]
  BY DEF TypeInv
<1>2. \A t \in Session : Sound(held[t], Chosen')
  BY SoundGrows DEF HeldInv
<1>3. \A t \in Session : Sound(held'[t], Chosen')
  BY <1>1, <1>2
<1>4. QED
  BY <1>1, <1>3 DEF HeldInv

\* A session that ends holds nothing, and a run says how it ended.
LEMMA EndsKeeps ==
  ASSUME TypeInv, HeldInv, NEW s \in Session, NEW outcome \in Ended, Ends(s, outcome),
         UNCHANGED historyVars
  PROVE  /\ step' \in [Session -> Step]
         /\ step'[s] = "over" /\ \A t \in Session \ {s} : step'[t] = step[t]
         /\ status' \in [Session -> {"none", "queued", "running"} \cup Ended]
         /\ held' \in [Session -> Held] /\ HeldInv'
<1>1. /\ Goes(s, "over") /\ held' = [held EXCEPT ![s] = Nothing]
      /\ status' = IF IsRun(s) THEN [status EXCEPT ![s] = outcome] ELSE status
  BY DEF Ends
<1>2. /\ step' \in [Session -> Step]
      /\ step'[s] = "over" /\ \A t \in Session \ {s} : step'[t] = step[t]
  BY <1>1, StepTypes DEF Step
<1>3. status' \in [Session -> {"none", "queued", "running"} \cup Ended]
  BY <1>1 DEF TypeInv
<1>4. held' \in [Session -> Held] /\ HeldInv'
  BY <1>1, EmptyFits, HeldKept DEF Chosen, historyVars
<1>5. QED
  BY <1>2, <1>3, <1>4

LEMMA SessionFacts ==
  ASSUME IInv, NEW s \in Session
  PROVE  /\ held[s] \in Held /\ Sound(held[s], Chosen)
         /\ recommendations \in Recs /\ Decided(recommendations, Chosen)
         /\ overrides \in Block /\ Written(overrides, Chosen)
         /\ DOMAIN recommendations \subseteq Key
         /\ \A k \in DOMAIN recommendations : recommendations[k] \in Proposal
BY RecsShape DEF IInv, TypeInv, HeldInv, FilesInv

-----------------------------------------------------------------------------
(* One lemma per action, or per group of actions of one kind. *)

LEMMA SubmitKeeps ==
  ASSUME IInv, NEW s \in Session, Submit(s)
  PROVE  IInv'
<1> USE DEF fileVars, historyVars
<1>1. PICK w \in Wishes(cast[s]) :
        /\ wish' = [wish EXCEPT ![s] = w]
        /\ IF w.mode = "agent" /\ w.field # "all"
           THEN Shows(recommendations, About(recommendations, w.field))
           ELSE UNCHANGED shown
  BY DEF Submit
<1>2. /\ IsRun(s) /\ step[s] = "idle"
      /\ status' = [status EXCEPT ![s] = "queued"] /\ waiting' = Append(waiting, s)
      /\ step' = [step EXCEPT ![s] = "begin"]
      /\ UNCHANGED <<cast, fileVars, proposed, audited, held, edits, pointed, taken>>
  BY DEF Submit, At, Goes
<1>3. w \in Wish
  BY <1>2 DEF Wishes, Wish, NoWish, IsRun, PoolKind
<1>4. wish' \in [Session -> Wish] /\ \A t \in Session : wish'[t] = IF t = s THEN w ELSE wish[t]
  BY <1>1, <1>3 DEF IInv, TypeInv
<1>5. Chosen' = Chosen /\ shown' \subseteq Key \X Value
  BY <1>1, <1>2, SessionFacts DEF Chosen, Shows, About, Proposal, IInv, TypeInv
<1>6. /\ step' \in [Session -> Step] /\ status' \in [Session -> {"none", "queued", "running"} \cup Ended]
      /\ waiting' \in Seq(Session)
      /\ \A t \in Session : step'[t] = IF t = s THEN "begin" ELSE step[t]
  BY <1>2 DEF IInv, TypeInv, Step
<1>7. TypeInv'
  BY <1>2, <1>4, <1>5, <1>6 DEF IInv, TypeInv
<1>8. WishInv'
  BY <1>2, <1>4, <1>5, <1>6 DEF IInv, WishInv, IsRun
<1>9. FilesInv' /\ HeldInv'
  BY <1>2, <1>5 DEF IInv, FilesInv, HeldInv
<1>10. QED
  BY <1>2, <1>7, <1>8, <1>9 DEF IInv

LEMMA ServerKeeps ==
  ASSUME IInv, StartRun \/ RestartServer
  PROVE  IInv'
<1> USE DEF fileVars, historyVars, Chosen
<1>1. CASE StartRun
  <2>1. /\ waiting \in Seq(Session) /\ waiting # <<>>
        /\ status' = [status EXCEPT ![Head(waiting)] = "running"]
        /\ waiting' = Tail(waiting)
        /\ UNCHANGED <<cast, fileVars, proposed, audited, wish, step, held, edits, historyVars>>
    BY <1>1 DEF StartRun, IInv, TypeInv
  <2>2. Tail(waiting) \in Seq(Session) /\ Head(waiting) \in Session
    BY <2>1
  <2>3. TypeInv'
    BY <2>1, <2>2 DEF IInv, TypeInv
  <2>4. WishInv' /\ FilesInv' /\ HeldInv'
    BY <2>1 DEF IInv, WishInv, FilesInv, HeldInv, IsRun
  <2>5. QED
    BY <2>1, <2>3, <2>4 DEF IInv
<1>2. CASE RestartServer
  <2>1. /\ status' = [s \in Session |-> IF s \in Unfinished THEN "lost" ELSE status[s]]
        /\ step' = [s \in Session |-> IF s \in Unfinished THEN "over" ELSE step[s]]
        /\ held' = [s \in Session |-> IF s \in Unfinished THEN Nothing ELSE held[s]]
        /\ waiting' = <<>>
        /\ UNCHANGED <<cast, fileVars, proposed, audited, wish, edits, historyVars>>
    BY <1>2 DEF RestartServer
  <2>2. /\ held' \in [Session -> Held] /\ \A s \in Session : held'[s] \in {held[s], Nothing}
    BY <2>1, EmptyFits DEF IInv, TypeInv
  <2>3. TypeInv'
    BY <2>1, <2>2 DEF IInv, TypeInv, Step, Ended
  <2>5. WishInv'
    BY <2>1, WishKept DEF IInv
  <2>6. FilesInv' /\ HeldInv'
    BY <2>1, <2>2, EmptyFits DEF IInv, FilesInv, HeldInv
  <2>7. QED
    BY <2>1, <2>3, <2>5, <2>6 DEF IInv
<1>3. QED
  BY <1>1, <1>2

-----------------------------------------------------------------------------
(* The steps of a session. *)

LEMMA SessionMoves ==
  ASSUME IInv, NEW s \in Session, step[s] \notin {"idle", "over"}, NEW where \in Step, Goes(s, where),
         NEW h \in Held, held' = [held EXCEPT ![s] = h], Sound(h, Chosen'),
         Chosen \subseteq Chosen', UNCHANGED <<cast, wish>>
  PROVE  step' \in [Session -> Step] /\ held' \in [Session -> Held] /\ WishInv' /\ HeldInv'
<1>1. /\ step' \in [Session -> Step]
      /\ step'[s] = where /\ \A t \in Session \ {s} : step'[t] = step[t]
  BY StepTypes DEF IInv
<1>2. WishInv'
  BY <1>1, WishKept DEF IInv
<1>3. held' \in [Session -> Held] /\ HeldInv'
  BY HeldKept DEF IInv
<1>4. QED
  BY <1>1, <1>2, <1>3

LEMMA SessionEnds ==
  ASSUME IInv, NEW s \in Session, NEW outcome \in Ended, Ends(s, outcome),
         UNCHANGED <<cast, wish, historyVars>>
  PROVE  /\ step' \in [Session -> Step] /\ held' \in [Session -> Held]
         /\ status' \in [Session -> {"none", "queued", "running"} \cup Ended]
         /\ WishInv' /\ HeldInv'
<1>1. /\ step' \in [Session -> Step]
      /\ step'[s] = "over" /\ \A t \in Session \ {s} : step'[t] = step[t]
      /\ held' \in [Session -> Held] /\ HeldInv'
      /\ status' \in [Session -> {"none", "queued", "running"} \cup Ended]
  BY EndsKeeps DEF IInv
<1>2. WishInv'
  BY <1>1, WishKept DEF IInv
<1>3. QED
  BY <1>1, <1>2

\* A session ends and writes nothing.
LEMMA QuietEndKeeps ==
  ASSUME IInv, NEW s \in Session, NEW outcome \in Ended, Ends(s, outcome),
         UNCHANGED <<cast, fileVars, proposed, audited, waiting, wish, edits, historyVars>>
  PROVE  IInv'
<1>1. /\ step' \in [Session -> Step] /\ held' \in [Session -> Held]
      /\ status' \in [Session -> {"none", "queued", "running"} \cup Ended]
      /\ WishInv' /\ HeldInv'
  BY SessionEnds DEF historyVars, Chosen
<1>2. TypeInv' /\ FilesInv'
  BY <1>1 DEF IInv, TypeInv, FilesInv, fileVars, historyVars, Chosen
<1>3. QED
  BY <1>1, <1>2 DEF IInv

\* A session goes on, with something else in memory and keys it has found, and writes nothing.
LEMMA TakingKeeps ==
  ASSUME IInv, NEW s \in Session, step[s] \notin {"idle", "over"}, NEW where \in Step, Goes(s, where),
         NEW h \in Held, held' = [held EXCEPT ![s] = h], Sound(h, Chosen'),
         taken \subseteq taken', taken' \subseteq Key,
         UNCHANGED <<cast, fileVars, proposed, audited, waiting, status, wish, edits, pointed, shown>>
  PROVE  IInv'
<1>1. Chosen \subseteq Chosen'
  BY DEF Chosen
<1>2. step' \in [Session -> Step] /\ held' \in [Session -> Held] /\ WishInv' /\ HeldInv'
  BY <1>1, SessionMoves
<1>3. TypeInv'
  BY <1>2 DEF IInv, TypeInv, fileVars
<1>4. FilesInv'
  BY <1>1, SoundGrows DEF IInv, FilesInv, fileVars
<1>5. QED
  BY <1>2, <1>3, <1>4 DEF IInv

\* A session goes on, with something else in memory, and writes nothing.
LEMMA QuietMoveKeeps ==
  ASSUME IInv, NEW s \in Session, step[s] \notin {"idle", "over"}, NEW where \in Step, Goes(s, where),
         NEW h \in Held, held' = [held EXCEPT ![s] = h], Sound(h, Chosen),
         UNCHANGED <<cast, fileVars, proposed, audited, waiting, status, wish, edits, historyVars>>
  PROVE  IInv'
<1>1. step' \in [Session -> Step] /\ held' \in [Session -> Held] /\ WishInv' /\ HeldInv'
  BY SessionMoves DEF historyVars, Chosen
<1>2. TypeInv' /\ FilesInv'
  BY <1>1 DEF IInv, TypeInv, FilesInv, fileVars, historyVars, Chosen
<1>3. QED
  BY <1>1, <1>2 DEF IInv

LEMMA ExtractKeeps ==
  ASSUME IInv, NEW s \in Session, Extract(s)
  PROVE  IInv'
<1>1. PICK values \in UNION { [keys -> Value] : keys \in SUBSET Key } :
        held' = [held EXCEPT ![s].recs =
                   [k \in DOMAIN values |-> [value |-> values[k], status |-> StatusKept(k)]]]
  BY DEF Extract
<1> DEFINE r == [k \in DOMAIN values |-> [value |-> values[k], status |-> StatusKept(k)]]
           h == [held[s] EXCEPT !.recs = r]
<1>2. PICK keys \in SUBSET Key : values \in [keys -> Value]
  BY <1>1
<1>3. \A k \in keys : /\ StatusKept(k) \in {"pending", "approved", "rejected"}
                      /\ StatusKept(k) = "approved" => k \in Chosen
  BY SessionFacts DEF StatusKept, Proposal, Decided
<1>4. r \in Recs
  <2>1. r \in [keys -> Proposal]
    BY <1>2, <1>3 DEF Proposal
  <2>2. QED
    BY <2>1 DEF Recs
<1>5. Decided(r, Chosen)
  BY <1>2, <1>3 DEF Decided
<1> HIDE DEF r
<1>6. h \in Held /\ Sound(h, Chosen)
  BY <1>4, <1>5, SessionFacts, HeldParts
<1>7. held' = [held EXCEPT ![s] = h]
  BY <1>1 DEF r
<1> HIDE DEF h
<1>8. step[s] \notin {"idle", "over"} /\ Goes(s, "clear_recs") /\ "clear_recs" \in Step
  BY DEF Extract, Runs, At, Step
<1>9. UNCHANGED <<cast, fileVars, proposed, audited, waiting, status, wish, edits, historyVars>>
  BY DEF Extract, runVars
<1>10. QED
  BY <1>6, <1>7, <1>8, <1>9, QuietMoveKeeps

LEMMA ReviewKeeps ==
  ASSUME IInv, NEW s \in Session, Review(s)
  PROVE  IInv'
<1> USE DEF historyVars
<1>1. UNCHANGED <<cast, fileVars, proposed, audited, waiting, wish, edits>>
  BY DEF Review
<1>2. CASE Ends(s, "completed") /\ UNCHANGED historyVars
  BY <1>1, <1>2, QuietEndKeeps DEF Ended
<1>3. ASSUME NEW keys \in SUBSET PendingIn(recommendations),
             held' = [held EXCEPT ![s].recs = Approved(recommendations, keys)],
             Points(recommendations, keys), Goes(s, "clear_recs"), UNCHANGED status,
             step[s] = "begin"
      PROVE  IInv'
  <2> DEFINE r == Approved(recommendations, keys)
             h == [held[s] EXCEPT !.recs = r]
  <2>1. /\ taken' = taken /\ pointed' \subseteq Key /\ shown' \subseteq Key \X Value
        /\ Chosen \subseteq Chosen' /\ Chosen \cup keys \subseteq Chosen'
    BY <1>3, SessionFacts DEF Chosen, Points, Shows, PendingIn, Proposal, IInv, TypeInv
  <2>2. r \in Recs /\ Decided(r, Chosen')
    BY <2>1, SessionFacts, ApprovedKeeps
  <2> HIDE DEF r
  <2>3. h \in Held /\ Sound(h, Chosen')
    BY <2>1, <2>2, SessionFacts, SoundGrows, HeldParts
  <2>4. held' = [held EXCEPT ![s] = h]
    BY <1>3 DEF r
  <2> HIDE DEF h
  <2>5. step' \in [Session -> Step] /\ held' \in [Session -> Held] /\ WishInv' /\ HeldInv'
    BY <1>1, <1>3, <2>1, <2>3, <2>4, SessionMoves DEF Step
  <2>6. TypeInv'
    BY <1>1, <1>3, <2>1, <2>5 DEF IInv, TypeInv, fileVars
  <2>7. FilesInv'
    BY <1>1, <2>1, SoundGrows DEF IInv, FilesInv, fileVars
  <2>8. QED
    BY <1>1, <2>5, <2>6, <2>7 DEF IInv
<1>4. QED
  BY <1>2, <1>3 DEF Review, Runs, At

LEMMA OpenKeeps ==
  ASSUME IInv, NEW s \in Session, Open(s)
  PROVE  IInv'
<1> USE DEF historyVars, runVars
<1>1. /\ UNCHANGED <<cast, fileVars, proposed, audited, runVars, edits, taken, shown>>
      /\ step[s] = "begin" /\ Goes(s, "clear_recs")
  BY DEF Open, Runs, At
<1>2. PICK k \in PendingIn(recommendations) :
        LET keys == About(recommendations, FieldOf[k])
        IN /\ held' = [held EXCEPT ![s].recs = Approved(recommendations, keys),
                                   ![s].back = recommendations]
           /\ pointed' = pointed \cup keys
  BY DEF Open
<1> DEFINE keys == About(recommendations, FieldOf[k])
           r == Approved(recommendations, keys)
           h == [held[s] EXCEPT !.recs = r, !.back = recommendations]
<1>3. Chosen \subseteq Chosen' /\ pointed' \subseteq Key /\ Chosen \cup keys \subseteq Chosen'
  BY <1>1, <1>2, SessionFacts DEF Chosen, About, IInv, TypeInv
<1>4. r \in Recs /\ Decided(r, Chosen')
  BY <1>3, SessionFacts, ApprovedKeeps
<1>5. h \in Held /\ Sound(h, Chosen')
  <2> HIDE DEF r
  <2>1. held[s] \in Held /\ recommendations \in Recs /\ Sound(held[s], Chosen')
        /\ Decided(recommendations, Chosen')
    BY <1>3, SessionFacts, SoundGrows
  <2>2. QED
    BY <1>4, <2>1, HeldParts
<1>6. held' = [held EXCEPT ![s] = h]
  BY <1>2
<1> HIDE DEF h
<1>7. step' \in [Session -> Step] /\ held' \in [Session -> Held] /\ WishInv' /\ HeldInv'
  BY <1>1, <1>3, <1>5, <1>6, SessionMoves DEF Step
<1>8. TypeInv'
  BY <1>1, <1>3, <1>7 DEF IInv, TypeInv, fileVars
<1>9. FilesInv'
  BY <1>1, <1>3, SoundGrows DEF IInv, FilesInv, fileVars
<1>10. QED
  BY <1>1, <1>7, <1>8, <1>9 DEF IInv

LEMMA ByHandKeeps ==
  ASSUME IInv, EditByHand
  PROVE  IInv'
<1> USE DEF historyVars, runVars
<1>1. /\ edits < MaxEdits /\ edits' = edits + 1
      /\ UNCHANGED <<cast, overrides, proposed, audited, runVars, step, held>>
  BY DEF EditByHand
<1>2. PICK k \in DOMAIN recommendations, decision \in {"approved", "rejected"} :
        /\ recommendations' = [recommendations EXCEPT ![k].status = decision]
        /\ IF decision = "approved" THEN Points(recommendations, {k}) ELSE UNCHANGED historyVars
  BY DEF EditByHand
<1>3. /\ recommendations \in Recs /\ Decided(recommendations, Chosen)
      /\ recommendations = [l \in DOMAIN recommendations |-> recommendations[l]]
      /\ DOMAIN recommendations \subseteq Key
      /\ \A l \in DOMAIN recommendations : recommendations[l] \in Proposal
  BY RecsShape DEF IInv, TypeInv, FilesInv
<1>4. /\ DOMAIN recommendations' = DOMAIN recommendations
      /\ recommendations' = [l \in DOMAIN recommendations' |-> recommendations'[l]]
      /\ \A l \in DOMAIN recommendations :
           recommendations'[l] = IF l = k THEN [recommendations[k] EXCEPT !.status = decision]
                                          ELSE recommendations[l]
  BY <1>2, <1>3
<1>5. \A l \in DOMAIN recommendations : recommendations'[l] \in Proposal
  BY <1>3, <1>4 DEF Proposal
<1>6. recommendations' \in Recs
  BY <1>3, <1>4, <1>5, RecsShape
<1>7. /\ taken' = taken /\ pointed' \subseteq Key /\ shown' \subseteq Key \X Value
      /\ Chosen \subseteq Chosen' /\ (decision = "approved" => k \in Chosen')
  BY <1>2, <1>3 DEF Chosen, Points, Shows, Proposal, IInv, TypeInv
<1>8. recommendations[k] \in Proposal => [recommendations[k] EXCEPT !.status = decision].status = decision
  BY DEF Proposal
<1>9. Decided(recommendations', Chosen')
  BY <1>3, <1>4, <1>7, <1>8 DEF Decided
<1>10. edits' \in 0..MaxEdits
  BY <1>1, BoundAssumption DEF IInv, TypeInv
<1>11. TypeInv'
  BY <1>1, <1>6, <1>7, <1>10 DEF IInv, TypeInv
<1>12. WishInv'
  BY <1>1, <1>7, WishKept DEF IInv
<1>13. FilesInv' /\ HeldInv'
  BY <1>1, <1>7, <1>9, SoundGrows DEF IInv, FilesInv, HeldInv
<1>14. QED
  BY <1>1, <1>11, <1>12, <1>13 DEF IInv

\* The recommendations file is emptied, or filled with what the session holds.
LEMMA RecsWritten ==
  ASSUME IInv, NEW s \in Session, ClearRecs(s) \/ PutRecs(s)
  PROVE  IInv'
<1> USE DEF historyVars, Chosen, runVars
<1>1. /\ UNCHANGED <<cast, overrides, proposed, audited, runVars, held, edits, historyVars>>
      /\ step[s] \in {"clear_recs", "put_recs"}
      /\ recommendations' \in {Empty, held[s].recs}
      /\ \E where \in {"put_recs", "propose"} : Goes(s, where)
  BY DEF ClearRecs, PutRecs, Runs, At
<1>2. recommendations' \in Recs /\ Decided(recommendations', Chosen)
  <2>1. held[s].recs \in Recs /\ Decided(held[s].recs, Chosen)
    BY SessionFacts, HeldParts DEF Sound
  <2>2. QED
    BY <1>1, <2>1, EmptyFits
<1>3. /\ step' \in [Session -> Step]
      /\ \A t \in Session \ {s} : step'[t] = step[t]
  BY <1>1, StepTypes DEF IInv, Step
<1>4. WishInv'
  BY <1>1, <1>3, WishKept DEF IInv
<1>5. TypeInv' /\ FilesInv' /\ HeldInv'
  BY <1>1, <1>2, <1>3 DEF IInv, TypeInv, FilesInv, HeldInv
<1>6. QED
  BY <1>1, <1>4, <1>5 DEF IInv

LEMMA OverridesWritten ==
  ASSUME IInv, NEW s \in Session, ClearOverrides(s) \/ PutOverrides(s)
  PROVE  IInv'
<1> USE DEF historyVars, Chosen, runVars, fileVars
<1>1. /\ UNCHANGED <<cast, recommendations, proposed, audited, waiting, wish, edits, historyVars>>
      /\ step[s] \in {"clear", "put"}
      /\ overrides' \in {Empty, held[s].copy}
  BY DEF ClearOverrides, PutOverrides, Runs, At
<1>2. overrides' \in Block /\ Written(overrides', Chosen)
  <2>1. held[s].copy \in Block /\ Written(held[s].copy, Chosen)
    BY SessionFacts, HeldParts DEF Sound
  <2>2. QED
    BY <1>1, <2>1, EmptyFits
<1>3. /\ step' \in [Session -> Step] /\ held' \in [Session -> Held]
      /\ status' \in [Session -> {"none", "queued", "running"} \cup Ended]
      /\ WishInv' /\ HeldInv'
  <2>1. CASE Ends(s, "completed")
    BY <1>1, <2>1, SessionEnds DEF Ended
  <2>2. CASE Goes(s, "audit") /\ held' = [held EXCEPT ![s] = Nothing] /\ UNCHANGED status
    <3>1. Nothing \in Held /\ Sound(Nothing, Chosen')
      BY EmptyFits
    <3>2. QED
      BY <1>1, <2>2, <3>1, SessionMoves DEF Step, IInv, TypeInv
  <2>3. CASE Goes(s, "put") /\ UNCHANGED <<held, status>>
    <3>1. /\ step' \in [Session -> Step]
          /\ \A t \in Session \ {s} : step'[t] = step[t]
      BY <2>3, StepTypes DEF IInv, Step
    <3>2. WishInv'
      BY <1>1, <3>1, WishKept DEF IInv
    <3>3. QED
      BY <1>1, <2>3, <3>1, <3>2 DEF IInv, TypeInv, HeldInv
  <2>4. QED
    BY <2>1, <2>2, <2>3 DEF ClearOverrides, PutOverrides
<1>4. TypeInv' /\ FilesInv'
  BY <1>1, <1>2, <1>3 DEF IInv, TypeInv, FilesInv
<1>5. QED
  BY <1>1, <1>3, <1>4 DEF IInv

LEMMA ProposeKeeps ==
  ASSUME IInv, NEW s \in Session, Propose(s)
  PROVE  IInv'
<1> USE DEF historyVars, Chosen, fileVars
<1>1. /\ UNCHANGED <<cast, fileVars, audited, waiting, wish, edits, historyVars>>
      /\ step[s] = "propose"
  BY DEF Propose, Runs, At
<1>2. held[s].recs \in Recs
  BY SessionFacts, HeldParts
<1>3. proposed' \subseteq Key \X Value
  <2>1. \A k \in DOMAIN held[s].recs : k \in Key /\ held[s].recs[k].value \in Value
    BY <1>2, RecsShape DEF Proposal
  <2>2. PICK last : proposed' = proposed \cup
          { <<k, held[s].recs[k].value>> : k \in { l \in DOMAIN held[s].recs : l <= last } }
    BY DEF Propose
  <2>3. QED
    BY <2>1, <2>2 DEF IInv, TypeInv
<1>4. /\ step' \in [Session -> Step] /\ held' \in [Session -> Held]
      /\ status' \in [Session -> {"none", "queued", "running"} \cup Ended]
      /\ WishInv' /\ HeldInv'
  <2>1. CASE Ends(s, "completed")
    BY <1>1, <2>1, SessionEnds DEF Ended
  <2>2. CASE /\ Goes(s, AfterWriting(s)) /\ UNCHANGED status
             /\ held' = [held EXCEPT ![s].recs = Empty]
    <3> DEFINE h == [held[s] EXCEPT !.recs = Empty]
    <3>1. h \in Held /\ Sound(h, Chosen')
      BY <1>1, EmptyFits, SessionFacts, HeldParts
    <3>2. held' = [held EXCEPT ![s] = h]
      BY <2>2
    <3> HIDE DEF h
    <3>3. AfterWriting(s) \in Step
      BY DEF AfterWriting, Step
    <3>4. QED
      BY <1>1, <2>2, <3>1, <3>2, <3>3, SessionMoves DEF IInv, TypeInv
  <2>3. QED
    BY <2>1, <2>2 DEF Propose
<1>5. TypeInv' /\ FilesInv'
  BY <1>1, <1>3, <1>4 DEF IInv, TypeInv, FilesInv
<1>6. QED
  BY <1>1, <1>4, <1>5 DEF IInv

LEMMA ValuePreviewKeeps ==
  ASSUME IInv, NEW s \in Session, ValuePreview(s)
  PROVE  IInv'
<1>1. /\ UNCHANGED <<cast, fileVars, proposed, audited, waiting, wish, edits, historyVars>>
      /\ step[s] = "value"
  BY DEF ValuePreview, Runs, At
<1>2. CASE Ends(s, "completed")
  BY <1>1, <1>2, QuietEndKeeps DEF Ended
<1>3. CASE /\ held' = [held EXCEPT ![s].recs = held[s].back, ![s].back = Empty]
           /\ Goes(s, "clear_recs") /\ UNCHANGED status
  <2> DEFINE h == [held[s] EXCEPT !.recs = held[s].back, !.back = Empty]
  <2>1. held[s].back \in Recs /\ Decided(held[s].back, Chosen)
    BY SessionFacts, HeldParts DEF Sound
  <2>2. h \in Held /\ Sound(h, Chosen)
    BY <2>1, EmptyFits, SessionFacts, HeldParts
  <2>3. held' = [held EXCEPT ![s] = h]
    BY <1>3
  <2> HIDE DEF h
  <2>4. QED
    BY <1>1, <1>3, <2>2, <2>3, QuietMoveKeeps DEF Step
<1>4. QED
  BY <1>2, <1>3 DEF ValuePreview

LEMMA LoadKeeps ==
  ASSUME IInv, NEW s \in Session, Load(s)
  PROVE  IInv'
<1> DEFINE keys == ApprovedIn(recommendations, "all")
           p == PlanOf(recommendations, keys)
           h == [held[s] EXCEPT !.plan = p]
<1>1. /\ UNCHANGED <<cast, fileVars, proposed, audited, waiting, wish, edits, historyVars>>
      /\ step[s] \in {"load", "begin"}
  BY DEF Load, Runs, At
<1>2. CASE Ends(s, "completed")
  BY <1>1, <1>2, QuietEndKeeps DEF Ended
<1>3. CASE held' = [held EXCEPT ![s] = h] /\ Goes(s, "read") /\ UNCHANGED status
  <2>1. keys \subseteq DOMAIN recommendations /\ keys \subseteq Chosen
    BY SessionFacts DEF ApprovedIn, About, Decided
  <2> HIDE DEF keys
  <2>2. p \in Plan /\ Planned(p, Chosen)
    BY <2>1, SessionFacts, PlanOfFits
  <2> HIDE DEF p
  <2>3. h \in Held /\ Sound(h, Chosen)
    BY <2>2, SessionFacts, HeldParts
  <2> HIDE DEF h
  <2>4. QED
    BY <1>1, <1>3, <2>3, QuietMoveKeeps DEF Step
<1>4. QED
  BY <1>2, <1>3 DEF Load

LEMMA MarkKeeps ==
  ASSUME IInv, NEW s \in Session, Mark(s)
  PROVE  IInv'
<1> DEFINE keys == About(recommendations, wish[s].field)
           r == Approved(recommendations, keys)
           kept == IF r = recommendations THEN Empty ELSE r
           p == PlanOf(r, keys)
           h == [held[s] EXCEPT !.plan = p, !.recs = kept]
<1>1. /\ UNCHANGED <<cast, fileVars, proposed, audited, waiting, wish, edits, pointed, shown>>
      /\ Takes(s)
      /\ cast[s] = "recommend" /\ wish[s].field # "all" /\ step[s] = "begin"
  BY DEF Mark, Runs, At
<1> HIDE DEF h
<1>2. CASE keys = {} /\ Ends(s, "completed")
  <2>1. UNCHANGED historyVars
    BY <1>1, <1>2 DEF Takes, historyVars
  <2>2. QED
    BY <1>1, <1>2, <2>1, QuietEndKeeps DEF Ended
<1>3. CASE /\ held' = [held EXCEPT ![s] = h] /\ UNCHANGED status
           /\ \E where \in {"read", "clear_recs"} : Goes(s, where)
  <2>1. wish[s].mode = "agent"
    <3>1. wish[s] \in Wishes("recommend")
      BY <1>1 DEF IInv, WishInv, IsRun, PoolKind
    <3>2. Wishes("recommend") = { [field |-> f, mode |-> "agent"] : f \in Field \cup {"all"} }
      BY DEF Wishes
    <3>3. QED
      BY <3>1, <3>2
  <2>2. keys \subseteq DOMAIN recommendations /\ keys \subseteq Key /\ taken' = taken \cup keys
    BY <1>1, <2>1, SessionFacts DEF About, Takes
  <2> HIDE DEF keys
  <2>0. Chosen \subseteq Chosen' /\ Chosen \cup keys \subseteq Chosen' /\ taken' \subseteq Key
    BY <1>1, <2>2 DEF Chosen, IInv, TypeInv
  <2>3. r \in Recs /\ DOMAIN r = DOMAIN recommendations /\ Decided(r, Chosen')
    BY <2>0, <2>2, SessionFacts, ApprovedKeeps
  <2> HIDE DEF r
  <2>4. p \in Plan /\ Planned(p, Chosen')
    BY <2>0, <2>2, <2>3, PlanOfFits
  <2>5. kept \in Recs /\ Decided(kept, Chosen')
    BY <2>3, EmptyFits
  <2> HIDE DEF p, kept
  <2>6. h \in Held /\ Sound(h, Chosen')
    BY <2>0, <2>4, <2>5, SessionFacts, SoundGrows, HeldParts DEF h
  <2>7. QED
    BY <1>1, <1>3, <2>0, <2>2, <2>6, TakingKeeps DEF Step
<1>4. QED
  BY <1>2, <1>3 DEF Mark, h

LEMMA OnlyFits ==
  ASSUME NEW x \in Slot, NEW entries \in Entries
  PROVE  /\ Only(x, entries) \in Plan
         /\ \A P : (\A e \in entries : e.from \subseteq P) => Planned(Only(x, entries), P)
<1>1. /\ Only(x, entries) = [y \in {x} |-> entries]
      /\ DOMAIN Only(x, entries) = {x} /\ Only(x, entries)[x] = entries
  BY DEF Only
<1>2. Only(x, entries) = [y \in DOMAIN Only(x, entries) |-> Only(x, entries)[y]]
  BY <1>1
<1>3. Only(x, entries) \in Plan
  BY <1>1, <1>2, PlanShape
<1>4. QED
  BY <1>1, <1>3 DEF Planned

\* What the PM selects in a workbench names no key, or one the run has found.
LEMMA SelectionFits ==
  ASSUME IInv, NEW s \in Session, cast[s] = "workbench", step[s] = "begin",
         NEW p \in Resolutions(wish[s]), NEW P,
         wish[s].mode = "agent" => About(recommendations, wish[s].field) \subseteq P
  PROVE  p \in Plan /\ Planned(p, P)
<1> DEFINE w == wish[s]
           keys == About(recommendations, w.field)
<1>1. w \in Wish /\ w.field # "all" /\ w.field \in Slot
      /\ w.mode \in {"default", "agent", "custom"}
  BY DEF IInv, WishInv, IsRun, PoolKind, Wishes, Wish, Slot
<1>2. CASE w.mode = "default"
  <2>1. p = Only(w.field, {}) \/ p = Only(w.field, {Baseline})
    BY <1>2 DEF Resolutions
  <2>2. {} \in Entries /\ {Baseline} \in Entries /\ Baseline.from = {}
    BY DEF Entries, Entry, Baseline
  <2>3. QED
    BY <1>1, <2>1, <2>2, OnlyFits
<1>3. CASE w.mode = "custom"
  <2>1. PICK v \in Value : p = Only(w.field, {[from |-> {}, value |-> v]})
    BY <1>3 DEF Resolutions
  <2>2. {[from |-> {}, value |-> v]} \in Entries
    BY DEF Entries, Entry
  <2>3. QED
    BY <1>1, <2>1, <2>2, OnlyFits
<1>4. CASE w.mode = "agent"
  <2>1. keys \subseteq DOMAIN recommendations /\ keys \subseteq P
    BY <1>4 DEF About
  <2>2. keys # {} => w.field \in { FieldOf[k] : k \in keys }
    BY <1>1 DEF About
  <2>3. p = Empty \/ (keys # {} /\ p = Only(w.field, PlanOf(recommendations, keys)[w.field]))
    BY <1>4 DEF Resolutions
  <2> HIDE DEF keys
  <2>4. keys # {} =>
          /\ PlanOf(recommendations, keys)[w.field] \in Entries
          /\ \A e \in PlanOf(recommendations, keys)[w.field] : e.from \subseteq P
    BY <2>1, <2>2, SessionFacts, PlanOfFits DEF Planned
  <2>5. QED
    BY <1>1, <2>3, <2>4, EmptyFits, OnlyFits
<1>5. QED
  BY <1>1, <1>2, <1>3, <1>4

LEMMA SelectKeeps ==
  ASSUME IInv, NEW s \in Session, Select(s)
  PROVE  IInv'
<1>1. /\ UNCHANGED <<cast, fileVars, proposed, audited, waiting, status, wish, edits, pointed, shown>>
      /\ Takes(s)
      /\ cast[s] \in {"workbench", "wacc"} /\ step[s] = "begin" /\ Goes(s, "read")
  BY DEF Select, Runs, At, runVars
<1>2. PICK p \in IF cast[s] = "workbench"
                 THEN Resolutions(wish[s])
                 ELSE { Only("wacc_methodology", {[from |-> {}, value |-> v]}) : v \in Value } :
        held' = [held EXCEPT ![s].plan = p]
  BY DEF Select
<1>0. /\ taken \subseteq taken' /\ taken' \subseteq Key
      /\ wish[s].mode = "agent" /\ wish[s].field # "all" =>
           About(recommendations, wish[s].field) \subseteq Chosen'
  BY <1>1, SessionFacts DEF Takes, About, Chosen, IInv, TypeInv
<1>3. p \in Plan /\ Planned(p, Chosen')
  <2>1. CASE cast[s] = "workbench"
    <3>1. wish[s].field # "all"
      BY <1>1, <2>1 DEF IInv, WishInv, IsRun, PoolKind, Wishes
    <3>2. QED
      BY <1>0, <1>1, <1>2, <2>1, <3>1, SelectionFits
  <2>2. CASE cast[s] # "workbench"
    <3>1. PICK v \in Value : p = Only("wacc_methodology", {[from |-> {}, value |-> v]})
      BY <1>2, <2>2
    <3>2. {[from |-> {}, value |-> v]} \in Entries /\ "wacc_methodology" \in Slot
      BY DEF Entries, Entry, Slot
    <3>3. QED
      BY <3>1, <3>2, OnlyFits
  <2>3. QED
    BY <2>1, <2>2
<1> DEFINE h == [held[s] EXCEPT !.plan = p]
<1>4. h \in Held /\ Sound(h, Chosen')
  <2>1. Chosen \subseteq Chosen'
    BY <1>0, <1>1 DEF Chosen
  <2>2. QED
    BY <1>3, <2>1, SessionFacts, SoundGrows, HeldParts
<1>5. held' = [held EXCEPT ![s] = h]
  BY <1>2
<1> HIDE DEF h
<1>6. QED
  BY <1>0, <1>1, <1>4, <1>5, TakingKeeps DEF Step

LEMMA ReadKeeps ==
  ASSUME IInv, NEW s \in Session, ReadOverrides(s)
  PROVE  IInv'
<1> DEFINE m == Merged(overrides, held[s].plan)
           h == [held[s] EXCEPT !.copy = m, !.plan = Empty]
<1>1. /\ UNCHANGED <<cast, fileVars, proposed, audited, waiting, status, wish, edits, historyVars>>
      /\ step[s] = "read" /\ Goes(s, "clear") /\ held' = [held EXCEPT ![s] = h]
  BY DEF ReadOverrides, Runs, At, runVars
<1>2. held[s].plan \in Plan /\ Planned(held[s].plan, Chosen)
  BY SessionFacts, HeldParts DEF Sound
<1>3. m \in Block /\ Written(m, Chosen)
  BY <1>2, SessionFacts, MergedFits
<1> HIDE DEF m
<1>4. h \in Held /\ Sound(h, Chosen)
  BY <1>3, EmptyFits, SessionFacts, HeldParts
<1> HIDE DEF h
<1>5. QED
  BY <1>1, <1>4, QuietMoveKeeps DEF Step

LEMMA EndingKeeps ==
  ASSUME IInv, NEW s \in Session, NoInputs(s) \/ Audit(s) \/ RunFails(s) \/ Close(s)
  PROVE  IInv'
<1>1. CASE NoInputs(s)
  BY <1>1, QuietEndKeeps DEF NoInputs, Ended
<1>2. CASE RunFails(s)
  BY <1>2, QuietEndKeeps DEF RunFails, FailureRecord, Ended
<1>3. CASE Close(s)
  BY <1>3, QuietEndKeeps DEF Close, Ended
<1>4. CASE Audit(s)
  <2>1. /\ Ends(s, "completed") /\ audited' = audited \cup {s}
        /\ UNCHANGED <<cast, fileVars, proposed, waiting, wish, edits, historyVars>>
    BY <1>4 DEF Audit
  <2>2. /\ step' \in [Session -> Step] /\ held' \in [Session -> Held]
        /\ status' \in [Session -> {"none", "queued", "running"} \cup Ended]
        /\ WishInv' /\ HeldInv'
    BY <2>1, SessionEnds DEF Ended, historyVars, Chosen
  <2>3. TypeInv' /\ FilesInv'
    BY <2>1, <2>2 DEF IInv, TypeInv, FilesInv, fileVars, historyVars, Chosen
  <2>4. QED
    BY <2>1, <2>2, <2>3 DEF IInv
<1>5. QED
  BY <1>1, <1>2, <1>3, <1>4

-----------------------------------------------------------------------------

LEMMA InitHolds == Init => IInv
<1> SUFFICES ASSUME Init PROVE IInv
  OBVIOUS
<1>1. cast \in Cast /\ cast \in [Session -> Kind]
  BY CastAssumption DEF Init
<1>2. recommendations \in Recs /\ Decided(recommendations, Chosen)
  <2>1. PICK v \in Value : recommendations = [k \in Key |-> [value |-> v, status |-> "pending"]]
    BY DEF Init
  <2>2. recommendations \in [Key -> Proposal]
    BY <2>1 DEF Proposal
  <2>3. QED
    BY <2>1, <2>2 DEF Recs, Decided
<1>3. NoWish \in Wish /\ NoWish.mode = "custom"
  BY DEF NoWish, Wish
<1>4. TypeInv
  BY <1>1, <1>2, <1>3, EmptyFits, BoundAssumption DEF Init, TypeInv, Step
<1>5. \A s \in Session : IsRun(s) => step[s] = "idle"
  BY DEF Init, IsRun
<1>6. WishInv
  BY <1>5 DEF WishInv
<1>7. FilesInv /\ HeldInv
  BY <1>2, EmptyFits DEF Init, FilesInv, HeldInv
<1>8. QED
  BY <1>1, <1>4, <1>6, <1>7 DEF IInv

LEMMA StepKeeps == IInv /\ [Next]_vars => IInv'
<1> SUFFICES ASSUME IInv, [Next]_vars PROVE IInv'
  OBVIOUS
<1>1. CASE UNCHANGED vars
  BY <1>1 DEF IInv, TypeInv, WishInv, FilesInv, HeldInv, IsRun, vars, fileVars, runVars, historyVars, Chosen
<1>2. ASSUME NEW s \in Session, SessionStep(s)
      PROVE  IInv'
  BY <1>2, ExtractKeeps, ReviewKeeps, OpenKeeps, RecsWritten, OverridesWritten, ProposeKeeps,
     ValuePreviewKeeps, LoadKeeps, MarkKeeps, SelectKeeps, ReadKeeps, EndingKeeps DEF SessionStep
<1>3. QED
  BY <1>1, <1>2, SubmitKeeps, ServerKeeps, ByHandKeeps, EndingKeeps DEF Next, Quiet

LEMMA Invariance == Spec => []IInv
<1>1. QED
  BY InitHolds, StepKeeps, PTL DEF Spec

(***************************************************************************)
(* The two files, the run records and what every session has in memory     *)
(* keep their types, whichever writers overwrite each other.               *)
(***************************************************************************)
THEOREM TypeCorrect == Spec => []TypeOK
<1>1. IInv => TypeOK
  <2> SUFFICES ASSUME IInv PROVE TypeOK
    OBVIOUS
  <2>1. \A r \in Recs : Mapping(r, Key, Proposal)
    BY RecsShape DEF Mapping
  <2>2. \A b \in Block : Mapping(b, Slot, Entry)
    BY BlockShape DEF Mapping
  <2>3. \A p \in Plan : Mapping(p, Slot, { {e} : e \in Entry } \cup {{}})
    BY PlanShape DEF Mapping, Entries
  <2>4. \A s \in Session : Holding(held[s])
    BY <2>1, <2>2, <2>3, HeldParts DEF Holding, IInv, TypeInv
  <2>5. QED
    BY <2>1, <2>2, <2>4 DEF IInv, TypeInv, TypeOK
<1>2. QED
  BY <1>1, Invariance, PTL

(***************************************************************************)
(* An agent's proposal is marked as approved, or its number is in the      *)
(* overrides, only if the PM pointed at this agent's proposal, or a run he *)
(* asked for by the field's name found it when it began, however many      *)
(* sessions read, empty and rewrite the two files over each other          *)
(* (recommendations.py 151-175, 382-490): every copy a session may still   *)
(* write back is sound, too.                                               *)
(***************************************************************************)
THEOREM DecisionsStay == Spec => []DecisionsStayWithTheirAgent
<1>1. IInv => DecisionsStayWithTheirAgent
  BY DEF IInv, FilesInv, Decided, Written, Chosen, DecisionsStayWithTheirAgent
<1>2. QED
  BY <1>1, Invariance, PTL
==============================================================================
