-------------------------- MODULE AssumptionChanges --------------------------
(***************************************************************************)
(* The assumption tables of db/loader.py: the changes proposed to a        *)
(* ticker's model drivers (pending_assumption_changes), the overrides in   *)
(* force (approved_assumption_entries) and the register's audit trail.     *)
(* Every statement runs on a connection of its own: rows are selected      *)
(* first, and the transaction that updates them begins at its first write. *)
(***************************************************************************)
EXTENDS Naturals, Sequences, FiniteSets, SequencesExt

CONSTANTS
  Assumption,  \* names of model drivers
  Unset        \* an assumption without an override

VARIABLES
  changes,  \* pending_assumption_changes, in the order of their ids
  entries,  \* approved_assumption_entries, in the order of their ids
  audits    \* assumption_register_audit

tableVars == <<changes, entries, audits>>

ChangeStatus == {"pending", "approved", "applied", "rejected", "deferred"}

\* source_ref: the queue item a change was created for, 0 for an agent's own.
Change == [name : Assumption, value : Nat, status : ChangeStatus, item : Nat]

Entry == [name : Assumption, value : Nat, change : Nat, active : BOOLEAN]

Audit == [event : {"approved", "applied", "rejected", "deferred"}, change : Nat]

NewChange(name, value, item) ==
  [name |-> name, value |-> value, status |-> "pending", item |-> item]

-----------------------------------------------------------------------------
\* Mutant: the status of the rows is not asked.
SelectedWhatever(ids, status) == ids \cap DOMAIN changes

\* SELECT ... WHERE status = ? AND id IN (ids)
Selected(ids, status) == { i \in ids \cap DOMAIN changes : changes[i].status = status }

WithStatus(rows, status) ==
  [i \in DOMAIN changes |-> IF i \in rows THEN [changes[i] EXCEPT !.status = status] ELSE changes[i]]

\* insert_pending_assumption_change
InsertChange(name, value, item) ==
  /\ changes' = Append(changes, NewChange(name, value, item))
  /\ UNCHANGED <<entries, audits>>

\* Mutant: the UPDATE asks for the status again, the caller does not notice.
MarkStillPending(rows) ==
  /\ changes' = WithStatus(Selected(rows, "pending"), "approved")
  /\ UNCHANGED <<entries, audits>>

\* approve_pending_assumption_changes: its UPDATE names the selected ids only.
MarkApproved(rows) ==
  /\ changes' = WithStatus(rows, "approved")
  /\ UNCHANGED <<entries, audits>>

\* Mutant: the status is written as its verb.
MarkVerb(ids, status) ==
  /\ changes' = WithStatus(Selected(ids, "pending"), IF status = "rejected" THEN "reject" ELSE "defer")
  /\ UNCHANGED <<entries, audits>>

\* reject_ and defer_pending_assumption_changes: one guarded UPDATE.
MarkPending(ids, status) ==
  /\ changes' = WithStatus(Selected(ids, "pending"), status)
  /\ UNCHANGED <<entries, audits>>

\* SELECT ... ORDER BY id
InOrder(rows) ==
  { order \in [1..Cardinality(rows) -> rows] :
      /\ \A i \in rows : \E n \in DOMAIN order : order[n] = i
      /\ \A m, n \in DOMAIN order : m < n => order[m] < order[n] }

Row(i, active) ==
  [name |-> changes[i].name, value |-> changes[i].value, change |-> i, active |-> active]

\* Mutant: the entry in force stays active.
EnteredBeside(es, order) == es \o [n \in DOMAIN order |-> Row(order[n], TRUE)]

\* Row after row, the assumption's entry in force gives way to a new one: the
\* last row of an assumption stays in force, and an older entry if there is none.
Entered(es, order) ==
  LET NoneAfter(n, name) == \A m \in DOMAIN order : m > n => changes[order[m]].name # name
  IN [k \in 1..(Len(es) + Len(order)) |->
        IF k <= Len(es) THEN [es[k] EXCEPT !.active = @ /\ NoneAfter(0, es[k].name)]
        ELSE Row(order[k - Len(es)], NoneAfter(k - Len(es), changes[order[k - Len(es)]].name))]

\* apply_approved_assumption_changes: one transaction over the selected rows.
ApplyRows(rows) ==
  /\ \E order \in InOrder(rows) : entries' = Entered(entries, order)
  /\ changes' = WithStatus(Selected(rows, "approved"), "applied")
  /\ UNCHANGED audits

\* insert_assumption_register_audit, committed on its own.
AuditRows(event, rows) ==
  /\ audits' = audits \cup { [event |-> event, change |-> i] : i \in rows }
  /\ UNCHANGED <<changes, entries>>

-----------------------------------------------------------------------------
\* load_approved_assumption_entries: the newest active entry of an assumption.
Override(a) ==
  LET active == { k \in DOMAIN entries : entries[k].name = a /\ entries[k].active }
  IN IF active = {} THEN Unset
     ELSE entries[CHOOSE k \in active : \A l \in active : l <= k].value

Register ==
  INSTANCE AssumptionRegister WITH
    override <- [a \in Assumption |-> Override(a)],
    approved <- { [name |-> changes[i].name, value |-> changes[i].value] :
                    i \in { j \in DOMAIN changes : changes[j].status \in {"approved", "applied"} } }

=============================================================================
