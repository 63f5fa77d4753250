-------------------------- MODULE AssumptionRegister --------------------------
(***************************************************************************)
(* What the assumption register promises the valuation: the value a model  *)
(* driver is overridden with changes only when proposals the PM approved   *)
(* are applied, all of a stack together, and an approval changes no driver *)
(* by itself.                                                              *)
(***************************************************************************)
EXTENDS Naturals

CONSTANTS
  Assumption,  \* names of model drivers
  Unset        \* no override: the driver keeps its computed value

VARIABLES
  override,  \* the overriding value of every assumption, or Unset
  approved   \* the proposals approved so far, applied or not

registerVars == <<override, approved>>

Proposal == [name : Assumption, value : Nat]

Init ==
  /\ override = [a \in Assumption |-> Unset]
  /\ approved = {}

\* The PM approves proposals.
Approve ==
  /\ approved \subseteq approved'
  /\ approved' \subseteq Proposal
  /\ UNCHANGED override

\* Approved proposals are applied as one stack; one of them wins an assumption.
Apply ==
  /\ \E stack \in SUBSET approved :
       LET Proposed(a) == { p.value : p \in { q \in stack : q.name = a } }
       IN \A a \in Assumption :
            IF Proposed(a) = {} THEN override'[a] = override[a] ELSE override'[a] \in Proposed(a)
  /\ UNCHANGED approved

Spec == Init /\ [][Approve \/ Apply]_registerVars

=============================================================================
