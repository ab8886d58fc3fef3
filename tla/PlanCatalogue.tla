---------------------------- MODULE PlanCatalogue ----------------------------
(***************************************************************************)
(* What the owner's page and the relay promise together of the pricing     *)
(* plans.  Subscriptions hold the id of a plan; owners speak of its name.  *)
(* Both mean the same plan for ever: a plan is offered once, is never      *)
(* renamed or removed, and only what it offers and whether it is shown     *)
(* changes.                                                                *)
(***************************************************************************)
CONSTANTS Ids, Names

VARIABLE catalogue   \* the plans there are

Plan == [id : Ids, name : Names, active : BOOLEAN]

Init ==
  /\ catalogue \subseteq Plan
  /\ \A p, q \in catalogue : (p.id = q.id \/ p.name = q.name) => p = q

\* A plan with an id and a name no other plan has.
Offer(p) ==
  /\ \A q \in catalogue : q.id # p.id /\ q.name # p.name
  /\ catalogue' = catalogue \cup {p}

\* An existing plan is hidden or shown.
Revise(p, shown) == catalogue' = (catalogue \ {p}) \cup {[p EXCEPT !.active = shown]}

Next ==
  \/ \E p \in Plan : Offer(p)
  \/ \E p \in catalogue, shown \in BOOLEAN : Revise(p, shown)

Spec == Init /\ [][Next]_catalogue
=============================================================================
