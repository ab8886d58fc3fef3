--------------------------- MODULE OwnerDashboard ---------------------------
(***************************************************************************)
(* A mounted OwnerDashboard (src/dashboard/src/pages/OwnerDashboard.tsx),  *)
(* the users and pricing plans at the relay it shows and changes, and the  *)
(* pages of other owners, who change them too.  The page has copies that   *)
(* fetchData brings every ten seconds and after every change, one dialog   *)
(* for messages and questions, and one form for plans.                     *)
(*                                                                         *)
(* Of a user there are its status and role, of a plan its name and status. *)
(* Left out are the other fields, statistics and sessions, which are only  *)
(* displayed; the tabs and the language, which can be changed at any time  *)
(* and decide only what is displayed; and loading, the label of a button.  *)
(***************************************************************************)
EXTENDS Naturals, FiniteSets

CONSTANTS
  Tenants,           \* the users
  Ids, Names,        \* ids and names plans can have
  Listed,            \* the names fetchData does not filter out
  None,              \* no plan, no answer
  Hidden, Message,   \* no dialog, one with nothing to confirm
  Closed,            \* no form
  Slots,             \* bound: fetchData calls whose answers are under way
  MaxOps,            \* bound: other requests under way at once
  MaxChanges         \* bound: changes of the users and plans

ASSUME OwnerAssumption ==
  /\ Listed \subseteq Names /\ None \notin Ids /\ Closed \notin Ids \cup {None}
  /\ Hidden # Message
  /\ Slots \subseteq Nat /\ IsFiniteSet(Slots)
  /\ MaxOps \in Nat /\ MaxChanges \in Nat

VARIABLES
  users,             \* the relay's table users
  pricing,           \* its table pricing_plans: the row with an id, or None
  changes,           \* the number of changes of the two
  tenants, plans,    \* the copies the page shows
  fetches,           \* what the fetchData calls under way have read
  ops,               \* the other requests: what they ask for, stage
  modal,             \* the dialog: hidden, a message, or the request to confirm
  form               \* the plan form: closed, for a new plan, or for a listed one

relay == <<users, pricing, changes>>
vars == <<relay, tenants, plans, fetches, ops, modal, form>>

Roles == {"USER", "OWNER"}
User == [active : BOOLEAN, role : Roles]
Row == [name : Names, active : BOOLEAN]
Plan == [id : Ids, name : Names, active : BOOLEAN]

Requests ==
  [kind : {"toggle"}, tenant : Tenants] \cup [kind : {"role"}, tenant : Tenants, role : Roles]
    \cup [kind : {"save"}, id : Ids \cup {None}, name : Names, active : BOOLEAN]
Op == [request : Requests, stage : {"sent", "done"}]

\* What is not there is no row, and no request.
ASSUME NothingAssumption == None \notin Row /\ {Hidden, Message} \cap Requests = {}

Answer == [users : [Tenants -> User], plans : SUBSET Plan]

Rows == {[id |-> i, name |-> pricing[i].name, active |-> pricing[i].active] :
           i \in {i \in Ids : pricing[i] # None}}

\* GetPricingPlans reads the rows that are active.
GetPricingPlans == {p \in Rows : p.active}

\* The users are those of a new relay; there are plans or not.
Init ==
  /\ users = [t \in Tenants |-> [active |-> TRUE, role |-> "USER"]]
  /\ \/ pricing = [i \in Ids |-> None]
     \/ \E i \in Ids, n \in Names :
          pricing = [j \in Ids |-> IF j = i THEN [name |-> n, active |-> TRUE] ELSE None]
  /\ changes = 0
  /\ tenants = None /\ plans = {}
  /\ fetches = [s \in Slots |-> None] /\ ops = {}
  /\ modal = Hidden /\ form = Closed

-----------------------------------------------------------------------------
(* The relay: the handlers of the owner's requests, in api.go and db.      *)

ToggleUser(r) ==
  /\ r.kind = "toggle"
  /\ users' = [users EXCEPT ![r.tenant].active = ~@]
  /\ UNCHANGED pricing

UpdateUserRole(r) ==
  /\ r.kind = "role"
  /\ users' = [users EXCEPT ![r.tenant].role = r.role]
  /\ UNCHANGED pricing

Named(n) == {i \in Ids : pricing[i] # None /\ pricing[i].name = n}

\* Fault: ON CONFLICT (id) DO UPDATE, the name included.
UpsertPlanById(r) ==
  /\ r.kind = "save"
  /\ \E i \in Ids :
       /\ IF r.id = None THEN pricing[i] = None ELSE i = r.id
       /\ pricing' = [pricing EXCEPT ![i] = [name |-> r.name, active |-> r.active]]
  /\ UNCHANGED users

\* ON CONFLICT (name) DO UPDATE.  A new name with the id of a row violates the
\* primary key: the statement fails.
UpsertPlan(r) ==
  /\ r.kind = "save"
  /\ \E i \in Ids :
       /\ \/ i \in Named(r.name)
          \/ Named(r.name) = {} /\ r.id = None /\ pricing[i] = None
       /\ pricing' = [pricing EXCEPT ![i] = [name |-> r.name, active |-> r.active]]
  /\ UNCHANGED users

Do(r) ==
  /\ changes < MaxChanges /\ changes' = changes + 1
  /\ ToggleUser(r) \/ UpdateUserRole(r) \/ UpsertPlan(r)

Handle(o) ==
  /\ o.stage = "sent"
  /\ Do(o.request)
  /\ ops' = (ops \ {o}) \cup {[o EXCEPT !.stage = "done"]}
  /\ UNCHANGED <<tenants, plans, fetches, modal, form>>

\* A request of another owner's page.
OtherOwner(r) ==
  /\ Do(r)
  /\ UNCHANGED <<tenants, plans, fetches, ops, modal, form>>

-----------------------------------------------------------------------------
(* The dialog: showInfo and showError, askConfirm, its buttons.            *)

ShowMessage == modal' = Message

AskConfirm(r) == modal' = r

\* onClose: Cancel or Understood.
Dismiss ==
  /\ modal # Hidden
  /\ modal' = Hidden
  /\ UNCHANGED <<relay, tenants, plans, fetches, ops, form>>

-----------------------------------------------------------------------------
(* fetchData.  When no slot is free a call is left out: the interval       *)
(* repeats it.                                                             *)

FetchData ==
  LET unused == {s \in Slots : fetches[s] = None}
  IN fetches' = IF unused = {} THEN fetches
                ELSE [fetches EXCEPT ![CHOOSE s \in unused : \A u \in unused : s <= u] =
                        [users |-> users, plans |-> GetPricingPlans]]

\* Fault: the lists are loaded when the page is mounted and after changes only.
PollOnce == tenants = None /\ FetchData /\ UNCHANGED <<relay, tenants, plans, ops, modal, form>>

\* The call of the effect and of its interval, and the button Refresh.
Poll == FetchData /\ UNCHANGED <<relay, tenants, plans, ops, modal, form>>

\* ok: the responses that are res.ok, and come before a body that breaks off.
Use(s, ok) ==
  /\ fetches[s] # None
  /\ tenants' = IF "tenants" \in ok THEN fetches[s].users ELSE tenants
  /\ plans' = IF "plans" \in ok THEN {p \in fetches[s].plans : p.name \in Listed} ELSE plans
  /\ fetches' = [fetches EXCEPT ![s] = None]
  /\ UNCHANGED <<relay, ops, form>>

Apply(s, ok) == Use(s, ok) /\ UNCHANGED modal

\* Promise.all rejects, or one of the bodies.
FetchFails(s, ok) == Use(s, ok) /\ ShowMessage

-----------------------------------------------------------------------------
(* What the owner does.  The dialog covers the form, the form the page.    *)

Send(r) ==
  /\ ops' = ops \cup {[request |-> r, stage |-> "sent"]}
  /\ Cardinality(ops') <= MaxOps

\* The button Disable or Enable, and the selection of another role.
Ask(r) ==
  /\ modal = Hidden /\ form = Closed /\ tenants # None
  /\ r.kind \in {"toggle", "role"}
  /\ r.kind = "role" => r.role # tenants[r.tenant].role
  /\ AskConfirm(r)
  /\ UNCHANGED <<relay, tenants, plans, fetches, ops, form>>

\* onConfirm(); onClose().
Confirm ==
  /\ modal \in Requests
  /\ Send(modal)
  /\ modal' = Hidden
  /\ UNCHANGED <<relay, tenants, plans, fetches, form>>

\* openPlanModal: what is sent with the form, whatever is typed into it.
FormOf(p) == IF p = None THEN None ELSE p.id

\* Add New Plan, Edit Plan.
OpenForm(p) ==
  /\ modal = Hidden /\ form = Closed /\ p \in plans \cup {None}
  /\ form' = FormOf(p)
  /\ UNCHANGED <<relay, tenants, plans, fetches, ops, modal>>

CloseForm ==
  /\ modal = Hidden /\ form # Closed
  /\ form' = Closed
  /\ UNCHANGED <<relay, tenants, plans, fetches, ops, modal>>

\* savePlan with what was typed; no name is refused.  The form stays, and can be
\* saved again, while the request is under way.
SavePlan ==
  /\ modal = Hidden /\ form # Closed
  /\ \/ ShowMessage /\ UNCHANGED ops
     \/ /\ \E n \in Names, shown \in BOOLEAN :
             Send([kind |-> "save", id |-> form, name |-> n, active |-> shown])
        /\ UNCHANGED modal
  /\ UNCHANGED <<relay, tenants, plans, fetches, form>>

-----------------------------------------------------------------------------
(* A handler after its await.                                              *)

Answers(o) == IF o.stage = "done" THEN {"ok", "lost"} ELSE {"refused", "lost"}

\* There is no catch, and res.ok is not looked at.
AfterToggle(o, answer) ==
  /\ o.request.kind = "toggle"
  /\ IF answer = "lost" THEN UNCHANGED fetches ELSE FetchData
  /\ UNCHANGED <<modal, form>>

AfterRole(o, answer) ==
  /\ o.request.kind = "role"
  /\ IF answer = "ok" THEN FetchData ELSE UNCHANGED fetches
  /\ IF answer = "lost" THEN UNCHANGED modal ELSE ShowMessage
  /\ UNCHANGED form

\* The form that is open by now is closed, whichever it is.
AfterSave(o, answer) ==
  /\ o.request.kind = "save"
  /\ IF answer = "ok" THEN form' = Closed /\ FetchData ELSE UNCHANGED <<form, fetches>>
  /\ ShowMessage

Answered(o) ==
  /\ \E answer \in Answers(o) :
       AfterToggle(o, answer) \/ AfterRole(o, answer) \/ AfterSave(o, answer)
  /\ ops' = ops \ {o}
  /\ UNCHANGED <<relay, tenants, plans>>

-----------------------------------------------------------------------------
Owner ==
  \/ Dismiss \/ Confirm \/ CloseForm \/ SavePlan
  \/ \E r \in Requests : Ask(r)
  \/ \E p \in plans \cup {None} : OpenForm(p)

Parts == {"tenants", "plans"}

Next ==
  \/ Poll
  \/ \E s \in Slots, ok \in SUBSET Parts : Apply(s, ok) \/ FetchFails(s, ok)
  \/ \E o \in ops : Handle(o) \/ Answered(o)
  \/ \E r \in Requests : OtherOwner(r)
  \/ Owner

Spec == Init /\ [][Next]_vars

(* The interval fires, and each of its requests ends, answered or not.     *)
Fairness ==
  /\ WF_vars(Poll)
  /\ \A s \in Slots : WF_vars(\E ok \in SUBSET Parts : Apply(s, ok) \/ FetchFails(s, ok))

FairSpec == Spec /\ Fairness

-----------------------------------------------------------------------------
(* Properties                                                              *)

\* The types of the variables.
TypeOK ==
  /\ users \in [Tenants -> User]
  /\ pricing \in [Ids -> Row \cup {None}]
  /\ changes \in 0 .. MaxChanges
  /\ tenants \in [Tenants -> User] \cup {None} /\ plans \subseteq Plan
  /\ fetches \in [Slots -> Answer \cup {None}]
  /\ ops \subseteq Op
  /\ modal \in Requests \cup {Hidden, Message}
  /\ form \in Ids \cup {None, Closed}

\* A plan is saved from a form that may be stale, under another name, twice
\* because nothing disables Save, or again after a lost answer, and another
\* owner saves at the same time (OwnerDashboard.tsx:459-479, owner.go:157-176).
\* The id subscriptions hold and the name mean one plan all the same.
Catalogue == INSTANCE PlanCatalogue WITH catalogue <- Rows
ImplementsCatalogue == Catalogue!Spec

\* While answers come, complete ones come again and again.
GoodAnswers ==
  []<>(\E s \in Slots : fetches[s] # None) => []<><<\E s \in Slots : Apply(s, Parts)>>_vars

\* However answers overtake each other, fail in part or whole, whatever toggles
\* and saves leave out after a failure and whatever other owners do: when the
\* relay's rows rest, the page comes to show the users and the plans on offer,
\* and goes on showing them (the poll, OwnerDashboard.tsx:407-411).
ListsFollowTheRelay ==
  (GoodAnswers /\ <>[][FALSE]_relay) =>
    <>[](tenants = users /\ plans = {p \in GetPricingPlans : p.name \in Listed})
=============================================================================
