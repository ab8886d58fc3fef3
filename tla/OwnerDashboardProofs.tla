------------------------ MODULE OwnerDashboardProofs ------------------------
(***************************************************************************)
(* The owner's page and the relay's pricing plans, for every set of users, *)
(* ids and names and any number of owners, requests and late answers: they *)
(* implement PlanCatalogue, and the page never shows, edits or saves a     *)
(* plan that is not in it.                                                 *)
(***************************************************************************)
EXTENDS OwnerDashboard, TLAPS

USE OwnerAssumption, NothingAssumption
USE DEF vars, relay

\* A name is the name of one plan.
NamesAreKeys ==
  \A i, j \in Ids :
    pricing[i] # None /\ pricing[j] # None /\ pricing[i].name = pricing[j].name => i = j

\* There is a plan with an id, a plan of that name with it.
Exists(i) == pricing[i] # None
Offered(p) == Exists(p.id) /\ pricing[p.id].name = p.name

\* The plans of the page, and those of answers that are still to come.
ShownAreOffered ==
  /\ \A p \in plans : Offered(p)
  /\ \A s \in Slots : fetches[s] # None => \A p \in fetches[s].plans : Offered(p)

\* The form, and what was sent from it.
EditedExist ==
  /\ form \in Ids => Exists(form)
  /\ \A o \in ops : o.request.kind = "save" /\ o.request.id # None => Exists(o.request.id)

\* Only a form saves.
DialogsDoNotSave == modal \in Requests => modal.kind # "save"

Inv == TypeOK /\ NamesAreKeys /\ ShownAreOffered /\ EditedExist /\ DialogsDoNotSave

-----------------------------------------------------------------------------
(* The operators.                                                          *)

LEMMA RequestFields ==
  ASSUME NEW r \in Requests
  PROVE  /\ r.kind \in {"toggle", "role", "save"}
         /\ r.kind = "toggle" => r.tenant \in Tenants
         /\ r.kind = "role" => r.tenant \in Tenants /\ r.role \in Roles
         /\ r.kind = "save" => r.id \in Ids \cup {None} /\ r.name \in Names /\ r.active \in BOOLEAN
<1>1. CASE r \in [kind : {"toggle"}, tenant : Tenants]
  BY <1>1
<1>2. CASE r \in [kind : {"role"}, tenant : Tenants, role : Roles]
  BY <1>2
<1>3. CASE r \in [kind : {"save"}, id : Ids \cup {None}, name : Names, active : BOOLEAN]
  BY <1>3
<1> QED BY <1>1, <1>2, <1>3 DEF Requests

\* The relay's row of an id, as the page has it.
At(i) == [id |-> i, name |-> pricing[i].name, active |-> pricing[i].active]

LEMMA RowsAre ==
  /\ \A p \in Rows : p.id \in Ids /\ Exists(p.id) /\ p = At(p.id)
  /\ \A i \in Ids : Exists(i) => At(i) \in Rows
BY DEF Rows, At, Exists

LEMMA RowsTyped ==
  ASSUME TypeOK
  PROVE  /\ Rows \subseteq Plan
         /\ \A p \in Rows : Offered(p)
<1> SUFFICES ASSUME NEW p \in Rows PROVE p \in Plan /\ Offered(p)
  OBVIOUS
<1>1. p.id \in Ids /\ Exists(p.id) /\ p = At(p.id)
  BY RowsAre
<1>2. pricing[p.id] \in Row
  BY <1>1 DEF TypeOK, Exists
<1> QED BY <1>1, <1>2 DEF At, Plan, Row, Offered

LEMMA FetchDataTyped ==
  ASSUME TypeOK, FetchData
  PROVE  /\ fetches' \in [Slots -> Answer \cup {None}]
         /\ \A s \in Slots : fetches'[s] = fetches[s]
              \/ fetches'[s] = [users |-> users, plans |-> GetPricingPlans]
<1> DEFINE read == [users |-> users, plans |-> GetPricingPlans]
<1>1. read \in Answer
  BY RowsTyped DEF TypeOK, Answer, GetPricingPlans
<1> HIDE DEF read
<1>2. CASE fetches' = fetches
  BY <1>2 DEF TypeOK
<1>3. ASSUME NEW u, fetches' = [fetches EXCEPT ![u] = read]
      PROVE  /\ fetches' \in [Slots -> Answer \cup {None}]
             /\ \A s \in Slots : fetches'[s] = fetches[s] \/ fetches'[s] = read
  BY <1>1, <1>3 DEF TypeOK
<1> QED BY <1>2, <1>3 DEF FetchData, read

LEMMA FetchDataOffers ==
  ASSUME TypeOK, ShownAreOffered, FetchData
  PROVE  \A s \in Slots : fetches'[s] # None => \A p \in fetches'[s].plans : Offered(p)
<1> SUFFICES ASSUME NEW s \in Slots, fetches'[s] # None, NEW p \in fetches'[s].plans
             PROVE  Offered(p)
  OBVIOUS
<1>1. CASE fetches'[s] = fetches[s]
  BY <1>1 DEF ShownAreOffered
<1>2. CASE fetches'[s] = [users |-> users, plans |-> GetPricingPlans]
  BY <1>2, RowsTyped DEF GetPricingPlans
<1> QED BY <1>1, <1>2, FetchDataTyped

LEMMA SendTyped ==
  ASSUME TypeOK, EditedExist, NEW r \in Requests, Send(r),
         r.kind = "save" /\ r.id # None => Exists(r.id)
  PROVE  /\ ops' \subseteq Op
         /\ \A o \in ops' : o.request.kind = "save" /\ o.request.id # None => Exists(o.request.id)
<1> DEFINE new == [request |-> r, stage |-> "sent"]
<1>1. new \in Op /\ new.request = r
  BY DEF Op
<1>2. ops' = ops \cup {new}
  BY DEF Send
<1> QED BY <1>1, <1>2 DEF TypeOK, EditedExist

-----------------------------------------------------------------------------
(* The relay.                                                              *)

\* What a save does to the row it finds or makes.
LEMMA UpsertIs ==
  ASSUME TypeOK, NEW r \in Requests, UpsertPlan(r)
  PROVE  \E i \in Ids :
           /\ [name |-> r.name, active |-> r.active] \in Row
           /\ pricing' = [pricing EXCEPT ![i] = [name |-> r.name, active |-> r.active]]
           /\ \/ Exists(i) /\ pricing[i].name = r.name
              \/ ~Exists(i) /\ \A j \in Ids : Exists(j) => pricing[j].name # r.name
BY RequestFields DEF UpsertPlan, Named, Row, Exists

\* Rows stay, under their names, and no two have one.
LEMMA DoKeeps ==
  ASSUME TypeOK, NamesAreKeys, NEW r \in Requests, Do(r)
  PROVE  /\ users' \in [Tenants -> User]
         /\ pricing' \in [Ids -> Row \cup {None}]
         /\ changes' \in 0 .. MaxChanges
         /\ NamesAreKeys'
         /\ \A i \in Ids : Exists(i) => Exists(i)' /\ pricing'[i].name = pricing[i].name
<1>1. changes' \in 0 .. MaxChanges
  BY DEF Do, TypeOK
<1>2. CASE ToggleUser(r)
  <2>1. users' \in [Tenants -> User]
    <3>1. r.tenant \in Tenants
      BY <1>2, RequestFields DEF ToggleUser
    <3>2. users[r.tenant] = [active |-> users[r.tenant].active, role |-> users[r.tenant].role]
      BY <3>1 DEF TypeOK, User
    <3>3. [users[r.tenant] EXCEPT !.active = ~@] \in User
      BY <3>1 DEF TypeOK, User
    <3> QED BY <1>2, <3>1, <3>3 DEF ToggleUser, TypeOK
  <2> QED BY <1>1, <1>2, <2>1 DEF ToggleUser, TypeOK, NamesAreKeys, Exists
<1>3. CASE UpdateUserRole(r)
  <2>1. users' \in [Tenants -> User]
    <3>1. r.tenant \in Tenants /\ r.role \in Roles
      BY <1>3, RequestFields DEF UpdateUserRole
    <3>2. [users[r.tenant] EXCEPT !.role = r.role] \in User
      BY <3>1 DEF TypeOK, User
    <3> QED BY <1>3, <3>1, <3>2 DEF UpdateUserRole, TypeOK
  <2> QED BY <1>1, <1>3, <2>1 DEF UpdateUserRole, TypeOK, NamesAreKeys, Exists
<1>4. CASE UpsertPlan(r)
  <2> DEFINE row == [name |-> r.name, active |-> r.active]
  <2>1. PICK i \in Ids :
          /\ row \in Row /\ pricing' = [pricing EXCEPT ![i] = row]
          /\ \/ Exists(i) /\ pricing[i].name = r.name
             \/ ~Exists(i) /\ \A j \in Ids : Exists(j) => pricing[j].name # r.name
    BY <1>4, UpsertIs
  <2>2. row # None /\ row.name = r.name
    BY <2>1
  <2> HIDE DEF row
  <2>3. pricing' \in [Ids -> Row \cup {None}] /\ pricing'[i] = row
        /\ \A j \in Ids \ {i} : pricing'[j] = pricing[j]
    BY <2>1 DEF TypeOK
  <2>4. \A j \in Ids : Exists(j) => pricing'[j] # None /\ pricing'[j].name = pricing[j].name
    BY <2>1, <2>2, <2>3 DEF Exists
  <2>5. NamesAreKeys'
    <3> SUFFICES ASSUME NEW j \in Ids, NEW k \in Ids, pricing'[j] # None, pricing'[k] # None,
                        pricing'[j].name = pricing'[k].name
                 PROVE  j = k
      BY DEF NamesAreKeys
    <3>1. CASE j # i /\ k # i
      BY <2>3, <3>1 DEF NamesAreKeys
    <3>2. CASE j = i /\ k # i
      BY <2>1, <2>2, <2>3, <3>2 DEF NamesAreKeys, Exists
    <3>3. CASE j # i /\ k = i
      BY <2>1, <2>2, <2>3, <3>3 DEF NamesAreKeys, Exists
    <3> QED BY <3>1, <3>2, <3>3
  <2> QED BY <1>1, <1>4, <2>3, <2>4, <2>5 DEF UpsertPlan, TypeOK, Exists
<1> QED BY <1>2, <1>3, <1>4 DEF Do

\* What was offered once stays so, whoever changes what.
LEMMA StillOffered ==
  ASSUME TypeOK, ShownAreOffered, EditedExist, UNCHANGED <<plans, fetches, form>>,
         \A i \in Ids : Exists(i) => Exists(i)' /\ pricing'[i].name = pricing[i].name
  PROVE  /\ ShownAreOffered'
         /\ form' \in Ids => Exists(form)'
         /\ \A o \in ops : o.request.kind = "save" /\ o.request.id # None => Exists(o.request.id)'
<1>1. \A p \in Plan : Offered(p) => Offered(p)'
  BY DEF Plan, Offered, Exists
<1>2. \A s \in Slots : fetches[s] # None => fetches[s].plans \subseteq Plan
  BY DEF TypeOK, Answer
<1>3. ShownAreOffered'
  BY <1>1, <1>2 DEF TypeOK, ShownAreOffered
<1>4. \A o \in ops : o.request.kind = "save" => o.request.id \in Ids \cup {None}
  BY RequestFields DEF TypeOK, Op
<1> QED BY <1>3, <1>4 DEF EditedExist, Exists

-----------------------------------------------------------------------------
LEMMA InvInit == Init => Inv
<1> SUFFICES ASSUME Init PROVE Inv
  OBVIOUS
<1>1. users \in [Tenants -> User]
  BY DEF Init, User, Roles
<1>2. pricing \in [Ids -> Row \cup {None}] /\ NamesAreKeys
  <2>1. CASE pricing = [i \in Ids |-> None]
    BY <2>1 DEF NamesAreKeys
  <2>2. ASSUME NEW i \in Ids, NEW n \in Names,
               pricing = [j \in Ids |-> IF j = i THEN [name |-> n, active |-> TRUE] ELSE None]
        PROVE  pricing \in [Ids -> Row \cup {None}] /\ NamesAreKeys
    <3>1. [name |-> n, active |-> TRUE] \in Row
      BY DEF Row
    <3> QED BY <2>2, <3>1 DEF NamesAreKeys
  <2> QED BY <2>1, <2>2 DEF Init
<1>3. fetches = [s \in Slots |-> None] /\ ops = {} /\ plans = {} /\ tenants = None /\ changes = 0
      /\ modal = Hidden /\ form = Closed
  BY DEF Init
<1>4. TypeOK
  BY <1>1, <1>2, <1>3 DEF TypeOK
<1> QED BY <1>2, <1>3, <1>4 DEF Inv, ShownAreOffered, EditedExist, DialogsDoNotSave

-----------------------------------------------------------------------------
(* The steps.                                                              *)

LEMMA HandleKeeps ==
  ASSUME Inv, NEW o \in ops, Handle(o)
  PROVE  Inv'
<1> USE DEF Inv, Handle
<1> DEFINE new == [o EXCEPT !.stage = "done"]
<1>1. o \in Op /\ new \in Op /\ new.request = o.request /\ o.request \in Requests
  BY DEF TypeOK, Op
<1>2. /\ users' \in [Tenants -> User] /\ pricing' \in [Ids -> Row \cup {None}]
      /\ changes' \in 0 .. MaxChanges /\ NamesAreKeys'
      /\ \A i \in Ids : Exists(i) => Exists(i)' /\ pricing'[i].name = pricing[i].name
  BY <1>1, DoKeeps
<1>3. ops' = (ops \ {o}) \cup {new}
  OBVIOUS
<1> HIDE DEF new
<1>4. TypeOK'
  BY <1>1, <1>2, <1>3 DEF TypeOK
<1>5. /\ ShownAreOffered' /\ (form' \in Ids => Exists(form)')
      /\ \A p \in ops : p.request.kind = "save" /\ p.request.id # None => Exists(p.request.id)'
  BY <1>2, StillOffered
<1>6. EditedExist'
  BY <1>1, <1>3, <1>5 DEF EditedExist, Exists
<1> QED BY <1>2, <1>4, <1>5, <1>6 DEF DialogsDoNotSave

LEMMA OtherOwnerKeeps ==
  ASSUME Inv, NEW r \in Requests, OtherOwner(r)
  PROVE  Inv'
<1> USE DEF Inv, OtherOwner
<1>1. /\ users' \in [Tenants -> User] /\ pricing' \in [Ids -> Row \cup {None}]
      /\ changes' \in 0 .. MaxChanges /\ NamesAreKeys'
      /\ \A i \in Ids : Exists(i) => Exists(i)' /\ pricing'[i].name = pricing[i].name
  BY DoKeeps
<1>2. TypeOK'
  BY <1>1 DEF TypeOK
<1>3. /\ ShownAreOffered' /\ (form' \in Ids => Exists(form)')
      /\ \A p \in ops : p.request.kind = "save" /\ p.request.id # None => Exists(p.request.id)'
  BY <1>1, StillOffered
<1>4. EditedExist'
  BY <1>3 DEF EditedExist, Exists
<1> QED BY <1>1, <1>2, <1>3, <1>4 DEF DialogsDoNotSave

LEMMA PollKeeps ==
  ASSUME Inv, Poll
  PROVE  Inv'
<1> USE DEF Inv, Poll
<1>1. TypeOK'
  BY FetchDataTyped DEF TypeOK
<1>2. ShownAreOffered'
  BY FetchDataOffers DEF ShownAreOffered, Offered, Exists
<1> QED BY <1>1, <1>2 DEF NamesAreKeys, EditedExist, Exists, DialogsDoNotSave

LEMMA UseKeeps ==
  ASSUME Inv, NEW s \in Slots, NEW ok \in SUBSET Parts, Use(s, ok), modal' \in {modal, Message}
  PROVE  Inv'
<1> USE DEF Inv, Use
<1>1. fetches[s] \in Answer
  BY DEF TypeOK
<1>2. tenants' \in [Tenants -> User] \cup {None} /\ plans' \subseteq Plan
  BY <1>1 DEF TypeOK, Answer
<1>3. fetches' \in [Slots -> Answer \cup {None}]
      /\ \A t \in Slots : fetches'[t] = fetches[t] \/ fetches'[t] = None
  BY DEF TypeOK
<1>4. TypeOK'
  BY <1>2, <1>3 DEF TypeOK
<1>5. \A p \in plans' : Offered(p)
  BY DEF ShownAreOffered
<1>6. ShownAreOffered'
  BY <1>3, <1>5 DEF ShownAreOffered, Offered, Exists
<1> QED BY <1>4, <1>6 DEF NamesAreKeys, EditedExist, Exists, DialogsDoNotSave

LEMMA OwnerKeeps ==
  ASSUME Inv, Owner
  PROVE  Inv'
<1> USE DEF Inv
<1>1. CASE Dismiss
  BY <1>1 DEF Dismiss, TypeOK, NamesAreKeys, ShownAreOffered, Offered, EditedExist, Exists, DialogsDoNotSave
<1>2. CASE Confirm
  <2>1. modal \in Requests /\ modal.kind # "save" /\ Send(modal)
    BY <1>2 DEF Confirm, DialogsDoNotSave
  <2>2. ops' \subseteq Op
        /\ \A o \in ops' : o.request.kind = "save" /\ o.request.id # None => Exists(o.request.id)
    BY <2>1, SendTyped
  <2> QED BY <1>2, <2>2
         DEF Confirm, TypeOK, NamesAreKeys, ShownAreOffered, Offered, EditedExist, Exists, DialogsDoNotSave
<1>3. CASE CloseForm
  BY <1>3 DEF CloseForm, TypeOK, NamesAreKeys, ShownAreOffered, Offered, EditedExist, Exists, DialogsDoNotSave
<1>4. CASE SavePlan
  <2>1. CASE ShowMessage /\ UNCHANGED ops
    BY <1>4, <2>1
       DEF SavePlan, ShowMessage, TypeOK, NamesAreKeys, ShownAreOffered, Offered, EditedExist, Exists, DialogsDoNotSave
  <2>2. ASSUME NEW n \in Names, NEW shown \in BOOLEAN, UNCHANGED modal,
               Send([kind |-> "save", id |-> form, name |-> n, active |-> shown])
        PROVE  Inv'
    <3> DEFINE r == [kind |-> "save", id |-> form, name |-> n, active |-> shown]
    <3>1. form \in Ids \cup {None}
      BY <1>4 DEF SavePlan, TypeOK
    <3>2. r \in Requests /\ r.id = form
      BY <3>1 DEF Requests
    <3>3. r.id # None => Exists(r.id)
      BY <3>1, <3>2 DEF EditedExist
    <3> HIDE DEF r
    <3>4. ops' \subseteq Op
          /\ \A o \in ops' : o.request.kind = "save" /\ o.request.id # None => Exists(o.request.id)
      BY <2>2, <3>2, <3>3, SendTyped DEF r
    <3> QED BY <1>4, <2>2, <3>4
           DEF SavePlan, TypeOK, NamesAreKeys, ShownAreOffered, Offered, EditedExist, Exists, DialogsDoNotSave
  <2> QED BY <1>4, <2>1, <2>2 DEF SavePlan
<1>5. ASSUME NEW r \in Requests, Ask(r) PROVE Inv'
  BY <1>5 DEF Ask, AskConfirm, TypeOK, NamesAreKeys, ShownAreOffered, Offered, EditedExist, Exists, DialogsDoNotSave
<1>6. ASSUME NEW p \in plans \cup {None}, OpenForm(p) PROVE Inv'
  <2>1. form' \in Ids \cup {None} /\ (form' # None => Exists(form'))
    <3>1. CASE p = None
      BY <1>6, <3>1 DEF OpenForm, FormOf
    <3>2. CASE p # None
      <4>1. p \in Plan /\ Exists(p.id) /\ form' = p.id
        BY <1>6, <3>2 DEF OpenForm, FormOf, TypeOK, ShownAreOffered, Offered
      <4> QED BY <4>1 DEF Plan
    <3> QED BY <3>1, <3>2
  <2> QED BY <1>6, <2>1
         DEF OpenForm, TypeOK, NamesAreKeys, ShownAreOffered, Offered, EditedExist, Exists, DialogsDoNotSave
<1> QED BY <1>1, <1>2, <1>3, <1>4, <1>5, <1>6 DEF Owner

\* A handler leaves the reads or starts one, leaves the form or closes it, and
\* leaves the dialog or shows its message.
LEMMA AnsweredKeeps ==
  ASSUME Inv, NEW o \in ops, Answered(o)
  PROVE  Inv'
<1> USE DEF Inv
<1>1. /\ fetches' = fetches \/ FetchData
      /\ form' \in {form, Closed}
      /\ modal' \in {modal, Message}
  BY DEF Answered, AfterToggle, AfterRole, AfterSave, ShowMessage
<1>2. UNCHANGED <<relay, tenants, plans>> /\ ops' \subseteq ops
  BY DEF Answered
<1>3. fetches' \in [Slots -> Answer \cup {None}]
  BY <1>1, FetchDataTyped DEF TypeOK
<1>4. TypeOK'
  BY <1>1, <1>2, <1>3 DEF TypeOK
<1>5. ShownAreOffered'
  BY <1>1, <1>2, FetchDataOffers DEF ShownAreOffered, Offered, Exists
<1> QED BY <1>1, <1>2, <1>4, <1>5 DEF NamesAreKeys, EditedExist, Exists, DialogsDoNotSave

LEMMA InvNext == Inv /\ [Next]_vars => Inv'
<1> SUFFICES ASSUME Inv, [Next]_vars PROVE Inv'
  OBVIOUS
<1>1. CASE Poll
  BY <1>1, PollKeeps
<1>2. ASSUME NEW s \in Slots, NEW ok \in SUBSET Parts, Apply(s, ok) \/ FetchFails(s, ok) PROVE Inv'
  BY <1>2, UseKeeps DEF Apply, FetchFails, ShowMessage
<1>3. ASSUME NEW o \in ops, Handle(o) \/ Answered(o) PROVE Inv'
  BY <1>3, HandleKeeps, AnsweredKeeps
<1>4. ASSUME NEW r \in Requests, OtherOwner(r) PROVE Inv'
  BY <1>4, OtherOwnerKeeps
<1>5. CASE Owner
  BY <1>5, OwnerKeeps
<1>6. CASE UNCHANGED vars
  BY <1>6 DEF Inv, TypeOK, NamesAreKeys, ShownAreOffered, Offered, EditedExist, Exists, DialogsDoNotSave
<1> QED BY <1>1, <1>2, <1>3, <1>4, <1>5, <1>6 DEF Next

-----------------------------------------------------------------------------
(* The plans as a catalogue.                                               *)

LEMMA RowsInit == Inv => Catalogue!Init
<1> SUFFICES ASSUME Inv PROVE Catalogue!Init
  OBVIOUS
<1> USE DEF Inv
<1>1. Rows \subseteq Catalogue!Plan
  BY RowsTyped DEF Plan, Catalogue!Plan
<1>2. ASSUME NEW p \in Rows, NEW q \in Rows, p.id = q.id \/ p.name = q.name
      PROVE  p = q
  <2>1. /\ p.id \in Ids /\ Exists(p.id) /\ p = At(p.id)
        /\ q.id \in Ids /\ Exists(q.id) /\ q = At(q.id)
    BY RowsAre
  <2>2. pricing[p.id].name = p.name /\ pricing[q.id].name = q.name
    BY <2>1, RowsTyped DEF Offered
  <2>3. p.id = q.id
    BY <1>2, <2>1, <2>2 DEF NamesAreKeys, Exists
  <2> QED BY <2>1, <2>3
<1> QED BY <1>1, <1>2 DEF Catalogue!Init

\* A save replaces the row of an id, or adds one.
LEMMA RowsAfter ==
  ASSUME TypeOK, NEW i \in Ids, NEW row \in Row, pricing' = [pricing EXCEPT ![i] = row]
  PROVE  Rows' = {q \in Rows : q.id # i} \cup {[id |-> i, name |-> row.name, active |-> row.active]}
<1> DEFINE new == [id |-> i, name |-> row.name, active |-> row.active]
           others == {q \in Rows : q.id # i}
<1>1. pricing'[i] = row /\ row # None /\ \A j \in Ids \ {i} : pricing'[j] = pricing[j]
  BY DEF TypeOK
<1>2. Rows' = {[id |-> j, name |-> pricing'[j].name, active |-> pricing'[j].active] :
                 j \in {j \in Ids : pricing'[j] # None}}
  BY DEF Rows
<1>3. ASSUME NEW q \in Rows' PROVE q \in others \cup {new}
  <2>1. PICK j \in Ids : /\ pricing'[j] # None
                         /\ q = [id |-> j, name |-> pricing'[j].name, active |-> pricing'[j].active]
    BY <1>2, <1>3
  <2>2. CASE j = i
    BY <1>1, <2>1, <2>2
  <2>3. CASE j # i
    BY <1>1, <2>1, <2>3, RowsAre DEF At, Exists
  <2> QED BY <2>2, <2>3
<1>4. new \in Rows'
  BY <1>1, <1>2
<1>5. ASSUME NEW q \in others PROVE q \in Rows'
  <2>1. q.id \in Ids \ {i} /\ pricing[q.id] # None
        /\ q = [id |-> q.id, name |-> pricing[q.id].name, active |-> pricing[q.id].active]
    BY RowsAre DEF At, Exists
  <2> QED BY <1>1, <1>2, <2>1
<1> QED BY <1>3, <1>4, <1>5

LEMMA UpsertIsOfferOrRevise ==
  ASSUME Inv, NEW r \in Requests, UpsertPlan(r)
  PROVE  Catalogue!Next
<1> USE DEF Inv
<1> DEFINE row == [name |-> r.name, active |-> r.active]
<1>1. PICK i \in Ids :
        /\ row \in Row /\ pricing' = [pricing EXCEPT ![i] = row]
        /\ \/ Exists(i) /\ pricing[i].name = r.name
           \/ ~Exists(i) /\ \A j \in Ids : Exists(j) => pricing[j].name # r.name
  BY UpsertIs
<1> DEFINE new == [id |-> i, name |-> r.name, active |-> r.active]
<1>2. Rows' = {q \in Rows : q.id # i} \cup {new}
  BY <1>1, RowsAfter
<1>3. CASE Exists(i) /\ pricing[i].name = r.name
  <2> DEFINE p == At(i)
  <2>1. p \in Rows /\ p = [id |-> i, name |-> r.name, active |-> pricing[i].active]
    BY <1>3, RowsAre DEF At
  <2>2. [p EXCEPT !.active = r.active] = new
    BY <2>1
  <2>3. {q \in Rows : q.id # i} = Rows \ {p}
    BY <2>1, RowsAre
  <2>4. r.active \in BOOLEAN
    BY <1>1 DEF Row
  <2>5. Catalogue!Revise(p, r.active)
    BY <1>2, <2>2, <2>3 DEF Catalogue!Revise
  <2> QED BY <2>1, <2>4, <2>5 DEF Catalogue!Next
<1>4. CASE ~Exists(i) /\ \A j \in Ids : Exists(j) => pricing[j].name # r.name
  <2>1. \A q \in Rows : q.id # i /\ q.name # r.name
    BY <1>4, RowsAre, RowsTyped DEF Offered
  <2>2. new \in Catalogue!Plan
    BY <1>1 DEF Row, Catalogue!Plan
  <2>3. Rows' = Rows \cup {new}
    BY <1>2, <2>1
  <2>4. new.id = i /\ new.name = r.name
    OBVIOUS
  <2>5. Catalogue!Offer(new)
    BY <2>1, <2>3, <2>4 DEF Catalogue!Offer
  <2> QED BY <2>2, <2>5 DEF Catalogue!Next
<1> QED BY <1>1, <1>3, <1>4

\* Only what the relay does to its plans shows in the catalogue.
LEMMA RowsNext == Inv /\ [Next]_vars => [Catalogue!Next]_Rows
<1> SUFFICES ASSUME Inv, [Next]_vars PROVE Catalogue!Next \/ Rows' = Rows
  OBVIOUS
<1>1. ASSUME pricing' = pricing PROVE Rows' = Rows
  BY <1>1 DEF Rows
<1>2. ASSUME NEW r \in Requests, Do(r) PROVE Catalogue!Next \/ Rows' = Rows
  BY <1>1, <1>2, UpsertIsOfferOrRevise DEF Do, ToggleUser, UpdateUserRole
<1>3. ASSUME NEW o \in ops, Handle(o) PROVE Catalogue!Next \/ Rows' = Rows
  <2>1. o.request \in Requests
    BY DEF Inv, TypeOK, Op
  <2> QED BY <1>2, <1>3, <2>1 DEF Handle
<1>4. ASSUME NEW r \in Requests, OtherOwner(r) PROVE Catalogue!Next \/ Rows' = Rows
  BY <1>2, <1>4 DEF OtherOwner
<1>5. CASE Poll \/ Owner \/ UNCHANGED vars
  BY <1>1, <1>5 DEF Poll, Owner, Dismiss, Confirm, CloseForm, SavePlan, Ask, OpenForm
<1>6. ASSUME NEW s \in Slots, NEW ok \in SUBSET Parts, Apply(s, ok) \/ FetchFails(s, ok)
      PROVE  Rows' = Rows
  BY <1>1, <1>6 DEF Apply, FetchFails, Use
<1>7. ASSUME NEW o \in ops, Answered(o) PROVE Rows' = Rows
  BY <1>1, <1>7 DEF Answered
<1> QED BY <1>3, <1>4, <1>5, <1>6, <1>7 DEF Next

-----------------------------------------------------------------------------
(* Theorems.                                                               *)

THEOREM OwnerInductive == Spec => []Inv
BY InvInit, InvNext, PTL DEF Spec

\* Page and relay only ever hold users, plans and requests of their types.
THEOREM OwnerTypeCorrect == Spec => []TypeOK
<1>1. Inv => TypeOK
  BY DEF Inv
<1> QED BY <1>1, OwnerInductive, PTL

\* Stale forms, repeated and concurrent saves included, the plans are a
\* catalogue: an id and a name mean one plan for ever (UpsertPlan in
\* repository.go, ON CONFLICT (name)).
THEOREM OwnerImplementsCatalogue == Spec => ImplementsCatalogue
<1>1. Init => Catalogue!Init
  BY InvInit, RowsInit
<1> QED BY <1>1, RowsNext, OwnerInductive, PTL DEF Spec, ImplementsCatalogue, Catalogue!Spec

\* However old its list, and whatever answer comes late: the page shows, edits
\* and saves only plans the relay has, each under the name it has there.
THEOREM ShownPlansExist == Spec => [](ShownAreOffered /\ EditedExist)
<1>1. Inv => ShownAreOffered /\ EditedExist
  BY DEF Inv
<1> QED BY <1>1, OwnerInductive, PTL
=============================================================================
