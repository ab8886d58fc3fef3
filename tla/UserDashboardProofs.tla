------------------------ MODULE UserDashboardProofs ------------------------
(***************************************************************************)
(* The customer's page, for every set of tunnels and keys and any number   *)
(* of requests that end in any order: its one dialog does what it says,    *)
(* and Save is never disabled for a request that has ended.                *)
(***************************************************************************)
EXTENDS UserDashboard, TLAPS

USE CustomerAssumption
USE DEF vars, data, frame

Dialogs == {Message, NoDialog} \cup {Question(x) : x \in Rows \cup {Account}}

\* The button Save, and the one of the crop form, are disabled by a flag that
\* the handlers of two requests share: there is one of them under way.
SavingIsUnderWay ==
  isUpdatingProfile => \E o \in ops : o.kind \in {"updateProfile", "avatar"}

\* The requests that delete are those the open dialog names.
DeletesAreConfirmed ==
  [][\A o \in ops' \ ops :
       o.kind = "delete" /\ o.stage = "sent" => modal.show /\ modal.says = o.of]_vars

Changing == {"delete", "createKey", "addCustomDomain"}

\* What the relay is to do, it is to do with a row.
ChangesNameRows == \A o \in ops : o.kind \in Changing => o.of \in Rows

\* Whatever replaces the dialog replaces all of it; whoever ends a request that
\* saves clears the flag.
Inv == TypeOK /\ ChangesNameRows /\ modal \in Dialogs /\ SavingIsUnderWay

-----------------------------------------------------------------------------
(* The operators.                                                          *)

LEMMA DialogsAreTyped ==
  ASSUME NEW m \in Dialogs
  PROVE  /\ m \in [show : BOOLEAN, says : Rows \cup {Account, None}, confirm : Rows \cup {Account, None}]
         /\ m.show => m.confirm = m.says
<1>1. CASE m = Message
  BY <1>1 DEF Message
<1>2. CASE m = NoDialog
  BY <1>2 DEF NoDialog
<1>3. ASSUME NEW x \in Rows \cup {Account}, m = Question(x)
      PROVE  /\ m \in [show : BOOLEAN, says : Rows \cup {Account, None}, confirm : Rows \cup {Account, None}]
             /\ m.show => m.confirm = m.says
  BY <1>3 DEF Question
<1> QED BY <1>1, <1>2, <1>3 DEF Dialogs

LEMMA MessageIsDialog == Message \in Dialogs /\ NoDialog \in Dialogs
BY DEF Dialogs

LEMMA FetchDataTyped ==
  ASSUME TypeOK, FetchData
  PROVE  fetches' \in SUBSET SUBSET Rows
BY DEF TypeOK, FetchData

LEMMA SendTyped ==
  ASSUME TypeOK, ChangesNameRows, NEW kind \in Kinds, NEW x \in Rows \cup {None}, Send(kind, x),
         kind \in Changing => x \in Rows
  PROVE  /\ ops' \in SUBSET Op
         /\ ChangesNameRows'
         /\ \E o \in ops' : o.kind = kind
         /\ ops \subseteq ops'
         /\ \A o \in ops' \ ops : o.kind = kind /\ o.of = x
<1> DEFINE new == [kind |-> kind, of |-> x, stage |-> "sent"]
<1>1. ops' = ops \cup {new}
  BY DEF Send
<1>2. new \in Op /\ new.kind = kind /\ new.of = x
  BY DEF Op
<1> QED BY <1>1, <1>2 DEF TypeOK, ChangesNameRows

\* A request that goes on is of the same kind, about the same row.
LEMMA OpGoesOn ==
  ASSUME TypeOK, NEW o \in ops, NEW kind \in Kinds, NEW stage \in {"sent", "done"}
  PROVE  /\ o \in Op
         /\ [o EXCEPT !.stage = stage] \in Op /\ [o EXCEPT !.stage = stage].kind = o.kind
         /\ [o EXCEPT !.stage = stage].stage = stage
         /\ [o EXCEPT !.kind = kind] \in Op /\ [o EXCEPT !.kind = kind].kind = kind
<1>1. o \in Op
  BY DEF TypeOK
<1>2. o = [kind |-> o.kind, of |-> o.of, stage |-> o.stage]
  BY <1>1 DEF Op
<1>3. [o EXCEPT !.stage = stage] = [kind |-> o.kind, of |-> o.of, stage |-> stage]
  BY <1>1 DEF Op
<1>4. [o EXCEPT !.kind = kind] = [kind |-> kind, of |-> o.of, stage |-> o.stage]
  BY <1>1 DEF Op
<1> QED BY <1>1, <1>3, <1>4 DEF Op

\* Fewer requests.
LEMMA StillNamed ==
  ASSUME ChangesNameRows, ops' \subseteq ops
  PROVE  ChangesNameRows'
BY DEF ChangesNameRows

\* A step that leaves requests and flag alone, or adds requests.
LEMMA StillSaving ==
  ASSUME SavingIsUnderWay, ops \subseteq ops', isUpdatingProfile' = isUpdatingProfile
  PROVE  SavingIsUnderWay'
BY DEF SavingIsUnderWay

-----------------------------------------------------------------------------
LEMMA InvInit == Init => Inv
<1> SUFFICES ASSUME Init PROVE Inv
  OBVIOUS
<1>1. modal \in Dialogs
  BY DEF Init, Dialogs
<1>2. seen \in BOOLEAN /\ isUpdatingProfile \in BOOLEAN /\ stats \in BOOLEAN /\ loading \in BOOLEAN
  BY Zenon DEF Init
<1>4. rows \in SUBSET Rows /\ tunnels = {} /\ apiKeys = {} /\ maxTunnels = 1 /\ fetches = {} /\ ops = {}
      /\ activeTab = "overview" /\ onboarding = 0 /\ form = None
  BY DEF Init
<1>5. modal \in [show : BOOLEAN, says : Rows \cup {Account, None}, confirm : Rows \cup {Account, None}]
  BY <1>1, DialogsAreTyped
<1>3. TypeOK
  BY <1>2, <1>4, <1>5 DEF TypeOK, Tabs
<1> QED BY <1>1, <1>3 DEF Init, Inv, SavingIsUnderWay, ChangesNameRows

-----------------------------------------------------------------------------
(* The page's own reads.                                                   *)

LEMMA PollKeeps ==
  ASSUME Inv, Poll
  PROVE  Inv'
<1>1. fetches' \in SUBSET SUBSET Rows
  BY FetchDataTyped DEF Inv, Poll
<1> QED BY <1>1 DEF Inv, Poll, TypeOK, SavingIsUnderWay, ChangesNameRows

LEMMA ApplyKeeps ==
  ASSUME Inv, NEW read \in fetches, NEW ok \in SUBSET Parts, Apply(read, ok)
  PROVE  Inv'
<1> USE DEF Inv, Apply
<1>1. stats' \in BOOLEAN /\ loading' \in BOOLEAN
  BY Zenon DEF TypeOK
<1>2. tunnels' \in SUBSET Tunnels /\ apiKeys' \in SUBSET Keys
  BY DEF TypeOK
<1>3. maxTunnels' \in Nat \ {0} /\ onboarding' \in 0 .. 4
  BY DEF TypeOK
<1>4. TypeOK'
  BY <1>1, <1>2, <1>3 DEF TypeOK
<1> QED BY <1>4 DEF SavingIsUnderWay, ChangesNameRows

-----------------------------------------------------------------------------
(* What the customer does.                                                 *)

LEMMA ConfirmKeeps ==
  ASSUME Inv, Confirm
  PROVE  Inv'
<1> USE DEF Inv, Confirm
<1>1. ops \subseteq ops' /\ ops' \in SUBSET Op /\ ChangesNameRows'
  <2>1. CASE modal.confirm = Account
    BY <2>1 DEF TypeOK, ChangesNameRows
  <2>2. CASE modal.confirm # Account
    <3>1. modal.confirm \in Rows /\ Send("delete", modal.confirm)
      BY <2>2, DialogsAreTyped
    <3> QED BY <3>1, SendTyped DEF Kinds, Changing
  <2> QED BY <2>1, <2>2
<1>2. TypeOK'
  BY <1>1, MessageIsDialog, DialogsAreTyped DEF TypeOK
<1> QED BY <1>1, <1>2, MessageIsDialog, StillSaving

LEMMA SubmitFormKeeps ==
  ASSUME Inv, SubmitForm
  PROVE  Inv'
<1> USE DEF Inv, SubmitForm
<1>1. CASE form \in Keys /\ Send("createKey", form) /\ UNCHANGED isUpdatingProfile
  <2>1. ops \subseteq ops' /\ ops' \in SUBSET Op /\ ChangesNameRows'
    BY <1>1, SendTyped DEF Kinds, Changing, Rows
  <2>2. TypeOK'
    BY <1>1, <2>1 DEF TypeOK
  <2> QED BY <1>1, <2>1, <2>2, StillSaving
<1>2. CASE form = "edit" /\ Send("updateProfile", None) /\ isUpdatingProfile' = TRUE
  <2>1. ops' \in SUBSET Op /\ ChangesNameRows' /\ \E o \in ops' : o.kind = "updateProfile"
    BY <1>2, SendTyped DEF Kinds, Changing
  <2>2. TypeOK'
    BY <1>2, <2>1 DEF TypeOK
  <2> QED BY <2>1, <2>2 DEF SavingIsUnderWay
<1>3. CASE form = "crop" /\ Send("crop", None) /\ UNCHANGED isUpdatingProfile
  <2>1. ops \subseteq ops' /\ ops' \in SUBSET Op /\ ChangesNameRows'
    BY <1>3, SendTyped DEF Kinds, Changing
  <2>2. TypeOK'
    BY <1>3, <2>1 DEF TypeOK
  <2> QED BY <1>3, <2>1, <2>2, StillSaving
<1> QED BY <1>1, <1>2, <1>3

\* The buttons that send a request and leave the rest of the page alone.
LEMMA SendsKeep ==
  ASSUME Inv, NEW kind \in Kinds, NEW x \in Rows \cup {None}, Send(kind, x), kind \in Changing => x \in Rows,
         UNCHANGED <<rows, data, fetches, frame, modal, form, isUpdatingProfile>>
  PROVE  Inv'
<1>1. ops \subseteq ops' /\ ops' \in SUBSET Op /\ ChangesNameRows'
  BY SendTyped DEF Inv
<1>2. TypeOK'
  BY <1>1 DEF Inv, TypeOK
<1> QED BY <1>1, <1>2, StillSaving DEF Inv

LEMMA CustomerKeeps ==
  ASSUME Inv, Customer
  PROVE  Inv'
<1>1. CASE Dismiss
  <2>1. TypeOK'
    BY <1>1, MessageIsDialog, DialogsAreTyped DEF Inv, Dismiss, TypeOK
  <2> QED BY <1>1, <2>1, MessageIsDialog DEF Inv, Dismiss, SavingIsUnderWay, ChangesNameRows
<1>2. CASE Confirm
  BY <1>2, ConfirmKeeps
<1>3. CASE Onboarding
  <2>1. seen' \in BOOLEAN
    BY <1>3, Zenon DEF Inv, Onboarding, TypeOK
  <2>2. onboarding' \in 0 .. 4
    BY <1>3 DEF Onboarding
  <2> QED BY <1>3, <2>1, <2>2 DEF Inv, Onboarding, TypeOK, SavingIsUnderWay, ChangesNameRows
<1>4. CASE Topup
  BY <1>4, SendsKeep DEF Topup, Kinds, Changing
<1>5. CASE WizardLeft
  <2>1. fetches' \in SUBSET SUBSET Rows
    BY <1>5, FetchDataTyped DEF Inv, WizardLeft, TypeOK
  <2>2. loading' \in BOOLEAN
    BY <1>5, Zenon DEF Inv, WizardLeft, TypeOK
  <2> QED BY <1>5, <2>1, <2>2 DEF Inv, WizardLeft, TypeOK, Tabs, SavingIsUnderWay, ChangesNameRows
<1>6. CASE CloseForm
  BY <1>6 DEF Inv, CloseForm, TypeOK, SavingIsUnderWay, ChangesNameRows
<1>7. CASE SubmitForm
  BY <1>7, SubmitFormKeeps
<1>8. ASSUME NEW tab \in Tabs, OpenTab(tab) PROVE Inv'
  BY <1>8 DEF Inv, OpenTab, TypeOK, SavingIsUnderWay, ChangesNameRows
<1>9. ASSUME NEW x \in Rows \cup {Account}, AskDelete(x) PROVE Inv'
  <2>1. modal' \in Dialogs
    BY <1>9 DEF AskDelete, AskConfirm, Dialogs
  <2>2. TypeOK'
    BY <1>9, <2>1, DialogsAreTyped DEF Inv, AskDelete, TypeOK
  <2> QED BY <1>9, <2>1, <2>2 DEF Inv, AskDelete, SavingIsUnderWay, ChangesNameRows
<1>10. ASSUME NEW t \in Tunnels, AddCustomDomain(t) PROVE Inv'
  BY <1>10, SendsKeep DEF AddCustomDomain, Kinds, Changing, Rows
<1>11. ASSUME NEW k \in Keys, DownloadConfig(k) PROVE Inv'
  BY <1>11, SendsKeep DEF DownloadConfig, Kinds, Changing, Rows
<1>12. ASSUME NEW t \in Tunnels, NEW k \in Keys, WizardRegisters(t, k) PROVE Inv'
  BY <1>12 DEF Inv, WizardRegisters, TypeOK, Rows, SavingIsUnderWay, ChangesNameRows
<1>13. ASSUME NEW x \in Keys \cup {"edit", "crop"}, OpenForm(x) PROVE Inv'
  BY <1>13 DEF Inv, OpenForm, TypeOK, SavingIsUnderWay, ChangesNameRows
<1> QED BY <1>1, <1>2, <1>3, <1>4, <1>5, <1>6, <1>7, <1>8, <1>9, <1>10, <1>11, <1>12, <1>13 DEF Customer

-----------------------------------------------------------------------------
(* Requests and their answers.                                             *)

\* The relay does what is asked; a saving request is none it does here.
LEMMA HandleKeeps ==
  ASSUME Inv, NEW o \in ops, Handle(o)
  PROVE  Inv'
<1> USE DEF Inv, Handle
<1> DEFINE new == [o EXCEPT !.stage = "done"]
<1>1. o \in Op /\ new \in Op /\ new.kind = o.kind
  BY OpGoesOn, o.kind \in Kinds DEF Kinds, Op, TypeOK
<1>2. o.of \in Rows /\ new.of = o.of
  BY <1>1 DEF Op, ChangesNameRows, Changing
<1>3. ops' \in SUBSET Op /\ rows' \in SUBSET Rows
  BY <1>1, <1>2 DEF TypeOK
<1>4. TypeOK'
  BY <1>3 DEF TypeOK
<1>5. ChangesNameRows'
  BY <1>2 DEF ChangesNameRows
<1>6. SavingIsUnderWay'
  BY DEF SavingIsUnderWay
<1> QED BY <1>4, <1>5, <1>6

LEMMA InvoiceKeeps ==
  ASSUME Inv, NEW o \in ops, Invoice(o)
  PROVE  Inv'
<1> USE DEF Inv, Invoice, Remount
<1>1. modal' \in Dialogs
  BY DEF Dialogs
<1>2. stats' \in BOOLEAN /\ loading' \in BOOLEAN /\ isUpdatingProfile' \in BOOLEAN /\ seen' \in BOOLEAN
  BY Zenon DEF TypeOK
<1>3. TypeOK'
  BY <1>1, <1>2, DialogsAreTyped DEF TypeOK, Tabs
<1> QED BY <1>1, <1>3 DEF SavingIsUnderWay, ChangesNameRows

LEMMA CroppedKeeps ==
  ASSUME Inv, NEW o \in ops, Cropped(o)
  PROVE  Inv'
<1> USE DEF Inv, Cropped
<1> DEFINE new == [o EXCEPT !.kind = "avatar"]
<1>1. o \in Op /\ new \in Op /\ new.kind = "avatar"
  BY OpGoesOn, "avatar" \in Kinds DEF Kinds, Op, TypeOK
<1>2. CASE /\ ops' = (ops \ {o}) \cup {new} /\ form' = (IF form = "crop" THEN None ELSE form)
           /\ isUpdatingProfile' = TRUE /\ UNCHANGED modal
  BY <1>1, <1>2 DEF TypeOK, SavingIsUnderWay, ChangesNameRows, Changing
<1>3. CASE ops' = ops \ {o} /\ ShowMessage /\ isUpdatingProfile' = FALSE /\ UNCHANGED form
  <2>1. modal' \in Dialogs
    BY <1>3, MessageIsDialog DEF ShowMessage
  <2>2. TypeOK'
    BY <1>3, <2>1, DialogsAreTyped DEF TypeOK
  <2> QED BY <1>3, <2>1, <2>2 DEF SavingIsUnderWay, ChangesNameRows
<1> QED BY <1>2, <1>3

\* What any handler may do after its await: leave the dialog, or show its
\* message; leave the reads, or start one; leave the form, or close it.
LEMMA AnsweredKeeps ==
  ASSUME Inv, NEW o \in ops, NEW answer \in Answers(o), Answered(o, answer)
  PROVE  Inv'
<1> USE DEF Inv, Answered
<1>1. modal' \in Dialogs
  BY MessageIsDialog
     DEF AfterDelete, AfterCreateKey, AfterAddCustomDomain, AfterUpdateProfile, AfterAvatar,
         AfterDownloadConfig, AfterTopup, ShowMessage
<1>2. fetches' = fetches \/ FetchData
  BY DEF AfterDelete, AfterCreateKey, AfterAddCustomDomain, AfterUpdateProfile, AfterAvatar,
         AfterDownloadConfig, AfterTopup
<1>3. fetches' \in SUBSET SUBSET Rows
  BY <1>2, FetchDataTyped DEF TypeOK
<1>4. form' \in {form, None}
  BY DEF AfterDelete, AfterCreateKey, AfterAddCustomDomain, AfterUpdateProfile, AfterAvatar,
         AfterDownloadConfig, AfterTopup
<1>5. \/ isUpdatingProfile' = FALSE
      \/ isUpdatingProfile' = isUpdatingProfile /\ o.kind \notin {"updateProfile", "avatar"}
  BY DEF AfterDelete, AfterCreateKey, AfterAddCustomDomain, AfterUpdateProfile, AfterAvatar,
         AfterDownloadConfig, AfterTopup
<1>6. TypeOK'
  <2>1. isUpdatingProfile' \in BOOLEAN
    BY <1>5, Zenon DEF TypeOK
  <2> QED BY <1>1, <1>3, <1>4, <2>1, DialogsAreTyped DEF TypeOK
<1>7. SavingIsUnderWay'
  BY <1>5 DEF SavingIsUnderWay
<1>8. ChangesNameRows'
  BY StillNamed
<1> QED BY <1>1, <1>6, <1>7, <1>8

LEMMA InvNext == Inv /\ [Next]_vars => Inv'
<1> SUFFICES ASSUME Inv, [Next]_vars PROVE Inv'
  OBVIOUS
<1>1. CASE Poll
  BY <1>1, PollKeeps
<1>2. ASSUME NEW read \in fetches, NEW ok \in SUBSET Parts, Apply(read, ok) PROVE Inv'
  BY <1>2, ApplyKeeps
<1>3. ASSUME NEW o \in ops, Handle(o) PROVE Inv'
  BY <1>3, HandleKeeps
<1>4. ASSUME NEW o \in ops, Returns(o) PROVE Inv'
  BY <1>4, InvoiceKeeps, CroppedKeeps, AnsweredKeeps DEF Returns
<1>5. CASE Customer
  BY <1>5, CustomerKeeps
<1>6. CASE UNCHANGED vars
  BY <1>6 DEF Inv, TypeOK, SavingIsUnderWay, ChangesNameRows
<1> QED BY <1>1, <1>2, <1>3, <1>4, <1>5, <1>6 DEF Next

-----------------------------------------------------------------------------
(* Theorems.                                                               *)

\* Every reachable state is one of the inductive invariant.
THEOREM CustomerInductive == Spec => []Inv
BY InvInit, InvNext, PTL DEF Spec

\* The page only ever holds rows, requests, dialogs and forms of their types.
THEOREM CustomerTypeCorrect == Spec => []TypeOK
<1>1. Inv => TypeOK
  BY DEF Inv
<1> QED BY <1>1, CustomerInductive, PTL

\* The red button does what the dialog asks, whichever late message came in
\* between (showInfo, showError and askConfirm share one modal state).
THEOREM DialogAlwaysAsksWhatItDoes == Spec => []DialogAsksWhatItDoes
<1>1. Inv => DialogAsksWhatItDoes
  BY DialogsAreTyped DEF Inv, DialogAsksWhatItDoes
<1> QED BY <1>1, CustomerInductive, PTL

\* Save is never disabled with nothing left to enable it again: requests of the
\* two forms may overlap, and each clears the flag of both (setIsUpdatingProfile
\* in updateProfile and handleFinalCrop).
THEOREM SavingEndsWithItsRequest == Spec => []SavingIsUnderWay
<1>1. Inv => SavingIsUnderWay
  BY DEF Inv
<1> QED BY <1>1, CustomerInductive, PTL

\* A row is only asked to be deleted while the open dialog names it.
THEOREM DeletesAreAlwaysConfirmed == Spec => DeletesAreConfirmed
<1> DEFINE Confirmed ==
      \A o \in ops' \ ops : o.kind = "delete" /\ o.stage = "sent" => modal.show /\ modal.says = o.of
<1>1. Inv /\ [Next]_vars => [Confirmed]_vars
  <2> SUFFICES ASSUME Inv, Next, NEW o \in ops' \ ops, o.kind = "delete", o.stage = "sent"
               PROVE  modal.show /\ modal.says = o.of
    BY Zenon
  <2> USE DEF Inv
  <2>1. CASE Confirm
    <3>1. modal.confirm \in Rows /\ Send("delete", modal.confirm)
      BY <2>1, DialogsAreTyped DEF Confirm
    <3> QED BY <2>1, <3>1, SendTyped, DialogsAreTyped DEF Confirm, Kinds, Changing
  <2>2. ASSUME NEW kind \in Kinds \ {"delete"}, NEW x \in Rows \cup {None}, Send(kind, x),
               kind \in Changing => x \in Rows
        PROVE  FALSE
    BY <2>2, SendTyped
  <2>3. ASSUME NEW p \in ops, Handle(p) PROVE FALSE
    <3>1. [p EXCEPT !.stage = "done"].stage = "done"
      BY OpGoesOn, "delete" \in Kinds DEF Kinds
    <3> QED BY <2>3, <3>1 DEF Handle
  <2>4. ASSUME NEW p \in ops, Cropped(p) PROVE FALSE
    <3>1. [p EXCEPT !.kind = "avatar"].kind = "avatar"
      BY OpGoesOn, "avatar" \in Kinds DEF Kinds
    <3> QED BY <2>4, <3>1 DEF Cropped
  <2>5. CASE Customer /\ ~Confirm
    BY <2>2, <2>5
       DEF Customer, Dismiss, Onboarding, Topup, WizardLeft, CloseForm, SubmitForm, OpenTab, AskDelete,
           AddCustomDomain, DownloadConfig, WizardRegisters, OpenForm, Kinds, Changing, Rows
  <2>6. CASE Poll \/ \E read \in fetches, ok \in SUBSET Parts : Apply(read, ok)
    BY <2>6 DEF Poll, Apply
  <2>7. ASSUME NEW p \in ops, Invoice(p) \/ \E answer \in Answers(p) : Answered(p, answer)
        PROVE FALSE
    BY <2>7 DEF Invoice, Remount, Answered
  <2> QED BY <2>1, <2>3, <2>4, <2>5, <2>6, <2>7 DEF Next, Returns
<1>2. [][Confirmed]_vars => DeletesAreConfirmed
  BY PTL DEF DeletesAreConfirmed
<1> QED BY <1>1, <1>2, CustomerInductive, PTL DEF Spec
=============================================================================
