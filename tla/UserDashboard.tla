---------------------------- MODULE UserDashboard ----------------------------
(***************************************************************************)
(* A mounted UserDashboard (src/dashboard/src/pages/UserDashboard.tsx) and *)
(* the rows of its customer at the relay.  The page shows copies of these  *)
(* rows that fetchData brings every five seconds and after every change;   *)
(* its handlers send a request, and go on when the answer comes, over      *)
(* whatever the page has become meanwhile.  There is one dialog for all    *)
(* messages and questions.                                                 *)
(*                                                                         *)
(* A row is a tunnel (a domain) or an API key.  Names, labels, prices and  *)
(* the numbers of the overview are left out.  The seven requests of one    *)
(* fetchData read the relay at one moment; each may fail by itself.  A     *)
(* fetchData does nothing before the relay is read, so it appears then.    *)
(***************************************************************************)
EXTENDS Naturals, FiniteSets

CONSTANTS
  Tunnels,           \* domains the customer may register
  Keys,              \* API keys the customer may create
  None,              \* no row, no question, no form
  Account,           \* what "Delete Account" asks about
  PlanTunnels,       \* max_tunnels of the plan
  Features,          \* what AuthContext's hasAccess grants
  MaxFetches,        \* bound: fetchData calls whose answers are under way
  MaxOps             \* bound: other requests that are under way at once

Rows == Tunnels \cup Keys

ASSUME CustomerAssumption ==
  /\ Tunnels \cap Keys = {}
  /\ None \notin Rows /\ Account \notin Rows /\ None # Account
  /\ Rows \cap {"edit", "crop"} = {} /\ None \notin {"edit", "crop"}
  /\ PlanTunnels \in Nat \ {0}
  /\ MaxFetches \in Nat /\ MaxOps \in Nat

VARIABLES
  rows,              \* the customer's rows at the relay
  tunnels, apiKeys,  \* the rows the page shows
  stats,             \* the page has the numbers of the overview
  maxTunnels,        \* profile?.max_tunnels || 1
  loading,           \* the page waits for a fetchData with its skeleton
  fetches,           \* what the fetchData calls under way have read
  ops,               \* the other requests: kind, subject, stage
  activeTab,
  onboarding,        \* the step the onboarding is at, 0 when it is not shown
  seen,              \* onboarding_seen in localStorage
  modal,             \* the dialog: shown or not, what it says, what Confirm does
  form,              \* the form that is open; of the key form, its generatedKey
  isUpdatingProfile

data == <<tunnels, apiKeys, stats, maxTunnels, loading>>
frame == <<activeTab, onboarding, seen>>
vars == <<rows, data, fetches, ops, frame, modal, form, isUpdatingProfile>>

Parts == {"stats", "profile", "tunnels", "keys"}
Kinds == {"delete", "createKey", "addCustomDomain", "updateProfile",
          "crop", "avatar", "topup", "config"}
Op == [kind : Kinds, of : Rows \cup {None}, stage : {"sent", "done"}]
Tabs == {"overview", "tunnels", "custom_domain", "keys", "billing", "download",
         "profile", "settings", "add-tunnel"}

Message == [show |-> TRUE, says |-> None, confirm |-> None]
Question(x) == [show |-> TRUE, says |-> x, confirm |-> x]
NoDialog == [show |-> FALSE, says |-> None, confirm |-> None]

-----------------------------------------------------------------------------
(* useState, and the effects of mounting: the message of a payment the     *)
(* customer comes back from.                                               *)

Init ==
  /\ rows \in SUBSET Rows /\ seen \in BOOLEAN
  /\ tunnels = {} /\ apiKeys = {} /\ stats = FALSE /\ maxTunnels = 1 /\ loading = TRUE
  /\ fetches = {} /\ ops = {}
  /\ activeTab = "overview" /\ onboarding = 0
  /\ modal \in {Message, NoDialog} /\ form = None /\ isUpdatingProfile = FALSE

Remount ==
  /\ tunnels' = {} /\ apiKeys' = {} /\ stats' = FALSE /\ maxTunnels' = 1 /\ loading' = TRUE
  /\ fetches' = {} /\ ops' = {}
  /\ activeTab' = "overview" /\ onboarding' = 0
  /\ modal' \in {Message, NoDialog} /\ form' = None /\ isUpdatingProfile' = FALSE
  /\ UNCHANGED <<rows, seen>>

-----------------------------------------------------------------------------
(* fetchData.                                                              *)

\* The relay answers from the rows it has.  When MaxFetches answers are under
\* way a call is left out: the interval repeats it.
FetchData ==
  fetches' = IF Cardinality(fetches) < MaxFetches THEN fetches \cup {rows} ELSE fetches

\* Fault: the page is loaded when it is mounted and after changes, not every five seconds.
PollOnce == loading /\ FetchData /\ UNCHANGED <<rows, data, ops, frame, modal, form, isUpdatingProfile>>

\* The call of the effect, and of its interval.
Poll == FetchData /\ UNCHANGED <<rows, data, ops, frame, modal, form, isUpdatingProfile>>

\* ok: the responses that arrived and were res.ok; none if Promise.all rejects.
Apply(read, ok) ==
  /\ fetches' = fetches \ {read}
  /\ stats' = (stats \/ "stats" \in ok)
  /\ maxTunnels' = IF "profile" \in ok THEN PlanTunnels ELSE maxTunnels
  /\ tunnels' = IF "tunnels" \in ok THEN read \cap Tunnels ELSE tunnels
  /\ onboarding' = IF "tunnels" \in ok /\ tunnels' = {} /\ ~seen /\ onboarding = 0
                     THEN 1 ELSE onboarding
  /\ apiKeys' = IF "keys" \in ok THEN read \cap Keys ELSE apiKeys
  /\ loading' = FALSE
  /\ UNCHANGED <<rows, ops, activeTab, seen, modal, form, isUpdatingProfile>>

-----------------------------------------------------------------------------
(* The dialog: showInfo and showError, askConfirm, its buttons.            *)

\* Fault: the message is put into the dialog there is: setModal({...modal, ...}).
ShowMessageKeepsConfirm == modal' = [modal EXCEPT !.show = TRUE, !.says = None]

ShowMessage == modal' = Message

AskConfirm(x) == modal' = Question(x)

\* onClose: Cancel or Understood.
Dismiss ==
  /\ modal.show
  /\ modal' = NoDialog
  /\ UNCHANGED <<rows, data, fetches, ops, frame, form, isUpdatingProfile>>

\* A handler up to its await.
Send(kind, x) ==
  /\ ops' = ops \cup {[kind |-> kind, of |-> x, stage |-> "sent"]}
  /\ Cardinality(ops') <= MaxOps

\* onConfirm(); onClose().  What Delete Account shows is closed with the question.
Confirm ==
  /\ modal.show /\ modal.confirm # None
  /\ modal' = NoDialog
  /\ IF modal.confirm = Account THEN UNCHANGED ops ELSE Send("delete", modal.confirm)
  /\ UNCHANGED <<rows, data, fetches, frame, form, isUpdatingProfile>>

-----------------------------------------------------------------------------
(* What the page offers to click on each tab.  The dialog and the forms    *)
(* cover it, the onboarding takes its place.                               *)

Covered == modal.show \/ form # None

At(tab) == activeTab = tab /\ onboarding = 0 /\ ~Covered

\* The items of the sidebar that are not locked, and those of the header.
SidebarItems ==
  {tab \in Tabs \ {"add-tunnel"} : tab = "custom_domain" => "custom_domain" \in Features}

LimitReached == Cardinality(tunnels) >= maxTunnels

\* renderSkeletons in place of the numbers.
Skeleton == At("overview") /\ loading /\ ~stats

\* Add Tunnel, or Upgrade Now in its place.
TunnelsOffers == IF LimitReached THEN {"billing"} ELSE {"add-tunnel"}

\* Create API Key First.
DownloadOffers == IF apiKeys = {} THEN {"keys"} ELSE {}

OpenTab(tab) ==
  /\ \/ At(activeTab) /\ tab \in SidebarItems
     \/ At("tunnels") /\ tab \in TunnelsOffers
     \/ At("download") /\ tab \in DownloadOffers
     \/ At("settings") /\ tab = "keys"
  /\ activeTab' = tab
  /\ UNCHANGED <<rows, data, fetches, ops, onboarding, seen, modal, form, isUpdatingProfile>>

\* A step of the guide is opened, or the guide is left by its last step's button.
Onboarding ==
  /\ onboarding # 0 /\ ~Covered
  /\ \/ onboarding' \in 1 .. 4 /\ UNCHANGED seen
     \/ onboarding = 4 /\ onboarding' = 0 /\ seen' = TRUE
  /\ UNCHANGED <<rows, data, fetches, ops, activeTab, modal, form, isUpdatingProfile>>

\* The trash buttons of the tunnels and of the keys, and Delete Account.
AskDelete(x) ==
  /\ \/ At("tunnels") /\ x \in tunnels
     \/ At("keys") /\ x \in apiKeys
     \/ At("settings") /\ x = Account
  /\ AskConfirm(x)
  /\ UNCHANGED <<rows, data, fetches, ops, frame, form, isUpdatingProfile>>

\* Register Domain.  The list below it filters by is_custom, which the relay
\* does not send: it is empty, and its buttons are never there.
AddCustomDomain(t) ==
  /\ At("custom_domain") /\ t \notin rows
  /\ Send("addCustomDomain", t)
  /\ UNCHANGED <<rows, data, fetches, frame, modal, form, isUpdatingProfile>>

\* The buttons of the key list, the quick configuration, the download tab.
DownloadConfig(k) ==
  /\ (At("keys") \/ At("download")) /\ k \in apiKeys
  /\ Send("config", k)
  /\ UNCHANGED <<rows, data, fetches, frame, modal, form, isUpdatingProfile>>

\* A tier of the billing tab, or the upgrade of a free plan.
Topup ==
  /\ At("billing")
  /\ Send("topup", None)
  /\ UNCHANGED <<rows, data, fetches, frame, modal, form, isUpdatingProfile>>

-----------------------------------------------------------------------------
(* The wizard of the tab add-tunnel, seen from here (TunnelWizard has it). *)

WizardRegisters(t, k) ==
  /\ activeTab = "add-tunnel" /\ onboarding = 0 /\ {t, k} \cap rows = {}
  /\ rows' = rows \cup {t, k}
  /\ UNCHANGED <<data, fetches, ops, frame, modal, form, isUpdatingProfile>>

\* onComplete, onCancel.
WizardLeft ==
  /\ At("add-tunnel")
  /\ activeTab' = "tunnels"
  /\ \/ loading' = TRUE /\ FetchData
     \/ UNCHANGED <<loading, fetches>>
  /\ UNCHANGED <<rows, tunnels, apiKeys, stats, maxTunnels, ops, onboarding, seen,
                 modal, form, isUpdatingProfile>>

-----------------------------------------------------------------------------
(* The forms.                                                              *)

\* openKeyModal, Edit Profile, handleAvatarUpload.
OpenForm(x) ==
  /\ \/ At("keys") /\ x \in Keys \ rows
     \/ At("profile") /\ x \in {"edit", "crop"}
  /\ form' = x
  /\ UNCHANGED <<rows, data, fetches, ops, frame, modal, isUpdatingProfile>>

\* The button that closes a form.  It is there while its request is under way.
CloseForm ==
  /\ form # None /\ ~modal.show
  /\ form' = None
  /\ UNCHANGED <<rows, data, fetches, ops, frame, modal, isUpdatingProfile>>

\* createKey; updateProfile; handleFinalCrop up to getCroppedImg.
SubmitForm ==
  /\ form # None /\ ~modal.show
  /\ \/ form \in Keys /\ Send("createKey", form) /\ UNCHANGED isUpdatingProfile
     \/ /\ form = "edit" /\ ~isUpdatingProfile /\ Send("updateProfile", None)
        /\ isUpdatingProfile' = TRUE
     \/ /\ form = "crop" /\ ~isUpdatingProfile /\ Send("crop", None)
        /\ UNCHANGED isUpdatingProfile
  /\ UNCHANGED <<rows, data, fetches, frame, modal, form>>

-----------------------------------------------------------------------------
(* The relay does what a request asks for, and its answer is under way.    *)

Handle(o) ==
  /\ o.stage = "sent" /\ o.kind \in {"delete", "createKey", "addCustomDomain"}
  /\ rows' = IF o.kind = "delete" THEN rows \ {o.of} ELSE rows \cup {o.of}
  /\ ops' = (ops \ {o}) \cup {[o EXCEPT !.stage = "done"]}
  /\ UNCHANGED <<data, fetches, frame, modal, form, isUpdatingProfile>>

-----------------------------------------------------------------------------
(* A handler after its await.  The answer is "ok" of what was done, a      *)
(* refusal of what was not, or lost.                                       *)

Answers(o) ==
  IF o.kind \in {"delete", "createKey", "addCustomDomain"}
    THEN IF o.stage = "done" THEN {"ok", "lost"} ELSE {"refused", "lost"}
    ELSE {"ok", "refused", "lost"}

\* deleteTunnel, deleteKey; the latter has no catch.
AfterDelete(o, answer) ==
  /\ o.kind = "delete"
  /\ IF answer = "ok" THEN FetchData ELSE UNCHANGED fetches
  /\ IF answer = "ok" \/ (answer = "lost" /\ o.of \in Keys) THEN UNCHANGED modal ELSE ShowMessage
  /\ UNCHANGED <<form, isUpdatingProfile>>

\* createKey does not look at res.ok.
AfterCreateKey(o, answer) ==
  /\ o.kind = "createKey"
  /\ IF answer = "lost" THEN ShowMessage /\ UNCHANGED <<form, fetches>>
     ELSE /\ form' = IF form \in Keys THEN None ELSE form
          /\ FetchData /\ UNCHANGED modal
  /\ UNCHANGED isUpdatingProfile

AfterAddCustomDomain(o, answer) ==
  /\ o.kind = "addCustomDomain"
  /\ ShowMessage
  /\ IF answer = "ok" THEN FetchData ELSE UNCHANGED fetches
  /\ UNCHANGED <<form, isUpdatingProfile>>

AfterUpdateProfile(o, answer) ==
  /\ o.kind = "updateProfile"
  /\ ShowMessage
  /\ IF answer = "ok" THEN form' = (IF form = "edit" THEN None ELSE form) /\ FetchData
     ELSE UNCHANGED <<form, fetches>>
  /\ isUpdatingProfile' = FALSE

AfterAvatar(o, answer) ==
  /\ o.kind = "avatar"
  /\ ShowMessage
  /\ IF answer = "ok" THEN FetchData ELSE UNCHANGED fetches
  /\ isUpdatingProfile' = FALSE
  /\ UNCHANGED form

AfterDownloadConfig(o, answer) ==
  /\ o.kind = "config"
  /\ IF answer = "ok" THEN UNCHANGED modal ELSE ShowMessage
  /\ UNCHANGED <<fetches, form, isUpdatingProfile>>

\* handleTopup, if there is no invoice.
AfterTopup(o, answer) ==
  /\ o.kind = "topup" /\ answer # "ok"
  /\ ShowMessage
  /\ UNCHANGED <<fetches, form, isUpdatingProfile>>

Answered(o, answer) ==
  /\ \/ AfterDelete(o, answer) \/ AfterCreateKey(o, answer) \/ AfterAddCustomDomain(o, answer)
     \/ AfterUpdateProfile(o, answer) \/ AfterAvatar(o, answer)
     \/ AfterDownloadConfig(o, answer) \/ AfterTopup(o, answer)
  /\ ops' = ops \ {o}
  /\ UNCHANGED <<rows, data, frame>>

\* handleTopup goes to the invoice; the customer comes back to a new document,
\* to ?payment=success or failed, or without either.
Invoice(o) == o.kind = "topup" /\ Remount

\* handleFinalCrop, when getCroppedImg has the image, or has none.
Cropped(o) ==
  /\ o.kind = "crop"
  /\ \/ /\ ops' = (ops \ {o}) \cup {[o EXCEPT !.kind = "avatar"]}
        /\ form' = IF form = "crop" THEN None ELSE form
        /\ isUpdatingProfile' = TRUE /\ UNCHANGED modal
     \/ /\ ops' = ops \ {o} /\ ShowMessage
        /\ isUpdatingProfile' = FALSE /\ UNCHANGED form
  /\ UNCHANGED <<rows, data, fetches, frame>>

-----------------------------------------------------------------------------
Customer ==
  \/ Dismiss \/ Confirm \/ Onboarding \/ Topup \/ WizardLeft \/ CloseForm \/ SubmitForm
  \/ \E tab \in Tabs : OpenTab(tab)
  \/ \E x \in Rows \cup {Account} : AskDelete(x)
  \/ \E t \in Tunnels : AddCustomDomain(t)
  \/ \E k \in Keys : DownloadConfig(k)
  \/ \E t \in Tunnels, k \in Keys : WizardRegisters(t, k)
  \/ \E x \in Keys \cup {"edit", "crop"} : OpenForm(x)

Returns(o) == Invoice(o) \/ Cropped(o) \/ \E answer \in Answers(o) : Answered(o, answer)

Next ==
  \/ Poll
  \/ \E read \in fetches, ok \in SUBSET Parts : Apply(read, ok)
  \/ \E o \in ops : Handle(o) \/ Returns(o)
  \/ Customer

Spec == Init /\ [][Next]_vars

(* The interval fires, and every request ends, answered or not.            *)
Fairness ==
  /\ WF_vars(Poll)
  /\ \A read \in SUBSET Rows : WF_vars(read \in fetches /\ \E ok \in SUBSET Parts : Apply(read, ok))
  /\ \A k \in Kinds : WF_vars(\E o \in ops : o.kind = k /\ Returns(o))

FairSpec == Spec /\ Fairness

-----------------------------------------------------------------------------
(* Properties                                                              *)

\* The types of the variables.
TypeOK ==
  /\ rows \in SUBSET Rows /\ tunnels \in SUBSET Tunnels /\ apiKeys \in SUBSET Keys
  /\ stats \in BOOLEAN /\ maxTunnels \in Nat \ {0} /\ loading \in BOOLEAN
  /\ fetches \in SUBSET SUBSET Rows
  /\ ops \in SUBSET Op
  /\ activeTab \in Tabs /\ onboarding \in 0 .. 4 /\ seen \in BOOLEAN
  /\ modal \in [show : BOOLEAN, says : Rows \cup {Account, None}, confirm : Rows \cup {Account, None}]
  /\ form \in Keys \cup {"edit", "crop", None} /\ isUpdatingProfile \in BOOLEAN

\* The messages of requests that end late replace a question that is open
\* (one modal state, set by showInfo, showError and askConfirm): what the red
\* button does is what the dialog asks, and a message has no such button.
DialogAsksWhatItDoes == modal.show => modal.confirm = modal.says

\* While answers come, complete ones come again and again.
GoodAnswers ==
  []<>(fetches # {}) => []<><<\E read \in fetches : Apply(read, Parts)>>_vars

\* In the end the customer stays on the page: goes to no more invoices.
Stays == <>[][\A o \in ops : ~Invoice(o)]_vars

\* However the answers overtake each other, whichever parts are lost, and
\* whatever the handlers do or leave out: if the customer's rows no longer
\* change, the relay does not fail for ever and the customer stays, the page comes to show the
\* rows and goes on showing them (the poll of UserDashboard.tsx:458-462).
ShowsWhatTheServerHas ==
  \A R \in SUBSET Rows :
    (<>[](rows = R) /\ GoodAnswers /\ Stays) => <>[](tunnels \cup apiKeys = R)
=============================================================================
