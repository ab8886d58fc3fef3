------------------------------ MODULE PlanPages ------------------------------
(***************************************************************************)
(* The pages everybody may open, in the tab of AppSession: LandingPage.tsx *)
(* ("/"), PricingPage.tsx and PlanDetailPage.tsx ("/plan"), all under      *)
(* src/dashboard/src/pages, with the search for the visitor's language and *)
(* the checkout of a plan or a topup.                                      *)
(*                                                                         *)
(* Leaving a page within the document does not cancel its requests: what   *)
(* their answers set is gone with the page, what they do to localStorage   *)
(* and to the address is not.  A new document forgets them.  The texts,    *)
(* which language and currency it is, the selectors of duration and        *)
(* amount, the theme and the exchange rate are left out (Checkout has the  *)
(* prices).                                                                *)
(***************************************************************************)
EXTENDS AppSession, FiniteSets

CONSTANTS
  PlanIds,           \* the addresses of plan pages: kinds of plans, and of none
  MaxOrders          \* bound: checkouts of a document under way at a time

ASSUME PlanPagesAssumption ==
  PlanIds \subseteq {"fixed", "payg", "free", "missing"} /\ MaxOrders \in Nat

VARIABLES
  hasLang,           \* localStorage has a lang
  geo,               \* the page waits for ipapi.co
  plans,             \* the page's plans; of PlanDetailPage, its plan
  planId,            \* of the address
  isCheckingOut,
  alert,             \* alertConfig.open
  stray,             \* requests of pages that were left, which still do something
  orders             \* runs of handleCheckout, each with what it sees

page == <<geo, plans, planId, isCheckingOut, alert>>
requests == <<stray, orders>>
app == <<tab, hasLang, page, requests>>

Pages == {"/", "/pricing", "/plan"}

\* A page is rendered; p is the plan of its address.
OpenPage(r, p) ==
  /\ geo' = (r \in Pages /\ ~hasLang)
  /\ plans' = IF r \in Pages THEN "loading" ELSE "none"
  /\ planId' = IF r = "/plan" THEN p ELSE "none"
  /\ isCheckingOut' = FALSE /\ alert' = FALSE

\* What goes on of the page that is left.
LeavePage ==
  /\ stray' = stray \cup (IF geo THEN {"geo"} ELSE {})
                    \cup (IF plans = "loading" /\ planId = "missing" THEN {"missing"} ELSE {})
  /\ orders' = {[o EXCEPT !.here = FALSE] : o \in orders}

\* Whatever moves the tab opens and leaves pages.
Moves(p) ==
  /\ UNCHANGED hasLang
  /\ \/ ~restored' /\ OpenPage("away", p) /\ stray' = {} /\ orders' = {}
     \/ restored' /\ (~restored \/ route' # route) /\ OpenPage(route', p) /\ LeavePage
     \/ restored' /\ restored /\ route' = route /\ UNCHANGED <<page, requests>>

InitPages ==
  /\ InitSession
  /\ hasLang \in BOOLEAN
  /\ geo = FALSE /\ plans = "none" /\ planId = "none"
  /\ isCheckingOut = FALSE /\ alert = FALSE
  /\ stray = {} /\ orders = {}

On(r) == restored /\ route = r
Stays == UNCHANGED <<tab, requests>>

-----------------------------------------------------------------------------
(* Language.                                                               *)

\* The button of the header, which the plan page shows when it has its plan.
ToggleLang ==
  /\ restored /\ route \in Pages /\ ~alert
  /\ route = "/plan" => plans = "found"
  /\ hasLang' = TRUE
  /\ UNCHANGED page /\ Stays

\* ipapi.co, or the time zone when it fails, says whether this is Indonesia.
GeoAnswered(indonesia) ==
  /\ geo /\ geo' = FALSE
  /\ hasLang' = (hasLang \/ indonesia)
  /\ UNCHANGED <<plans, planId, isCheckingOut, alert>> /\ Stays

\* ... to a page that was left; there may be more such requests.
StrayGeo(indonesia) ==
  /\ "geo" \in stray
  /\ stray' \in {stray, stray \ {"geo"}}
  /\ hasLang' = (hasLang \/ indonesia)
  /\ UNCHANGED <<tab, page, orders>>

\* Another tab, or the user's dashboard, stores a language.
StoreLang == hasLang' = TRUE /\ UNCHANGED <<tab, page, requests>>

-----------------------------------------------------------------------------
(* The plans.                                                              *)

\* GET /api/pricing-plans; a plan that is not in the list leads to /pricing.
PlansAnswered(ok) ==
  /\ plans = "loading"
  /\ IF ok /\ planId = "missing"
     THEN Navigate("/pricing") /\ OpenPage("/pricing", "none") /\ stray' = stray \cup (IF geo THEN {"geo"} ELSE {})
          /\ UNCHANGED <<hasLang, orders>>
     ELSE plans' = (IF ok THEN "found" ELSE "none")
          /\ UNCHANGED <<hasLang, geo, planId, isCheckingOut, alert>> /\ Stays

\* ... also when the plan page was left.
StrayPlan ==
  /\ "missing" \in stray
  /\ IF route = "/pricing" THEN UNCHANGED <<tab, page, orders>> /\ stray' \in {stray, stray \ {"missing"}}
     ELSE /\ Navigate("/pricing") /\ OpenPage("/pricing", "none")
          /\ orders' = {[o EXCEPT !.here = FALSE] : o \in orders}
          /\ \E left \in SUBSET {"missing"} : stray' = (stray \ left) \cup (IF geo THEN {"geo"} ELSE {})
  /\ UNCHANGED hasLang

\* The cards of PricingPage that are not free.
OpenPlan(p) ==
  /\ On("/pricing") /\ plans = "found" /\ p \in {"fixed", "payg"}
  /\ Navigate("/plan") /\ Moves(p)

-----------------------------------------------------------------------------
(* The page of a plan.                                                     *)

Shown == On("/plan") /\ plans = "found"

CloseAlert ==
  /\ Shown /\ alert /\ alert' = FALSE
  /\ UNCHANGED <<hasLang, geo, plans, planId, isCheckingOut>> /\ Stays

Order == [stage |-> "checkout", by |-> session, here |-> TRUE]

\* Fault: the button is not disabled while a checkout is under way.
HandleCheckoutAgain ==
  /\ Shown /\ ~alert /\ session # Nobody
  /\ Cardinality(orders) <= MaxOrders
  /\ isCheckingOut' = TRUE /\ orders' = orders \cup {Order}
  /\ UNCHANGED <<tab, hasLang, geo, plans, planId, alert, stray>>

\* handleCheckout up to its first await, from any of its buttons.
HandleCheckout ==
  /\ Shown /\ ~alert /\ ~isCheckingOut
  /\ IF session = Nobody THEN Navigate("/login") /\ Moves("none")
     ELSE /\ Cardinality(orders) < MaxOrders
          /\ isCheckingOut' = TRUE /\ orders' = orders \cup {Order}
          /\ UNCHANGED <<tab, hasLang, geo, plans, planId, alert, stray>>

\* An alert, and finally.
Fails(o) ==
  /\ orders' = orders \ {o}
  /\ IF o.here THEN alert' = TRUE /\ isCheckingOut' = FALSE ELSE UNCHANGED <<alert, isCheckingOut>>
  /\ UNCHANGED <<tab, hasLang, geo, plans, planId, stray>>

\* Fault: a refusal returns before finally.
CheckoutAnsweredReturns(o, ok) ==
  /\ o.stage = "checkout"
  /\ IF ok THEN orders' = (orders \ {o}) \cup {[o EXCEPT !.stage = "webhook"]}
     ELSE orders' = orders \ {o}
  /\ UNCHANGED <<tab, hasLang, page, stray>>

\* POST /api/billing/checkout is answered: on with simulate-webhook, which the
\* page calls whatever the environment, or not.
CheckoutAnswered(o, ok) ==
  /\ o.stage = "checkout"
  /\ IF ok THEN /\ orders' = (orders \ {o}) \cup {[o EXCEPT !.stage = "webhook"]}
                /\ UNCHANGED <<tab, hasLang, page, stray>>
     ELSE Fails(o)

\* simulate-webhook is answered, with whatever status, and the document goes to
\* the invoice, wherever the tab is by now; or the server was not reached.
WebhookAnswered(o, arrived) ==
  /\ o.stage = "webhook"
  /\ IF arrived THEN Load("away", Nobody) /\ UNCHANGED stored /\ Moves("none")
     ELSE Fails(o)

-----------------------------------------------------------------------------
\* The plan, if it is the address of one.
Address == IF route' = "/plan" THEN PlanIds ELSE {"none"}

Session == NextSession /\ \E p \in Address : Moves(p)

Locale ==
  \/ ToggleLang \/ StoreLang
  \/ \E indonesia \in BOOLEAN : GeoAnswered(indonesia) \/ StrayGeo(indonesia)

Answer ==
  \/ StrayPlan
  \/ \E ok \in BOOLEAN : PlansAnswered(ok)
  \/ \E o \in orders, ok \in BOOLEAN : CheckoutAnswered(o, ok) \/ WebhookAnswered(o, ok)

Customer ==
  \/ \E p \in PlanIds : OpenPlan(p)
  \/ CloseAlert \/ HandleCheckout

NextPages == Session \/ Locale \/ Answer \/ Customer

\* The browser's requests end, each for itself, answered or not.
PagesFairness ==
  /\ SessionFairness
  /\ WF_app(\E ok \in BOOLEAN : PlansAnswered(ok))
  /\ WF_app(\E o \in orders, ok \in BOOLEAN : o.here /\ CheckoutAnswered(o, ok))
  /\ WF_app(\E o \in orders, ok \in BOOLEAN : o.here /\ WebhookAnswered(o, ok))

SpecPages == InitPages /\ [][NextPages]_app /\ PagesFairness

-----------------------------------------------------------------------------
(* Properties                                                              *)

OrderRecord == [stage : {"checkout", "webhook"}, by : Accounts, here : BOOLEAN]

\* The types of the variables, of the session's too.
PagesTypeOK ==
  /\ SessionTypeOK
  /\ hasLang \in BOOLEAN
  /\ geo \in BOOLEAN /\ plans \in {"none", "loading", "found"}
  /\ planId \in PlanIds \cup {"none"}
  /\ isCheckingOut \in BOOLEAN /\ alert \in BOOLEAN
  /\ stray \subseteq {"geo", "missing"}
  /\ orders \in SUBSET OrderRecord

\* The button is busy exactly while a checkout of this page is under way, and
\* there is one: no customer orders twice from one page, and none waits for an
\* order that has ended (setIsCheckingOut in handleCheckout, and disabled).
BusyWhileOrdering ==
  LET here == {o \in orders : o.here}
  IN  /\ isCheckingOut <=> here # {}
      /\ \A o, p \in here : o = p

\* A checkout under way is of the account the tab shows, also after its page was
\* left: signing out, and in with Google, end the document and its requests.  A
\* mock login over another account (LoginPage.tsx:74-87) is the one exception.
OrdersAreOfTheSignedIn == mixed \/ \A o \in orders : o.by = session

\* A checkout ends, in an invoice, an alert or the end of the page.
CheckoutEnds == isCheckingOut ~> ~isCheckingOut
=============================================================================
