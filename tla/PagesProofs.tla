----------------------------- MODULE PagesProofs -----------------------------
(***************************************************************************)
(* The dashboard as the browser shows it: first the session of a tab and   *)
(* the checkouts of its pages, for every set of accounts, owners and plans *)
(* and any number of checkouts under way; then the tunnel wizard, for      *)
(* every set of domains and any number of mounts and requests under way.   *)
(***************************************************************************)
EXTENDS PlanPages, TunnelWizard, TLAPS

USE AccountsAssumption, PlanPagesAssumption
USE DEF document, tab, Someone, Routes, Public

-----------------------------------------------------------------------------
(* The session.                                                            *)

\* Another account is signed in over one that is there by Google, in a document
\* that has one page and ends with that sign-in, or by a mock login, which mixed
\* remembers.  Else all of a document is of one account.
OneAccount ==
  /\ features \in {Nobody, session} /\ restoring \in {Nobody, session}
  /\ \A s \in signing : s.of = session

SessionInv ==
  /\ SessionTypeOK
  /\ restored = FALSE =>
       session = Nobody /\ features = Nobody /\ restoring = Nobody /\ signing = {} /\ isProcessing = FALSE
  /\ authData # Nobody => route = "/login"
  /\ \A s \in signing : s.google = TRUE <=> authData \in Accounts
  /\ signing # {} => session # Nobody
  /\ mixed = TRUE \/ authData \in Accounts \/ OneAccount

LEMMA SessionInvInit == InitSession => SessionInv
<1> SUFFICES ASSUME InitSession PROVE SessionInv
  OBVIOUS
<1>1. restored = FALSE /\ loading = TRUE /\ isProcessing = FALSE /\ garbled = FALSE /\ mixed = FALSE
  BY DEF InitSession, Fresh
<1>2. route \in Routes /\ authData = Nobody /\ stored \in Someone
  BY DEF InitSession
<1>3. session = Nobody /\ features = Nobody /\ restoring = Nobody /\ signing = {}
  BY DEF InitSession, Fresh
<1>4. SessionTypeOK
  BY <1>1, <1>2, <1>3 DEF SessionTypeOK
<1> QED BY <1>1, <1>2, <1>3, <1>4 DEF SessionInv, OneAccount

\* A new document has nothing of the old one.
LEMMA LoadKeeps ==
  ASSUME SessionInv, NEW r \in Routes, NEW a \in Someone \cup {Garbled},
         a # Nobody => r = "/login", Load(r, a), stored' \in Someone
  PROVE  SessionInv'
<1>1. garbled' \in BOOLEAN
  <2>1. CASE a = Garbled
    <3>1. garbled' = TRUE
      BY <2>1 DEF Load
    <3> QED BY <3>1
  <2>2. CASE a # Garbled
    <3>1. garbled' = FALSE
      BY <2>2 DEF Load
    <3> QED BY <3>1
  <2> QED BY <2>1, <2>2
<1> QED BY <1>1 DEF SessionInv, SessionTypeOK, OneAccount, Load

\* Another page of a document that is not one of Google's.
LEMMA ShowKeeps ==
  ASSUME SessionInv, authData \notin Accounts, NEW r \in Routes, NEW a \in {Nobody, Garbled},
         a # Nobody => r = "/login", Show(r, a)
  PROVE  SessionInv'
BY DEF SessionInv, SessionTypeOK, OneAccount, Show

LEMMA NavigateKeeps ==
  ASSUME SessionInv, authData \notin Accounts, NEW r \in Routes, Navigate(r)
  PROVE  SessionInv'
BY ShowKeeps DEF Navigate

LEMMA LoginAnsweredKeeps ==
  ASSUME SessionInv, NEW s \in signing, NEW ok \in BOOLEAN, LoginAnswered(s, ok)
  PROVE  SessionInv'
<1> USE DEF SessionInv
<1>1. s \in [of : Accounts, google : BOOLEAN] /\ restored = TRUE
  BY DEF SessionTypeOK
<1>2. CASE s.google = TRUE
  <2>1. Load("/dashboard", Nobody) /\ UNCHANGED stored
    BY <1>2 DEF LoginAnswered
  <2> QED BY <2>1, LoadKeeps DEF SessionTypeOK
<1>3. CASE s.google = FALSE
  <2>1. /\ features' = IF ok THEN s.of ELSE features
        /\ loading' = FALSE /\ signing' = signing \ {s}
        /\ route' = "/dashboard" /\ authData' = Nobody /\ isProcessing' = FALSE
        /\ UNCHANGED <<restored, session, restoring, stored, garbled, mixed>>
    BY <1>3 DEF LoginAnswered
  <2>2. authData \notin Accounts
    BY <1>3
  <2>3. SessionTypeOK'
    BY <1>1, <2>1 DEF SessionTypeOK
  <2>4. mixed' = TRUE \/ OneAccount'
    BY <2>1, <2>2 DEF OneAccount
  <2> QED BY <1>1, <2>1, <2>2, <2>3, <2>4
<1> QED BY <1>1, <1>2, <1>3

LEMMA ProviderKeeps ==
  ASSUME SessionInv, Provider
  PROVE  SessionInv'
<1> USE DEF SessionInv
<1>1. CASE Restore
  BY <1>1 DEF Restore, SessionTypeOK, OneAccount
<1>2. CASE ProcessAuthData
  <2> DEFINE new == [of |-> authData, google |-> TRUE]
  <2>1. /\ authData \in Accounts /\ restored = TRUE
        /\ isProcessing' = TRUE /\ loading' = TRUE /\ session' = authData /\ stored' = authData
        /\ signing' = signing \cup {new}
        /\ UNCHANGED <<route, authData, restored, features, restoring, garbled, mixed>>
    BY <1>2 DEF ProcessAuthData, Login, SessionTypeOK
  <2>2. new \in [of : Accounts, google : BOOLEAN] /\ new.google = TRUE
    BY <2>1
  <2> HIDE DEF new
  <2>3. SessionTypeOK'
    BY <2>1, <2>2 DEF SessionTypeOK
  <2> QED BY <2>1, <2>2, <2>3
<1>3. ASSUME NEW ok \in BOOLEAN, RestoreAnswered(ok) PROVE SessionInv'
  BY <1>3 DEF RestoreAnswered, SessionTypeOK, OneAccount
<1> QED BY <1>1, <1>2, <1>3, LoginAnsweredKeeps DEF Provider

LEMMA RedirectKeeps ==
  ASSUME SessionInv, Redirect
  PROVE  SessionInv'
<1>1. PICK r \in Routes : Navigate(r) /\ (authData = Nobody \/ route # "/login")
  BY DEF Redirect, LoginRedirect, Leaving, DashboardRouter, ProtectedRoute
<1> QED BY <1>1, NavigateKeeps DEF SessionInv

LEMMA MockLoginKeeps ==
  ASSUME SessionInv, NEW a \in Accounts, MockLogin(a)
  PROVE  SessionInv'
<1> USE DEF SessionInv
<1> DEFINE new == [of |-> a, google |-> FALSE]
<1>1. /\ route = "/login" /\ restored = TRUE /\ authData \notin Accounts
      /\ isProcessing' = TRUE /\ loading' = TRUE /\ session' = a /\ stored' = a
      /\ signing' = signing \cup {new}
      /\ UNCHANGED <<route, authData, restored, features, restoring, garbled>>
  BY DEF MockLogin, Login, SessionTypeOK
<1>2. \/ mixed' = TRUE
      \/ mixed' = mixed /\ session \in {Nobody, a}
  <2>1. CASE mixed = TRUE
    BY <2>1 DEF MockLogin
  <2>2. CASE mixed = FALSE /\ session \notin {Nobody, a}
    BY <2>2 DEF MockLogin
  <2>3. CASE mixed = FALSE /\ session \in {Nobody, a}
    BY <2>3 DEF MockLogin
  <2> QED BY <2>1, <2>2, <2>3 DEF SessionTypeOK
<1>5. new \in [of : Accounts, google : BOOLEAN] /\ new.google = FALSE /\ new.of = a
  OBVIOUS
<1> HIDE DEF new
<1>3. SessionTypeOK'
  BY <1>1, <1>2, <1>5 DEF SessionTypeOK
<1>4. mixed' = TRUE \/ OneAccount'
  <2>1. CASE session = Nobody
    BY <1>1, <1>2, <1>5, <2>1 DEF OneAccount
  <2>2. CASE session = a
    BY <1>1, <1>2, <1>5, <2>2 DEF OneAccount
  <2> QED BY <1>2, <2>1, <2>2
<1> QED BY <1>1, <1>3, <1>4, <1>5

LEMMA VisitorKeeps ==
  ASSUME SessionInv, Visitor
  PROVE  SessionInv'
<1> USE DEF SessionInv, SessionTypeOK
<1>1. CASE Logout
  <2>1. Load("/", Nobody) /\ stored' = Nobody
    BY <1>1 DEF Logout
  <2> QED BY <2>1, LoadKeeps
<1>2. CASE GoogleLogin
  <2>1. Load("away", Nobody) /\ UNCHANGED stored
    BY <1>2 DEF GoogleLogin
  <2> QED BY <2>1, LoadKeeps
<1>3. ASSUME NEW r \in Routes, Follow(r) PROVE SessionInv'
  <2>1. route # "/login"
    BY <1>3 DEF Follow, Links
  <2> QED BY <1>3, <2>1, NavigateKeeps DEF Follow
<1>8. ASSUME NEW r \in Routes, Back(r) PROVE SessionInv'
  BY <1>8, NavigateKeeps, ShowKeeps DEF Back
<1>4. ASSUME NEW r \in Routes, NEW a \in Someone \cup {Garbled}, Enter(r, a) PROVE SessionInv'
  BY <1>4, LoadKeeps DEF Enter
<1>6. ASSUME NEW a \in Someone \cup {Garbled}, Callback(a) PROVE SessionInv'
  BY <1>6, LoadKeeps DEF Callback
<1>7. ASSUME NEW a \in Someone, OtherTab(a) PROVE SessionInv'
  BY <1>7 DEF OtherTab, OneAccount
<1> QED BY <1>1, <1>2, <1>3, <1>4, <1>6, <1>7, <1>8, MockLoginKeeps DEF Visitor

LEMMA SessionInvNext ==
  ASSUME SessionInv, [NextSession]_tab
  PROVE  SessionInv'
<1>1. CASE UNCHANGED tab
  BY <1>1 DEF SessionInv, SessionTypeOK, OneAccount
<1> QED BY <1>1, ProviderKeeps, RedirectKeeps, VisitorKeeps DEF NextSession

\* Within a document, an account is signed in over another only from an address
\* with auth_data of an account, or by a mock login that mixed remembers; and such
\* an address is never come back to.
LEMMA WithinDocument ==
  ASSUME SessionInv, NextSession, restored, restored'
  PROVE  /\ session' = session \/ session = Nobody \/ authData \in Accounts \/ mixed' = TRUE
         /\ session' = Nobody => session = Nobody
         /\ mixed = TRUE => mixed' = TRUE
         /\ authData' \in Accounts => authData' = authData /\ route' = route
<1>1. CASE Provider
  BY <1>1 DEF Provider, Restore, ProcessAuthData, RestoreAnswered, LoginAnswered, Login, Load
<1>2. CASE Redirect
  BY <1>2 DEF Redirect, LoginRedirect, DashboardRouter, ProtectedRoute, Navigate, Show
<1>3. ASSUME NEW a \in Accounts, MockLogin(a)
      PROVE  /\ session' = session \/ session = Nobody \/ mixed' = TRUE
             /\ session' = a /\ (mixed = TRUE => mixed' = TRUE)
             /\ authData' = authData /\ route' = route
  BY <1>3 DEF MockLogin, Login
<1>4. CASE Visitor
  BY <1>3, <1>4 DEF Visitor, Logout, GoogleLogin, Follow, Back, Navigate, Show, Enter, Load, Callback,
     OtherTab
<1> QED BY <1>1, <1>2, <1>4 DEF NextSession

-----------------------------------------------------------------------------
(* The pages.                                                              *)

PageType ==
  /\ hasLang \in BOOLEAN /\ geo \in BOOLEAN /\ plans \in {"none", "loading", "found"}
  /\ planId \in PlanIds \cup {"none"}
  /\ isCheckingOut \in BOOLEAN /\ alert \in BOOLEAN

\* An order is of the page it was placed on and of the account it was placed by.
OrdersInv ==
  /\ orders \in SUBSET OrderRecord
  /\ mixed = TRUE \/ \A o \in orders : o.by = session
  /\ restored = FALSE \/ session = Nobody \/ authData \in Accounts => orders = {}

\* The page knows whether an order of its own is under way.
BusyInv ==
  /\ isCheckingOut = FALSE => \A o \in orders : o.here = FALSE
  /\ isCheckingOut = TRUE =>
       plans = "found" /\ \E o \in orders : o.here = TRUE /\ \A p \in orders : p.here = TRUE => p = o

\* Requests are of a document that has had pages: none is under way at the address
\* Google comes back to.
StrayInv ==
  /\ stray \in SUBSET {"geo", "missing"}
  /\ restored = FALSE \/ authData \in Accounts => stray = {}

PagesInv ==
  /\ SessionInv
  /\ PageType
  /\ StrayInv
  /\ OrdersInv
  /\ BusyInv
  /\ plans # "none" => restored = TRUE /\ route \in Pages
  /\ geo = TRUE => restored = TRUE /\ route \in Pages
  /\ route = "/plan" /\ restored = TRUE => planId \in PlanIds

LEMMA PagesInvInit == InitPages => PagesInv
<1> SUFFICES ASSUME InitPages PROVE PagesInv
  OBVIOUS
<1>1. SessionInv
  BY SessionInvInit DEF InitPages
<1>2. hasLang \in BOOLEAN /\ geo = FALSE /\ isCheckingOut = FALSE /\ alert = FALSE /\ restored = FALSE
  BY DEF InitPages, InitSession, Fresh
<1> QED BY <1>1, <1>2 DEF InitPages, PagesInv, PageType, StrayInv, OrdersInv, BusyInv

\* A page that opens is idle.
LEMMA OpenPageIdle ==
  ASSUME PagesInv, NEW r \in Routes, NEW p \in PlanIds \cup {"none"}, OpenPage(r, p)
  PROVE  /\ geo' \in BOOLEAN
         /\ r \notin Pages => plans' = "none" /\ geo' = FALSE
         /\ plans' \in {"none", "loading", "found"} /\ plans' # "found"
         /\ planId' \in PlanIds \cup {"none"}
         /\ isCheckingOut' = FALSE /\ alert' = FALSE
         /\ r = "/plan" => planId' = p
<1>1. geo' \in BOOLEAN /\ (r \notin Pages => geo' = FALSE)
  <2>1. CASE r \in Pages /\ ~hasLang
    <3>1. geo' = TRUE
      BY <2>1 DEF OpenPage
    <3> QED BY <2>1, <3>1
  <2>2. CASE ~(r \in Pages /\ ~hasLang)
    <3>1. geo' = FALSE
      BY <2>2 DEF OpenPage
    <3> QED BY <3>1
  <2> QED BY <2>1, <2>2
<1> QED BY <1>1 DEF OpenPage, PagesInv, PageType

LEMMA NoPageIdle ==
  ASSUME NEW p, OpenPage("away", p)
  PROVE  plans' = "none" /\ geo' = FALSE
<1>1. "away" \notin Pages
  BY DEF Pages
<1>2. plans' = "none"
  BY <1>1 DEF OpenPage
<1>3. geo' = FALSE
  BY <1>1, Zenon DEF OpenPage
<1> QED BY <1>2, <1>3

\* What is left belongs to no page.
LEMMA LeftOrders ==
  ASSUME PagesInv, orders' = {[o EXCEPT !.here = FALSE] : o \in orders}
  PROVE  /\ orders' \in SUBSET OrderRecord
         /\ \A o \in orders' : o.here = FALSE
         /\ (\A o \in orders : o.by = session) => \A o \in orders' : o.by = session
         /\ orders = {} => orders' = {}
<1>1. ASSUME NEW o \in orders'
      PROVE  /\ o \in OrderRecord /\ o.here = FALSE
             /\ (\A q \in orders : q.by = session) => o.by = session
  <2>1. PICK q \in orders : o = [q EXCEPT !.here = FALSE]
    OBVIOUS
  <2>2. q \in OrderRecord
    BY DEF PagesInv, OrdersInv
  <2>3. o \in OrderRecord /\ o.here = FALSE /\ o.by = q.by
    BY <2>1, <2>2 DEF OrderRecord
  <2> QED BY <2>3
<1>2. orders = {} => orders' = {}
  OBVIOUS
<1> QED BY <1>1, <1>2

\* What a step of the session within a document does to the orders under way.
LEMMA OrdersStay ==
  ASSUME PagesInv, [NextSession]_tab, restored = TRUE, restored' = TRUE,
         \/ orders' = orders
         \/ orders' = {[o EXCEPT !.here = FALSE] : o \in orders}
  PROVE  OrdersInv'
<1>1. /\ orders' \in SUBSET OrderRecord
      /\ (\A o \in orders : o.by = session) => \A o \in orders' : o.by = session
      /\ orders = {} => orders' = {}
  BY LeftOrders DEF PagesInv, OrdersInv
<1>2. CASE UNCHANGED tab
  BY <1>1, <1>2 DEF PagesInv, OrdersInv
<1>3. CASE NextSession
  <2>1. /\ session' = session \/ session = Nobody \/ authData \in Accounts \/ mixed' = TRUE
        /\ session' = Nobody => session = Nobody
        /\ mixed = TRUE => mixed' = TRUE
        /\ authData' \in Accounts => authData' = authData
    BY <1>3, WithinDocument DEF PagesInv
  <2> QED BY <1>1, <2>1 DEF PagesInv, OrdersInv
<1> QED BY <1>2, <1>3

\* Moving the tab, by whatever step of the session.
LEMMA MovesKeeps ==
  ASSUME PagesInv, [NextSession]_tab, NEW p \in PlanIds \cup {"none"}, Moves(p),
         route' = "/plan" /\ restored' = TRUE => p \in PlanIds
  PROVE  PagesInv'
<1>1. SessionInv'
  BY SessionInvNext DEF PagesInv
<1>5. restored \in BOOLEAN /\ restored' \in BOOLEAN /\ route' \in Routes
  BY <1>1 DEF PagesInv, SessionInv, SessionTypeOK
<1>2. CASE restored' = FALSE
  <2>1. hasLang' = hasLang /\ OpenPage("away", p) /\ stray' = {} /\ orders' = {}
    BY <1>2 DEF Moves
  <2>2. plans' = "none" /\ geo' = FALSE
    BY <2>1, NoPageIdle
  <2> QED BY <1>1, <1>2, <2>1, <2>2, OpenPageIdle DEF PagesInv, PageType, StrayInv, OrdersInv, BusyInv
<1>3. CASE restored' = TRUE /\ (restored = FALSE \/ route' # route)
  <2>1. hasLang' = hasLang /\ OpenPage(route', p) /\ LeavePage
    BY <1>3, <1>5 DEF Moves
  <2>2. orders' = {[o EXCEPT !.here = FALSE] : o \in orders}
    BY <2>1 DEF LeavePage
  <2>3. OrdersInv'
    <3>1. CASE restored = FALSE
      BY <2>2, <3>1, LeftOrders DEF PagesInv, OrdersInv
    <3>2. CASE restored = TRUE
      BY <1>3, <2>2, <3>2, OrdersStay
    <3> QED BY <1>5, <3>1, <3>2
  <2>4. StrayInv'
    <3>1. stray' \in SUBSET {"geo", "missing"}
      BY <2>1 DEF LeavePage, PagesInv, StrayInv
    <3>2. CASE authData' \notin Accounts
      BY <1>3, <3>1, <3>2 DEF StrayInv
    <3>3. CASE authData' \in Accounts
      <4>1. CASE restored = FALSE
        <5>1. geo = FALSE /\ plans # "loading" /\ stray = {}
          BY <4>1 DEF PagesInv, PageType, StrayInv
        <5> QED BY <1>3, <2>1, <3>1, <5>1 DEF LeavePage, StrayInv
      <4>2. CASE restored = TRUE
        <5>1. route' = route
          <6>1. CASE UNCHANGED tab
            BY <6>1
          <6>2. CASE NextSession
            BY <1>3, <3>3, <4>2, <6>2, WithinDocument DEF PagesInv
          <6> QED BY <6>1, <6>2
        <5> QED BY <1>3, <4>2, <5>1
      <4> QED BY <1>5, <4>1, <4>2
    <3> QED BY <3>2, <3>3
  <2>5. BusyInv'
    BY <1>5, <2>1, <2>2, LeftOrders, OpenPageIdle DEF BusyInv
  <2>6. PageType' /\ (route' = "/plan" => planId' = p)
    BY <1>5, <2>1, OpenPageIdle DEF PagesInv, PageType
  <2> QED BY <1>1, <1>3, <1>5, <2>1, <2>3, <2>4, <2>5, <2>6, OpenPageIdle DEF PagesInv
<1>4. CASE restored' = TRUE /\ restored = TRUE /\ route' = route
  <2>1. UNCHANGED <<hasLang, page, requests>>
    BY <1>4 DEF Moves
  <2>2. OrdersInv'
    BY <1>4, <2>1, OrdersStay DEF requests
  <2>3. authData' \in Accounts => authData \in Accounts
    <3>1. CASE UNCHANGED tab
      BY <3>1
    <3>2. CASE NextSession
      BY <1>4, <3>2, WithinDocument DEF PagesInv
    <3> QED BY <3>1, <3>2
  <2> QED BY <1>1, <1>4, <2>1, <2>2, <2>3 DEF PagesInv, PageType, StrayInv, BusyInv, page, requests
<1> QED BY <1>2, <1>3, <1>4, <1>5

-----------------------------------------------------------------------------
(* Steps of a page that stays.                                             *)

LEMMA StillThere ==
  ASSUME PagesInv, UNCHANGED <<tab, requests>>,
         hasLang' \in BOOLEAN, geo' \in {geo, FALSE}, plans' \in {"none", "loading", "found"},
         plans = "none" => plans' = "none", plans = "found" => plans' = "found",
         alert' \in BOOLEAN, UNCHANGED <<planId, isCheckingOut>>
  PROVE  PagesInv'
<1>1. SessionInv'
  BY SessionInvNext DEF PagesInv
<1> QED BY <1>1 DEF PagesInv, PageType, StrayInv, OrdersInv, BusyInv, requests

LEMMA LocaleKeeps ==
  ASSUME PagesInv, Locale
  PROVE  PagesInv'
<1> USE DEF PagesInv, PageType, Stays
<1>1. CASE ToggleLang
  BY <1>1, StillThere DEF ToggleLang, page
\* The answer of ipapi.co, to this page or to one that was left.
<1>5. ASSUME NEW indonesia \in BOOLEAN, hasLang' = (hasLang \/ indonesia)
      PROVE  hasLang' \in BOOLEAN
  BY <1>5, Zenon
<1>2. ASSUME NEW indonesia \in BOOLEAN, GeoAnswered(indonesia) PROVE PagesInv'
  <2>1. hasLang' \in BOOLEAN
    BY <1>2, <1>5 DEF GeoAnswered
  <2> QED BY <1>2, <2>1, StillThere DEF GeoAnswered
<1>3. ASSUME NEW indonesia \in BOOLEAN, StrayGeo(indonesia) PROVE PagesInv'
  <2>1. SessionInv'
    BY <1>3, SessionInvNext DEF StrayGeo
  <2>2. hasLang' \in BOOLEAN
    BY <1>3, <1>5 DEF StrayGeo
  <2> QED BY <1>3, <2>1, <2>2 DEF StrayGeo, page, StrayInv, OrdersInv, BusyInv
<1>4. CASE StoreLang
  BY <1>4, StillThere DEF StoreLang, page
<1> QED BY <1>1, <1>2, <1>3, <1>4 DEF Locale

\* A page that sends the tab to /pricing, without a step of the session.
LEMMA ToPricing ==
  ASSUME PagesInv, authData \notin Accounts, restored = TRUE,
         Navigate("/pricing"), OpenPage("/pricing", "none"), UNCHANGED hasLang,
         stray' \in SUBSET {"geo", "missing"},
         \/ orders' = {[o EXCEPT !.here = FALSE] : o \in orders}
         \/ isCheckingOut = FALSE /\ orders' = orders
  PROVE  PagesInv'
<1>1. SessionInv'
  BY NavigateKeeps DEF PagesInv
<1>2. route' = "/pricing" /\ authData' = Nobody /\ UNCHANGED <<restored, session, mixed>>
  BY DEF Navigate, Show
<1>3. OrdersInv' /\ BusyInv'
  <2>1. isCheckingOut' = FALSE
    BY OpenPageIdle
  <2>2. CASE orders' = {[o EXCEPT !.here = FALSE] : o \in orders}
    BY <1>2, <2>1, <2>2, LeftOrders DEF PagesInv, OrdersInv, BusyInv
  <2>3. CASE isCheckingOut = FALSE /\ orders' = orders
    BY <1>2, <2>1, <2>3 DEF PagesInv, OrdersInv, BusyInv
  <2> QED BY <2>2, <2>3
<1>4. StrayInv'
  BY <1>2 DEF StrayInv
<1>5. PageType' /\ route' \in Pages
  BY <1>2, OpenPageIdle DEF PagesInv, PageType, Pages
<1> QED BY <1>1, <1>2, <1>3, <1>4, <1>5 DEF PagesInv

-----------------------------------------------------------------------------
(* Answers.                                                                *)

LEMMA FailsKeeps ==
  ASSUME PagesInv, NEW o \in orders, Fails(o)
  PROVE  PagesInv'
<1> USE DEF PagesInv, Fails
<1>1. SessionInv' /\ UNCHANGED <<tab, hasLang, geo, plans, planId, stray>>
  BY SessionInvNext
<1>2. orders' = orders \ {o} /\ o \in OrderRecord
  BY DEF OrdersInv
<1>3. OrdersInv' /\ StrayInv'
  BY <1>1, <1>2 DEF OrdersInv, StrayInv
<1>4. CASE o.here = TRUE
  <2>1. alert' = TRUE /\ isCheckingOut' = FALSE
    BY <1>4
  <2>2. isCheckingOut = TRUE
    BY <1>4 DEF BusyInv, PageType
  <2>3. \A p \in orders' : p.here = FALSE
    BY <1>2, <1>4, <2>2 DEF BusyInv, OrdersInv, OrderRecord
  <2>4. PageType'
    BY <1>1, <2>1 DEF PageType
  <2>5. BusyInv'
    BY <2>1, <2>3 DEF BusyInv
  <2> QED BY <1>1, <1>3, <2>4, <2>5
<1>5. CASE o.here = FALSE
  <2>1. UNCHANGED <<alert, isCheckingOut>>
    BY <1>5
  <2> QED BY <1>1, <1>2, <1>3, <1>5, <2>1 DEF PageType, BusyInv
<1> QED BY <1>2, <1>4, <1>5 DEF OrderRecord

LEMMA StrayPlanKeeps ==
  ASSUME PagesInv, StrayPlan
  PROVE  PagesInv'
<1> USE DEF PagesInv
<1>1. authData \notin Accounts /\ restored = TRUE
  BY DEF StrayPlan, StrayInv, SessionInv, SessionTypeOK
<1>2. CASE route = "/pricing"
  <2>1. UNCHANGED <<tab, hasLang, page, orders>> /\ stray' \in SUBSET {"geo", "missing"}
    BY <1>2 DEF StrayPlan, StrayInv
  <2>2. SessionInv'
    BY <2>1, SessionInvNext
  <2> QED BY <1>1, <2>1, <2>2 DEF page, PageType, StrayInv, OrdersInv, BusyInv
<1>3. CASE route # "/pricing"
  <2>1. stray' \in SUBSET {"geo", "missing"}
    BY <1>3 DEF StrayPlan, StrayInv
  <2> QED BY <1>1, <1>3, <2>1, ToPricing DEF StrayPlan
<1> QED BY <1>2, <1>3

LEMMA AnswerKeeps ==
  ASSUME PagesInv, Answer
  PROVE  PagesInv'
<1> USE DEF PagesInv
<1>2. ASSUME NEW ok \in BOOLEAN, PlansAnswered(ok) PROVE PagesInv'
  <2>1. CASE ok /\ planId = "missing"
    <3>1. isCheckingOut = FALSE
      BY <1>2 DEF PlansAnswered, BusyInv, PageType
    <3>2. restored = TRUE /\ route # "/login"
      BY <1>2 DEF PlansAnswered, Pages
    <3>3. authData \notin Accounts
      BY <3>2 DEF SessionInv
    <3>4. stray' \in SUBSET {"geo", "missing"}
      BY <1>2, <2>1 DEF PlansAnswered, StrayInv
    <3> QED BY <1>2, <2>1, <3>1, <3>2, <3>3, <3>4, ToPricing DEF PlansAnswered
  <2>2. CASE ~(ok /\ planId = "missing")
    BY <1>2, <2>2, StillThere DEF PlansAnswered, Stays, PageType
  <2> QED BY <2>1, <2>2
<1>3. ASSUME NEW o \in orders, NEW ok \in BOOLEAN, CheckoutAnswered(o, ok) PROVE PagesInv'
  <2>1. CASE ok = TRUE
    <3> DEFINE next == [o EXCEPT !.stage = "webhook"]
    <3>1. orders' = (orders \ {o}) \cup {next} /\ UNCHANGED <<tab, hasLang, page, stray>>
      BY <1>3, <2>1 DEF CheckoutAnswered
    <3>2. SessionInv'
      BY <3>1, SessionInvNext
    <3>3. o \in OrderRecord
      BY DEF OrdersInv
    <3>4. next \in OrderRecord /\ next.by = o.by /\ next.here = o.here
      BY <3>3 DEF OrderRecord
    <3>5. OrdersInv' /\ StrayInv'
      BY <3>1, <3>4 DEF OrdersInv, StrayInv
    <3>6. BusyInv'
      BY <3>1, <3>4 DEF BusyInv, page
    <3> QED BY <3>1, <3>2, <3>5, <3>6 DEF page, PageType
  <2>2. CASE ok = FALSE
    BY <1>3, <2>2, FailsKeeps DEF CheckoutAnswered
  <2> QED BY <2>1, <2>2
<1>4. ASSUME NEW o \in orders, NEW ok \in BOOLEAN, WebhookAnswered(o, ok) PROVE PagesInv'
  <2>1. CASE ok = TRUE
    <3>1. Load("away", Nobody) /\ UNCHANGED stored /\ Moves("none")
      BY <1>4, <2>1 DEF WebhookAnswered
    <3>2. SessionInv'
      BY <3>1, LoadKeeps DEF SessionInv, SessionTypeOK
    <3>3. hasLang' = hasLang /\ OpenPage("away", "none") /\ stray' = {} /\ orders' = {}
      BY <3>1 DEF Load, Moves
    <3>4. restored' = FALSE /\ plans' = "none" /\ geo' = FALSE
      BY <3>1, <3>3, NoPageIdle DEF Load
    <3> QED BY <3>2, <3>3, <3>4, OpenPageIdle DEF PageType, StrayInv, OrdersInv, BusyInv
  <2>2. CASE ok = FALSE
    BY <1>4, <2>2, FailsKeeps DEF WebhookAnswered
  <2> QED BY <2>1, <2>2
<1> QED BY <1>2, <1>3, <1>4, StrayPlanKeeps DEF Answer

-----------------------------------------------------------------------------
(* The customer.                                                           *)

LEMMA OrderIsPlaced ==
  ASSUME PagesInv, Shown, isCheckingOut = FALSE, session # Nobody,
         isCheckingOut' = TRUE, orders' = orders \cup {Order},
         UNCHANGED <<tab, hasLang, geo, plans, planId, alert, stray>>
  PROVE  PagesInv'
<1> USE DEF PagesInv
<1>1. SessionInv'
  BY SessionInvNext
<1>2. Order \in OrderRecord /\ Order.by = session /\ Order.here = TRUE
  BY DEF Order, OrderRecord, SessionInv, SessionTypeOK
<1>3. authData = Nobody /\ restored = TRUE /\ plans = "found"
  BY DEF Shown, On, SessionInv, SessionTypeOK
<1>4. OrdersInv' /\ StrayInv'
  BY <1>2, <1>3 DEF OrdersInv, StrayInv
<1>5. BusyInv'
  BY <1>2, <1>3 DEF BusyInv
<1> QED BY <1>1, <1>4, <1>5 DEF PageType

LEMMA CustomerKeeps ==
  ASSUME PagesInv, Customer
  PROVE  PagesInv'
<1> USE DEF PagesInv
\* Both ways off a page are steps of a session, but for the address they name.
<1>1. ASSUME NEW p \in PlanIds \cup {"none"}, NEW r \in {"/plan", "/login"}, Navigate(r), Moves(p),
             r = "/plan" => p \in PlanIds, route \in {"/plan", "/pricing"}, route # r, restored = TRUE
      PROVE  PagesInv'
  <2>1. authData \notin Accounts
    BY <1>1 DEF SessionInv
  <2>2. SessionInv' /\ route' = r /\ authData' = Nobody /\ UNCHANGED <<restored, session, mixed>>
    BY <1>1, <2>1, NavigateKeeps DEF Navigate, Show
  <2>3. hasLang' = hasLang /\ OpenPage(r, p) /\ LeavePage
    BY <1>1, <2>2 DEF Moves
  <2>4. orders' = {[o EXCEPT !.here = FALSE] : o \in orders} /\ stray' \in SUBSET {"geo", "missing"}
    BY <2>3 DEF LeavePage, StrayInv
  <2>5. OrdersInv' /\ BusyInv' /\ StrayInv'
    BY <1>1, <2>2, <2>3, <2>4, LeftOrders, OpenPageIdle DEF OrdersInv, BusyInv, StrayInv
  <2> QED BY <1>1, <2>2, <2>3, <2>5, OpenPageIdle DEF PageType
<1>2. ASSUME NEW p \in PlanIds, OpenPlan(p) PROVE PagesInv'
  BY <1>1, <1>2 DEF OpenPlan, On, SessionInv, SessionTypeOK
<1>4. CASE CloseAlert
  BY <1>4, StillThere DEF CloseAlert, Stays, PageType
<1>5. CASE HandleCheckout
  <2>1. CASE session = Nobody
    BY <1>1, <1>5, <2>1 DEF HandleCheckout, Shown, On, SessionInv, SessionTypeOK
  <2>2. CASE session # Nobody
    <3>1. isCheckingOut = FALSE
      BY <1>5 DEF HandleCheckout, PageType
    <3> QED BY <1>5, <2>2, <3>1, OrderIsPlaced DEF HandleCheckout
  <2> QED BY <2>1, <2>2
<1> QED BY <1>2, <1>4, <1>5 DEF Customer

-----------------------------------------------------------------------------
LEMMA PagesInvNext == PagesInv /\ [NextPages]_app => PagesInv'
<1> SUFFICES ASSUME PagesInv, [NextPages]_app PROVE PagesInv'
  OBVIOUS
<1>1. CASE Session
  <2>1. PICK p \in Address : NextSession /\ Moves(p)
    BY <1>1 DEF Session
  <2>2. p \in PlanIds \cup {"none"} /\ (route' = "/plan" => p \in PlanIds)
    BY <2>1 DEF Address
  <2> QED BY <2>1, <2>2, MovesKeeps
<1>2. CASE UNCHANGED app
  <2>1. UNCHANGED <<tab, hasLang, page, requests>>
    BY <1>2 DEF app
  <2>2. SessionInv'
    BY <2>1, SessionInvNext DEF PagesInv
  <2> QED BY <2>1, <2>2 DEF PagesInv, page, requests, PageType, StrayInv, OrdersInv, BusyInv
<1> QED BY <1>1, <1>2, LocaleKeeps, AnswerKeeps, CustomerKeeps DEF NextPages

LEMMA PagesInductive == SpecPages => []PagesInv
BY PagesInvInit, PagesInvNext, PTL DEF SpecPages

\* Session, pages and requests keep their shape.
THEOREM PagesTypeCorrect == SpecPages => []PagesTypeOK
<1>1. PagesInv => PagesTypeOK
  BY DEF PagesInv, SessionInv, PageType, StrayInv, OrdersInv, PagesTypeOK
<1> QED BY <1>1, PagesInductive, PTL

\* No dashboard is opened with the features of another account, for any accounts
\* and however sign-ins, restores and slow answers fall together, unless a mock
\* login replaced that account in the same document.
THEOREM FeaturesAlwaysOfTheSignedIn == SpecPages => []FeaturesOfTheSignedIn
<1>1. PagesInv => FeaturesOfTheSignedIn
  BY DEF PagesInv, SessionInv, OneAccount, FeaturesOfTheSignedIn
<1> QED BY <1>1, PagesInductive, PTL

\* Every order under way is of the account the tab shows, with the same exception.
THEOREM OrdersAlwaysOfTheSignedIn == SpecPages => []OrdersAreOfTheSignedIn
<1>1. PagesInv => OrdersAreOfTheSignedIn
  BY DEF PagesInv, OrdersInv, OrdersAreOfTheSignedIn
<1> QED BY <1>1, PagesInductive, PTL

\* A page has one checkout under way while its button is busy, else none, with
\* any number of checkouts of pages that were left.
THEOREM OneCheckoutPerPage == SpecPages => []BusyWhileOrdering
<1>1. PagesInv => BusyWhileOrdering
  <2> SUFFICES ASSUME PagesInv PROVE BusyWhileOrdering
    OBVIOUS
  <2>1. \A o \in orders : o.here \in BOOLEAN
    BY DEF PagesInv, OrdersInv, OrderRecord
  <2>2. CASE isCheckingOut = FALSE
    <3>1. {o \in orders : o.here} = {}
      BY <2>2, Zenon DEF PagesInv, BusyInv
    <3> QED BY <2>2, <3>1 DEF BusyWhileOrdering
  <2>3. CASE isCheckingOut = TRUE
    <3>1. PICK o \in orders : o.here = TRUE /\ \A p \in orders : p.here = TRUE => p = o
      BY <2>3 DEF PagesInv, BusyInv
    <3>2. {p \in orders : p.here} = {o}
      BY <2>1, <3>1
    <3> QED BY <2>3, <3>2 DEF BusyWhileOrdering
  <2> QED BY <2>2, <2>3 DEF PagesInv, PageType
<1> QED BY <1>1, PagesInductive, PTL

-----------------------------------------------------------------------------
(* The wizard's promise: past step 1 the registration is complete.         *)

USE WizardAssumption
USE DEF vars, wizard, relay

\* Whom a request was sent for, and what the relay has done for it.
Belongs(s) == s.visit <= visit /\ (s.visit = visit => s.domain = domain)

Done(s) ==
  /\ s.stage \in {"key", "ok"} => s.visit \in keys
  /\ s.stage = "ok" => s.domain \in domains \cup Taken

SavesKeepTrack == \A s \in saves : Belongs(s) /\ Done(s)

Saved == isSavedInDB => visit \in keys /\ domain \in domains \cup Taken

\* Why step 2 and those behind it are only reached once saved: isSavedInDB is
\* set by an answer to this mount, whose rows are there, and rows stay.
WizardInv ==
  /\ TypeOK
  /\ mounted => visit # 0 /\ domain # None
  /\ SavesKeepTrack
  /\ Saved
  /\ step > 1 => isSavedInDB

LEMMA WizardInvInit == Init => WizardInv
<1> SUFFICES ASSUME Init PROVE WizardInv
  OBVIOUS
<1>1. /\ mounted \in BOOLEAN /\ isSavedInDB \in BOOLEAN /\ isSaving \in BOOLEAN
      /\ errorModal \in BOOLEAN /\ isConnected \in BOOLEAN
  BY Zenon DEF Init
<1>2. TypeOK
  BY <1>1 DEF Init, TypeOK
<1> QED BY <1>2 DEF Init, WizardInv, SavesKeepTrack, Saved

-----------------------------------------------------------------------------
(* The wizard's own steps.                                                 *)

LEMMA MountKeeps ==
  ASSUME WizardInv, NEW d \in Domains, Mount(d)
  PROVE  WizardInv'
<1> USE DEF WizardInv, Mount
<1>1. /\ mounted' \in BOOLEAN /\ isSavedInDB' \in BOOLEAN /\ isSaving' \in BOOLEAN
      /\ errorModal' \in BOOLEAN /\ isConnected' \in BOOLEAN
  BY Zenon
<1>2. visit' \in 0 .. MaxVisits
  BY DEF TypeOK
<1>3. TypeOK'
  BY <1>1, <1>2 DEF TypeOK
<1>4. SavesKeepTrack'
  <2> SUFFICES ASSUME NEW s \in saves PROVE Belongs(s)' /\ Done(s)'
    BY DEF SavesKeepTrack
  <2>1. s \in Save /\ Belongs(s) /\ Done(s)
    BY DEF TypeOK, SavesKeepTrack
  <2>2. s.visit < visit'
    BY <2>1 DEF Belongs, Save, Visits, TypeOK
  <2> QED BY <2>1, <2>2 DEF Belongs, Done, Save, Visits, TypeOK
<1>5. Saved' /\ step' = 1 /\ visit' # 0 /\ domain' # None
  BY DEF Saved, TypeOK
<1> QED BY <1>3, <1>4, <1>5

LEMMA RegisterKeeps ==
  ASSUME WizardInv, Register
  PROVE  WizardInv'
<1> USE DEF WizardInv, Register, At
<1>1. CASE isSavedInDB
  <2>1. step' = 2 /\ UNCHANGED <<mounted, visit, domain, isSavedInDB, isSaving, errorModal,
                                 isConnected, keys, domains, saves, checks, agents>>
    BY <1>1
  <2> QED BY <1>1, <2>1 DEF TypeOK, SavesKeepTrack, Belongs, Done, Saved
<1>2. CASE ~isSavedInDB
  <2> DEFINE new == [visit |-> visit, domain |-> domain, stage |-> "sent", awaited |-> TRUE]
  <2>1. saves' = saves \cup {new} /\ isSaving' = TRUE
    BY <1>2
  <2>2. UNCHANGED <<mounted, visit, domain, isSavedInDB, errorModal, isConnected, keys, domains,
                    checks, agents, step>>
    BY <1>2
  <2>3. visit \in Visits /\ domain \in Domains
    BY DEF TypeOK, Visits
  <2>4. new \in Save
    BY <2>3 DEF Save
  <2>5. TypeOK'
    BY <2>1, <2>2, <2>4 DEF TypeOK
  <2>6. Belongs(new)' /\ Done(new)'
    BY <2>2, <2>3 DEF Belongs, Done, Visits
  <2>7. SavesKeepTrack'
    BY <2>1, <2>2, <2>6 DEF SavesKeepTrack, Belongs, Done
  <2> QED BY <2>2, <2>5, <2>7 DEF Saved
<1> QED BY <1>1, <1>2

LEMMA TurnKeeps ==
  ASSUME WizardInv, NEW s \in 1 .. 5, Turn(s)
  PROVE  WizardInv'
<1> USE DEF WizardInv, Turn, At
<1>1. step # 1
  BY DEF Buttons
<1>2. isSavedInDB
  BY <1>1 DEF TypeOK
<1> QED BY <1>2 DEF TypeOK, SavesKeepTrack, Belongs, Done, Saved

-----------------------------------------------------------------------------
(* The relay works on a request, and its answer comes.                     *)

LEMMA SaveKeyKeeps ==
  ASSUME WizardInv, NEW s \in saves, SaveKey(s)
  PROVE  WizardInv'
<1> USE DEF WizardInv, SaveKey, Become
<1> DEFINE t(stage) == [s EXCEPT !.stage = stage]
<1>1. s \in Save /\ Belongs(s)
  BY DEF TypeOK, SavesKeepTrack
<1>2. PICK stage \in {"key", "failed"} :
        saves' = (saves \ {s}) \cup {t(stage)} /\ (stage = "key" => keys' = keys \cup {s.visit})
  BY Zenon
<1>3. keys \subseteq keys' /\ keys' \subseteq Visits
  BY <1>1 DEF TypeOK, Save
<1>4. UNCHANGED <<wizard, domains, checks, agents>>
  OBVIOUS
<1>5. t(stage) \in Save /\ Belongs(t(stage))' /\ Done(t(stage))'
  BY <1>1, <1>2, <1>4 DEF Save, Belongs, Done
<1>6. TypeOK'
  BY <1>2, <1>3, <1>4, <1>5 DEF TypeOK
<1>7. SavesKeepTrack'
  BY <1>2, <1>3, <1>4, <1>5 DEF SavesKeepTrack, Belongs, Done
<1> QED BY <1>3, <1>4, <1>6, <1>7 DEF Saved

LEMMA SaveDomainKeeps ==
  ASSUME WizardInv, NEW s \in saves, SaveDomain(s)
  PROVE  WizardInv'
<1> USE DEF WizardInv, SaveDomain, Become
<1> DEFINE t(stage) == [s EXCEPT !.stage = stage]
<1>1. s \in Save /\ Belongs(s) /\ Done(s)
  BY DEF TypeOK, SavesKeepTrack
<1>2. PICK stage \in {"ok", "failed"} :
        /\ saves' = (saves \ {s}) \cup {t(stage)}
        /\ stage = "ok" => domains' = domains \cup ({s.domain} \ Taken)
  BY Zenon
<1>3. domains \subseteq domains' /\ domains' \subseteq Domains
  BY <1>1 DEF TypeOK, Save
<1>4. UNCHANGED <<wizard, keys, checks, agents>>
  OBVIOUS
<1>5. t(stage) \in Save /\ Belongs(t(stage))' /\ Done(t(stage))'
  BY <1>1, <1>2, <1>4 DEF Save, Belongs, Done
<1>6. TypeOK'
  BY <1>2, <1>3, <1>4, <1>5 DEF TypeOK
<1>7. SavesKeepTrack'
  BY <1>2, <1>3, <1>4, <1>5 DEF SavesKeepTrack, Belongs, Done
<1> QED BY <1>3, <1>4, <1>6, <1>7 DEF Saved

LEMMA SaveAnsweredKeeps ==
  ASSUME WizardInv, NEW s \in saves, SaveAnswered(s)
  PROVE  WizardInv'
<1> USE DEF WizardInv, SaveAnswered
<1>1. s \in Save /\ Belongs(s) /\ Done(s)
  BY DEF TypeOK, SavesKeepTrack
<1>2. UNCHANGED <<mounted, visit, domain, isConnected, keys, domains, checks, agents>>
  OBVIOUS
<1>3. saves' = saves \ {s}
  OBVIOUS
<1>4. \/ UNCHANGED <<isSavedInDB, isSaving, step, errorModal>>
      \/ isSaving' = FALSE /\ errorModal' = TRUE /\ UNCHANGED <<isSavedInDB, step>>
      \/ /\ mounted /\ s.visit = visit /\ s.stage = "ok"
         /\ isSaving' = FALSE /\ isSavedInDB' = TRUE /\ step' = 2 /\ UNCHANGED errorModal
  BY Zenon
<1>5. isSavedInDB' \in BOOLEAN /\ isSaving' \in BOOLEAN /\ errorModal' \in BOOLEAN
  BY <1>4, Zenon DEF TypeOK
<1>8. TypeOK'
  BY <1>2, <1>3, <1>4, <1>5 DEF TypeOK
<1>6. SavesKeepTrack'
  BY <1>2, <1>3 DEF SavesKeepTrack, Belongs, Done
<1>7. Saved' /\ (step' > 1 => isSavedInDB')
  BY <1>1, <1>2, <1>4 DEF Saved, Belongs, Done
<1> QED BY <1>2, <1>6, <1>7, <1>8

LEMMA SaveLostKeeps ==
  ASSUME WizardInv, NEW s \in saves, SaveLost(s)
  PROVE  WizardInv'
<1> USE DEF WizardInv, SaveLost
<1> DEFINE t == [s EXCEPT !.awaited = FALSE]
<1>1. s \in Save /\ Belongs(s) /\ Done(s)
  BY DEF TypeOK, SavesKeepTrack
<1>2. t \in Save /\ Belongs(t)' /\ Done(t)'
  BY <1>1 DEF Save, Belongs, Done
<1>3. TypeOK'
  BY <1>2 DEF TypeOK
<1>4. SavesKeepTrack'
  BY <1>2 DEF SavesKeepTrack, Belongs, Done
<1> QED BY <1>3, <1>4 DEF Saved

-----------------------------------------------------------------------------
(* The rest leaves the registration alone.                                 *)

Aside ==
  \/ Leave \/ CloseError \/ CheckStatus
  \/ \E c \in checks : CheckAnswered(c) \/ CheckLost(c)
  \/ \E v \in Visits : AgentConnects(v) \/ AgentStops(v)
  \/ UNCHANGED vars

LEMMA AsideKeeps ==
  ASSUME WizardInv, Aside
  PROVE  WizardInv'
<1> USE DEF WizardInv
<1>1. UNCHANGED <<visit, domain, step, isSavedInDB, isSaving, keys, domains, saves>>
  BY DEF Aside, Leave, CloseError, CheckStatus, CheckAnswered, CheckLost, AgentConnects, AgentStops
<1>7. mounted' = mounted \/ mounted' = FALSE
  BY Zenon DEF Aside, Leave, CloseError, CheckStatus, CheckAnswered, CheckLost, AgentConnects, AgentStops
<1>8. errorModal' = errorModal \/ errorModal' = FALSE
  BY Zenon DEF Aside, Leave, CloseError, CheckStatus, CheckAnswered, CheckLost, AgentConnects, AgentStops
<1>2. mounted' \in BOOLEAN /\ errorModal' \in BOOLEAN
  BY <1>7, <1>8 DEF TypeOK
<1>9. mounted' => mounted
  BY <1>7, Zenon
<1>6. isConnected' \in BOOLEAN
  BY Zenon DEF TypeOK, Aside, Leave, CloseError, CheckStatus, CheckAnswered, CheckLost, AgentConnects,
     AgentStops
<1>3. checks' \subseteq Check
  <2>1. CASE CheckStatus
    <3>1. visit \in Visits /\ checks \subseteq Check
      BY <2>1 DEF CheckStatus, TypeOK, Visits
    <3>2. checks' = checks \cup {[visit |-> visit, online |-> domain \in Online]}
      BY <2>1 DEF CheckStatus
    <3>3. [visit |-> visit, online |-> domain \in Online] \in Check
      <4>1. CASE domain \in Online
        <5>1. (domain \in Online) = TRUE
          BY <4>1
        <5> QED BY <3>1, <5>1 DEF Check
      <4>2. CASE domain \notin Online
        <5>1. (domain \in Online) = FALSE
          BY <4>2
        <5> QED BY <3>1, <5>1 DEF Check
      <4> QED BY <4>1, <4>2
    <3> QED BY <3>1, <3>2, <3>3
  <2>2. CASE ~CheckStatus
    BY <2>2 DEF TypeOK, Aside, Leave, CloseError, CheckAnswered, CheckLost, AgentConnects, AgentStops
  <2> QED BY <2>1, <2>2
<1>4. agents' \in [Visits -> Domains \cup {None}]
  BY DEF TypeOK, Aside, Leave, CloseError, CheckStatus, CheckAnswered, CheckLost, AgentConnects,
     AgentStops
<1>5. TypeOK'
  BY <1>1, <1>2, <1>3, <1>4, <1>6 DEF TypeOK
<1> QED BY <1>1, <1>9, <1>5 DEF SavesKeepTrack, Belongs, Done, Saved

-----------------------------------------------------------------------------
LEMMA WizardInvNext == WizardInv /\ [Next]_vars => WizardInv'
<1> SUFFICES ASSUME WizardInv, [Next]_vars PROVE WizardInv'
  OBVIOUS
<1>1. ASSUME NEW d \in Domains, Mount(d) PROVE WizardInv'
  BY <1>1, MountKeeps
<1>2. CASE Register
  BY <1>2, RegisterKeeps
<1>3. ASSUME NEW s \in 1 .. 5, Turn(s) PROVE WizardInv'
  BY <1>3, TurnKeeps
<1>4. ASSUME NEW s \in saves, SaveKey(s) PROVE WizardInv'
  BY <1>4, SaveKeyKeeps
<1>5. ASSUME NEW s \in saves, SaveDomain(s) PROVE WizardInv'
  BY <1>5, SaveDomainKeeps
<1>6. ASSUME NEW s \in saves, SaveAnswered(s) PROVE WizardInv'
  BY <1>6, SaveAnsweredKeeps
<1>7. ASSUME NEW s \in saves, SaveLost(s) PROVE WizardInv'
  BY <1>7, SaveLostKeeps
<1>8. CASE Aside
  BY <1>8, AsideKeeps
<1> QED BY <1>1, <1>2, <1>3, <1>4, <1>5, <1>6, <1>7, <1>8 DEF Next, Aside

LEMMA WizardInductive == Spec => []WizardInv
BY WizardInvInit, WizardInvNext, PTL DEF Spec

\* The wizard, the requests and the rows keep their shape.
THEOREM WizardTypeCorrect == Spec => []TypeOK
<1>1. WizardInv => TypeOK
  BY DEF WizardInv
<1> QED BY <1>1, WizardInductive, PTL

\* Past step 1 the key and the address of this mount are at the relay, with any
\* number of earlier mounts whose requests are still under way.
THEOREM RegistrationAlwaysComplete == Spec => []RegistrationIsComplete
<1>1. WizardInv => RegistrationIsComplete
  BY DEF WizardInv, Saved, RegistrationIsComplete
<1> QED BY <1>1, WizardInductive, PTL
=============================================================================
