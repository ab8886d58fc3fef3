----------------------------- MODULE AppSession -----------------------------
(***************************************************************************)
(* One browser tab of the dashboard: which page it shows (App.tsx), who is *)
(* signed in (AuthContext.tsx), and how one signs in (LoginPage.tsx), all  *)
(* under src/dashboard/src.                                                *)
(*                                                                         *)
(* A document is what the browser loads: a typed address, a reload and     *)
(* window.location.href start a new one, with the initial state of every   *)
(* component; links and <Navigate> change the route within one.  user and  *)
(* token are set and stored together: they are the account.  The provider  *)
(* restores the session before a page is there (the pages are lazy).       *)
(***************************************************************************)
EXTENDS Naturals

CONSTANTS
  Accounts,
  Owners,            \* the accounts with the role OWNER; the others are USER
  Nobody,            \* no account
  Garbled            \* ?auth_data that cannot be parsed

ASSUME AccountsAssumption ==
  /\ Owners \subseteq Accounts
  /\ Nobody \notin Accounts /\ Garbled \notin Accounts /\ Nobody # Garbled

VARIABLES
  route,             \* "away": at Google, or at an invoice
  authData,          \* ?auth_data of the address
  isProcessing,      \* of the LoginPage that is shown
  restored,          \* the provider's effect has run in this document
  loading,
  session,           \* user and token
  features,          \* the account they were fetched for
  restoring,         \* the account of a fetchFeatures after a restore
  signing,           \* the runs of login() under way: their accounts, and who called them
  stored,            \* bizeto_user and bizeto_token in localStorage
  garbled,           \* the document was opened with ?auth_data that cannot be parsed
  mixed              \* history: a mock login replaced another account of the document

document == <<restored, loading, session, features, restoring, signing, garbled, mixed>>
tab == <<route, authData, isProcessing, document, stored>>

Public == {"/", "/pricing", "/plan", "/docs"}
Routes == Public \cup {"/login", "/dashboard", "/user", "/owner", "away"}
Someone == Accounts \cup {Nobody}

\* role, null without a user.
Role(a) == IF a \in Owners THEN "OWNER" ELSE IF a = Nobody THEN "none" ELSE "USER"

-----------------------------------------------------------------------------
(* Documents and navigation.                                               *)

Fresh ==
  /\ restored = FALSE /\ loading = TRUE /\ session = Nobody /\ features = Nobody
  /\ restoring = Nobody /\ signing = {} /\ mixed = FALSE

InitSession ==
  /\ route \in Public \cup {"/login"} /\ authData = Nobody
  /\ isProcessing = FALSE /\ garbled = FALSE
  /\ stored \in Someone
  /\ Fresh

\* A new document.
Load(r, a) ==
  /\ route' = r /\ authData' = a /\ isProcessing' = FALSE
  /\ restored' = FALSE /\ loading' = TRUE /\ session' = Nobody /\ features' = Nobody
  /\ restoring' = Nobody /\ signing' = {} /\ mixed' = FALSE
  /\ garbled' = (a = Garbled)

\* Another address of the document: what is under way goes on.
Show(r, a) ==
  /\ route' = r /\ authData' = a /\ isProcessing' = FALSE
  /\ UNCHANGED <<document, stored>>

\* navigate() and <Navigate>.
Navigate(r) == Show(r, Nobody)

\* The user types an address, reloads, follows a bookmark, or an address of the history.
Enter(r, a) ==
  /\ r # "away" /\ (a # Nobody => r = "/login")
  /\ Load(r, a) /\ UNCHANGED stored

\* Where the links of the pages lead; those to a plan are in PlanPages.
Links(r) ==
  LET home == IF session = Nobody THEN "/login" ELSE "/dashboard"
  IN  CASE r = "/" -> {home, "/docs"}
        [] r = "/pricing" -> {"/", home}
        [] r = "/plan" -> {"/", IF session = Nobody THEN "/pricing" ELSE "/dashboard"}
        [] r = "/docs" -> {"/"}
        [] OTHER -> {}

Follow(r) == restored /\ r \in Links(route) /\ Navigate(r)

\* Back and forward within the document: to a page that is open to everybody, or
\* to the login page the document was opened at.  A document that was opened with
\* an account has that one page until it ends.
Back(r) ==
  /\ restored /\ route \notin {r, "away"} /\ authData \notin Accounts
  /\ \/ r \in Public /\ Navigate(r)
     \/ r = "/login" /\ garbled /\ Show(r, Garbled)

-----------------------------------------------------------------------------
(* AuthProvider.                                                           *)

\* The effect that reads localStorage; it does not wait for the features.
Restore ==
  /\ ~restored
  /\ restored' = TRUE /\ loading' = FALSE
  /\ session' = stored /\ restoring' = stored
  /\ UNCHANGED <<route, authData, isProcessing, features, signing, stored, garbled, mixed>>

\* fetchFeatures: whatever goes wrong leaves the features alone.
RestoreAnswered(ok) ==
  /\ restoring # Nobody
  /\ features' = IF ok THEN restoring ELSE features
  /\ restoring' = Nobody
  /\ UNCHANGED <<route, authData, isProcessing, restored, loading, session, signing, stored, garbled, mixed>>

\* LoginPage calls login(), up to its await.  It clears no features.
Login(a, google) ==
  /\ isProcessing' = TRUE
  /\ loading' = TRUE /\ session' = a /\ stored' = a
  /\ signing' = signing \cup {[of |-> a, google |-> google]}
  /\ UNCHANGED <<route, authData, restored, features, restoring, garbled>>

\* Fault: logout() without the reload.
LogoutSoft ==
  /\ route \in {"/user", "/owner"} /\ ~loading /\ session # Nobody
  /\ stored' = Nobody /\ session' = Nobody /\ features' = Nobody
  /\ route' = "/" /\ authData' = Nobody /\ isProcessing' = FALSE
  /\ UNCHANGED <<restored, loading, restoring, signing, garbled, mixed>>

Logout ==
  /\ route \in {"/user", "/owner"} /\ ~loading /\ session # Nobody
  /\ stored' = Nobody
  /\ Load("/", Nobody)

\* Another tab signs in or out.
OtherTab(a) == stored' = a /\ UNCHANGED <<route, authData, isProcessing, document>>

-----------------------------------------------------------------------------
(* LoginPage.                                                              *)

\* Its second effect is about to leave the page.
Leaving == session # Nobody /\ authData = Nobody

\* The effect that finds auth_data; isProcessing keeps it from running twice.
ProcessAuthData ==
  /\ route = "/login" /\ restored /\ authData \in Accounts /\ ~isProcessing
  /\ Login(authData, TRUE) /\ UNCHANGED mixed

\* Login as User, Login as Owner, of ?mock=true.  Nothing asks whether somebody is
\* signed in: ?auth_data that cannot be parsed keeps the page, and its buttons.
\* Bound: no second login() for the same account while one is under way.
MockLogin(a) ==
  /\ route = "/login" /\ restored /\ authData \notin Accounts /\ ~Leaving /\ ~isProcessing
  /\ \A s \in signing : s.of # a
  /\ Login(a, FALSE)
  /\ mixed' = (mixed \/ session \notin {Nobody, a})

\* Fault: navigate('/dashboard') in place of the hard redirect.
LoginAnsweredSoft(s, ok) ==
  /\ features' = IF ok THEN s.of ELSE features
  /\ loading' = FALSE /\ signing' = signing \ {s}
  /\ route' = "/dashboard" /\ authData' = Nobody /\ isProcessing' = FALSE
  /\ UNCHANGED <<restored, session, restoring, stored, garbled, mixed>>

\* The rest of a login(), and what its caller does then, wherever the user is.
LoginAnswered(s, ok) ==
  /\ IF s.google THEN Load("/dashboard", Nobody)
     ELSE /\ features' = IF ok THEN s.of ELSE features
          /\ loading' = FALSE /\ signing' = signing \ {s}
          /\ route' = "/dashboard" /\ authData' = Nobody /\ isProcessing' = FALSE
          /\ UNCHANGED <<restored, session, restoring, garbled, mixed>>
  /\ UNCHANGED stored

\* Sign in with Google, and its callback: an account, ?error, or nonsense.
GoogleLogin ==
  /\ route = "/login" /\ restored /\ authData \notin Accounts /\ ~Leaving /\ ~isProcessing
  /\ Load("away", Nobody) /\ UNCHANGED stored

Callback(a) ==
  /\ route = "away"
  /\ Load("/login", a) /\ UNCHANGED stored

-----------------------------------------------------------------------------
(* Redirects.                                                              *)

\* LoginPage's second effect.
LoginRedirect ==
  /\ route = "/login" /\ restored /\ Leaving
  /\ Navigate("/dashboard")

\* Fault: owners are sent to the dashboard of the customers.
DashboardRouterOneWay ==
  /\ route = "/dashboard" /\ ~loading
  /\ Navigate(IF session = Nobody THEN "/login" ELSE "/user")

DashboardRouter ==
  /\ route = "/dashboard" /\ ~loading
  /\ Navigate(CASE Role(session) = "OWNER" -> "/owner"
                [] Role(session) = "USER" -> "/user"
                [] OTHER -> "/login")

ProtectedRoute(r, allowedRole) ==
  /\ route = r /\ ~loading /\ Role(session) # allowedRole
  /\ Navigate(IF session = Nobody THEN "/login" ELSE "/dashboard")

Redirect ==
  \/ LoginRedirect \/ DashboardRouter
  \/ ProtectedRoute("/user", "USER") \/ ProtectedRoute("/owner", "OWNER")

-----------------------------------------------------------------------------
Provider ==
  \/ Restore \/ ProcessAuthData
  \/ \E ok \in BOOLEAN : RestoreAnswered(ok) \/ \E s \in signing : LoginAnswered(s, ok)

Visitor ==
  \/ Logout \/ GoogleLogin
  \/ \E r \in Routes : Follow(r) \/ Back(r) \/ \E a \in Someone \cup {Garbled} : Enter(r, a)
  \/ \E a \in Accounts : MockLogin(a)
  \/ \E a \in Someone \cup {Garbled} : Callback(a)
  \/ \E a \in Someone : OtherTab(a)

NextSession == Provider \/ Redirect \/ Visitor

\* Effects run, and fetchFeatures ends, with or without the features.
SessionFairness ==
  /\ WF_tab(Restore) /\ WF_tab(ProcessAuthData) /\ WF_tab(Redirect)
  /\ WF_tab(\E ok \in BOOLEAN : RestoreAnswered(ok))
  /\ WF_tab(\E s \in signing, ok \in BOOLEAN : LoginAnswered(s, ok))

SpecSession == InitSession /\ [][NextSession]_tab /\ SessionFairness

-----------------------------------------------------------------------------
(* Properties                                                              *)

\* The types of the variables.
SessionTypeOK ==
  /\ route \in Routes /\ authData \in Someone \cup {Garbled}
  /\ isProcessing \in BOOLEAN /\ restored \in BOOLEAN /\ loading \in BOOLEAN
  /\ session \in Someone /\ features \in Someone /\ restoring \in Someone
  /\ signing \subseteq [of : Accounts, google : BOOLEAN]
  /\ stored \in Someone
  /\ garbled \in BOOLEAN /\ mixed \in BOOLEAN

\* A dashboard never opens the features of one account to another, although
\* fetchFeatures does not say whose answer it sets: LoginPage reloads ("Gunakan
\* hard redirect untuk memastikan state sinkron sempurna", LoginPage.tsx:53).
\* handleMockLogin (LoginPage.tsx:74-87) does not, and is the one exception: once
\* it signed in over another account, that account's features may stay.
FeaturesOfTheSignedIn ==
  route \in {"/user", "/owner"} /\ ~loading /\ features # Nobody => features = session \/ mixed

Redirecting ==
  \/ route = "/login" /\ Leaving
  \/ route = "/dashboard"
  \/ route = "/user" /\ Role(session) # "USER"
  \/ route = "/owner" /\ Role(session) # "OWNER"

\* The visitor, and other tabs, leave the tab alone in the end.
LeftAlone == <>[][~Visitor]_tab

\* Left alone, the tab comes to a page that stays: the redirects of the router
\* and of the pages do not go in circles, "Memuat halaman..." and "Securing
\* session..." go, also if the features are refused or never come.
ComesToRest ==
  LeftAlone => <>[](route = "away" \/ (~Redirecting /\ ~loading /\ signing = {}))
=============================================================================
