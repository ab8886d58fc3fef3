---------------------------- MODULE TunnelWizard ----------------------------
(***************************************************************************)
(* AddTunnelWizard (src/dashboard/src/components/AddTunnelWizard.tsx), the *)
(* relay's handlers it talks to (SaveWizardData, CheckTunnelStatus in      *)
(* src/internal/tunnel/api.go), and the agents that are run with the keys  *)
(* it hands out.                                                           *)
(*                                                                         *)
(* Each time the wizard is mounted it draws a key and a domain.  Keys are  *)
(* long and never drawn twice: a key is the number of the mount.  A domain *)
(* ends in three random characters: it may be drawn twice, and may be      *)
(* another customer's.  The local port and the config file are left out.   *)
(***************************************************************************)
EXTENDS Naturals, FiniteSets

CONSTANTS
  Domains,           \* the domains that can be drawn
  Taken,             \* those that other customers have
  None,              \* no domain
  MaxVisits,         \* bound: times the wizard is mounted
  MaxSaves,          \* bound: wizard/save requests the relay works on
  MaxChecks          \* bound: check-status answers under way

Visits == 1 .. MaxVisits

ASSUME WizardAssumption ==
  /\ Taken \subseteq Domains /\ None \notin Domains
  /\ MaxVisits \in Nat /\ MaxSaves \in Nat /\ MaxChecks \in Nat

VARIABLES
  mounted, visit,    \* the wizard is shown, the number of its mount
  domain, step, isSavedInDB, isSaving, errorModal, isConnected,   \* its state
  keys, domains,     \* the rows of this customer at the relay
  saves,             \* wizard/save: visit, domain, stage at the relay, awaited
  checks,            \* check-status answers: visit, online
  agents             \* the domain the agent with a key is connected for, or None

wizard == <<mounted, visit, domain, step, isSavedInDB, isSaving, errorModal, isConnected>>
relay == <<keys, domains>>
vars == <<wizard, relay, saves, checks, agents>>

Save == [visit : Visits, domain : Domains, stage : {"sent", "key", "ok", "failed"}, awaited : BOOLEAN]
Check == [visit : Visits, online : BOOLEAN]

Init ==
  /\ mounted = FALSE /\ visit = 0 /\ domain = None
  /\ step = 1 /\ isSavedInDB = FALSE /\ isSaving = FALSE /\ errorModal = FALSE
  /\ isConnected = FALSE
  /\ keys = {} /\ domains = {}
  /\ saves = {} /\ checks = {}
  /\ agents = [v \in Visits |-> None]

-----------------------------------------------------------------------------
(* Mounting and leaving.                                                   *)

Mount(d) ==
  /\ ~mounted /\ visit < MaxVisits
  /\ mounted' = TRUE /\ visit' = visit + 1 /\ domain' = d
  /\ step' = 1 /\ isSavedInDB' = FALSE /\ isSaving' = FALSE /\ errorModal' = FALSE
  /\ isConnected' = FALSE
  /\ UNCHANGED <<relay, saves, checks, agents>>

\* Cancel, Finish Later, Done; or the dashboard unmounts it.
Leave ==
  /\ mounted
  /\ mounted' = FALSE
  /\ UNCHANGED <<visit, domain, step, isSavedInDB, isSaving, errorModal, isConnected,
                 relay, saves, checks, agents>>

-----------------------------------------------------------------------------
(* The frame and its steps.  The error dialog covers them.                 *)

At(s) == mounted /\ step = s /\ ~errorModal

\* Register Tunnel: saveToDB, which is through at once when it was saved before.
Register ==
  /\ At(1) /\ ~isSaving
  /\ IF isSavedInDB THEN step' = 2 /\ UNCHANGED <<isSaving, saves>>
     ELSE /\ isSaving' = TRUE
          /\ saves' = saves \cup {[visit |-> visit, domain |-> domain, stage |-> "sent", awaited |-> TRUE]}
          /\ Cardinality(saves') <= MaxSaves
          /\ UNCHANGED step
  /\ UNCHANGED <<mounted, visit, domain, isSavedInDB, errorModal, isConnected, relay, checks, agents>>

\* Where the buttons Back, Next, Check Connection and Copy Command Again lead.
Buttons(s) ==
  CASE s = 2 -> {1, 3}
    [] s = 3 -> {2, 4}
    [] s = 4 -> {3, 5}
    [] s = 5 /\ ~isConnected -> {4}
    [] OTHER -> {}

Turn(s) ==
  /\ At(step) /\ s \in Buttons(step)
  /\ step' = s
  /\ UNCHANGED <<mounted, visit, domain, isSavedInDB, isSaving, errorModal, isConnected,
                 relay, saves, checks, agents>>

CloseError ==
  /\ mounted /\ errorModal
  /\ errorModal' = FALSE
  /\ UNCHANGED <<mounted, visit, domain, step, isSavedInDB, isSaving, isConnected,
                 relay, saves, checks, agents>>

-----------------------------------------------------------------------------
(* SaveWizardData: the key, then the domain.  Both statements leave a row  *)
(* alone that is there; a domain of somebody else is no error.             *)

Become(s, stage) == saves' = (saves \ {s}) \cup {[s EXCEPT !.stage = stage]}

SaveKey(s) ==
  /\ s.stage = "sent"
  /\ \/ keys' = keys \cup {s.visit} /\ Become(s, "key")
     \/ UNCHANGED keys /\ Become(s, "failed")
  /\ UNCHANGED <<wizard, domains, checks, agents>>

\* Fault: the answer does not depend on the second statement.
SaveDomainUnchecked(s) ==
  /\ s.stage = "key"
  /\ Become(s, "ok")
  /\ \/ domains' = domains \cup ({s.domain} \ Taken)
     \/ UNCHANGED domains
  /\ UNCHANGED <<wizard, keys, checks, agents>>

SaveDomain(s) ==
  /\ s.stage = "key"
  /\ \/ domains' = domains \cup ({s.domain} \ Taken) /\ Become(s, "ok")
     \/ UNCHANGED domains /\ Become(s, "failed")
  /\ UNCHANGED <<wizard, keys, checks, agents>>

\* The rest of saveToDB, and of the click, when the answer comes.
SaveAnswered(s) ==
  /\ s.stage \in {"ok", "failed"}
  /\ saves' = saves \ {s}
  /\ IF s.awaited /\ mounted /\ s.visit = visit
       THEN /\ isSaving' = FALSE
            /\ IF s.stage = "ok" THEN isSavedInDB' = TRUE /\ step' = 2 /\ UNCHANGED errorModal
               ELSE errorModal' = TRUE /\ UNCHANGED <<isSavedInDB, step>>
       ELSE UNCHANGED <<isSavedInDB, isSaving, step, errorModal>>
  /\ UNCHANGED <<mounted, visit, domain, isConnected, relay, checks, agents>>

\* The connection breaks; the relay may go on with the request.
SaveLost(s) ==
  /\ s.awaited /\ mounted /\ s.visit = visit
  /\ saves' = (saves \ {s}) \cup {[s EXCEPT !.awaited = FALSE]}
  /\ isSaving' = FALSE /\ errorModal' = TRUE
  /\ UNCHANGED <<mounted, visit, domain, step, isSavedInDB, isConnected, relay, checks, agents>>

-----------------------------------------------------------------------------
(* The effect that polls check-status in step 5.                           *)

Online == {agents[v] : v \in Visits} \ {None}

\* Fault: the steps are counted from zero in the effect.
CheckStatusTooEarly ==
  /\ mounted /\ step = 4 /\ ~isConnected
  /\ checks' = checks \cup {[visit |-> visit, online |-> domain \in Online]}
  /\ Cardinality(checks') <= MaxChecks
  /\ UNCHANGED <<wizard, relay, saves, agents>>

\* The interval fires, and CheckTunnelStatus looks for the domain.
CheckStatus ==
  /\ mounted /\ step = 5 /\ ~isConnected
  /\ checks' = checks \cup {[visit |-> visit, online |-> domain \in Online]}
  /\ Cardinality(checks') <= MaxChecks
  /\ UNCHANGED <<wizard, relay, saves, agents>>

\* Each interval has its answers: one that is late comes to a wizard that has
\* moved on, or is gone.
CheckAnswered(c) ==
  /\ checks' = checks \ {c}
  /\ isConnected' = (isConnected \/ (mounted /\ c.visit = visit /\ c.online))
  /\ UNCHANGED <<mounted, visit, domain, step, isSavedInDB, isSaving, errorModal, relay, saves, agents>>

CheckLost(c) ==
  /\ checks' = checks \ {c}
  /\ UNCHANGED <<wizard, relay, saves, agents>>

-----------------------------------------------------------------------------
(* Agents, as far as the wizard sees them.                                 *)

\* ValidateKey joins the key with the domains of its customer and takes one.
AgentConnects(v) ==
  /\ v \in keys /\ agents[v] = None
  /\ \E d \in domains : agents' = [agents EXCEPT ![v] = d]
  /\ UNCHANGED <<wizard, relay, saves, checks>>

AgentStops(v) ==
  /\ agents[v] # None
  /\ agents' = [agents EXCEPT ![v] = None]
  /\ UNCHANGED <<wizard, relay, saves, checks>>

-----------------------------------------------------------------------------
Next ==
  \/ \E d \in Domains : Mount(d)
  \/ Leave \/ Register \/ CloseError \/ CheckStatus
  \/ \E s \in 1 .. 5 : Turn(s)
  \/ \E s \in saves : SaveKey(s) \/ SaveDomain(s) \/ SaveAnswered(s) \/ SaveLost(s)
  \/ \E c \in checks : CheckAnswered(c) \/ CheckLost(c)
  \/ \E v \in Visits : AgentConnects(v) \/ AgentStops(v)

Spec == Init /\ [][Next]_vars

(* The interval fires, the relay works and answers, and not every answer   *)
(* to a check is lost.                                                     *)
Fairness ==
  /\ WF_vars(CheckStatus)
  /\ \A s \in Save : WF_vars(s \in saves /\ (SaveKey(s) \/ SaveDomain(s) \/ SaveAnswered(s)))
  /\ \A c \in Check : /\ WF_vars(c \in checks /\ (CheckAnswered(c) \/ CheckLost(c)))
                      /\ SF_vars(c \in checks /\ CheckAnswered(c))

FairSpec == Spec /\ Fairness

-----------------------------------------------------------------------------
(* Properties                                                              *)

\* The types of the variables.
TypeOK ==
  /\ mounted \in BOOLEAN /\ visit \in 0 .. MaxVisits /\ domain \in Domains \cup {None}
  /\ step \in 1 .. 5 /\ isSavedInDB \in BOOLEAN /\ isSaving \in BOOLEAN
  /\ errorModal \in BOOLEAN /\ isConnected \in BOOLEAN
  /\ keys \in SUBSET Visits /\ domains \in SUBSET Domains
  /\ saves \in SUBSET Save /\ checks \in SUBSET Check
  /\ agents \in [Visits -> Domains \cup {None}]

\* Past step 1, whatever failed, was repeated or came late on the way, key and
\* address of this wizard are at the relay ("Your address has been reserved",
\* AddTunnelWizard.tsx:34); except for an address that is another customer's,
\* for which SaveWizardData answers ok as well.
RegistrationIsComplete ==
  mounted /\ step > 1 => visit \in keys /\ domain \in domains \cup Taken

Waiting == mounted /\ step = 5 /\ ~isConnected /\ domain \in Online

\* Step 5 does not go on waiting when the agent of the address is online.
AgentIsNoticed == Waiting ~> ~Waiting

\* An agent that is run with the key the wizard made, in the config it offers
\* for download, serves the address the wizard reserved for it ("This tunnel is
\* registered and ready to receive data", AddTunnelWizard.tsx:42).
AgentServesItsAddress ==
  mounted /\ step = 5 /\ domain \in domains => agents[visit] \in {domain, None}
=============================================================================
