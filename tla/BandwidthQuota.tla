--------------------------- MODULE BandwidthQuota ---------------------------
(***************************************************************************)
(* The pay-as-you-go quota of one user: its row of user_bandwidth_quota    *)
(* (src/internal/db/bandwidth.go) and everyone who works on it at the same *)
(* time:                                                                   *)
(*                                                                         *)
(*   - the bandwidth worker (src/internal/tunnel/sync.go), whose           *)
(*     transaction SELECTs the row, decides about the throttle in Go and   *)
(*     UPDATEs the row, for one domain of the user after the other;        *)
(*   - payment webhooks, whose transaction records the topup and adds to   *)
(*     the quota;                                                          *)
(*   - handleAgentConnection (src/cmd/relay/main.go), which reads the row  *)
(*     when an agent of the user connects;                                 *)
(*   - time, which lets the first bonus expire.                            *)
(*                                                                         *)
(* PostgreSQL runs these transactions at READ COMMITTED: a SELECT sees the *)
(* last committed row, and a write locks the row until the commit, so the  *)
(* effect of a write is given here at its commit.  Of the tunnel manager   *)
(* this module keeps what the quota decides: the domains that are online,  *)
(* limited or marked as paid, and the bytes not yet synchronised (the      *)
(* steps inside the manager are in TunnelManager).                         *)
(***************************************************************************)
EXTENDS Naturals

CONSTANTS
  Domain,       \* the user's domains
  Conn,         \* handleAgentConnection calls that may run at the same time
  Topup,        \* payments, each announced by a webhook
  NoRow,        \* the user has no row
  NoDomain,     \* the value of a domain variable that is not assigned
  TopupBytes,   \* what a payment buys
  BonusBytes,   \* the first bonus
  MaxBytes      \* bound: bytes the user's tunnels ever carry

ASSUME QuotaAssumption ==
  /\ TopupBytes \in Nat /\ BonusBytes \in Nat /\ MaxBytes \in Nat
  /\ NoDomain \notin Domain
  /\ "free" \notin Topup /\ "worker" \notin Topup

VARIABLES
  \* PostgreSQL
  quota,      \* the committed row, or NoRow
  lock,       \* the transaction that holds the row's lock
  topup,      \* payment -> state of its webhook
  outage,     \* whether statements and commits fail
  \* The relay
  worker,     \* the bandwidth worker
  handler,    \* a running handleAgentConnection, after AddSession
  online,     \* domains with a session
  limited,    \* Manager.throttles
  isPaid,     \* Manager.isPaid
  unsynced,   \* domain -> bytes in the manager's counters
  \* History
  carried,    \* bytes ever counted
  charged,    \* bytes of the worker's committed transactions
  credited    \* bytes of the committed payments, and the bonus

dbVars == <<quota, lock, topup, outage>>
managerVars == <<online, limited, isPaid, unsynced>>
history == <<carried, charged, credited>>
vars == <<dbVars, worker, handler, managerVars, history>>

-----------------------------------------------------------------------------
QuotaRow == [purchased : Nat, used : Nat, throttled : BOOLEAN,
             expires : {"never", "later", "past"}]

ASSUME NoRowAssumption == NoRow \notin QuotaRow

\* A user starts without a row; or, on a database of an earlier release, with
\* the 30-day bonus that RegisterAgent still looks for.
BonusRow == [purchased |-> BonusBytes, used |-> 0, throttled |-> FALSE, expires |-> "later"]

IdleWorker == [pc |-> "idle", dom |-> NoDomain, bytes |-> 0, slow |-> FALSE]
IdleHandler == [pc |-> "idle", dom |-> NoDomain, paid |-> FALSE, slow |-> FALSE]

Init ==
  /\ \/ quota = NoRow /\ credited = 0
     \/ quota = BonusRow /\ credited = BonusBytes
  /\ lock = "free"
  /\ topup = [t \in Topup |-> "unpaid"]
  /\ outage = FALSE
  /\ worker = IdleWorker
  /\ handler = [c \in Conn |-> IdleHandler]
  /\ online = {} /\ limited = {} /\ isPaid = {}
  /\ unsynced = [d \in Domain |-> 0]
  /\ carried = 0 /\ charged = 0

-----------------------------------------------------------------------------
(* AddBandwidthQuota, called by the payment webhook                         *)

\* INSERT of the payment, then the upsert, which waits for the row's lock.
UpsertQuota(t) ==
  /\ topup[t] = "unpaid"
  /\ lock = "free"
  /\ lock' = t
  /\ topup' = [topup EXCEPT ![t] = "upserted"]
  /\ UNCHANGED <<quota, outage, worker, handler, managerVars, history>>

\* Fault: the payment replaces the quota that was left.
CommitTopupReplaces(t) ==
  /\ topup[t] = "upserted"
  /\ quota' = [purchased |-> TopupBytes, used |-> IF quota = NoRow THEN 0 ELSE quota.used,
               throttled |-> FALSE, expires |-> "never"]
  /\ topup' = [topup EXCEPT ![t] = "paid"]
  /\ lock' = "free"
  /\ credited' = credited + TopupBytes
  /\ UNCHANGED <<outage, worker, handler, managerVars, carried, charged>>

\* A new row, or the old one with more quota; unthrottled and permanent.
CommitTopup(t) ==
  /\ topup[t] = "upserted"
  /\ quota' = IF quota = NoRow
              THEN [purchased |-> TopupBytes, used |-> 0, throttled |-> FALSE, expires |-> "never"]
              ELSE [quota EXCEPT !.purchased = @ + TopupBytes, !.throttled = FALSE,
                                 !.expires = "never"]
  /\ topup' = [topup EXCEPT ![t] = "paid"]
  /\ lock' = "free"
  /\ credited' = credited + TopupBytes
  /\ UNCHANGED <<outage, worker, handler, managerVars, carried, charged>>

\* The webhook answers 500, and is delivered again.
AbortTopup(t) ==
  /\ outage
  /\ topup[t] = "upserted"
  /\ topup' = [topup EXCEPT ![t] = "unpaid"]
  /\ lock' = "free"
  /\ UNCHANGED <<quota, outage, worker, handler, managerVars, history>>

\* The database fails for a while, and recovers.
Outage ==
  /\ outage' = ~outage
  /\ UNCHANGED <<quota, lock, topup, worker, handler, managerVars, history>>

\* The 30 days of the bonus are over.
Expire ==
  /\ quota # NoRow
  /\ quota.expires = "later"
  /\ quota' = [quota EXCEPT !.expires = "past"]
  /\ UNCHANGED <<lock, topup, outage, worker, handler, managerVars, history>>

-----------------------------------------------------------------------------
(* The bandwidth worker and UpdateBandwidthUsage                            *)

\* GetStats with reset; a domain without traffic is passed over.
TakeUsage(d) ==
  /\ worker.pc = "idle"
  /\ unsynced[d] > 0
  /\ worker' = [pc |-> "begin", dom |-> d, bytes |-> unsynced[d], slow |-> FALSE]
  /\ unsynced' = [unsynced EXCEPT ![d] = 0]
  /\ UNCHANGED <<dbVars, handler, online, limited, isPaid, history>>

\* Fault: the last byte of the quota is not its end.
ShouldThrottleLate(row, n) ==
  row.throttled \/ row.expires = "past" \/ row.used + n > row.purchased
\* Fault: the throttle that was on is not taken into account.
ShouldThrottleAfresh(row, n) ==
  row.expires = "past" \/ row.used + n >= row.purchased

\* What the Go code decides from the row it selected: the throttle stays on,
\* or comes on when the quota expired or is used up.
ShouldThrottle(row, n) ==
  row.throttled \/ row.expires = "past" \/ row.used + n >= row.purchased

SelectQuota ==
  /\ worker.pc = "begin"
  /\ quota # NoRow
  /\ worker' = [worker EXCEPT !.pc = "update", !.slow = ShouldThrottle(quota, worker.bytes)]
  /\ UNCHANGED <<dbVars, handler, managerVars, history>>

\* sql.ErrNoRows is an error like any other: the worker goes on, the bytes are gone.
SelectNothing ==
  /\ worker.pc = "begin"
  /\ quota = NoRow
  /\ worker' = IdleWorker
  /\ UNCHANGED <<dbVars, handler, managerVars, history>>

UpdateQuota ==
  /\ worker.pc = "update"
  /\ lock = "free"
  /\ lock' = "worker"
  /\ worker' = [worker EXCEPT !.pc = "commit"]
  /\ UNCHANGED <<quota, topup, outage, handler, managerVars, history>>

\* total_bytes_used is raised by the UPDATE itself; is_throttled is the value
\* decided before.  The commit may succeed although its answer is an error.
CommitUsage ==
  /\ worker.pc = "commit"
  /\ quota' = [quota EXCEPT !.used = @ + worker.bytes, !.throttled = worker.slow]
  /\ lock' = "free"
  /\ charged' = charged + worker.bytes
  /\ \/ worker' = [worker EXCEPT !.pc = "apply"]
     \/ outage /\ worker' = IdleWorker
  /\ UNCHANGED <<topup, outage, handler, managerVars, carried, credited>>

AbortUsage ==
  /\ outage
  /\ worker.pc \in {"begin", "update", "commit"}
  /\ lock' = IF worker.pc = "commit" THEN "free" ELSE lock
  /\ worker' = IdleWorker
  /\ UNCHANGED <<quota, topup, outage, handler, managerVars, history>>

\* Fault: the limiter is installed and never removed.
ApplyThrottleOnly ==
  /\ worker.pc = "apply"
  /\ limited' = IF worker.slow THEN limited \cup {worker.dom} ELSE limited
  /\ worker' = IdleWorker
  /\ UNCHANGED <<dbVars, handler, online, isPaid, unsynced, history>>

\* SetThrottle, with what the transaction returned.
ApplyThrottle ==
  /\ worker.pc = "apply"
  /\ limited' = IF worker.slow THEN limited \cup {worker.dom} ELSE limited \ {worker.dom}
  /\ worker' = IdleWorker
  /\ UNCHANGED <<dbVars, handler, online, isPaid, unsynced, history>>

-----------------------------------------------------------------------------
(* handleAgentConnection and the sessions                                   *)

\* AddSession: fresh counters; a limiter left behind stays.
Connect(c, d) ==
  /\ handler[c].pc = "idle"
  /\ handler' = [handler EXCEPT ![c] = [IdleHandler EXCEPT !.pc = "added", !.dom = d]]
  /\ online' = online \cup {d}
  /\ unsynced' = [unsynced EXCEPT ![d] = 0]
  /\ UNCHANGED <<dbVars, worker, limited, isPaid, history>>

\* GetBandwidthStatusByDomain: no row reads as throttled and without expiry,
\* and no expiry as paid.
ReadQuota(c) ==
  /\ handler[c].pc = "added"
  /\ \/ handler' = [handler EXCEPT ![c] =
          [pc |-> "read", dom |-> handler[c].dom,
           paid |-> quota = NoRow \/ quota.expires = "never",
           slow |-> quota = NoRow \/ quota.throttled]]
     \/ outage /\ handler' = [handler EXCEPT ![c] = IdleHandler]
  /\ UNCHANGED <<dbVars, worker, managerVars, history>>

SetPaidStatus(c) ==
  LET d == handler[c].dom IN
  /\ handler[c].pc = "read"
  /\ isPaid' = IF handler[c].paid THEN isPaid \cup {d} ELSE isPaid \ {d}
  /\ handler' = [handler EXCEPT ![c] = IF handler[c].slow THEN [@ EXCEPT !.pc = "slow"]
                                                         ELSE IdleHandler]
  /\ UNCHANGED <<dbVars, worker, online, limited, unsynced, history>>

ThrottleOnConnect(c) ==
  /\ handler[c].pc = "slow"
  /\ limited' = limited \cup {handler[c].dom}
  /\ handler' = [handler EXCEPT ![c] = IdleHandler]
  /\ UNCHANGED <<dbVars, worker, online, isPaid, unsynced, history>>

\* The agent left, and the scavenger removed its session.
Leave(d) ==
  /\ d \in online
  /\ online' = online \ {d}
  /\ limited' = limited \ {d}
  /\ unsynced' = [unsynced EXCEPT ![d] = 0]
  /\ UNCHANGED <<dbVars, worker, handler, isPaid, history>>

Traffic(d) ==
  /\ d \in online
  /\ carried < MaxBytes
  /\ unsynced' = [unsynced EXCEPT ![d] = @ + 1]
  /\ carried' = carried + 1
  /\ UNCHANGED <<dbVars, worker, handler, online, limited, isPaid, charged, credited>>

-----------------------------------------------------------------------------
Worker ==
  \/ \E d \in Domain : TakeUsage(d)
  \/ SelectQuota \/ SelectNothing \/ UpdateQuota \/ CommitUsage \/ AbortUsage
  \/ ApplyThrottle

Webhook(t) == UpsertQuota(t) \/ CommitTopup(t) \/ AbortTopup(t)

Handler(c) ==
  \/ \E d \in Domain : Connect(c, d)
  \/ ReadQuota(c) \/ SetPaidStatus(c) \/ ThrottleOnConnect(c)

Next ==
  \/ Worker
  \/ \E t \in Topup : Webhook(t)
  \/ \E c \in Conn : Handler(c)
  \/ \E d \in Domain : Leave(d) \/ Traffic(d)
  \/ Expire \/ Outage

Spec == Init /\ [][Next]_vars

\* The worker's ticker never stops, it gets to every domain, and a transaction
\* that was begun ends.
FairSpec ==
  /\ Spec
  /\ WF_vars(SelectQuota \/ SelectNothing \/ CommitUsage \/ ApplyThrottle)
  /\ SF_vars(UpdateQuota)
  /\ \A d \in Domain : SF_vars(TakeUsage(d))
  /\ \A t \in Topup : WF_vars(CommitTopup(t))

-----------------------------------------------------------------------------
WorkerState == [pc : {"idle", "begin", "update", "commit", "apply"},
                dom : Domain \cup {NoDomain}, bytes : Nat, slow : BOOLEAN]
HandlerState == [pc : {"idle", "added", "read", "slow"}, dom : Domain \cup {NoDomain},
                 paid : BOOLEAN, slow : BOOLEAN]

(* The shape of the row, of the transactions and of the relay's state.      *)
TypeOK ==
  /\ quota \in QuotaRow \cup {NoRow}
  /\ lock \in Topup \cup {"free", "worker"}
  /\ outage \in BOOLEAN
  /\ topup \in [Topup -> {"unpaid", "upserted", "paid"}]
  /\ worker \in WorkerState
  /\ handler \in [Conn -> HandlerState]
  /\ online \in SUBSET Domain /\ limited \in SUBSET Domain /\ isPaid \in SUBSET Domain
  /\ unsynced \in [Domain -> Nat]
  /\ carried \in Nat /\ charged \in Nat /\ credited \in Nat

(* The row has every committed charge and every committed payment, whatever *)
(* the order in which the worker and the webhooks read, decided and wrote.  *)
LedgerAddsUp ==
  IF quota = NoRow THEN charged = 0 /\ credited = 0
                   ELSE quota.used = charged /\ quota.purchased = credited

(* A transaction of the worker that leaves the quota used up leaves the     *)
(* user throttled, although it decides from a row that payments may have    *)
(* changed since.                                                           *)
UsedUpMeansThrottled ==
  [][charged' # charged => (quota'.used >= quota'.purchased => quota'.throttled)]_vars

(* Nothing but a committed payment lifts the throttle of a user.            *)
OnlyPaymentLiftsThrottle ==
  [][quota # NoRow /\ quota.throttled /\ ~quota'.throttled
       => \E t \in Topup : topup[t] # "paid" /\ topup'[t] = "paid"]_vars

(* Once the payments and the connection handlers are done, bytes of an      *)
(* online domain make the worker bring the domain's limiter in line with    *)
(* the row, unless the database fails, or the domain goes offline or        *)
(* reconnects first.                                                        *)
Settled == /\ \A t \in Topup : topup[t] = "paid"
           /\ \A c \in Conn : handler[c].pc = "idle"
           /\ ~outage
RowDecides(d) == quota # NoRow /\ (d \in limited <=> quota.throttled)
LimiterFollowsTheRow ==
  \A d \in Domain :
    (Settled /\ unsynced[d] > 0)
      ~> (RowDecides(d) \/ d \notin online \/ ~Settled)

(* AddBandwidthQuota lifts the throttle for good: a user whose quota is     *)
(* permanent and not used up is not throttled.                              *)
PaidQuotaIsUnthrottled ==
  quota # NoRow /\ quota.expires = "never" /\ quota.used < quota.purchased => ~quota.throttled
=============================================================================
