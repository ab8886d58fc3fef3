------------------------ MODULE BandwidthQuotaProofs ------------------------
(***************************************************************************)
(* The quota ledger for every number of domains, agents and payments, and  *)
(* every amount.                                                           *)
(***************************************************************************)
EXTENDS BandwidthQuota, TLAPS

\* The row's lock belongs to the transaction that wrote and did not commit yet.
LockIsHeld ==
  /\ \A t \in Topup : topup[t] = "upserted" <=> lock = t
  /\ worker.pc = "commit" <=> lock = "worker"

\* What the worker decided from the row it selected is on the safe side of the
\* row as it is now: payments only add quota and only lift the throttle.
DecisionIsSafe ==
  /\ worker.pc \in {"update", "commit", "apply"} => quota # NoRow
  /\ worker.pc \in {"update", "commit"} /\ ~worker.slow =>
       quota.used + worker.bytes < quota.purchased /\ ~quota.throttled

\* A busy worker, and a busy handler, has a domain.
DomainIsKnown ==
  /\ worker.pc # "idle" => worker.dom \in Domain
  /\ \A c \in Conn : handler[c].pc # "idle" => handler[c].dom \in Domain

IndInv == TypeOK /\ LedgerAddsUp /\ LockIsHeld /\ DecisionIsSafe /\ DomainIsKnown

USE QuotaAssumption, NoRowAssumption
USE DEF IndInv, vars, dbVars, managerVars, history

LEMMA InitIndInv == Init => IndInv
<1> SUFFICES ASSUME Init PROVE IndInv
  OBVIOUS
<1> USE DEF Init
<1>1. BonusRow \in QuotaRow /\ BonusRow.used = 0 /\ BonusRow.purchased = BonusBytes
  BY DEF QuotaRow, BonusRow
<1>2. IdleWorker \in WorkerState /\ IdleHandler \in HandlerState
  BY DEF WorkerState, HandlerState, IdleWorker, IdleHandler
<1>3. TypeOK
  <2>1. outage \in BOOLEAN
    BY Zenon
  <2>2. quota \in QuotaRow \cup {NoRow} /\ credited \in Nat
    BY <1>1
  <2> QED BY <1>2, <2>1, <2>2 DEF TypeOK
<1>4. LedgerAddsUp
  BY <1>1 DEF LedgerAddsUp
<1>5. LockIsHeld
  BY DEF LockIsHeld, IdleWorker
<1>6. DecisionIsSafe /\ DomainIsKnown
  BY DEF DecisionIsSafe, DomainIsKnown, IdleWorker, IdleHandler
<1> QED BY <1>3, <1>4, <1>5, <1>6

LEMMA UpsertQuotaStep ==
  ASSUME IndInv, NEW t \in Topup, UpsertQuota(t)
  PROVE  IndInv'
BY DEF UpsertQuota, TypeOK, LedgerAddsUp, LockIsHeld, DecisionIsSafe, DomainIsKnown

LEMMA CommitTopupStep ==
  ASSUME IndInv, NEW t \in Topup, CommitTopup(t)
  PROVE  IndInv'
<1>1. /\ quota' \in QuotaRow
      /\ quota'.throttled = FALSE
      /\ quota'.used = IF quota = NoRow THEN 0 ELSE quota.used
      /\ quota'.purchased = IF quota = NoRow THEN TopupBytes ELSE quota.purchased + TopupBytes
  <2>1. CASE quota = NoRow
    BY <2>1 DEF QuotaRow, CommitTopup
  <2>2. CASE quota # NoRow
    <3>1. quota \in QuotaRow
      BY <2>2 DEF TypeOK
    <3>2. quota' = [quota EXCEPT !.purchased = quota.purchased + TopupBytes,
                                 !.throttled = FALSE, !.expires = "never"]
      BY <2>2 DEF CommitTopup
    <3>3. quota.purchased + TopupBytes \in Nat
      BY <3>1 DEF QuotaRow
    <3> QED BY <2>2, <3>1, <3>2, <3>3 DEF QuotaRow
  <2> QED BY <2>1, <2>2
<1>2. credited' = credited + TopupBytes /\ UNCHANGED <<worker, handler, charged>>
  BY DEF CommitTopup
<1>3. TypeOK'
  BY <1>1 DEF TypeOK, CommitTopup
<1>4. LedgerAddsUp'
  BY <1>1, <1>2 DEF LedgerAddsUp, TypeOK
<1>5. LockIsHeld'
  BY DEF LockIsHeld, TypeOK, CommitTopup
<1>6. DecisionIsSafe'
  <2>1. CASE quota = NoRow
    BY <2>1, <1>1, <1>2 DEF DecisionIsSafe
  <2>2. CASE quota # NoRow
    <3>1. quota.used \in Nat /\ quota.purchased \in Nat /\ worker.bytes \in Nat
      BY <2>2 DEF TypeOK, QuotaRow, WorkerState
    <3> QED BY <2>2, <3>1, <1>1, <1>2 DEF DecisionIsSafe
  <2> QED BY <2>1, <2>2
<1> QED BY <1>2, <1>3, <1>4, <1>5, <1>6 DEF DomainIsKnown

LEMMA AbortTopupStep ==
  ASSUME IndInv, NEW t \in Topup, AbortTopup(t)
  PROVE  IndInv'
BY DEF AbortTopup, TypeOK, LedgerAddsUp, LockIsHeld, DecisionIsSafe, DomainIsKnown

LEMMA ExpireStep ==
  ASSUME IndInv, Expire
  PROVE  IndInv'
<1> USE DEF Expire
<1>1. /\ quota' \in QuotaRow
      /\ quota'.throttled = quota.throttled
      /\ quota'.used = quota.used /\ quota'.purchased = quota.purchased
  BY DEF TypeOK, QuotaRow
<1> QED BY <1>1 DEF TypeOK, LedgerAddsUp, LockIsHeld, DecisionIsSafe, DomainIsKnown

LEMMA OutageStep ==
  ASSUME IndInv, Outage
  PROVE  IndInv'
BY DEF Outage, TypeOK, LedgerAddsUp, LockIsHeld, DecisionIsSafe, DomainIsKnown

LEMMA TakeUsageStep ==
  ASSUME IndInv, NEW d \in Domain, TakeUsage(d)
  PROVE  IndInv'
BY DEF TakeUsage, TypeOK, WorkerState, LedgerAddsUp, LockIsHeld, DecisionIsSafe, DomainIsKnown

LEMMA SelectQuotaStep ==
  ASSUME IndInv, SelectQuota
  PROVE  IndInv'
<1> USE DEF SelectQuota
<1>1. /\ worker' \in WorkerState
      /\ worker'.pc = "update" /\ worker'.bytes = worker.bytes
      /\ worker'.slow = ShouldThrottle(quota, worker.bytes)
  <2>1. ShouldThrottle(quota, worker.bytes) \in BOOLEAN
    BY DEF ShouldThrottle, TypeOK, QuotaRow
  <2> QED BY <2>1 DEF TypeOK, WorkerState
<1>2. quota \in QuotaRow /\ worker.bytes \in Nat /\ quota' = quota
  BY DEF TypeOK, WorkerState
<1>3. ~worker'.slow => quota.used + worker.bytes < quota.purchased /\ ~quota.throttled
  <2>1. ~ShouldThrottle(quota, worker.bytes) =>
          ~quota.throttled /\ ~(quota.used + worker.bytes >= quota.purchased)
    BY DEF ShouldThrottle
  <2>2. quota.used \in Nat /\ quota.purchased \in Nat
    BY <1>2 DEF QuotaRow
  <2> QED BY <1>1, <1>2, <2>1, <2>2
<1>4. DecisionIsSafe'
  BY <1>1, <1>2, <1>3 DEF DecisionIsSafe
<1> QED BY <1>1, <1>4 DEF TypeOK, LedgerAddsUp, LockIsHeld, DomainIsKnown

LEMMA SelectNothingStep ==
  ASSUME IndInv, SelectNothing
  PROVE  IndInv'
BY DEF SelectNothing, IdleWorker, TypeOK, WorkerState, LedgerAddsUp, LockIsHeld, DecisionIsSafe, DomainIsKnown

LEMMA UpdateQuotaStep ==
  ASSUME IndInv, UpdateQuota
  PROVE  IndInv'
BY DEF UpdateQuota, TypeOK, WorkerState, LedgerAddsUp, LockIsHeld, DecisionIsSafe, DomainIsKnown

LEMMA CommitUsageStep ==
  ASSUME IndInv, CommitUsage
  PROVE  IndInv'
<1> USE DEF CommitUsage
<1>1. worker.bytes \in Nat /\ worker.slow \in BOOLEAN /\ quota \in QuotaRow
  BY DEF TypeOK, WorkerState, DecisionIsSafe
<1>2. /\ quota' \in QuotaRow
      /\ quota'.used = quota.used + worker.bytes /\ quota'.purchased = quota.purchased
  <2> HIDE DEF CommitUsage
  <2>1. quota' = [quota EXCEPT !.used = quota.used + worker.bytes, !.throttled = worker.slow]
    BY DEF CommitUsage
  <2>2. quota.used + worker.bytes \in Nat
    BY <1>1 DEF QuotaRow
  <2> QED BY <1>1, <2>1, <2>2 DEF QuotaRow
<1>3. /\ worker' \in WorkerState /\ worker'.pc \in {"idle", "apply"}
      /\ worker'.pc # "idle" => worker'.dom = worker.dom
  <2>1. [worker EXCEPT !.pc = "apply"] \in WorkerState
    BY DEF TypeOK, WorkerState
  <2>2. CASE worker' = [worker EXCEPT !.pc = "apply"]
    BY <2>1, <2>2 DEF TypeOK, WorkerState
  <2>3. CASE worker' = IdleWorker
    BY <2>3 DEF WorkerState, IdleWorker
  <2> QED BY <2>2, <2>3
<1>4. TypeOK'
  BY <1>1, <1>2, <1>3 DEF TypeOK
<1>5. LedgerAddsUp'
  BY <1>1, <1>2 DEF LedgerAddsUp
<1>6. LockIsHeld'
  BY <1>3 DEF LockIsHeld, TypeOK
<1>7. DecisionIsSafe'
  BY <1>2, <1>3 DEF DecisionIsSafe
<1>8. DomainIsKnown'
  BY <1>3 DEF DomainIsKnown
<1> QED BY <1>4, <1>5, <1>6, <1>7, <1>8

LEMMA AbortUsageStep ==
  ASSUME IndInv, AbortUsage
  PROVE  IndInv'
BY DEF AbortUsage, IdleWorker, TypeOK, WorkerState, LedgerAddsUp, LockIsHeld, DecisionIsSafe, DomainIsKnown

LEMMA ApplyThrottleStep ==
  ASSUME IndInv, ApplyThrottle
  PROVE  IndInv'
<1> USE DEF ApplyThrottle
<1>1. worker.dom \in Domain
  BY DEF DomainIsKnown
<1>2. IdleWorker \in WorkerState
  BY DEF IdleWorker, WorkerState
<1>3. TypeOK'
  BY <1>1, <1>2 DEF TypeOK
<1> QED BY <1>3 DEF IdleWorker, LedgerAddsUp, LockIsHeld, DecisionIsSafe, DomainIsKnown

LEMMA HandlerStep ==
  ASSUME IndInv, NEW c \in Conn, Handler(c)
  PROVE  IndInv'
<1>1. UNCHANGED <<dbVars, worker, history>>
  BY DEF Handler, Connect, ReadQuota, SetPaidStatus, ThrottleOnConnect
<1>2. PICK h \in HandlerState :
        handler' = [handler EXCEPT ![c] = h] /\ (h.pc # "idle" => h.dom \in Domain)
  <2> DEFINE At(h) == handler' = [handler EXCEPT ![c] = h]
  <2>1. handler[c] \in HandlerState /\ IdleHandler \in HandlerState /\ IdleHandler.pc = "idle"
    BY DEF TypeOK, IdleHandler, HandlerState
  <2>2. ASSUME NEW d \in Domain, Connect(c, d)
        PROVE  At([IdleHandler EXCEPT !.pc = "added", !.dom = d])
    BY <2>2 DEF Connect
  <2>3. ASSUME ReadQuota(c)
        PROVE  /\ handler[c].pc = "added"
               /\ \/ At(IdleHandler)
                  \/ \E p, q \in BOOLEAN :
                       At([pc |-> "read", dom |-> handler[c].dom, paid |-> p, slow |-> q])
    <3>1. (quota = NoRow \/ quota.expires = "never") \in BOOLEAN
      OBVIOUS
    <3>2. (quota = NoRow \/ quota.throttled) \in BOOLEAN
      BY DEF TypeOK, QuotaRow
    <3> QED BY <2>3, <3>1, <3>2 DEF ReadQuota
  <2>4. ASSUME SetPaidStatus(c)
        PROVE  /\ handler[c].pc = "read"
               /\ At([handler[c] EXCEPT !.pc = "slow"]) \/ At(IdleHandler)
    BY <2>4 DEF SetPaidStatus
  <2>5. ASSUME ThrottleOnConnect(c) PROVE At(IdleHandler)
    BY <2>5 DEF ThrottleOnConnect
  <2>6. handler[c].pc # "idle" => handler[c].dom \in Domain
    BY DEF DomainIsKnown
  <2>7. [handler[c] EXCEPT !.pc = "slow"] \in HandlerState
        /\ [handler[c] EXCEPT !.pc = "slow"].dom = handler[c].dom
    BY <2>1 DEF HandlerState
  <2>8. ASSUME NEW d \in Domain
        PROVE  /\ [IdleHandler EXCEPT !.pc = "added", !.dom = d] \in HandlerState
               /\ [IdleHandler EXCEPT !.pc = "added", !.dom = d].dom = d
    BY DEF HandlerState, IdleHandler
  <2>9. ASSUME NEW p \in BOOLEAN, NEW q \in BOOLEAN, handler[c].pc = "added"
        PROVE  [pc |-> "read", dom |-> handler[c].dom, paid |-> p, slow |-> q] \in HandlerState
    BY <2>1 DEF HandlerState
  <2> HIDE DEF IndInv, HandlerState
  <2>a. CASE \E d \in Domain : Connect(c, d)
    <3>1. PICK d \in Domain : Connect(c, d)
      BY <2>a
    <3> DEFINE h == [IdleHandler EXCEPT !.pc = "added", !.dom = d]
    <3>2. h \in HandlerState /\ h.dom \in Domain
      BY <2>8
    <3>3. At(h)
      BY <3>1, <2>2
    <3> HIDE DEF h
    <3> QED BY <3>2, <3>3
  <2>b. CASE ReadQuota(c)
    <3>1. CASE At(IdleHandler)
      BY <3>1, <2>1
    <3>2. CASE \E p, q \in BOOLEAN :
                 At([pc |-> "read", dom |-> handler[c].dom, paid |-> p, slow |-> q])
      <4>1. PICK p \in BOOLEAN, q \in BOOLEAN :
                 At([pc |-> "read", dom |-> handler[c].dom, paid |-> p, slow |-> q])
        BY <3>2
      <4> QED BY <4>1, <2>b, <2>3, <2>6, <2>9
    <3> QED BY <2>b, <2>3, <3>1, <3>2
  <2>c. CASE SetPaidStatus(c)
    BY <2>c, <2>1, <2>4, <2>6, <2>7
  <2>d. CASE ThrottleOnConnect(c)
    BY <2>d, <2>1, <2>5
  <2> QED BY <2>a, <2>b, <2>c, <2>d DEF Handler
<1>3. TypeOK'
  <2>1. handler' \in [Conn -> HandlerState]
    BY <1>2 DEF TypeOK
  <2>2. /\ online' \in SUBSET Domain /\ limited' \in SUBSET Domain /\ isPaid' \in SUBSET Domain
        /\ unsynced' \in [Domain -> Nat]
    <3>1. CASE \E d \in Domain : Connect(c, d)
      BY <3>1 DEF Connect, TypeOK
    <3>2. CASE ReadQuota(c)
      BY <3>2 DEF ReadQuota, TypeOK
    <3>3. CASE SetPaidStatus(c)
      BY <3>3 DEF SetPaidStatus, TypeOK, DomainIsKnown
    <3>4. CASE ThrottleOnConnect(c)
      BY <3>4 DEF ThrottleOnConnect, TypeOK, DomainIsKnown
    <3> QED BY <3>1, <3>2, <3>3, <3>4 DEF Handler
  <2> QED BY <1>1, <2>1, <2>2 DEF TypeOK
<1>4. DomainIsKnown'
  BY <1>1, <1>2 DEF DomainIsKnown, TypeOK
<1> QED BY <1>1, <1>3, <1>4 DEF LedgerAddsUp, LockIsHeld, DecisionIsSafe

LEMMA NextIndInv == IndInv /\ [Next]_vars => IndInv'
<1> SUFFICES ASSUME IndInv, [Next]_vars PROVE IndInv'
  OBVIOUS
<1>1. CASE Worker
  BY <1>1, TakeUsageStep, SelectQuotaStep, SelectNothingStep, UpdateQuotaStep, CommitUsageStep,
     AbortUsageStep, ApplyThrottleStep DEF Worker
<1>2. ASSUME NEW t \in Topup, Webhook(t) PROVE IndInv'
  BY <1>2, UpsertQuotaStep, CommitTopupStep, AbortTopupStep DEF Webhook
<1>3. ASSUME NEW c \in Conn, Handler(c) PROVE IndInv'
  BY <1>3, HandlerStep
<1>4. ASSUME NEW d \in Domain, Leave(d) \/ Traffic(d) PROVE IndInv'
  BY <1>4 DEF Leave, Traffic, TypeOK, LedgerAddsUp, LockIsHeld, DecisionIsSafe, DomainIsKnown
<1>5. CASE Expire \/ Outage
  BY <1>5, ExpireStep, OutageStep
<1>6. CASE UNCHANGED vars
  BY <1>6 DEF TypeOK, LedgerAddsUp, LockIsHeld, DecisionIsSafe, DomainIsKnown
<1> QED BY <1>1, <1>2, <1>3, <1>4, <1>5, <1>6 DEF Next

(* The inductive invariant holds in every reachable state.                  *)
THEOREM Inductive == Spec => []IndInv
BY InitIndInv, NextIndInv, PTL DEF Spec

(* The row, the transactions and the relay's state keep their shape.        *)
THEOREM TypeCorrect == Spec => []TypeOK
<1>1. IndInv => TypeOK
  OBVIOUS
<1> QED BY <1>1, Inductive, PTL

(* No interleaving of the worker's and the webhooks' transactions loses a   *)
(* charge or a payment.                                                     *)
THEOREM LedgerAlwaysAddsUp == Spec => []LedgerAddsUp
<1>1. IndInv => LedgerAddsUp
  OBVIOUS
<1> QED BY <1>1, Inductive, PTL

(* UpdateBandwidthUsage never leaves a used-up quota unthrottled, whatever  *)
(* happened between its SELECT and its UPDATE.                              *)
THEOREM UsedUpIsThrottled == Spec => UsedUpMeansThrottled
<1>1. IndInv /\ [Next]_vars =>
        [charged' # charged => (quota'.used >= quota'.purchased => quota'.throttled)]_vars
  <2> SUFFICES ASSUME IndInv, Next, charged' # charged, quota'.used >= quota'.purchased
               PROVE  quota'.throttled
    OBVIOUS
  <2>1. CommitUsage
    BY DEF Next, Worker, TakeUsage, SelectQuota, SelectNothing, UpdateQuota, AbortUsage,
       ApplyThrottle, Webhook, UpsertQuota, CommitTopup, AbortTopup, Handler, Connect,
       ReadQuota, SetPaidStatus, ThrottleOnConnect, Leave, Traffic, Expire, Outage
  <2>2. worker.bytes \in Nat /\ worker.slow \in BOOLEAN /\ quota \in QuotaRow
    BY <2>1 DEF CommitUsage, TypeOK, WorkerState, DecisionIsSafe
  <2>3. /\ quota'.used = quota.used + worker.bytes /\ quota'.purchased = quota.purchased
        /\ quota'.throttled = worker.slow
    BY <2>1, <2>2 DEF CommitUsage, QuotaRow
  <2>4. worker.slow
    BY <2>1, <2>2, <2>3 DEF CommitUsage, DecisionIsSafe, QuotaRow
  <2> QED BY <2>3, <2>4
<1> QED BY <1>1, Inductive, PTL DEF Spec, UsedUpMeansThrottled

(* A throttled user is unthrottled in the row by a payment and by nothing   *)
(* else.                                                                    *)
THEOREM PaymentAloneLiftsThrottle == Spec => OnlyPaymentLiftsThrottle
<1>1. IndInv /\ [Next]_vars =>
        [quota # NoRow /\ quota.throttled /\ ~quota'.throttled
           => \E t \in Topup : topup[t] # "paid" /\ topup'[t] = "paid"]_vars
  <2> SUFFICES ASSUME IndInv, Next, quota # NoRow, quota.throttled, ~quota'.throttled
               PROVE  \E t \in Topup : topup[t] # "paid" /\ topup'[t] = "paid"
    OBVIOUS
  <2>1. ~CommitUsage
    <3> SUFFICES ASSUME CommitUsage PROVE FALSE
      OBVIOUS
    <3>1. quota'.throttled = worker.slow
      BY DEF CommitUsage, TypeOK, QuotaRow
    <3> QED BY <3>1 DEF CommitUsage, DecisionIsSafe
  <2>2. ~Expire
    BY DEF Expire, TypeOK, QuotaRow
  <2>3. \E t \in Topup : CommitTopup(t)
    BY <2>1, <2>2 DEF Next, Worker, TakeUsage, SelectQuota, SelectNothing, UpdateQuota,
       AbortUsage, ApplyThrottle, Webhook, UpsertQuota, AbortTopup, Handler, Connect,
       ReadQuota, SetPaidStatus, ThrottleOnConnect, Leave, Traffic, Outage
  <2> QED BY <2>3 DEF CommitTopup, TypeOK
<1> QED BY <1>1, Inductive, PTL DEF Spec, OnlyPaymentLiftsThrottle
=============================================================================
