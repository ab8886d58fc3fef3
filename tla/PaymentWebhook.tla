--------------------------- MODULE PaymentWebhook ---------------------------
(***************************************************************************)
(* Payments of one user: the invoices Xendit keeps, the notifications it   *)
(* sends, and the webhook handlers of the relay that turn a notification   *)
(* into rows (src/internal/billing/service.go, HandleWebhook in            *)
(* src/internal/tunnel/api.go, AddBandwidthQuota and ActivateSubscription  *)
(* in src/internal/db).                                                    *)
(*                                                                         *)
(* Every request has a goroutine of its own, so handlers overlap, also two *)
(* for the same invoice: Xendit repeats a notification until it was        *)
(* answered 200, and gives up waiting for an answer before the handler     *)
(* gives up (the request's context is then cancelled, which rolls the      *)
(* transaction back, or the answer to a committed one is lost).            *)
(*                                                                         *)
(* PostgreSQL runs the transactions at READ COMMITTED.  The upsert of the  *)
(* quota waits for the row of the user; DELETE sees the rows committed     *)
(* when it starts, waits for those that another transaction is deleting,   *)
(* and skips the ones that are gone by then.  Writes take effect here at   *)
(* the commit.                                                             *)
(***************************************************************************)
EXTENDS Naturals, FiniteSets

CONSTANTS
  Topup,        \* invoices of CreateTopupCheckout
  Plan,         \* invoices of CreateCheckout
  Simulated,    \* stands for SimulateWebhook, which has no invoice
  Call,         \* webhook handlers that may run at the same time
  NoCall,       \* nobody holds the row's lock
  BytesAdded,   \* topup invoice -> the bytes in its metadata
  MaxSent,      \* bound: notifications of one invoice
  MaxSimulated, \* bound: calls of SimulateWebhook
  MaxFail       \* bound: handlers that fail or whose answer is lost

Invoice == Topup \cup Plan
Source == Invoice \cup {Simulated}

ASSUME PaymentAssumption ==
  /\ Topup \cap Plan = {}
  /\ Simulated \notin Invoice
  /\ NoCall \notin Call
  /\ BytesAdded \in [Topup -> Nat]
  /\ MaxSent \in Nat /\ MaxSimulated \in Nat /\ MaxFail \in Nat

VARIABLES
  \* Xendit
  invoice,    \* invoice -> its status
  sent,       \* source -> notifications sent
  answered,   \* invoices whose payment notification was answered 200
  failed,     \* handlers that failed
  \* The relay
  call,       \* webhook handler -> where it is, and with what
  \* PostgreSQL
  entries,    \* topup -> its committed rows of topup_transactions
  purchased,  \* what payments added to total_bytes_purchased
  rowLock,    \* the handler that holds the lock of the quota row
  subs        \* the user's committed rows of subscriptions

xenditVars == <<invoice, sent, answered, failed>>
quotaVars == <<entries, purchased, rowLock>>
vars == <<xenditVars, call, quotaVars, subs>>

-----------------------------------------------------------------------------
\* A subscriptions row, known by the notification that inserted it.
SubscriptionRow == [source : Plan \cup {Simulated}, number : Nat]

IdleCall == [pc |-> "idle", source |-> Simulated, number |-> 0, seen |-> {}, gone |-> {}]

Init ==
  /\ invoice = [i \in Invoice |-> "none"]
  /\ sent = [s \in Source |-> 0]
  /\ answered = {}
  /\ failed = 0
  /\ call = [c \in Call |-> IdleCall]
  /\ entries = [t \in Topup |-> 0]
  /\ purchased = 0
  /\ rowLock = NoCall
  /\ subs = {}

-----------------------------------------------------------------------------
(* The invoices at Xendit                                                   *)

\* CreateCheckout and CreateTopupCheckout: the invoice carries in its metadata
\* all that the webhook will know.  Every failure leaves no invoice behind.
Checkout(i) ==
  /\ invoice[i] = "none"
  /\ invoice' = [invoice EXCEPT ![i] = "pending"]
  /\ UNCHANGED <<sent, answered, failed, call, quotaVars, subs>>

\* The user pays, or lets the invoice expire.
Settle(i, status) ==
  /\ invoice[i] = "pending"
  /\ invoice' = [invoice EXCEPT ![i] = status]
  /\ UNCHANGED <<sent, answered, failed, call, quotaVars, subs>>

-----------------------------------------------------------------------------
(* HandleWebhook and ProcessWebhook                                         *)

\* Fault: a payment that is no topup is taken for one to ignore.
FirstStepOfTopups(i) == IF invoice[i] = "PAID" /\ i \in Topup THEN "record" ELSE "answer"

\* ProcessWebhook ignores what is not PAID, and tells topups and plans apart
\* by the type in the metadata.
FirstStep(i) ==
  IF invoice[i] # "PAID" THEN "answer"
  ELSE IF i \in Topup THEN "record" ELSE "delete"

\* Xendit announces that the invoice was paid or expired, again and again
\* until a payment is answered 200.
Notify(c, i) ==
  /\ call[c].pc = "idle"
  /\ invoice[i] \in {"PAID", "EXPIRED"}
  /\ i \notin answered
  /\ sent[i] < MaxSent
  /\ sent' = [sent EXCEPT ![i] = @ + 1]
  /\ call' = [call EXCEPT ![c] = [IdleCall EXCEPT
       !.pc = FirstStep(i), !.source = i, !.number = sent[i] + 1]]
  /\ UNCHANGED <<invoice, answered, failed, quotaVars, subs>>

\* A user calls SimulateWebhook, which goes straight to ActivateSubscription.
SimulateWebhook(c) ==
  /\ call[c].pc = "idle"
  /\ sent[Simulated] < MaxSimulated
  /\ sent' = [sent EXCEPT ![Simulated] = @ + 1]
  /\ call' = [call EXCEPT ![c] = [IdleCall EXCEPT
       !.pc = "delete", !.source = Simulated, !.number = sent[Simulated] + 1]]
  /\ UNCHANGED <<invoice, answered, failed, quotaVars, subs>>

\* The handler has answered 200.
Answer(c) ==
  /\ call[c].pc = "answer"
  /\ answered' = answered \cup ({call[c].source} \ {Simulated})
  /\ call' = [call EXCEPT ![c] = IdleCall]
  /\ UNCHANGED <<invoice, sent, failed, quotaVars, subs>>

\* The handler answered 200 and nobody heard it.
LoseAnswer(c) ==
  /\ call[c].pc = "answer"
  /\ failed < MaxFail
  /\ failed' = failed + 1
  /\ call' = [call EXCEPT ![c] = IdleCall]
  /\ UNCHANGED <<invoice, sent, answered, quotaVars, subs>>

\* Fault: the error of the transaction is dropped, and the answer is 200.
RollbackAnswersOK(c) ==
  /\ call[c].pc \notin {"idle", "answer"}
  /\ failed < MaxFail
  /\ failed' = failed + 1
  /\ rowLock' = IF rowLock = c THEN NoCall ELSE rowLock
  /\ call' = [call EXCEPT ![c].pc = "answer", ![c].seen = {}, ![c].gone = {}]
  /\ UNCHANGED <<invoice, sent, answered, entries, purchased, subs>>

\* A statement fails, the request's context is cancelled, or the relay stops:
\* tx.Rollback, and Xendit gets a 500 or nothing.
Rollback(c) ==
  /\ call[c].pc \notin {"idle", "answer"}
  /\ failed < MaxFail
  /\ failed' = failed + 1
  /\ rowLock' = IF rowLock = c THEN NoCall ELSE rowLock
  /\ call' = [call EXCEPT ![c] = IdleCall]
  /\ UNCHANGED <<invoice, sent, answered, entries, purchased, subs>>

-----------------------------------------------------------------------------
(* AddBandwidthQuota                                                        *)

\* Fault: the INSERT runs outside the transaction.
RecordTopupAtOnce(c) ==
  /\ call[c].pc = "record"
  /\ rowLock = NoCall
  /\ rowLock' = c
  /\ entries' = [entries EXCEPT ![call[c].source] = @ + 1]
  /\ call' = [call EXCEPT ![c].pc = "commit topup"]
  /\ UNCHANGED <<xenditVars, purchased, subs>>

\* INSERT INTO topup_transactions, which nothing can hold up, and the upsert
\* of the quota, which waits for the row's lock.
RecordTopup(c) ==
  /\ call[c].pc = "record"
  /\ rowLock = NoCall
  /\ rowLock' = c
  /\ call' = [call EXCEPT ![c].pc = "commit topup"]
  /\ UNCHANGED <<xenditVars, entries, purchased, subs>>

CommitTopup(c) ==
  LET t == call[c].source IN
  /\ call[c].pc = "commit topup"
  /\ entries' = [entries EXCEPT ![t] = @ + 1]
  /\ purchased' = purchased + BytesAdded[t]
  /\ rowLock' = NoCall
  /\ call' = [call EXCEPT ![c].pc = "answer"]
  /\ UNCHANGED <<xenditVars, subs>>

-----------------------------------------------------------------------------
(* ActivateSubscription                                                     *)

\* DELETE starts, with the rows committed so far.
StartDelete(c) ==
  /\ call[c].pc = "delete"
  /\ call' = [call EXCEPT ![c].pc = "deleting", ![c].seen = subs]
  /\ UNCHANGED <<xenditVars, quotaVars, subs>>

\* Fault: DELETE is a statement of its own, committed at once.
FinishDeleteAtOnce(c) ==
  /\ call[c].pc = "deleting"
  /\ \A o \in Call \ {c} : call[o].gone \cap call[c].seen = {}
  /\ call' = [call EXCEPT ![c].pc = "commit plan", ![c].seen = {}]
  /\ subs' = subs \ call[c].seen
  /\ UNCHANGED <<xenditVars, quotaVars>>

\* DELETE ends, once none of these rows is being deleted by another.
FinishDelete(c) ==
  /\ call[c].pc = "deleting"
  /\ \A o \in Call \ {c} : call[o].gone \cap call[c].seen = {}
  /\ call' = [call EXCEPT ![c].pc = "commit plan", ![c].seen = {},
                          ![c].gone = call[c].seen \cap subs]
  /\ UNCHANGED <<xenditVars, quotaVars, subs>>

\* INSERT, always with 31 days, and COMMIT.
CommitPlan(c) ==
  /\ call[c].pc = "commit plan"
  /\ subs' = (subs \ call[c].gone)
       \cup {[source |-> call[c].source, number |-> call[c].number]}
  /\ call' = [call EXCEPT ![c].pc = "answer", ![c].gone = {}]
  /\ UNCHANGED <<xenditVars, quotaVars>>

-----------------------------------------------------------------------------
Handler(c) ==
  \/ RecordTopup(c) \/ CommitTopup(c)
  \/ StartDelete(c) \/ FinishDelete(c) \/ CommitPlan(c)
  \/ Answer(c)

\* No handler is running: the relay waits for a request.  A handler that waits
\* for another one for ever is a deadlock.
NoRequest ==
  /\ \A c \in Call : call[c].pc = "idle"
  /\ UNCHANGED vars

Next ==
  \/ NoRequest
  \/ \E i \in Invoice : Checkout(i) \/ Settle(i, "PAID") \/ Settle(i, "EXPIRED")
  \/ \E c \in Call :
       \/ \E i \in Invoice : Notify(c, i)
       \/ SimulateWebhook(c)
       \/ Handler(c) \/ Rollback(c) \/ LoseAnswer(c)

Spec == Init /\ [][Next]_vars

\* A handler that was started goes on, the lock of the row is handed out
\* fairly, and Xendit repeats a payment notification that was not answered.
FairSpec ==
  /\ Spec
  /\ \A c \in Call :
       /\ WF_vars(CommitTopup(c) \/ StartDelete(c) \/ FinishDelete(c) \/ CommitPlan(c) \/ Answer(c))
       /\ SF_vars(RecordTopup(c))
  /\ \A i \in Invoice : SF_vars(\E c \in Call : Notify(c, i))

-----------------------------------------------------------------------------
CallState == [pc : {"idle", "record", "commit topup", "delete", "deleting", "commit plan", "answer"},
              source : Source, number : Nat,
              seen : SUBSET SubscriptionRow, gone : SUBSET SubscriptionRow]

(* The shape of the invoices, the handlers and the rows.                    *)
TypeOK ==
  /\ invoice \in [Invoice -> {"none", "pending", "PAID", "EXPIRED"}]
  /\ sent \in [Source -> Nat]
  /\ answered \in SUBSET Invoice
  /\ failed \in Nat
  /\ call \in [Call -> CallState]
  /\ entries \in [Topup -> Nat]
  /\ purchased \in Nat
  /\ rowLock \in Call \cup {NoCall}
  /\ subs \in SUBSET SubscriptionRow

(* AddBandwidthQuota enters a payment and adds its bytes in one step, and   *)
(* only for invoices that were paid, whatever overlaps, fails or is         *)
(* repeated: the rows implement the abstract ledger.                        *)
Ledger == INSTANCE PaymentLedger WITH paid <- {t \in Topup : invoice[t] = "PAID"}
ImplementsLedger == Ledger!Spec

(* A payment whose notification was answered 200, which Xendit therefore    *)
(* never repeats, has its row in topup_transactions.                        *)
AnsweredIsEntered ==
  \A t \in Topup \cap answered : invoice[t] = "PAID" => entries[t] > 0

(* ActivateSubscription replaces the plan without a moment in which another *)
(* request finds the user without one.                                      *)
PlanIsNeverMissing == [][subs # {} => subs' # {}]_vars

(* "Nonaktifkan subscription lama": a user has at most one subscription.    *)
OneSubscription == \A r, s \in subs : r = s

(* Every paid topup is entered in the end, and so is every paid plan or the *)
(* one that replaced it.                                                    *)
PaidIsEntered ==
  /\ \A t \in Topup : invoice[t] = "PAID" ~> entries[t] > 0
  /\ \A p \in Plan : invoice[p] = "PAID" ~> subs # {}
=============================================================================
