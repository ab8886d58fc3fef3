---------------------------- MODULE PaymentLedger ----------------------------
(***************************************************************************)
(* What the payment side promises about topups, with none of its           *)
(* mechanism: a payment that was made may be entered in the ledger, and    *)
(* the entry and the bytes it buys are one step.  Nothing is entered that  *)
(* was not paid.  The promise is weak on purpose: it does not say that a   *)
(* payment is entered once, because the code does not.                     *)
(***************************************************************************)
EXTENDS Naturals

CONSTANTS Topup, BytesAdded

VARIABLES paid, entries, purchased

ledgerVars == <<paid, entries, purchased>>

Init ==
  /\ paid = {}
  /\ entries = [t \in Topup |-> 0]
  /\ purchased = 0

Pay(t) ==
  /\ paid' = paid \cup {t}
  /\ UNCHANGED <<entries, purchased>>

Enter(t) ==
  /\ t \in paid
  /\ entries' = [entries EXCEPT ![t] = @ + 1]
  /\ purchased' = purchased + BytesAdded[t]
  /\ UNCHANGED paid

Next == \E t \in Topup : Pay(t) \/ Enter(t)

Spec == Init /\ [][Next]_ledgerVars
=============================================================================
