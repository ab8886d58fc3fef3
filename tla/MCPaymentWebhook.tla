-------------------------- MODULE MCPaymentWebhook --------------------------
(* PaymentWebhook for TLC. *)
EXTENDS PaymentWebhook

\* Every topup buys two units.
MCBytesAdded == [t \in Topup |-> 2]
=============================================================================
