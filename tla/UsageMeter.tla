----------------------------- MODULE UsageMeter -----------------------------
(***************************************************************************)
(* What the pay-as-you-go billing of the relay promises, with none of the  *)
(* mechanism: every account (one direction of one agent connection) has a  *)
(* number of bytes it carried and a number of bytes that were charged to   *)
(* the quota of its owner.  Traffic only raises the first; the minute      *)
(* worker only raises the second, and never above the first: a byte is     *)
(* charged at most once, and only after it was carried.  A byte may stay   *)
(* uncharged for ever.                                                     *)
(***************************************************************************)
EXTENDS Naturals

CONSTANT Account

VARIABLES carried, charged

meterVars == <<carried, charged>>

Init ==
  /\ carried = [a \in Account |-> 0]
  /\ charged = [a \in Account |-> 0]

Carry ==
  /\ carried' \in [Account -> Nat]
  /\ \A a \in Account : carried[a] <= carried'[a]
  /\ UNCHANGED charged

Charge ==
  /\ charged' \in [Account -> Nat]
  /\ \A a \in Account : charged[a] <= charged'[a] /\ charged'[a] <= carried[a]
  /\ UNCHANGED carried

Next == Carry \/ Charge

Spec == Init /\ [][Next]_meterVars
=============================================================================
