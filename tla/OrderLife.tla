----------------------------- MODULE OrderLife -----------------------------
(***************************************************************************)
(* What an order promises buyer and seller, whatever Stripe, webhooks and  *)
(* handlers do underneath: it is paid only after the buyer was charged,    *)
(* it is paid or cancelled but never both, and either is for good.         *)
(***************************************************************************)
CONSTANT Orders

VARIABLES
  status,    \* orders.payment_status
  charged    \* the orders whose buyer Stripe has charged

Init ==
  /\ status = [o \in Orders |-> "PENDING"]
  /\ charged = {}

Charge(o) ==
  /\ charged' = charged \cup {o}
  /\ UNCHANGED status

Settle(o) ==
  /\ status[o] = "PENDING"
  /\ o \in charged
  /\ status' = [status EXCEPT ![o] = "PAID"]
  /\ UNCHANGED charged

Cancel(o) ==
  /\ status[o] = "PENDING"
  /\ status' = [status EXCEPT ![o] = "CANCELLED_UNPAID"]
  /\ UNCHANGED charged

Next == \E o \in Orders : Charge(o) \/ Settle(o) \/ Cancel(o)

Spec == Init /\ [][Next]_<<status, charged>>
=============================================================================
