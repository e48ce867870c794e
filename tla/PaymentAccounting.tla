------------------------- MODULE PaymentAccounting -------------------------
(***************************************************************************)
(* What the payment ledger promises about money, with nothing of how it    *)
(* does so: money is captured at the gateway, the service books what was   *)
(* captured, and only money that was booked goes back to the payer, once.  *)
(* PaymentLedger implements this module.                                   *)
(***************************************************************************)
CONSTANT Orders         \* the payment orders

VARIABLES money,        \* where the money of each order is
          booked        \* the orders the service has acknowledged as paid

vars == <<money, booked>>

TypeOK == /\ money \in [Orders -> {"none", "captured", "returned"}]
          /\ booked \in SUBSET Orders

Init == /\ money = [o \in Orders |-> "none"]
        /\ booked = {}

Capture(o) == /\ money[o] = "none"
              /\ money' = [money EXCEPT ![o] = "captured"]
              /\ UNCHANGED booked

Book(o) == /\ money[o] = "captured"
           /\ o \notin booked
           /\ booked' = booked \cup {o}
           /\ UNCHANGED money

Return(o) == /\ money[o] = "captured"
             /\ o \in booked
             /\ money' = [money EXCEPT ![o] = "returned"]
             /\ UNCHANGED booked

Next == \E o \in Orders : Capture(o) \/ Book(o) \/ Return(o)

Spec == Init /\ [][Next]_vars
=============================================================================
