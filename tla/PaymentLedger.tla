--------------------------- MODULE PaymentLedger ---------------------------
(***************************************************************************)
(* The central payment ledger (src/services/payments): payment orders,     *)
(* their fulfilment by the client's verify call and by gateway webhooks,   *)
(* the failure path, invoices and refunds.                                 *)
(*                                                                         *)
(* A transaction that holds the rows it reads with FOR UPDATE is one       *)
(* step.  An await outside a transaction separates two steps, so a request *)
(* is a process with a program counter and the values it has read.  The    *)
(* gateway (Razorpay) is external: it authorizes and captures payments,    *)
(* reports failed attempts, repeats its webhooks and refunds once.         *)
(*                                                                         *)
(* The product's handlers (what is fulfilled, reverted, revoked) belong to *)
(* the module that composes the ledger.  Here a fulfilment handler returns *)
(* or throws, and nothing more is known of it.                             *)
(***************************************************************************)
EXTENDS Naturals, FiniteSets

CONSTANTS
  Orders,      \* rows of payment_orders
  Refs,        \* the (module, user, reference) groups orders belong to
  Products,    \* priced products; a product stands for its price too
  Attempts,    \* payment attempts that fail, each of one order (bounds the webhooks)
  Refunds,     \* rows of payment_refunds
  Procs,       \* requests the API process serves at the same time
  None         \* a null column or an unset local

VARIABLES
  order,       \* the payment_orders table
  refund,      \* the payment_refunds table
  invoiced,    \* orders with a payment_invoices row (unique payment_order_id)
  gateway,     \* what the gateway holds for each order
  sent,        \* webhook events the gateway has emitted and keeps delivering
  processed,   \* razorpay_webhook_events: the events marked as processed
  proc         \* the requests: program counter and locals

ledgerVars == <<order, refund, invoiced, gateway, sent, processed, proc>>

OrderStatuses  == {"ABSENT", "CREATED", "PAID", "FAILED", "REFUNDED"}
RefundStatuses == {"ABSENT", "PENDING", "PROCESSED", "FAILED"}
GatewayStates  == {"unpaid", "authorized", "captured", "refunded"}

\* A captured event has no failed attempt.  payment.captured and order.paid
\* are handled alike and stand for one event.
Events == [kind : {"captured"}, order : Orders, attempt : {None}]
            \cup [kind : {"failed"}, order : Orders, attempt : Attempts]

ASSUME LedgerAssumption ==
  /\ None \notin Orders /\ None \notin Refs /\ None \notin Products
  /\ None \notin Refunds /\ None \notin Attempts /\ None \notin Events

CapturedEvent(o)  == [kind |-> "captured", order |-> o, attempt |-> None]
FailedEvent(o, n) == [kind |-> "failed", order |-> o, attempt |-> n]

OrderRows  == [status : OrderStatuses, ref : Refs \cup {None},
               product : Products \cup {None}, duplicate : BOOLEAN]
RefundRows == [order : Orders \cup {None}, status : RefundStatuses, fresh : BOOLEAN]

Pcs == {"idle", "fulfil", "mark", "failWrite", "failHandle",
        "refundFetch", "refundCall", "refundFail", "refundCommit"}
Locals == [pc : Pcs, order : Orders \cup {None}, event : Events \cup {None},
           captured : BOOLEAN, refund : Refunds \cup {None}]
Idle == [pc |-> "idle", order |-> None, event |-> None, captured |-> FALSE,
         refund |-> None]

LedgerTypeOK ==
  /\ order \in [Orders -> OrderRows]
  /\ refund \in [Refunds -> RefundRows]
  /\ invoiced \in SUBSET Orders
  /\ gateway \in [Orders -> GatewayStates]
  /\ sent \in SUBSET Events
  /\ processed \in SUBSET Events
  /\ proc \in [Procs -> Locals]

LedgerInit ==
  /\ order = [o \in Orders |-> [status |-> "ABSENT", ref |-> None,
                                product |-> None, duplicate |-> FALSE]]
  /\ refund = [r \in Refunds |-> [order |-> None, status |-> "ABSENT", fresh |-> FALSE]]
  /\ invoiced = {}
  /\ gateway = [o \in Orders |-> "unpaid"]
  /\ sent = {}
  /\ processed = {}
  /\ proc = [p \in Procs |-> Idle]

-----------------------------------------------------------------------------
(* The gateway. *)

Authorize(o) ==
  /\ order[o].status # "ABSENT"
  /\ gateway[o] = "unpaid"
  /\ gateway' = [gateway EXCEPT ![o] = "authorized"]
  /\ UNCHANGED <<order, refund, invoiced, sent, processed, proc>>

Capture(o) ==
  /\ gateway[o] = "authorized"
  /\ gateway' = [gateway EXCEPT ![o] = "captured"]
  /\ sent' = sent \cup {CapturedEvent(o)}
  /\ UNCHANGED <<order, refund, invoiced, processed, proc>>

\* The payer's bank declines one attempt; the order stays open for the next.
AttemptFails(o, n) ==
  /\ order[o].status # "ABSENT"
  /\ gateway[o] = "unpaid"
  /\ \A e \in sent : e.attempt # n
  /\ sent' = sent \cup {FailedEvent(o, n)}
  /\ UNCHANGED <<order, refund, invoiced, gateway, processed, proc>>

-----------------------------------------------------------------------------
(* Checkout: createPaymentOrderLocked. *)

Related(o) == {q \in Orders : order[q].status # "ABSENT" /\ order[q].ref = order[o].ref}

Pending(ref) == {o \in Orders : order[o].status = "CREATED" /\ order[o].ref = ref}

Reusable(ref, product) == \E o \in Pending(ref) : order[o].product = product

\* A pending order of the same price is reused.
ReuseOrder(ref, product) ==
  /\ Reusable(ref, product)
  /\ UNCHANGED ledgerVars

\* Otherwise every pending order is closed and a new one is opened at the gateway.
OpenOrder(ref, product, new) ==
  /\ ~Reusable(ref, product)
  /\ order[new].status = "ABSENT"
  /\ order' = [o \in Orders |->
       IF o = new
       THEN [status |-> "CREATED", ref |-> ref, product |-> product, duplicate |-> FALSE]
       ELSE [order[o] EXCEPT !.status = IF o \in Pending(ref) THEN "FAILED" ELSE @]]
  /\ UNCHANGED <<refund, invoiced, gateway, sent, processed, proc>>

-----------------------------------------------------------------------------
(* Fulfilment.  The payment is fetched before the transaction starts. *)

Settle(p) == IF proc[p].event = None
             THEN Idle
             ELSE [Idle EXCEPT !.pc = "mark", !.event = proc[p].event]

\* Faulty variant: money that is only reserved is accepted.
IsCapturedOrAuthorized(o) == gateway[o] \in {"authorized", "captured"}

\* assertCapturedPaymentMatchesOrder, of the payment as it was when fetched.
IsCaptured(o) == gateway[o] = "captured"

Fetched(o, e) == [pc |-> "fulfil", order |-> o, event |-> e,
                  captured |-> IsCaptured(o), refund |-> None]

FetchPayment(p, o, e) ==
  /\ proc[p].pc = "idle"
  /\ gateway[o] # "unpaid"
  /\ proc' = [proc EXCEPT ![p] = Fetched(o, e)]
  /\ UNCHANGED <<order, refund, invoiced, gateway, sent, processed>>

Verify(p, o) == order[o].status # "ABSENT" /\ FetchPayment(p, o, None)

\* Faulty variant: the event is marked before it is handled.
WebhookCapturedMarkedFirst(p, o) ==
  /\ proc[p].pc = "idle"
  /\ CapturedEvent(o) \in sent \ processed
  /\ processed' = processed \cup {CapturedEvent(o)}
  /\ proc' = [proc EXCEPT ![p] = Fetched(o, CapturedEvent(o))]
  /\ UNCHANGED <<order, refund, invoiced, gateway, sent>>

WebhookCaptured(p, o) ==
  /\ CapturedEvent(o) \in sent \ processed
  /\ FetchPayment(p, o, CapturedEvent(o))

\* Faulty variant: a superseded order is taken as settled.
AlreadyPaidOrFailed(o) == order[o].status \in {"PAID", "REFUNDED", "FAILED"}

AlreadyPaid(o) == order[o].status \in {"PAID", "REFUNDED"}

\* Faulty variant: a superseded order that is recovered is not compared with the others.
OtherPaidUnlessFailed(o) ==
  order[o].status # "FAILED" /\ \E q \in Related(o) \ {o} : order[q].status = "PAID"

OtherPaid(o) == \E q \in Related(o) \ {o} : order[q].status = "PAID"

FulfilAlreadyPaid(p) ==
  /\ proc[p].pc = "fulfil"
  /\ AlreadyPaid(proc[p].order)
  /\ proc' = [proc EXCEPT ![p] = Settle(p)]
  /\ UNCHANGED <<order, refund, invoiced, gateway, sent, processed>>

\* The fetched payment is not captured: the request fails, the webhook is retried.
FulfilRefused(p) ==
  /\ proc[p].pc = "fulfil"
  /\ ~AlreadyPaid(proc[p].order)
  /\ ~proc[p].captured
  /\ proc' = [proc EXCEPT ![p] = Idle]
  /\ UNCHANGED <<order, refund, invoiced, gateway, sent, processed>>

FulfilDuplicate(p) == LET o == proc[p].order IN
  /\ proc[p].pc = "fulfil"
  /\ ~AlreadyPaid(o)
  /\ proc[p].captured
  /\ OtherPaid(o)
  /\ order' = [order EXCEPT ![o].status = "PAID", ![o].duplicate = TRUE]
  /\ proc' = [proc EXCEPT ![p] = Settle(p)]
  /\ UNCHANGED <<refund, invoiced, gateway, sent, processed>>

RunsHandler(p) ==
  /\ proc[p].pc = "fulfil"
  /\ ~AlreadyPaid(proc[p].order)
  /\ proc[p].captured
  /\ ~OtherPaid(proc[p].order)

\* The module's handler returned: the order is paid and invoiced with it.
FulfilPrimary(p) ==
  /\ RunsHandler(p)
  /\ order' = [order EXCEPT ![proc[p].order].status = "PAID"]
  /\ invoiced' = invoiced \cup {proc[p].order}
  /\ proc' = [proc EXCEPT ![p] = Settle(p)]
  /\ UNCHANGED <<refund, gateway, sent, processed>>

\* The module's handler threw: the transaction rolls back.
FulfilRolledBack(p) ==
  /\ RunsHandler(p)
  /\ proc' = [proc EXCEPT ![p] = Idle]
  /\ UNCHANGED <<order, refund, invoiced, gateway, sent, processed>>

MarkProcessed(p) ==
  /\ proc[p].pc = "mark"
  /\ processed' = processed \cup {proc[p].event}
  /\ proc' = [proc EXCEPT ![p] = Idle]
  /\ UNCHANGED <<order, refund, invoiced, gateway, sent>>

-----------------------------------------------------------------------------
(* The failure path: markOrderFailed works on the row the webhook read. *)

WebhookFailed(p, o, n) == LET e == FailedEvent(o, n) IN
  /\ proc[p].pc = "idle"
  /\ e \in sent \ processed
  /\ proc' = [proc EXCEPT ![p] =
       IF order[o].status = "CREATED"
       THEN [Idle EXCEPT !.pc = "failWrite", !.order = o, !.event = e]
       ELSE [Idle EXCEPT !.pc = "mark", !.event = e]]
  /\ UNCHANGED <<order, refund, invoiced, gateway, sent, processed>>

FailWrite(p) ==
  /\ proc[p].pc = "failWrite"
  /\ order' = [order EXCEPT ![proc[p].order].status = "FAILED"]
  /\ proc' = [proc EXCEPT ![p].pc = "failHandle"]
  /\ UNCHANGED <<refund, invoiced, gateway, sent, processed>>

\* The module's failure handler has finished; its errors are swallowed.
FailHandled(p) ==
  /\ proc[p].pc = "failHandle"
  /\ proc' = [proc EXCEPT ![p] = Settle(p)]
  /\ UNCHANGED <<order, refund, invoiced, gateway, sent, processed>>

-----------------------------------------------------------------------------
(* Refunds: recordRefund, a transaction, the gateway call and a second      *)
(* transaction.  Refunds are for the whole order: no caller gives an amount *)
(* (refundAdvertisementSchema refuses one).                                 *)

RefundsOf(o, status) == {r \in Refunds : refund[r].order = o /\ refund[r].status = status}

\* Faulty variant: any order the payer has been given can be refunded.
RefundableWhateverStatus(o) == order[o].status # "ABSENT"

Refundable(o) == order[o].status = "PAID"

\* A pending refund is touched and taken over once it is 60 s old.
TakeOverRefund(p, o, r) ==
  /\ proc[p].pc = "idle"
  /\ Refundable(o)
  /\ r \in RefundsOf(o, "PENDING")
  /\ ~refund[r].fresh
  /\ refund' = [refund EXCEPT ![r].fresh = TRUE]
  /\ proc' = [proc EXCEPT ![p] =
       [Idle EXCEPT !.pc = "refundFetch", !.order = o, !.refund = r]]
  /\ UNCHANGED <<order, invoiced, gateway, sent, processed>>

OpenRefund(p, o, r) ==
  /\ proc[p].pc = "idle"
  /\ Refundable(o)
  /\ RefundsOf(o, "PENDING") = {}
  /\ refund[r].status = "ABSENT"
  /\ refund' = [refund EXCEPT ![r] = [order |-> o, status |-> "PENDING", fresh |-> TRUE]]
  /\ proc' = [proc EXCEPT ![p] =
       [Idle EXCEPT !.pc = "refundFetch", !.order = o, !.refund = r]]
  /\ UNCHANGED <<order, invoiced, gateway, sent, processed>>

\* 60 s pass without the refund being touched.
RefundAges(r) ==
  /\ refund[r].fresh
  /\ refund' = [refund EXCEPT ![r].fresh = FALSE]
  /\ UNCHANGED <<order, invoiced, gateway, sent, processed, proc>>

\* createRazorpayRefund first asks whether the payment is captured.  One that is
\* already refunded is not: only the call after this sees "already refunded".
FetchBeforeRefund(p) ==
  /\ proc[p].pc = "refundFetch"
  /\ gateway[proc[p].order] = "captured"
  /\ proc' = [proc EXCEPT ![p].pc = "refundCall"]
  /\ UNCHANGED <<order, refund, invoiced, gateway, sent, processed>>

\* The gateway refunds a captured payment and answers.
GatewayRefunds(p) ==
  /\ proc[p].pc = "refundCall"
  /\ gateway[proc[p].order] = "captured"
  /\ gateway' = [gateway EXCEPT ![proc[p].order] = "refunded"]
  /\ proc' = [proc EXCEPT ![p].pc = "refundCommit"]
  /\ UNCHANGED <<order, refund, invoiced, sent, processed>>

\* It refunds, but the answer is lost.
GatewayAnswerLost(p) ==
  /\ proc[p].pc = "refundCall"
  /\ gateway[proc[p].order] = "captured"
  /\ gateway' = [gateway EXCEPT ![proc[p].order] = "refunded"]
  /\ proc' = [proc EXCEPT ![p].pc = "refundFail"]
  /\ UNCHANGED <<order, refund, invoiced, sent, processed>>

\* An "already refunded" answer counts as a success.
GatewayAlreadyRefunded(p) ==
  /\ proc[p].pc = "refundCall"
  /\ gateway[proc[p].order] = "refunded"
  /\ proc' = [proc EXCEPT ![p].pc = "refundCommit"]
  /\ UNCHANGED <<order, refund, invoiced, gateway, sent, processed>>

\* The gateway refuses, cannot be reached, or says the payment is not captured.
GatewayRefuses(p) ==
  /\ proc[p].pc \in {"refundFetch", "refundCall"}
  /\ proc' = [proc EXCEPT ![p].pc = "refundFail"]
  /\ UNCHANGED <<order, refund, invoiced, gateway, sent, processed>>

RefundFail(p) ==
  /\ proc[p].pc = "refundFail"
  /\ refund' = [refund EXCEPT ![proc[p].refund].status = "FAILED"]
  /\ proc' = [proc EXCEPT ![p] = Idle]
  /\ UNCHANGED <<order, invoiced, gateway, sent, processed>>

RefundRecorded(o) == order[o].status = "REFUNDED" /\ RefundsOf(o, "PROCESSED") # {}

RefundAlreadyRecorded(p) ==
  /\ proc[p].pc = "refundCommit"
  /\ RefundRecorded(proc[p].order)
  /\ proc' = [proc EXCEPT ![p] = Idle]
  /\ UNCHANGED <<order, refund, invoiced, gateway, sent, processed>>

RefundCommit(p) ==
  /\ proc[p].pc = "refundCommit"
  /\ ~RefundRecorded(proc[p].order)
  /\ refund' = [refund EXCEPT ![proc[p].refund].status = "PROCESSED"]
  /\ order' = [order EXCEPT ![proc[p].order].status = "REFUNDED"]
  /\ proc' = [proc EXCEPT ![p] = Idle]
  /\ UNCHANGED <<invoiced, gateway, sent, processed>>

-----------------------------------------------------------------------------
\* The process dies or the request is dropped: the locals are gone, the tables stay.
Crash(p) ==
  /\ proc[p].pc # "idle"
  /\ proc' = [proc EXCEPT ![p] = Idle]
  /\ UNCHANGED <<order, refund, invoiced, gateway, sent, processed>>

\* The steps in which the product has no say: a composition takes them as they are.
GatewayStep == \E o \in Orders : Authorize(o) \/ Capture(o)
                                   \/ \E n \in Attempts : AttemptFails(o, n)

FulfilStep(p) == FulfilAlreadyPaid(p) \/ FulfilRefused(p) \/ FulfilDuplicate(p)

RefundStep(p) == \/ FetchBeforeRefund(p) \/ GatewayRefunds(p) \/ GatewayAnswerLost(p)
                 \/ GatewayAlreadyRefunded(p) \/ GatewayRefuses(p)
                 \/ RefundFail(p) \/ RefundAlreadyRecorded(p)

Receive(p) == \E o \in Orders : \/ Verify(p, o)
                                \/ WebhookCaptured(p, o)
                                \/ \E n \in Attempts : WebhookFailed(p, o, n)

RefundRequest(p, o) == \E r \in Refunds : TakeOverRefund(p, o, r) \/ OpenRefund(p, o, r)

PlainStep ==
  \/ GatewayStep
  \/ \E r \in Refunds : RefundAges(r)
  \/ \E p \in Procs : \/ Receive(p) \/ FulfilStep(p) \/ RefundStep(p)
                      \/ MarkProcessed(p) \/ FailWrite(p)

LedgerNext ==
  \/ PlainStep
  \/ \E ref \in Refs, product \in Products :
       ReuseOrder(ref, product) \/ \E new \in Orders : OpenOrder(ref, product, new)
  \/ \E p \in Procs : \/ FulfilPrimary(p) \/ FulfilRolledBack(p) \/ FailHandled(p)
                      \/ RefundCommit(p) \/ Crash(p)
                      \/ \E o \in Orders : RefundRequest(p, o)

LedgerSpec == LedgerInit /\ [][LedgerNext]_ledgerVars

-----------------------------------------------------------------------------
(* Properties. *)

Primary(o) == order[o].status = "PAID" /\ ~order[o].duplicate

\* When two orders of one reference are both captured, by verify and webhooks in
\* any order, at most one of them is paid for the product; the other is recorded
\* as a duplicate capture (fulfillOrderLocked's lock on all related orders).
SinglePrimary ==
  \A o, q \in Orders : Primary(o) /\ Primary(q) /\ order[o].ref = order[q].ref => o = q

\* The local ledger never runs ahead of the gateway: an order is paid only with
\* money captured for it, refunded only once the gateway gave the money back, and
\* a primary paid order has its invoice, which is never issued for money not captured.
MoneyBacked ==
  /\ \A o \in Orders :
       /\ order[o].status = "PAID" => gateway[o] \in {"captured", "refunded"}
       /\ order[o].status = "REFUNDED" => gateway[o] = "refunded"
       /\ Primary(o) => o \in invoiced
  /\ \A o \in invoiced : gateway[o] \in {"captured", "refunded"}

\* The ledger implements PaymentAccounting: an order is booked when it is invoiced
\* or recorded as a duplicate capture.
Booked == {o \in Orders : o \in invoiced \/ order[o].duplicate}
MoneyIn(state) == IF state = "captured" THEN "captured"
                  ELSE IF state = "refunded" THEN "returned" ELSE "none"
Money == [o \in Orders |-> MoneyIn(gateway[o])]
Accounting == INSTANCE PaymentAccounting WITH money <- Money, booked <- Booked
AccountingSpec == Accounting!Spec
=============================================================================
