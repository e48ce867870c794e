-------------------------- MODULE MatrimonyBilling --------------------------
(***************************************************************************)
(* The payments and subscriptions of one matrimony member                  *)
(* (MatrimonyPayment.service.ts, MatrimonyMonetization.service.ts,         *)
(* MatrimonySubscriptionLifecycle.service.ts and the admin's actions).     *)
(*                                                                         *)
(* An older ledger than PaymentLedger: only the order's own row is locked  *)
(* by a fulfilment, checkouts and failures save rows they read before, and *)
(* a captured payment is announced by two webhook events.  What a request  *)
(* has read and not yet saved is a variable of its own: superseding,       *)
(* failing, unsubscribing, granting, extending, expiring.  Whoever has     *)
(* read may die before it saves.                                           *)
(***************************************************************************)
EXTENDS Naturals, FiniteSets

CONSTANTS Purchases,        \* payment orders
          Purposes,         \* what is paid for: plans, or CONTACT
          Subs,             \* subscription rows
          JobBatch,         \* LIMIT of the expiry job's query
          MaxGrants,        \* bound: fulfilments of one order
          Unset             \* no row, no purpose

ASSUME BillingAssumption ==
    /\ Unset \notin Purchases \cup Purposes \cup Subs
    /\ JobBatch \in Nat \ {0}
    /\ MaxGrants \in Nat \ {0}
    /\ IsFiniteSet(Subs)

VARIABLES purchase,         \* status of the rows of matrimony_payment_orders
          purpose,          \* ... and what they pay for
          captured,         \* orders whose money the gateway has captured
          posted,           \* webhook events the gateway still delivers
          subs,             \* matrimony_subscriptions of the member
          revealed,         \* matrimony_contact_reveals: the contact is paid for
          superseding,      \* a checkout: the rows it will fail before it opens an order
          failing,          \* orders a payment.failed handler read as CREATED
          unsubscribing,    \* orders noted as refunded, their subscription not yet cancelled
          granting,         \* an admin's grant has ended the old plan, not yet created the new
          extending,        \* rows an admin extends, with the status they were read with
          expiring,         \* rows the expiry job has in hand
          grants,           \* history: how often each order was fulfilled
          stale,            \* history: orders saved FAILED after they were PAID
          overtaken         \* history: rows extended while the job expired them

orderVars == <<purchase, purpose, captured, posted, grants, stale>>
planVars == <<subs, revealed, granting, extending, expiring, overtaken>>
handVars == <<superseding, failing, unsubscribing>>
billVars == <<orderVars, planVars, handVars>>

Contact == "CONTACT"
NoCheckout == [wants |-> Unset, rows |-> {}]
NoSub == [status |-> "NONE", order |-> Unset, due |-> FALSE, rank |-> 0]

BillingInit ==
    /\ purchase = [o \in Purchases |-> "NONE"]
    /\ purpose = [o \in Purchases |-> Unset]
    /\ captured = {} /\ posted = {}
    /\ subs = [s \in Subs |-> NoSub]
    /\ revealed = "NONE"
    /\ superseding = NoCheckout
    /\ failing = {} /\ unsubscribing = {}
    /\ granting = FALSE
    /\ extending = {} /\ expiring = {}
    /\ grants = [o \in Purchases |-> 0]
    /\ stale = {} /\ overtaken = {}

ActiveSubs == {s \in Subs : subs[s].status = "ACTIVE"}

-----------------------------------------------------------------------------
(***************************************************************************)
(* Checkout                                                                *)
(***************************************************************************)
\* getActivePlan: a subscription that is active and not over.
HasPlan == \E s \in ActiveSubs : ~subs[s].due

\* A contact can be bought with a plan only; its reveal row is created first.
CheckoutReads(k) ==
    /\ superseding = NoCheckout
    /\ k = Contact => HasPlan
    /\ revealed' = IF k = Contact /\ revealed = "NONE" THEN "PENDING" ELSE revealed
    /\ superseding' = [wants |-> k,
                       rows |-> {o \in Purchases : purchase[o] = "CREATED" /\ purpose[o] = k}]
    /\ UNCHANGED <<orderVars, subs, granting, extending, expiring, overtaken, failing, unsubscribing>>

\* An update by id of a row that was read before: FAILED, whatever the row is by now.
SavesFailed(o) ==
    /\ purchase' = [purchase EXCEPT ![o] = "FAILED"]
    /\ stale' = IF purchase[o] = "PAID" THEN stale \cup {o} ELSE stale

Supersede ==
    /\ \E o \in superseding.rows :
          /\ SavesFailed(o)
          /\ superseding' = [superseding EXCEPT !.rows = @ \ {o}]
    /\ UNCHANGED <<purpose, captured, posted, grants, planVars, failing, unsubscribing>>

OpenPurchase ==
    /\ superseding.wants # Unset /\ superseding.rows = {}
    /\ \E o \in Purchases :
          /\ purchase[o] = "NONE"
          /\ purchase' = [purchase EXCEPT ![o] = "CREATED"]
          /\ purpose' = [purpose EXCEPT ![o] = superseding.wants]
    /\ superseding' = NoCheckout
    /\ UNCHANGED <<captured, posted, grants, stale, planVars, failing, unsubscribing>>

CheckoutDies ==
    /\ superseding # NoCheckout
    /\ superseding' = NoCheckout
    /\ UNCHANGED <<orderVars, planVars, failing, unsubscribing>>

-----------------------------------------------------------------------------
(***************************************************************************)
(* The gateway                                                             *)
(***************************************************************************)
GatewayCaptures(o) ==
    /\ purchase[o] # "NONE" /\ o \notin captured
    /\ captured' = captured \cup {o}
    /\ posted' = posted \cup {<<o, "payment.captured">>, <<o, "order.paid">>}
    /\ UNCHANGED <<purchase, purpose, grants, stale, planVars, handVars>>

\* An attempt may fail before another one of the same order is captured.
GatewayFails(o) ==
    /\ purchase[o] = "CREATED" /\ o \notin captured
    /\ posted' = posted \cup {<<o, "payment.failed">>}
    /\ UNCHANGED <<purchase, purpose, captured, grants, stale, planVars, handVars>>

-----------------------------------------------------------------------------
(***************************************************************************)
(* Webhooks and the client's verify call                                   *)
(***************************************************************************)
\* processRazorpayWebhook marks an event when its handler is through, unless it dies first.
Handled(e) == posted' \in {posted \ {e}, posted}

\* markOrderFailedByRazorpayOrderId reads the order here and saves it in FailSaves.
FailedEvent(o) ==
    /\ <<o, "payment.failed">> \in posted
    /\ \/ /\ purchase[o] = "CREATED"
          /\ failing' = failing \cup {o}
          /\ UNCHANGED posted
       \/ /\ purchase[o] # "CREATED"
          /\ posted' = posted \ {<<o, "payment.failed">>}
          /\ UNCHANGED failing
    /\ UNCHANGED <<purchase, purpose, captured, grants, stale, planVars, superseding, unsubscribing>>

FailSaves(o) ==
    /\ o \in failing
    /\ SavesFailed(o)
    /\ failing' = failing \ {o}
    /\ Handled(<<o, "payment.failed">>)
    /\ UNCHANGED <<purpose, captured, grants, planVars, superseding, unsubscribing>>

FailDies(o) ==
    /\ o \in failing
    /\ failing' = failing \ {o}
    /\ UNCHANGED <<orderVars, planVars, superseding, unsubscribing>>

\* A verify call of the client, or one of the two events.
Announcements(o) ==
    {e \in posted : e \in {<<o, "payment.captured">>, <<o, "order.paid">>}} \cup {<<o, "verify">>}

\* Faulty variant: an order that is paid is fulfilled again.
PaidBeforeIgnored(o) == FALSE

PaidBefore(o) == purchase[o] = "PAID"

\* Faulty variant: the payment is not looked up.
MoneyIsAssumed(o) == TRUE

\* assertCapturedPaymentMatchesOrder
MoneyIsThere(o) == o \in captured

FulfilAgain(o) ==
    /\ PaidBefore(o)
    /\ \E e \in Announcements(o) : e \in posted /\ posted' = posted \ {e}
    /\ UNCHANGED <<purchase, purpose, captured, grants, stale, planVars, handVars>>

\* A new subscription ranks after all others.
NewSub(s, o) ==
    /\ subs[s].status = "NONE"
    /\ subs' = [t \in Subs |->
          IF t = s THEN [status |-> "ACTIVE", order |-> o, due |-> FALSE,
                         rank |-> Cardinality({u \in Subs : subs[u].status # "NONE"}) + 1]
          ELSE IF t \in ActiveSubs THEN [subs[t] EXCEPT !.status = "EXPIRED"]
          ELSE subs[t]]

\* fulfillOrderLocked: one transaction under the lock of the order's row.  A FAILED order is
\* recovered; one that was saved FAILED after it was PAID is fulfilled a second time.
Fulfil(o) ==
    /\ ~PaidBefore(o) /\ purchase[o] # "NONE"
    /\ MoneyIsThere(o)
    /\ grants[o] < MaxGrants
    /\ \/ /\ purpose[o] = Contact
          /\ revealed' = "PAID"
          /\ UNCHANGED subs
       \/ /\ purpose[o] # Contact
          /\ \E s \in Subs : NewSub(s, o)
          /\ UNCHANGED revealed
    /\ purchase' = [purchase EXCEPT ![o] = "PAID"]
    /\ grants' = [grants EXCEPT ![o] = @ + 1]
    /\ \E e \in Announcements(o) : Handled(e)
    /\ UNCHANGED <<purpose, captured, stale, granting, extending, expiring, overtaken, handVars>>

-----------------------------------------------------------------------------
(***************************************************************************)
(* Administrators                                                          *)
(***************************************************************************)
\* grantSubscriptionAdmin calls subscribePlan without a transaction: two statements.
AdminGrantEnds ==
    /\ ~granting
    /\ subs' = [t \in Subs |-> IF t \in ActiveSubs THEN [subs[t] EXCEPT !.status = "EXPIRED"] ELSE subs[t]]
    /\ granting' = TRUE
    /\ UNCHANGED <<orderVars, revealed, extending, expiring, overtaken, handVars>>

AdminGrantCreates ==
    /\ granting
    /\ \E s \in Subs :
          /\ subs[s].status = "NONE"
          /\ subs' = [subs EXCEPT ![s] = [status |-> "ACTIVE", order |-> Unset, due |-> FALSE,
                         rank |-> Cardinality({u \in Subs : subs[u].status # "NONE"}) + 1]]
    /\ granting' = FALSE
    /\ UNCHANGED <<orderVars, revealed, extending, expiring, overtaken, handVars>>

\* A row that was not active is active again; the status of one that was is not written.
AdminExtendReads(s) ==
    /\ extending = {} /\ subs[s].status # "NONE"
    /\ extending' = {<<s, subs[s].status>>}
    /\ UNCHANGED <<orderVars, subs, revealed, granting, expiring, overtaken, handVars>>

AdminExtendSaves ==
    /\ \E x \in extending :
          LET s == x[1] IN
          /\ subs' = [subs EXCEPT ![s].due = FALSE,
                                  ![s].status = IF x[2] = "ACTIVE" THEN @ ELSE "ACTIVE"]
          /\ overtaken' = IF s \in expiring \/ subs'[s].status = "EXPIRED"
                          THEN overtaken \cup {s} ELSE overtaken
    /\ extending' = {}
    /\ UNCHANGED <<orderVars, revealed, granting, expiring, handVars>>

AdminExtendDies ==
    /\ extending # {}
    /\ extending' = {}
    /\ UNCHANGED <<orderVars, subs, revealed, granting, expiring, overtaken, handVars>>

AdminCancels(s) ==
    /\ subs[s].status # "NONE"
    /\ subs' = [subs EXCEPT ![s].status = "CANCELLED", ![s].due = TRUE]
    /\ UNCHANGED <<orderVars, revealed, granting, extending, expiring, overtaken, handVars>>

\* recordPaymentRefundAdmin notes the refund, then cancels a subscription of the order.
RefundNoted(o) ==
    /\ purchase[o] = "PAID" /\ purpose[o] # Contact
    /\ unsubscribing' = unsubscribing \cup {o}
    /\ UNCHANGED <<orderVars, planVars, superseding, failing>>

RefundCancels(o) ==
    /\ o \in unsubscribing
    /\ unsubscribing' = unsubscribing \ {o}
    /\ \E s \in Subs :
          /\ subs[s].order = o
          /\ subs' = [subs EXCEPT ![s].status = "CANCELLED"]
    /\ UNCHANGED <<orderVars, revealed, granting, extending, expiring, overtaken, superseding, failing>>

-----------------------------------------------------------------------------
(***************************************************************************)
(* Time and the expiry job                                                 *)
(***************************************************************************)
Lapses(s) ==
    /\ subs[s].status = "ACTIVE" /\ ~subs[s].due
    /\ subs' = [subs EXCEPT ![s].due = TRUE]
    /\ UNCHANGED <<orderVars, revealed, granting, extending, expiring, overtaken, handVars>>

\* Faulty variant: the query takes every active row.
OverdueOrNot == ActiveSubs

Overdue == {s \in ActiveSubs : subs[s].due}

JobQueries ==
    /\ expiring = {}
    /\ \E hand \in SUBSET Overdue :
          /\ Cardinality(hand) \in 1 .. JobBatch
          /\ expiring' = hand
          /\ overtaken' = overtaken \ hand
    /\ UNCHANGED <<orderVars, subs, revealed, granting, extending, handVars>>

\* Saved by id, whatever the row is by now.
JobExpires(s) ==
    /\ s \in expiring
    /\ subs' = [subs EXCEPT ![s].status = "EXPIRED"]
    /\ expiring' = expiring \ {s}
    /\ UNCHANGED <<orderVars, revealed, granting, extending, overtaken, handVars>>

\* A save or a notification throws, or the worker dies.
JobAborts ==
    /\ expiring # {}
    /\ expiring' = {}
    /\ UNCHANGED <<orderVars, subs, revealed, granting, extending, overtaken, handVars>>

\* Checkouts, the gateway and its events.
OrderSteps ==
    \/ \E k \in Purposes : CheckoutReads(k)
    \/ Supersede \/ OpenPurchase \/ CheckoutDies
    \/ \E o \in Purchases :
          \/ GatewayCaptures(o) \/ GatewayFails(o)
          \/ FailedEvent(o) \/ FailSaves(o) \/ FailDies(o)
          \/ FulfilAgain(o) \/ Fulfil(o)

\* Administrators, time and the job.
PlanSteps ==
    \/ \E o \in Purchases : RefundNoted(o) \/ RefundCancels(o)
    \/ AdminGrantEnds \/ AdminGrantCreates \/ AdminExtendSaves \/ AdminExtendDies
    \/ \E s \in Subs : AdminExtendReads(s) \/ AdminCancels(s) \/ Lapses(s) \/ JobExpires(s)
    \/ JobQueries \/ JobAborts

BillingNext == OrderSteps \/ PlanSteps

BillingSpec == BillingInit /\ [][BillingNext]_billVars

-----------------------------------------------------------------------------
(***************************************************************************)
(* Properties                                                              *)
(***************************************************************************)
BillingTypeOK ==
    /\ purchase \in [Purchases -> {"NONE", "CREATED", "FAILED", "PAID"}]
    /\ \A o \in Purchases : purpose[o] = Unset <=> purchase[o] = "NONE"
    /\ captured \subseteq Purchases
    /\ \A s \in Subs : /\ subs[s].status \in {"NONE", "ACTIVE", "EXPIRED", "CANCELLED"}
                       /\ subs[s].order \in Purchases \cup {Unset}
    /\ grants \in [Purchases -> 0 .. MaxGrants]
    /\ superseding.rows \cup failing \cup unsubscribing \cup stale \subseteq Purchases
    /\ expiring \cup overtaken \subseteq Subs
    /\ Cardinality(extending) <= 1

\* fulfillOrderLocked gives what was paid for once, however often the two events and the client
\* announce it; the only way to a second time is a failure, or a checkout, that read the order
\* before it was paid and saved FAILED over PAID (lines 97 and 317).
GrantedOnceUnlessStale == \A o \in Purchases : grants[o] > 1 => o \in stale

\* A plan that has time left ends early only for a newer one that took its place, or because the
\* expiry job ended it while an administrator extended it (expireDueSubscriptions, line 112):
\* no other pair of saves loses time that was paid for.
LiveUnlessReplaced ==
    \A s \in Subs :
        subs[s].status = "EXPIRED" /\ ~subs[s].due
            => \/ \E t \in Subs : subs[t].rank > subs[s].rank
               \/ s \in overtaken
               \/ granting

Accounting ==
    INSTANCE PaymentAccounting WITH
        Orders <- Purchases,
        money <- [o \in Purchases |-> IF o \in captured THEN "captured" ELSE "none"],
        booked <- {o \in Purchases : grants[o] > 0}

\* The older ledger keeps the promise of the central one: only captured money is booked.
BillingAccounting == Accounting!Spec
=============================================================================
