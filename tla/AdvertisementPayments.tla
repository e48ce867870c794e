----------------------- MODULE AdvertisementPayments -----------------------
(***************************************************************************)
(* Advertisement campaigns on top of the payment ledger: checkout, the     *)
(* fulfilment, failure and refund handlers the product registers           *)
(* (AdvertisementPaymentHandler.ts), and the decisions of owners and       *)
(* moderators that race with them.  A ledger reference is a campaign.      *)
(*                                                                         *)
(* Live edits, pauses and the lifecycle job, none of which knows of        *)
(* payments, are in AdvertisementLifecycle.  Nothing here tells SCHEDULED, *)
(* ACTIVE and PAUSED apart: ACTIVE stands for them.                        *)
(***************************************************************************)
EXTENDS PaymentLedger, AdvertisementState

VARIABLES
  ad,            \* advertisements.status, or "DELETED" once the row is gone
  entitlement,   \* advertisement_entitlements.status (unique advertisement_id)
  approved,      \* campaigns with approvedAt set: a later review is a resubmission
  reverting      \* requests whose failure handler has read PAYMENT_PENDING

adVars == <<ad, entitlement, approved, reverting>>
vars == <<ledgerVars, adVars>>

TypeOK == /\ LedgerTypeOK
          /\ ad \in [Refs -> AdStatuses \cup {"DELETED"}]
          /\ entitlement \in [Refs -> EntitlementStatuses]
          /\ approved \in SUBSET Refs
          /\ reverting \in SUBSET Procs

Init == /\ LedgerInit
        /\ ad = [a \in Refs |-> "DRAFT"]
        /\ entitlement = [a \in Refs |-> "ABSENT"]
        /\ approved = {}
        /\ reverting = {}

Campaign(p) == order[proc[p].order].ref

-----------------------------------------------------------------------------
(* Checkout. *)

AwaitingPayment == {"DRAFT", "PAYMENT_PENDING"}

\* createAdvertisementPayment: the campaign and its orders are locked together.
Checkout(a, product) ==
  /\ ad[a] \in AwaitingPayment
  /\ MayMove(ad[a], "PAYMENT_PENDING")
  /\ ReuseOrder(a, product) \/ \E new \in Orders : OpenOrder(a, product, new)
  /\ ad' = [ad EXCEPT ![a] = "PAYMENT_PENDING"]
  /\ UNCHANGED <<entitlement, approved, reverting>>

-----------------------------------------------------------------------------
(* The handlers registered with the ledger. *)

\* fulfillPaidAdvertisement accepts a campaign in checkout, one that a failed
\* payment sent back to DRAFT, and one that is already past checkout.
Fulfillable(a) == ad[a] \in AwaitingPayment \cup {"PAID"} \cup Reviewed

HandleFulfilment(a) ==
  IF ad[a] \in Reviewed
  THEN UNCHANGED adVars
  ELSE /\ ad' = [ad EXCEPT ![a] = "PENDING_REVIEW"]
       /\ entitlement' = [entitlement EXCEPT ![a] = IF @ = "ABSENT" THEN "PENDING" ELSE @]
       /\ UNCHANGED <<approved, reverting>>

Fulfil(p) == /\ FulfilPrimary(p)
             /\ Fulfillable(Campaign(p))
             /\ HandleFulfilment(Campaign(p))

FulfilThrows(p) == /\ FulfilRolledBack(p)
                   /\ ~Fulfillable(Campaign(p))
                   /\ UNCHANGED adVars

\* revertPaymentFailure reads the campaign and saves it in two unlocked steps.
RevertSkip(p) == /\ FailHandled(p)
                 /\ p \notin reverting
                 /\ ad[Campaign(p)] # "PAYMENT_PENDING"
                 /\ UNCHANGED adVars

RevertRead(p) == /\ proc[p].pc = "failHandle"
                 /\ p \notin reverting
                 /\ ad[Campaign(p)] = "PAYMENT_PENDING"
                 /\ reverting' = reverting \cup {p}
                 /\ UNCHANGED <<ledgerVars, ad, entitlement, approved>>

\* The UPDATE names the row only by its id; a row that is gone is not touched.
RevertWrite(p) == /\ FailHandled(p)
                  /\ p \in reverting
                  /\ ad' = [ad EXCEPT ![Campaign(p)] = IF @ = "DELETED" THEN @ ELSE "DRAFT"]
                  /\ reverting' = reverting \ {p}
                  /\ UNCHANGED <<entitlement, approved>>

\* Faulty variant: the duplicate flag is not looked at.
RevokesAlways(o) == TRUE

\* The refund handler revokes the entitlement, except for a duplicate capture.
Revokes(o) == ~order[o].duplicate

Refund(p) ==
  /\ RefundCommit(p)
  /\ entitlement' = [entitlement EXCEPT ![Campaign(p)] =
       IF Revokes(proc[p].order) /\ @ # "ABSENT" THEN "REFUNDED" ELSE @]
  /\ UNCHANGED <<ad, approved, reverting>>

\* refundAdvertisementPayment finds the campaign first.  A rejected campaign needs
\* refundOnReject in its pricing, which may be set or not.
RequestRefund(p, o) == /\ RefundRequest(p, o)
                       /\ ad[order[o].ref] # "DELETED"
                       /\ UNCHANGED adVars

Die(p) == /\ Crash(p)
          /\ reverting' = reverting \ {p}
          /\ UNCHANGED <<ad, entitlement, approved>>

-----------------------------------------------------------------------------
(* Owners and moderators; each of these locks the campaign's row. *)

\* Faulty variant: only an entitlement that has started is withdrawn.
WithdrawnOnceActive(e) == IF e = "ACTIVE" THEN "CANCELLED" ELSE e

Withdrawn(e) == IF e \in {"ABSENT", "REFUNDED"} THEN e ELSE "CANCELLED"

Cancel(a) ==
  /\ ad[a] \in AdStatuses
  /\ CanTransition(ad[a], "CANCELLED", FALSE)
  /\ ad' = [ad EXCEPT ![a] = "CANCELLED"]
  /\ entitlement' = [entitlement EXCEPT ![a] = Withdrawn(@)]
  /\ UNCHANGED <<ledgerVars, approved, reverting>>

\* The cancellation locks the campaign but not the entitlement it reads: when a refund
\* commits between that read and the write, the refund's mark is lost.
CancelOverRefund(p) == LET a == Campaign(p) IN
  /\ RefundCommit(p)
  /\ ad[a] \in AdStatuses
  /\ CanTransition(ad[a], "CANCELLED", FALSE)
  /\ entitlement[a] \notin {"ABSENT", "REFUNDED"}
  /\ ad' = [ad EXCEPT ![a] = "CANCELLED"]
  /\ entitlement' = [entitlement EXCEPT ![a] = Withdrawn(@)]
  /\ UNCHANGED <<approved, reverting>>

Deletable(a) == ad[a] = "DRAFT"

DeleteDraft(a) ==
  /\ Deletable(a)
  /\ ad' = [ad EXCEPT ![a] = "DELETED"]
  /\ entitlement' = [entitlement EXCEPT ![a] = "ABSENT"]
  /\ UNCHANGED <<ledgerVars, approved, reverting>>

\* Faulty variant: a campaign still in checkout can be approved.
MayApproveUnpaid(a) == ad[a] \in {"PENDING_REVIEW", "PAYMENT_PENDING"}

MayApprove(a) == ad[a] \in AdStatuses /\ CanTransition(ad[a], "APPROVED", FALSE)

\* Only the first approval starts the entitlement; a resubmission may find that
\* the campaign's end has passed meanwhile.
Approve(a) ==
  /\ MayApprove(a)
  /\ \E publish \in {"ACTIVE"} \cup (IF a \in approved THEN {"EXPIRED"} ELSE {}) :
       ad' = [ad EXCEPT ![a] = publish]
  /\ entitlement' = [entitlement EXCEPT ![a] =
       IF a \in approved \/ @ = "ABSENT" THEN @ ELSE "ACTIVE"]
  /\ approved' = approved \cup {a}
  /\ UNCHANGED <<ledgerVars, reverting>>

Reject(a) ==
  /\ ad[a] \in AdStatuses /\ CanTransition(ad[a], "REJECTED", FALSE)
  /\ ad' = [ad EXCEPT ![a] = "REJECTED"]
  /\ UNCHANGED <<ledgerVars, entitlement, approved, reverting>>

-----------------------------------------------------------------------------
Next ==
  \/ PlainStep /\ UNCHANGED adVars
  \/ \E a \in Refs, product \in Products : Checkout(a, product)
  \/ \E p \in Procs : \/ Fulfil(p) \/ FulfilThrows(p)
                      \/ RevertSkip(p) \/ RevertRead(p) \/ RevertWrite(p)
                      \/ Refund(p) \/ CancelOverRefund(p) \/ Die(p)
                      \/ \E o \in Orders : RequestRefund(p, o)
  \/ \E a \in Refs : Cancel(a) \/ DeleteDraft(a) \/ Approve(a) \/ Reject(a)

Spec == Init /\ [][Next]_vars

\* A request that is not dropped goes on; the gateway repeats a captured event
\* until it is answered with success, and a retry is not dropped every time.
Working(p) ==
  \/ (FulfilStep(p) \/ RefundStep(p) \/ MarkProcessed(p) \/ FailWrite(p)) /\ UNCHANGED adVars
  \/ Fulfil(p) \/ FulfilThrows(p)
  \/ RevertSkip(p) \/ RevertRead(p) \/ RevertWrite(p) \/ Refund(p)

Fulfilling(o) == \E p \in Procs : /\ proc[p].order = o
                                  /\ \/ FulfilStep(p) /\ UNCHANGED adVars
                                     \/ Fulfil(p) \/ FulfilThrows(p)

Fairness ==
  /\ \A p \in Procs : WF_vars(Working(p))
  /\ \A o \in Orders : /\ SF_vars(\E p \in Procs : WebhookCaptured(p, o) /\ UNCHANGED adVars)
                       /\ SF_vars(Fulfilling(o))

FairSpec == Spec /\ Fairness

-----------------------------------------------------------------------------
(* Properties. *)

\* No payment bypass: a campaign reaches review, and everything after it, only
\* with an invoiced order whose money the gateway has captured, and holds an
\* entitlement for it; through failed payments, superseded orders, retries and
\* crashes (fulfillPaidAdvertisement, the transition table).
ReviewedIsPaidFor ==
  \A a \in Refs : ad[a] \in Reviewed \cup {"REJECTED", "EXPIRED"} =>
    /\ entitlement[a] # "ABSENT"
    /\ \E o \in invoiced : order[o].ref = a /\ gateway[o] \in {"captured", "refunded"}

\* A cancelled campaign has no live entitlement, whichever of capture, approval
\* and refund reaches it before or after the cancellation (cancelOwned, Refund handler).
CancelledNotEntitled ==
  \A a \in Refs : ad[a] = "CANCELLED" => entitlement[a] \in {"ABSENT", "CANCELLED", "REFUNDED"}

\* A campaign loses its entitlement to a refund only when money invoiced for it went
\* back: refunding the duplicate capture of a second order leaves the campaign that
\* was paid for running (meta.duplicateCapture).
RefundedIsPrimary ==
  \A a \in Refs : entitlement[a] = "REFUNDED" =>
    \E o \in invoiced : order[o].ref = a /\ gateway[o] = "refunded"

\* Captured money is not forgotten: its order is invoiced or recorded as a duplicate
\* capture, whatever request dies and however often the webhook has to be repeated
\* (fulfillOrderLocked), unless the campaign was cancelled, rejected, expired or deleted
\* meanwhile, when the handler refuses for ever and only the gateway knows of the money.
Closed(a) == ad[a] \in Terminal \cup {"DELETED"}

CapturedIsBooked ==
  \A o \in Orders : gateway[o] = "captured" ~>
    o \in Booked \/ \E a \in Refs : order[o].ref = a /\ Closed(a)

\* "FAILED is recovered when this exact Razorpay order was still paid after a newer checkout
\* superseded the local row" (Payment.service.ts): a row that reads FAILED beside a newer
\* checkout, while the gateway holds captured money for it, will read PAID or REFUNDED, unless the
\* campaign is closed.  (An order still CREATED beside a FAILED one is the newer of the two:
\* opening one closes those before it.)
FailedIsRecovered ==
  \A o \in Orders :
    ( /\ order[o].status = "FAILED" /\ gateway[o] = "captured"
      /\ \E newer \in Related(o) : order[newer].status = "CREATED" )
    ~> AlreadyPaid(o) \/ \E a \in Refs : order[o].ref = a /\ Closed(a)

\* "Paid / lifecycle statuses are never deleted via this path"
\* (AdvertisementState.service.ts): deleting a draft never deletes a campaign with a paid order.
PaidNeverDeleted ==
  [][\A a \in Refs : ad[a] # "DELETED" /\ ad'[a] = "DELETED" =>
       \A o \in Orders : order[o].ref = a => order[o].status # "PAID"]_vars

\* Every behaviour of the composition is a behaviour of the ledger.
ImplementsLedger == LedgerSpec
=============================================================================
