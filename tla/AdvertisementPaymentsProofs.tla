-------------------- MODULE AdvertisementPaymentsProofs --------------------
(***************************************************************************)
(* Proofs about AdvertisementPayments: the composition implements the      *)
(* ledger, so what is proved of the ledger holds of it.                    *)
(***************************************************************************)
EXTENDS AdvertisementPayments, PaymentLedgerProofs

\* A step of the composition is a step of the ledger or leaves the ledger alone:
\* what the handlers, the owners and the moderators do adds no step to it.
LEMMA NextIsLedgerNext ==
  ASSUME Next
  PROVE  LedgerNext \/ UNCHANGED ledgerVars
<1>1. ASSUME NEW a \in Refs, NEW product \in Products, Checkout(a, product)
      PROVE  LedgerNext
  BY <1>1 DEF Checkout, LedgerNext
<1>2. ASSUME NEW p \in Procs,
             \/ Fulfil(p) \/ FulfilThrows(p) \/ RevertSkip(p) \/ RevertWrite(p)
             \/ Refund(p) \/ CancelOverRefund(p) \/ Die(p)
      PROVE  LedgerNext
  BY <1>2 DEF Fulfil, FulfilThrows, RevertSkip, RevertWrite, Refund, CancelOverRefund, Die,
              LedgerNext
<1>3. ASSUME NEW p \in Procs, RevertRead(p)
      PROVE  UNCHANGED ledgerVars
  BY <1>3 DEF RevertRead
<1>4. ASSUME NEW p \in Procs, NEW o \in Orders, RequestRefund(p, o)
      PROVE  LedgerNext
  BY <1>4 DEF RequestRefund, LedgerNext
<1>5. ASSUME NEW a \in Refs, Cancel(a) \/ DeleteDraft(a) \/ Approve(a) \/ Reject(a)
      PROVE  UNCHANGED ledgerVars
  BY <1>5 DEF Cancel, DeleteDraft, Approve, Reject
<1>6. CASE PlainStep
  BY <1>6 DEF LedgerNext
<1> QED
  BY <1>1, <1>2, <1>3, <1>4, <1>5, <1>6 DEF Next

\* Every behaviour of campaigns, checkouts and handlers is a behaviour of the ledger.
THEOREM CampaignsImplementLedger == Spec => ImplementsLedger
<1>1. Init => LedgerInit
  BY DEF Init
<1>2. [Next]_vars => [LedgerNext]_ledgerVars
  BY NextIsLedgerNext DEF vars
<1> QED
  BY <1>1, <1>2, PTL DEF Spec, LedgerSpec, ImplementsLedger

\* At most one order of a campaign is paid for it (fulfillOrderLocked).
THEOREM CampaignSinglePrimary == Spec => []SinglePrimary
  BY CampaignsImplementLedger, LedgerSinglePrimary, PTL DEF ImplementsLedger

\* No campaign's order is paid, refunded or invoiced ahead of the gateway.
THEOREM CampaignMoneyBacked == Spec => []MoneyBacked
  BY CampaignsImplementLedger, LedgerMoneyBacked, PTL DEF ImplementsLedger

\* Nothing is booked before it is captured, and only booked money goes back, once.
THEOREM CampaignAccounting == Spec => AccountingSpec
  BY CampaignsImplementLedger, LedgerImplementsAccounting, PTL DEF ImplementsLedger

\* A campaign's booking is final, captured money leaves only after it was booked, and refunded
\* money does not return, whatever reviews, cancellations and stale failures overlap.
THEOREM CampaignMoneyFinal == Spec => [][MoneyFinal]_ledgerVars
  BY CampaignsImplementLedger, LedgerMoneyFinal, PTL DEF ImplementsLedger

-----------------------------------------------------------------------------
(* The campaigns' own invariants.  Beside LedgerInv they need their types   *)
(* and one another only; what a handler writes is looked at one campaign at *)
(* a time.                                                                  *)

AdTypeOK == /\ ad \in [Refs -> AdStatuses \cup {"DELETED"}]
            /\ entitlement \in [Refs -> EntitlementStatuses]
            /\ approved \in SUBSET Refs
            /\ reverting \in SUBSET Procs

PaidOnce(a) == \E o \in invoiced : order[o].ref = a /\ gateway[o] \in {"captured", "refunded"}

PaidBack(a) == \E o \in invoiced : order[o].ref = a /\ gateway[o] = "refunded"

CampaignOK(a) ==
  /\ ad[a] \in Reviewed \cup {"REJECTED", "EXPIRED"} => entitlement[a] # "ABSENT" /\ PaidOnce(a)
  /\ ad[a] = "CANCELLED" => entitlement[a] \in {"ABSENT", "CANCELLED", "REFUNDED"}
  /\ entitlement[a] = "REFUNDED" => PaidBack(a)

CampaignInv == AdTypeOK /\ \A a \in Refs : CampaignOK(a)

\* Money that a campaign was invoiced for stays its money.
LEMMA PaymentsKept ==
  ASSUME LedgerInv, LedgerInv', LedgerNext \/ UNCHANGED ledgerVars, NEW a
  PROVE  (PaidOnce(a) => PaidOnce(a)') /\ (PaidBack(a) => PaidBack(a)')
<1>1. InvoicedStay
  BY InvoicedKept DEF InvoicedStay, ledgerVars
<1>2. \A o \in invoiced' : gateway'[o] \in {"captured", "refunded"}
  BY DEF LedgerInv, RowOK, TablesOK
<1> QED
  BY <1>1, <1>2 DEF InvoicedStay, PaidOnce, PaidBack

\* A campaign whose row and entitlement a step leaves alone stays consistent.
LEMMA CampaignKept ==
  ASSUME LedgerInv, LedgerInv', LedgerNext \/ UNCHANGED ledgerVars,
         NEW a \in Refs, CampaignOK(a),
         ad'[a] = ad[a], entitlement'[a] = entitlement[a]
  PROVE  CampaignOK(a)'
  BY PaymentsKept DEF CampaignOK

\* A step that writes no campaign keeps all of them consistent.
LEMMA CampaignsKept ==
  ASSUME LedgerInv, LedgerInv', LedgerNext \/ UNCHANGED ledgerVars, CampaignInv,
         UNCHANGED <<ad, entitlement, approved>>, reverting' \in SUBSET Procs
  PROVE  CampaignInv'
  BY CampaignKept DEF CampaignInv, AdTypeOK

\* A step that writes one campaign: its other campaigns stay consistent.
LEMMA OneCampaign ==
  ASSUME LedgerInv, LedgerInv', LedgerNext \/ UNCHANGED ledgerVars, CampaignInv,
         NEW a, NEW s \in AdStatuses \cup {"DELETED"}, NEW e \in EntitlementStatuses,
         ad' = [ad EXCEPT ![a] = s], entitlement' = [entitlement EXCEPT ![a] = e],
         approved' \in SUBSET Refs, reverting' \in SUBSET Procs,
         a \in Refs => CampaignOK(a)'
  PROVE  CampaignInv'
<1>1. AdTypeOK'
  BY DEF CampaignInv, AdTypeOK
<1>2. ASSUME NEW b \in Refs, b # a PROVE CampaignOK(b)'
  <2>1. ad'[b] = ad[b] /\ entitlement'[b] = entitlement[b]
    BY <1>2 DEF CampaignInv, AdTypeOK
  <2> QED
    BY <2>1, CampaignKept DEF CampaignInv
<1> QED
  BY <1>1, <1>2 DEF CampaignInv

\* Every campaign starts as a consistent draft.
LEMMA CampaignInitInv ==
  ASSUME Init
  PROVE  CampaignInv
  BY DEF Init, CampaignInv, AdTypeOK, CampaignOK, AdStatuses, EntitlementStatuses, Reviewed

\* A checkout moves one campaign into PAYMENT_PENDING (createAdvertisementPayment).
LEMMA CheckoutCampaign ==
  ASSUME LedgerInv, LedgerInv', LedgerNext, CampaignInv,
         NEW a \in Refs, NEW product \in Products, Checkout(a, product)
  PROVE  CampaignInv'
<1>1. /\ ad' = [ad EXCEPT ![a] = "PAYMENT_PENDING"]
      /\ UNCHANGED <<entitlement, approved, reverting>>
  BY DEF Checkout
<1>2. /\ ad \in [Refs -> AdStatuses \cup {"DELETED"}]
      /\ entitlement \in [Refs -> EntitlementStatuses]
      /\ approved \in SUBSET Refs /\ reverting \in SUBSET Procs
  BY DEF CampaignInv, AdTypeOK
<1>3. entitlement' = [entitlement EXCEPT ![a] = entitlement[a]]
  BY <1>1, <1>2
<1>4. ad'[a] = "PAYMENT_PENDING" /\ entitlement'[a] = entitlement[a]
  BY <1>1, <1>2
<1>5. CampaignOK(a)'
  BY <1>4, PaymentsKept DEF CampaignInv, CampaignOK, Reviewed
<1> QED
  BY <1>1, <1>2, <1>3, <1>5, OneCampaign DEF AdStatuses

\* The fulfilled order is invoiced in the same step that sends its campaign to review.
LEMMA FulfilCampaign ==
  ASSUME LedgerInv, LedgerInv', LedgerNext, CampaignInv, NEW p \in Procs, Fulfil(p)
  PROVE  CampaignInv'
<1> PICK a, o : a = Campaign(p) /\ o = proc[p].order
  OBVIOUS
<1>1. CASE UNCHANGED adVars
  BY <1>1, CampaignsKept DEF adVars, CampaignInv, AdTypeOK
<1>2. CASE /\ ad' = [ad EXCEPT ![a] = "PENDING_REVIEW"]
           /\ entitlement' = [entitlement EXCEPT ![a] = IF @ = "ABSENT" THEN "PENDING" ELSE @]
           /\ UNCHANGED <<approved, reverting>>
  <2> PICK e : e = IF entitlement[a] = "ABSENT" THEN "PENDING" ELSE entitlement[a]
    OBVIOUS
  <2>1. /\ ad \in [Refs -> AdStatuses \cup {"DELETED"}]
        /\ entitlement \in [Refs -> EntitlementStatuses]
        /\ approved \in SUBSET Refs /\ reverting \in SUBSET Procs
    BY DEF CampaignInv, AdTypeOK
  <2>2. CASE a \in Refs
    <3>1. o \in Orders /\ gateway[o] \in {"captured", "refunded"}
      BY FulfillingLocals DEF Fulfil, FulfilPrimary, RunsHandler
    <3>2. o \in invoiced' /\ order'[o].ref = a /\ gateway' = gateway
      BY <3>1 DEF Fulfil, FulfilPrimary, Campaign, LedgerInv, TablesOK, OrderRows
    <3>3. PaidOnce(a)'
      BY <3>1, <3>2 DEF PaidOnce
    <3>4. e \in EntitlementStatuses /\ e # "ABSENT" /\ entitlement' = [entitlement EXCEPT ![a] = e]
      BY <1>2, <2>1, <2>2 DEF EntitlementStatuses
    <3>5. ad'[a] = "PENDING_REVIEW" /\ entitlement'[a] = e
      BY <1>2, <2>1, <2>2, <3>4
    <3>6. e = "REFUNDED" => PaidBack(a)'
      BY <2>2, PaymentsKept DEF CampaignInv, CampaignOK
    <3>7. CampaignOK(a)'
      BY <3>3, <3>4, <3>5, <3>6 DEF CampaignOK
    <3> QED
      BY <1>2, <2>1, <3>4, <3>7, OneCampaign DEF AdStatuses
  <2>3. CASE a \notin Refs
    <3>1. UNCHANGED <<ad, entitlement>>
      BY <1>2, <2>1, <2>3
    <3> QED
      BY <1>2, <2>1, <3>1, CampaignsKept
  <2> QED
    BY <2>2, <2>3
<1> QED
  BY <1>1, <1>2 DEF Fulfil, HandleFulfilment

\* A stale failure handler sends a campaign back to DRAFT, which claims nothing
\* (revertPaymentFailure).
LEMMA RevertWriteCampaign ==
  ASSUME LedgerInv, LedgerInv', LedgerNext, CampaignInv, NEW p \in Procs, RevertWrite(p)
  PROVE  CampaignInv'
<1> PICK a, s : a = Campaign(p) /\ s = IF ad[a] = "DELETED" THEN "DELETED" ELSE "DRAFT"
  OBVIOUS
<1>1. /\ ad \in [Refs -> AdStatuses \cup {"DELETED"}]
      /\ entitlement \in [Refs -> EntitlementStatuses]
      /\ approved \in SUBSET Refs /\ reverting \in SUBSET Procs
  BY DEF CampaignInv, AdTypeOK
<1>2. /\ ad' = [ad EXCEPT ![a] = s]
      /\ entitlement' = entitlement
      /\ approved' \in SUBSET Refs /\ reverting' \in SUBSET Procs
  BY <1>1 DEF RevertWrite
<1>3. s \in {"DELETED", "DRAFT"}
  OBVIOUS
<1>4. CASE a \in Refs
  <2>1. ad'[a] = s /\ entitlement'[a] = entitlement[a]
    BY <1>1, <1>2, <1>4
  <2>2. entitlement' = [entitlement EXCEPT ![a] = entitlement[a]]
    BY <1>1, <1>2
  <2>3. CampaignOK(a)'
    BY <1>3, <1>4, <2>1, PaymentsKept DEF CampaignInv, CampaignOK, Reviewed
  <2> QED
    BY <1>1, <1>2, <1>3, <1>4, <2>2, <2>3, OneCampaign DEF AdStatuses
<1>5. CASE a \notin Refs
  <2>1. ad' = ad /\ approved' = approved
    BY <1>1, <1>2, <1>5 DEF RevertWrite
  <2> QED
    BY <1>1, <1>2, <2>1, CampaignsKept
<1> QED
  BY <1>4, <1>5

\* The refund that revokes an entitlement is that of an order booked with an invoice.
LEMMA RefundCampaign ==
  ASSUME LedgerInv, LedgerInv', LedgerNext, CampaignInv, NEW p \in Procs, Refund(p)
  PROVE  CampaignInv'
<1> PICK a, o, e :
      /\ a = Campaign(p) /\ o = proc[p].order
      /\ e = IF Revokes(o) /\ entitlement[a] # "ABSENT" THEN "REFUNDED" ELSE entitlement[a]
  OBVIOUS
<1>1. /\ ad \in [Refs -> AdStatuses \cup {"DELETED"}]
      /\ entitlement \in [Refs -> EntitlementStatuses]
      /\ approved \in SUBSET Refs /\ reverting \in SUBSET Procs
  BY DEF CampaignInv, AdTypeOK
<1>2. entitlement' = [entitlement EXCEPT ![a] = e] /\ UNCHANGED <<ad, approved, reverting>>
  BY DEF Refund
<1>3. CASE a \in Refs
  <2>1. o \in Booked /\ gateway[o] = "refunded"
    BY RefundingLocals DEF Refund, RefundCommit, RefundPcs
  <2>2. Revokes(o) => PaidBack(a)
    BY <2>1 DEF Booked, Revokes, PaidBack, Campaign
  <2>3. PaidBack(a) => PaidBack(a)'
    BY PaymentsKept
  <2>4. entitlement[a] \in EntitlementStatuses /\ CampaignOK(a)
    BY <1>1, <1>3 DEF CampaignInv
  <2>5. /\ e \in EntitlementStatuses
        /\ \/ e = entitlement[a]
           \/ e = "REFUNDED" /\ entitlement[a] # "ABSENT" /\ PaidBack(a)'
    <3>1. CASE Revokes(o) /\ entitlement[a] # "ABSENT"
      BY <2>2, <2>3, <3>1 DEF EntitlementStatuses
    <3>2. CASE ~(Revokes(o) /\ entitlement[a] # "ABSENT")
      BY <2>4, <3>2
    <3> QED
      BY <3>1, <3>2
  <2>6. ad'[a] = ad[a] /\ entitlement'[a] = e
    BY <1>1, <1>2, <1>3
  <2>7. CampaignOK(a)'
    BY <2>4, <2>5, <2>6, PaymentsKept DEF CampaignOK
  <2>8. ad' = [ad EXCEPT ![a] = ad[a]] /\ ad[a] \in AdStatuses \cup {"DELETED"}
    BY <1>1, <1>2, <1>3
  <2> QED
    BY <1>1, <1>2, <2>5, <2>7, <2>8, OneCampaign
<1>4. CASE a \notin Refs
  <2>1. entitlement' = entitlement
    BY <1>1, <1>2, <1>4
  <2> QED
    BY <1>1, <1>2, <2>1, CampaignsKept
<1> QED
  BY <1>3, <1>4

\* A cancellation over a committed refund still leaves no live entitlement (cancelOwned).
LEMMA CancelOverRefundCampaign ==
  ASSUME LedgerInv, LedgerInv', LedgerNext, CampaignInv, NEW p \in Procs, CancelOverRefund(p)
  PROVE  CampaignInv'
<1> PICK a, e : a = Campaign(p) /\ e = Withdrawn(entitlement[a])
  OBVIOUS
<1>1. /\ ad \in [Refs -> AdStatuses \cup {"DELETED"}]
      /\ entitlement \in [Refs -> EntitlementStatuses]
      /\ approved \in SUBSET Refs /\ reverting \in SUBSET Procs
  BY DEF CampaignInv, AdTypeOK
<1>2. /\ ad' = [ad EXCEPT ![a] = "CANCELLED"] /\ entitlement' = [entitlement EXCEPT ![a] = e]
      /\ UNCHANGED <<approved, reverting>>
      /\ e = "CANCELLED"
  BY DEF CancelOverRefund, Withdrawn
<1>3. CASE a \in Refs
  <2>1. ad'[a] = "CANCELLED" /\ entitlement'[a] = "CANCELLED"
    BY <1>1, <1>2, <1>3
  <2>2. CampaignOK(a)'
    BY <2>1 DEF CampaignOK, Reviewed
  <2> QED
    BY <1>1, <1>2, <2>2, OneCampaign DEF AdStatuses, EntitlementStatuses
<1>4. CASE a \notin Refs
  <2>1. UNCHANGED <<ad, entitlement>>
    BY <1>1, <1>2, <1>4
  <2> QED
    BY <1>1, <1>2, <2>1, CampaignsKept
<1> QED
  BY <1>3, <1>4

\* Approval and rejection are reached from review only.
LEMMA OnlyReviewed ==
  ASSUME NEW s \in AdStatuses,
         CanTransition(s, "APPROVED", FALSE) \/ CanTransition(s, "REJECTED", FALSE)
  PROVE  s \in Reviewed
<1>1. "APPROVED" \in Allowed[s] \/ "REJECTED" \in Allowed[s]
  BY DEF CanTransition
<1> QED
  BY <1>1 DEF Allowed, AdStatuses, Reviewed

\* Owners and moderators: nothing they do needs a payment that was not there before.
LEMMA DecisionCampaign ==
  ASSUME LedgerInv, LedgerInv', CampaignInv, NEW a \in Refs,
         Cancel(a) \/ DeleteDraft(a) \/ Approve(a) \/ Reject(a)
  PROVE  CampaignInv'
<1>1. /\ ad \in [Refs -> AdStatuses \cup {"DELETED"}]
      /\ entitlement \in [Refs -> EntitlementStatuses]
      /\ approved \in SUBSET Refs /\ reverting \in SUBSET Procs
      /\ entitlement[a] \in EntitlementStatuses
      /\ CampaignOK(a)
  BY DEF CampaignInv, AdTypeOK
<1>2. UNCHANGED ledgerVars
  BY DEF Cancel, DeleteDraft, Approve, Reject
<1>3. (PaidOnce(a) => PaidOnce(a)') /\ (PaidBack(a) => PaidBack(a)')
  BY <1>2, PaymentsKept
<1>4. ASSUME NEW s \in AdStatuses \cup {"DELETED"}, NEW e \in EntitlementStatuses,
             ad' = [ad EXCEPT ![a] = s], entitlement' = [entitlement EXCEPT ![a] = e],
             approved' \in SUBSET Refs, reverting' \in SUBSET Procs,
             s \in Reviewed \cup {"REJECTED", "EXPIRED"} =>
               e # "ABSENT" /\ ad[a] \in Reviewed \cup {"REJECTED", "EXPIRED"},
             s = "CANCELLED" => e \in {"ABSENT", "CANCELLED", "REFUNDED"},
             e = "REFUNDED" => entitlement[a] = "REFUNDED"
      PROVE  CampaignInv'
  <2>1. ad'[a] = s /\ entitlement'[a] = e
    BY <1>1, <1>4
  <2>2. CampaignOK(a)'
    BY <1>1, <1>3, <1>4, <2>1 DEF CampaignOK
  <2> QED
    BY <1>2, <1>4, <2>2, OneCampaign
<1>5. CASE Cancel(a)
  <2>1. PICK e : e = Withdrawn(entitlement[a])
    OBVIOUS
  <2>2. /\ e \in {"ABSENT", "CANCELLED", "REFUNDED"}
        /\ e = "REFUNDED" => entitlement[a] = "REFUNDED"
    BY <1>1, <2>1 DEF Withdrawn, EntitlementStatuses
  <2>3. /\ ad' = [ad EXCEPT ![a] = "CANCELLED"] /\ entitlement' = [entitlement EXCEPT ![a] = e]
        /\ UNCHANGED <<approved, reverting>>
    BY <1>5, <2>1 DEF Cancel
  <2>4. /\ "CANCELLED" \in AdStatuses /\ "CANCELLED" \notin Reviewed \cup {"REJECTED", "EXPIRED"}
        /\ e \in EntitlementStatuses
    BY <2>2 DEF AdStatuses, Reviewed, EntitlementStatuses
  <2> QED
    BY <1>1, <1>4, <2>2, <2>3, <2>4
<1>6. CASE DeleteDraft(a)
  <2>1. /\ ad' = [ad EXCEPT ![a] = "DELETED"] /\ entitlement' = [entitlement EXCEPT ![a] = "ABSENT"]
        /\ UNCHANGED <<approved, reverting>>
    BY <1>6 DEF DeleteDraft
  <2>2. /\ "DELETED" \notin Reviewed \cup {"REJECTED", "EXPIRED"}
        /\ "ABSENT" \in EntitlementStatuses
    BY DEF Reviewed, EntitlementStatuses
  <2> QED
    BY <1>1, <1>4, <2>1, <2>2
<1>7. ASSUME MayApprove(a) \/ Reject(a) PROVE ad[a] \in Reviewed
  BY <1>7, OnlyReviewed DEF MayApprove, Reject
<1>8. CASE Approve(a)
  <2>1. PICK s \in {"ACTIVE", "EXPIRED"} : ad' = [ad EXCEPT ![a] = s]
    BY <1>8 DEF Approve
  <2>2. PICK e : e = IF a \in approved \/ entitlement[a] = "ABSENT" THEN entitlement[a] ELSE "ACTIVE"
    OBVIOUS
  <2>3. /\ e \in EntitlementStatuses
        /\ e = "REFUNDED" => entitlement[a] = "REFUNDED"
        /\ entitlement[a] # "ABSENT" => e # "ABSENT"
    BY <1>1, <2>2 DEF EntitlementStatuses
  <2>4. /\ entitlement' = [entitlement EXCEPT ![a] = e]
        /\ approved' \in SUBSET Refs /\ reverting' \in SUBSET Procs
        /\ ad[a] \in Reviewed
    BY <1>1, <1>7, <1>8, <2>2 DEF Approve
  <2>5. entitlement[a] # "ABSENT"
    BY <1>1, <2>4 DEF CampaignOK
  <2> QED
    BY <1>4, <2>1, <2>3, <2>4, <2>5 DEF AdStatuses
<1>9. CASE Reject(a)
  <2>1. /\ ad' = [ad EXCEPT ![a] = "REJECTED"]
        /\ entitlement' = [entitlement EXCEPT ![a] = entitlement[a]]
        /\ approved' \in SUBSET Refs /\ reverting' \in SUBSET Procs
        /\ ad[a] \in Reviewed
    BY <1>1, <1>7, <1>9 DEF Reject
  <2>2. entitlement[a] # "ABSENT"
    BY <1>1, <2>1 DEF CampaignOK
  <2> QED
    BY <1>1, <1>4, <2>1, <2>2 DEF AdStatuses
<1> QED
  BY <1>5, <1>6, <1>8, <1>9

\* Every step of the composition keeps the campaigns consistent with the ledger.
LEMMA CampaignNextInv ==
  ASSUME LedgerInv, LedgerInv', CampaignInv, Next
  PROVE  CampaignInv'
<1>1. LedgerNext \/ UNCHANGED ledgerVars
  BY NextIsLedgerNext
<1>2. approved \in SUBSET Refs /\ reverting \in SUBSET Procs
  BY DEF CampaignInv, AdTypeOK
<1>3. CASE UNCHANGED <<ad, entitlement, approved>> /\ reverting' \in SUBSET Procs
  BY <1>1, <1>3, CampaignsKept
<1>4. CASE PlainStep /\ UNCHANGED adVars
  BY <1>2, <1>3, <1>4 DEF adVars
<1>5. ASSUME NEW a \in Refs, NEW product \in Products, Checkout(a, product) PROVE CampaignInv'
  BY <1>5, CheckoutCampaign DEF Checkout, LedgerNext
<1>6. ASSUME NEW p \in Procs,
             Fulfil(p) \/ RevertWrite(p) \/ Refund(p) \/ CancelOverRefund(p)
      PROVE  CampaignInv'
  BY <1>6, FulfilCampaign, RevertWriteCampaign, RefundCampaign, CancelOverRefundCampaign
     DEF Fulfil, RevertWrite, Refund, CancelOverRefund, LedgerNext
<1>7. ASSUME NEW p \in Procs, FulfilThrows(p) \/ RevertSkip(p) \/ RevertRead(p) \/ Die(p)
      PROVE  CampaignInv'
  BY <1>2, <1>3, <1>7 DEF FulfilThrows, RevertSkip, RevertRead, Die, adVars
<1>8. ASSUME NEW p \in Procs, NEW o \in Orders, RequestRefund(p, o) PROVE CampaignInv'
  BY <1>2, <1>3, <1>8 DEF RequestRefund, adVars
<1>9. ASSUME NEW a \in Refs, Cancel(a) \/ DeleteDraft(a) \/ Approve(a) \/ Reject(a)
      PROVE  CampaignInv'
  BY <1>9, DecisionCampaign
<1> QED
  BY <1>4, <1>5, <1>6, <1>7, <1>8, <1>9 DEF Next

-----------------------------------------------------------------------------
\* The inductive invariant of the composition: the ledger's and the campaigns' together.
THEOREM CampaignInvariant == Spec => [](LedgerInv /\ CampaignInv)
<1>1. Init => LedgerInv /\ CampaignInv
  BY LedgerInitInv, CampaignInitInv DEF Init
<1>2. ASSUME LedgerInv, CampaignInv, [Next]_vars
      PROVE  (LedgerInv /\ CampaignInv)'
  <2>1. CASE Next
    <3>1. LedgerInv'
      BY <1>2, <2>1, NextIsLedgerNext, LedgerNextInv, LedgerStutterInv
    <3> QED
      BY <1>2, <2>1, <3>1, CampaignNextInv
  <2>2. CASE UNCHANGED vars
    <3>1. UNCHANGED ledgerVars /\ UNCHANGED adVars
      BY <2>2 DEF vars
    <3>2. LedgerInv'
      BY <1>2, <3>1, LedgerStutterInv
    <3> QED
      BY <1>2, <3>1, <3>2, CampaignsKept DEF adVars, CampaignInv, AdTypeOK
  <2> QED
    BY <1>2, <2>1, <2>2
<1> QED
  BY <1>1, <1>2, PTL DEF Spec

\* The campaigns, the ledger and the requests keep their types.
THEOREM CampaignTypes == Spec => []TypeOK
<1>1. LedgerInv /\ CampaignInv => TypeOK
  BY DEF LedgerInv, TablesOK, LedgerTypeOK, CampaignInv, AdTypeOK, TypeOK
<1> QED
  BY <1>1, CampaignInvariant, PTL

\* No payment bypass: a campaign in review, published or past it was invoiced for
\* captured money and has an entitlement.
THEOREM CampaignReviewedIsPaidFor == Spec => []ReviewedIsPaidFor
<1>1. CampaignInv => ReviewedIsPaidFor
  BY DEF CampaignInv, CampaignOK, PaidOnce, ReviewedIsPaidFor
<1> QED
  BY <1>1, CampaignInvariant, PTL

\* A cancelled campaign holds no live entitlement.
THEOREM CampaignCancelledNotEntitled == Spec => []CancelledNotEntitled
<1>1. CampaignInv => CancelledNotEntitled
  BY DEF CampaignInv, CampaignOK, CancelledNotEntitled
<1> QED
  BY <1>1, CampaignInvariant, PTL

\* A refunded entitlement stands for money invoiced for the campaign that went back.
THEOREM CampaignRefundedIsPrimary == Spec => []RefundedIsPrimary
<1>1. CampaignInv => RefundedIsPrimary
  BY DEF CampaignInv, CampaignOK, PaidBack, RefundedIsPrimary
<1> QED
  BY <1>1, CampaignInvariant, PTL
=============================================================================
