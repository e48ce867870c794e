------------------------ MODULE PaymentLedgerProofs ------------------------
(***************************************************************************)
(* Proofs about PaymentLedger, for any sets of orders, references,         *)
(* products, requests and refunds.                                         *)
(***************************************************************************)
EXTENDS PaymentLedger, TLAPS

RefundPcs == {"refundFetch", "refundCall", "refundFail", "refundCommit"}
OrderPcs  == {"fulfil", "failWrite", "failHandle"} \cup RefundPcs

\* What the locals of a request say about the tables and the gateway: a payment seen
\* as captured stays captured or is refunded, and a refund in progress is one of a
\* booked order, committed only after the gateway has paid.
LocalOK(l, money, ledger) ==
  /\ l \in Locals
  /\ l.pc \in OrderPcs => l.order \in Orders
  /\ l.pc \in {"mark", "failWrite", "failHandle"} => l.event \in Events
  /\ l.pc = "fulfil" /\ l.captured => money[l.order] \in {"captured", "refunded"}
  /\ l.pc \in RefundPcs => l.refund \in Refunds /\ l.order \in ledger
  /\ l.pc = "refundCommit" => money[l.order] = "refunded"

\* What one row of payment_orders says about the gateway and the invoices.
RowOK(o) ==
  /\ order[o].status = "PAID" => gateway[o] \in {"captured", "refunded"}
  /\ order[o].status = "REFUNDED" => gateway[o] = "refunded"
  /\ Primary(o) => o \in invoiced
  /\ o \in invoiced => gateway[o] \in {"captured", "refunded"}
  /\ gateway[o] = "refunded" => o \in Booked
  /\ order[o].status = "ABSENT" => ~order[o].duplicate /\ o \notin invoiced

TablesOK ==
  /\ order \in [Orders -> OrderRows]
  /\ refund \in [Refunds -> RefundRows]
  /\ invoiced \in SUBSET Orders
  /\ gateway \in [Orders -> GatewayStates]
  /\ sent \in SUBSET Events
  /\ processed \in SUBSET Events

\* The inductive invariant.  MoneyBacked and SinglePrimary are not inductive alone:
\* what a request writes depends on what it saw some steps ago.
LedgerInv ==
  /\ TablesOK
  /\ proc \in [Procs -> Locals]
  /\ \A p \in Procs : LocalOK(proc[p], gateway, Booked)
  /\ \A o \in Orders : RowOK(o)
  /\ SinglePrimary

-----------------------------------------------------------------------------
(* The gateway only moves forward and what is booked stays booked, so what  *)
(* other requests know of the money stays true.                             *)

Advances ==
  /\ \A o \in Orders : /\ gateway[o] = "refunded" => gateway'[o] = "refunded"
                       /\ gateway[o] = "captured" => gateway'[o] \in {"captured", "refunded"}
  /\ Booked \subseteq Booked'

\* When no request steps and money and bookings only advance, what the requests hold
\* stays true.
LEMMA LocalsKept ==
  ASSUME LedgerInv, Advances, UNCHANGED proc
  PROVE  /\ proc' \in [Procs -> Locals]
         /\ \A q \in Procs : LocalOK(proc'[q], gateway', Booked')
  BY DEF LedgerInv, Advances, LocalOK, OrderPcs, RefundPcs

\* Only the request that steps has to be looked at again.
LEMMA OneLocal ==
  ASSUME LedgerInv, Advances, NEW p \in Procs, NEW l,
         proc' = [proc EXCEPT ![p] = l],
         LocalOK(l, gateway', Booked')
  PROVE  /\ proc' \in [Procs -> Locals]
         /\ \A q \in Procs : LocalOK(proc'[q], gateway', Booked')
<1>1. l \in Locals
  BY DEF LocalOK
<1>2. proc \in [Procs -> Locals]
  BY DEF LedgerInv
<1>3. proc' \in [Procs -> Locals]
  BY <1>1, <1>2
<1>4. ASSUME NEW q \in Procs PROVE LocalOK(proc'[q], gateway', Booked')
  <2>1. CASE q = p
    BY <2>1, <1>2
  <2>2. CASE q # p
    <3>1. proc'[q] = proc[q]
      BY <2>2, <1>2
    <3>2. LocalOK(proc[q], gateway, Booked)
      BY DEF LedgerInv
    <3> QED
      BY <3>1, <3>2 DEF Advances, LocalOK, OrderPcs, RefundPcs
  <2> QED
    BY <2>1, <2>2
<1> QED
  BY <1>3, <1>4

\* A request that has ended holds nothing.
LEMMA IdleLocal ==
  ASSUME NEW money, NEW ledger
  PROVE  LocalOK(Idle, money, ledger)
  BY DEF LocalOK, Idle, Locals, Pcs, OrderPcs, RefundPcs

\* A request about to mark an event holds the event only.
LEMMA MarkLocal ==
  ASSUME NEW money, NEW ledger, NEW e \in Events
  PROVE  LocalOK([Idle EXCEPT !.pc = "mark", !.event = e], money, ledger)
  BY DEF LocalOK, Idle, Locals, Pcs, OrderPcs, RefundPcs

\* A request whose handling is over marks its event or ends.
LEMMA SettleLocal ==
  ASSUME LedgerInv, NEW p \in Procs, NEW money, NEW ledger
  PROVE  LocalOK(Settle(p), money, ledger)
<1>1. proc[p].event \in Events \cup {None}
  BY DEF LedgerInv, Locals
<1> QED
  BY <1>1, IdleLocal, MarkLocal DEF Settle

\* The events of the gateway are events.
LEMMA EventTypes ==
  /\ \A o \in Orders : CapturedEvent(o) \in Events
  /\ \A o \in Orders, n \in Attempts : FailedEvent(o, n) \in Events
  BY DEF CapturedEvent, FailedEvent, Events

\* When the orders, the invoices and the gateway are left alone, the rows stay as they were.
LEMMA RowsKept ==
  ASSUME LedgerInv, UNCHANGED <<order, invoiced, gateway>>
  PROVE  /\ Advances
         /\ Booked' = Booked
         /\ (\A o \in Orders : RowOK(o))'
         /\ SinglePrimary'
  BY DEF LedgerInv, Advances, Booked, RowOK, Primary, SinglePrimary

-----------------------------------------------------------------------------
\* The empty tables satisfy the invariant.
LEMMA LedgerInitInv ==
  ASSUME LedgerInit
  PROVE  LedgerInv
<1>1. TablesOK
  BY DEF LedgerInit, TablesOK, OrderRows, RefundRows, OrderStatuses, RefundStatuses,
         GatewayStates
<1>2. \A p \in Procs : proc[p] = Idle
  BY DEF LedgerInit
<1>3. /\ proc \in [Procs -> Locals]
      /\ \A p \in Procs : LocalOK(proc[p], gateway, Booked)
  <2>1. Idle \in Locals
    BY IdleLocal DEF LocalOK
  <2> QED
    BY <1>2, <2>1, IdleLocal DEF LedgerInit
<1>4. (\A o \in Orders : RowOK(o)) /\ SinglePrimary
  BY DEF LedgerInit, RowOK, Primary, Booked, SinglePrimary
<1> QED
  BY <1>1, <1>3, <1>4 DEF LedgerInv

-----------------------------------------------------------------------------
(* The steps that write no order, no invoice and nothing at the gateway.    *)

\* A step that leaves orders, invoices and the gateway alone: the new locals suffice.
LEMMA QuietStep ==
  ASSUME LedgerInv, NEW p \in Procs, NEW l,
         UNCHANGED <<order, invoiced, gateway>>,
         refund' \in [Refunds -> RefundRows],
         sent' \in SUBSET Events, processed' \in SUBSET Events,
         proc' = [proc EXCEPT ![p] = l],
         LocalOK(l, gateway, Booked)
  PROVE  LedgerInv'
<1>1. Advances /\ Booked' = Booked /\ (\A o \in Orders : RowOK(o))' /\ SinglePrimary'
  BY RowsKept
<1>2. proc' \in [Procs -> Locals] /\ \A q \in Procs : LocalOK(proc'[q], gateway', Booked')
  <2>1. LocalOK(l, gateway', Booked')
    BY <1>1
  <2> QED
    BY <1>1, <2>1, OneLocal
<1>3. TablesOK'
  BY DEF LedgerInv, TablesOK
<1> QED
  BY <1>1, <1>2, <1>3 DEF LedgerInv

\* A fetched payment is captured at the gateway when the request says so.
LEMMA FetchPaymentInv ==
  ASSUME LedgerInv, NEW p \in Procs, NEW o \in Orders, NEW e \in Events \cup {None},
         FetchPayment(p, o, e)
  PROVE  LedgerInv'
<1>1. LocalOK(Fetched(o, e), gateway, Booked)
  <2>1. IsCaptured(o) \in BOOLEAN /\ (IsCaptured(o) => gateway[o] = "captured")
    BY DEF IsCaptured
  <2>2. Fetched(o, e) = [pc |-> "fulfil", order |-> o, event |-> e,
                         captured |-> IsCaptured(o), refund |-> None]
    BY DEF Fetched
  <2>3. Fetched(o, e) \in Locals
    BY <2>1, <2>2 DEF Locals, Pcs
  <2> QED
    BY <2>1, <2>2, <2>3 DEF LocalOK, OrderPcs, RefundPcs
<1>2. /\ UNCHANGED <<order, invoiced, gateway, refund, sent, processed>>
      /\ proc' = [proc EXCEPT ![p] = Fetched(o, e)]
  BY DEF FetchPayment
<1>3. /\ refund' \in [Refunds -> RefundRows]
      /\ sent' \in SUBSET Events /\ processed' \in SUBSET Events
  BY <1>2 DEF LedgerInv, TablesOK
<1> QED
  BY <1>1, <1>2, <1>3, QuietStep

\* Verify calls and webhooks keep the invariant when they arrive.
LEMMA ReceiveInv ==
  ASSUME LedgerInv, NEW p \in Procs, Receive(p)
  PROVE  LedgerInv'
<1>1. CASE \E o \in Orders : Verify(p, o)
  BY <1>1, FetchPaymentInv DEF Verify
<1>2. CASE \E o \in Orders : WebhookCaptured(p, o)
  BY <1>2, FetchPaymentInv, EventTypes DEF WebhookCaptured
<1>3. ASSUME NEW o \in Orders, NEW n \in Attempts, WebhookFailed(p, o, n)
      PROVE  LedgerInv'
  <2> DEFINE e == FailedEvent(o, n)
             write == [Idle EXCEPT !.pc = "failWrite", !.order = o, !.event = e]
             mark  == [Idle EXCEPT !.pc = "mark", !.event = e]
  <2>1. e \in Events
    BY EventTypes
  <2>2. LocalOK(mark, gateway, Booked)
    BY <2>1, MarkLocal
  <2>3. LocalOK(write, gateway, Booked)
    BY <2>1 DEF LocalOK, Idle, Locals, Pcs, OrderPcs, RefundPcs
  <2>4. UNCHANGED <<order, invoiced, gateway, refund, sent, processed>>
    BY <1>3 DEF WebhookFailed
  <2>5. \/ proc' = [proc EXCEPT ![p] = write]
        \/ proc' = [proc EXCEPT ![p] = mark]
    BY <1>3 DEF WebhookFailed
  <2>6. /\ refund' \in [Refunds -> RefundRows]
        /\ sent' \in SUBSET Events /\ processed' \in SUBSET Events
    BY <2>4 DEF LedgerInv, TablesOK
  <2> HIDE DEF write, mark
  <2> QED
    BY <2>2, <2>3, <2>4, <2>5, <2>6, QuietStep
<1> QED
  BY <1>1, <1>2, <1>3 DEF Receive

\* Requests that end, in success, refusal, rollback or a crash, keep the invariant.
LEMMA SettlingInv ==
  ASSUME LedgerInv, NEW p \in Procs,
         \/ FulfilAlreadyPaid(p) \/ FulfilRefused(p) \/ FulfilRolledBack(p)
         \/ FailHandled(p) \/ Crash(p) \/ RefundAlreadyRecorded(p)
  PROVE  LedgerInv'
<1>1. UNCHANGED <<order, invoiced, gateway, refund, sent, processed>>
  BY DEF FulfilAlreadyPaid, FulfilRefused, FulfilRolledBack, FailHandled, Crash,
         RefundAlreadyRecorded
<1>2. \/ proc' = [proc EXCEPT ![p] = Settle(p)]
      \/ proc' = [proc EXCEPT ![p] = Idle]
  BY DEF FulfilAlreadyPaid, FulfilRefused, FulfilRolledBack, FailHandled, Crash,
         RefundAlreadyRecorded
<1>3. /\ refund' \in [Refunds -> RefundRows]
      /\ sent' \in SUBSET Events /\ processed' \in SUBSET Events
  BY <1>1 DEF LedgerInv, TablesOK
<1>4. LocalOK(Settle(p), gateway, Booked) /\ LocalOK(Idle, gateway, Booked)
  BY SettleLocal, IdleLocal
<1> QED
  BY <1>1, <1>2, <1>3, <1>4, QuietStep

\* Marking an event as processed keeps the invariant.
LEMMA MarkProcessedInv ==
  ASSUME LedgerInv, NEW p \in Procs, MarkProcessed(p)
  PROVE  LedgerInv'
<1>1. proc[p].event \in Events
  BY DEF LedgerInv, LocalOK, MarkProcessed
<1>2. /\ UNCHANGED <<order, invoiced, gateway, refund, sent>>
      /\ processed' \in SUBSET Events
      /\ proc' = [proc EXCEPT ![p] = Idle]
  BY <1>1 DEF LedgerInv, TablesOK, MarkProcessed
<1>3. refund' \in [Refunds -> RefundRows] /\ sent' \in SUBSET Events
  BY <1>2 DEF LedgerInv, TablesOK
<1> QED
  BY <1>2, <1>3, IdleLocal, QuietStep

-----------------------------------------------------------------------------
(* Refunds up to the gateway's answer.                                      *)

\* A PAID order is invoiced or a duplicate capture, hence booked.
LEMMA PaidIsBooked ==
  ASSUME LedgerInv, NEW o \in Orders, order[o].status = "PAID"
  PROVE  o \in Booked
  BY DEF LedgerInv, RowOK, Primary, Booked

\* A refund starts from a booked order, first or taken over (recordRefund, phase 1).
LEMMA RefundRequestInv ==
  ASSUME LedgerInv, NEW p \in Procs, NEW o \in Orders, RefundRequest(p, o)
  PROVE  LedgerInv'
<1>1. PICK r \in Refunds : TakeOverRefund(p, o, r) \/ OpenRefund(p, o, r)
  BY DEF RefundRequest
<1> DEFINE call == [Idle EXCEPT !.pc = "refundFetch", !.order = o, !.refund = r]
<1>2. o \in Booked
  BY <1>1, PaidIsBooked DEF TakeOverRefund, OpenRefund, Refundable
<1>3. LocalOK(call, gateway, Booked)
  BY <1>2 DEF LocalOK, Idle, Locals, Pcs, OrderPcs, RefundPcs
<1>4. /\ UNCHANGED <<order, invoiced, gateway, sent, processed>>
      /\ proc' = [proc EXCEPT ![p] = call]
  BY <1>1 DEF TakeOverRefund, OpenRefund
<1>5. refund' \in [Refunds -> RefundRows]
  <2>1. refund \in [Refunds -> RefundRows]
    BY DEF LedgerInv, TablesOK
  <2>2. CASE TakeOverRefund(p, o, r)
    BY <2>1, <2>2 DEF TakeOverRefund, RefundRows
  <2>3. CASE OpenRefund(p, o, r)
    <3> DEFINE row == [order |-> o, status |-> "PENDING", fresh |-> TRUE]
    <3>1. row \in RefundRows
      BY DEF RefundRows, RefundStatuses
    <3>2. refund' = [refund EXCEPT ![r] = row]
      BY <2>3 DEF OpenRefund
    <3> HIDE DEF row
    <3> QED
      BY <2>1, <3>1, <3>2
  <2> QED
    BY <1>1, <2>2, <2>3
<1>6. sent' \in SUBSET Events /\ processed' \in SUBSET Events
  BY <1>4 DEF LedgerInv, TablesOK
<1> HIDE DEF call
<1> QED
  BY <1>3, <1>4, <1>5, <1>6, QuietStep

\* What a request that talks to the gateway about a refund knows.
LEMMA RefundingLocals ==
  ASSUME LedgerInv, NEW p \in Procs, proc[p].pc \in RefundPcs
  PROVE  /\ proc[p] \in Locals
         /\ proc[p].order \in Booked /\ proc[p].order \in Orders
         /\ proc[p].refund \in Refunds
         /\ proc[p].pc = "refundCommit" => gateway[proc[p].order] = "refunded"
  BY DEF LedgerInv, LocalOK, OrderPcs

\* The request goes on to fail or, once the gateway has paid, to commit.
LEMMA AnsweredLocal ==
  ASSUME LedgerInv, NEW p \in Procs, proc[p].pc \in RefundPcs,
         NEW pc \in {"refundCall", "refundFail", "refundCommit"}, NEW money, NEW ledger,
         Booked \subseteq ledger,
         pc = "refundCommit" => money[proc[p].order] = "refunded"
  PROVE  LocalOK([proc[p] EXCEPT !.pc = pc], money, ledger)
<1> DEFINE l == [proc[p] EXCEPT !.pc = pc]
<1>1. /\ proc[p] \in Locals
      /\ proc[p].order \in Booked /\ proc[p].order \in Orders
      /\ proc[p].refund \in Refunds
  BY RefundingLocals
<1>2. /\ l \in Locals
      /\ l.pc = pc /\ l.order = proc[p].order /\ l.refund = proc[p].refund
  BY <1>1 DEF Locals, Pcs
<1> HIDE DEF l
<1>3. LocalOK(l, money, ledger)
  BY <1>1, <1>2 DEF LocalOK
<1> QED
  BY <1>3 DEF l

\* The gateway's answers to a refund keep the invariant.
LEMMA AnswerInv ==
  ASSUME LedgerInv, NEW p \in Procs,
         FetchBeforeRefund(p) \/ GatewayAlreadyRefunded(p) \/ GatewayRefuses(p)
  PROVE  LedgerInv'
<1>1. /\ proc[p].pc \in RefundPcs
      /\ UNCHANGED <<order, invoiced, gateway, refund, sent, processed>>
  BY DEF FetchBeforeRefund, GatewayAlreadyRefunded, GatewayRefuses, RefundPcs
<1>2. PICK pc \in {"refundCall", "refundFail", "refundCommit"} :
        /\ proc' = [proc EXCEPT ![p].pc = pc]
        /\ pc = "refundCommit" => gateway[proc[p].order] = "refunded"
  BY DEF FetchBeforeRefund, GatewayAlreadyRefunded, GatewayRefuses
<1>3. proc' = [proc EXCEPT ![p] = [proc[p] EXCEPT !.pc = pc]]
  BY <1>2
<1>4. LocalOK([proc[p] EXCEPT !.pc = pc], gateway, Booked)
  BY <1>1, <1>2, AnsweredLocal
<1>5. /\ refund' \in [Refunds -> RefundRows]
      /\ sent' \in SUBSET Events /\ processed' \in SUBSET Events
  BY <1>1 DEF LedgerInv, TablesOK
<1> QED
  BY <1>1, <1>3, <1>4, <1>5, QuietStep

\* A refund that failed touches its own row only.
LEMMA RefundFailInv ==
  ASSUME LedgerInv, NEW p \in Procs, RefundFail(p)
  PROVE  LedgerInv'
<1>1. /\ UNCHANGED <<order, invoiced, gateway, sent, processed>>
      /\ proc' = [proc EXCEPT ![p] = Idle]
  BY DEF RefundFail
<1>2. refund' \in [Refunds -> RefundRows]
  BY DEF LedgerInv, TablesOK, RefundFail, RefundRows, RefundStatuses
<1>3. sent' \in SUBSET Events /\ processed' \in SUBSET Events
  BY <1>1 DEF LedgerInv, TablesOK
<1> QED
  BY <1>1, <1>2, <1>3, IdleLocal, QuietStep

-----------------------------------------------------------------------------
(* The steps at the gateway.                                                *)

\* Money that moves forward at the gateway, and back only if it was booked, leaves
\* every row as consistent as it was.
LEMMA GatewayMoves ==
  ASSUME LedgerInv, NEW o \in Orders, NEW g \in GatewayStates,
         \/ gateway[o] \in {"unpaid", "authorized"} /\ g \in {"authorized", "captured"}
         \/ gateway[o] = "captured" /\ g = "refunded" /\ o \in Booked,
         gateway' = [gateway EXCEPT ![o] = g],
         UNCHANGED <<order, invoiced>>
  PROVE  /\ Advances
         /\ Booked' = Booked
         /\ gateway' \in [Orders -> GatewayStates]
         /\ (\A q \in Orders : RowOK(q))'
         /\ SinglePrimary'
<1>1. gateway \in [Orders -> GatewayStates]
  BY DEF LedgerInv, TablesOK
<1>2. Booked' = Booked
  BY DEF Booked
<1>3. \A q \in Orders : gateway'[q] = IF q = o THEN g ELSE gateway[q]
  BY <1>1
<1>4. Advances
  BY <1>2, <1>3 DEF Advances
<1>5. gateway' \in [Orders -> GatewayStates]
  BY <1>1
<1>6. ASSUME NEW q \in Orders PROVE RowOK(q)'
  <2>1. RowOK(q)
    BY DEF LedgerInv
  <2> QED
    BY <1>2, <1>3, <2>1 DEF RowOK, Primary
<1>7. SinglePrimary'
  BY DEF LedgerInv, SinglePrimary, Primary
<1> QED
  BY <1>2, <1>4, <1>5, <1>6, <1>7

\* Payments at the gateway only advance.
LEMMA GatewayStepInv ==
  ASSUME LedgerInv, GatewayStep
  PROVE  LedgerInv'
<1>1. ASSUME NEW o \in Orders, Authorize(o) \/ Capture(o)
      PROVE  LedgerInv'
  <2>1. PICK g \in {"authorized", "captured"} :
          /\ gateway[o] \in {"unpaid", "authorized"}
          /\ gateway' = [gateway EXCEPT ![o] = g]
    BY <1>1 DEF Authorize, Capture
  <2>2. UNCHANGED <<order, refund, invoiced, processed, proc>>
    BY <1>1 DEF Authorize, Capture
  <2>3. /\ Advances
        /\ gateway' \in [Orders -> GatewayStates]
        /\ (\A q \in Orders : RowOK(q))'
        /\ SinglePrimary'
    BY <2>1, <2>2, GatewayMoves DEF GatewayStates
  <2>4. sent' \in SUBSET Events
    BY <1>1, EventTypes DEF LedgerInv, TablesOK, Authorize, Capture
  <2>5. TablesOK'
    BY <2>2, <2>3, <2>4 DEF LedgerInv, TablesOK
  <2> QED
    BY <2>2, <2>3, <2>5, LocalsKept DEF LedgerInv
<1>2. ASSUME NEW o \in Orders, NEW n \in Attempts, AttemptFails(o, n)
      PROVE  LedgerInv'
  <2>1. UNCHANGED <<order, refund, invoiced, gateway, processed, proc>>
    BY <1>2 DEF AttemptFails
  <2>2. sent' \in SUBSET Events
    BY <1>2, EventTypes DEF LedgerInv, TablesOK, AttemptFails
  <2>3. TablesOK'
    BY <2>1, <2>2 DEF LedgerInv, TablesOK
  <2> QED
    BY <2>1, <2>3, RowsKept, LocalsKept DEF LedgerInv
<1> QED
  BY <1>1, <1>2 DEF GatewayStep

\* The gateway pays back captured money of booked orders only.
LEMMA GatewayPaysInv ==
  ASSUME LedgerInv, NEW p \in Procs, GatewayRefunds(p) \/ GatewayAnswerLost(p)
  PROVE  LedgerInv'
<1> DEFINE o == proc[p].order
<1>1. /\ proc[p].pc \in RefundPcs
      /\ gateway[o] = "captured"
      /\ gateway' = [gateway EXCEPT ![o] = "refunded"]
      /\ UNCHANGED <<order, refund, invoiced, sent, processed>>
  BY DEF GatewayRefunds, GatewayAnswerLost, RefundPcs
<1>2. PICK pc \in {"refundFail", "refundCommit"} : proc' = [proc EXCEPT ![p].pc = pc]
  BY DEF GatewayRefunds, GatewayAnswerLost
<1>3. o \in Orders /\ o \in Booked
  BY <1>1, RefundingLocals
<1> HIDE DEF o
<1>4. /\ Advances
      /\ Booked' = Booked
      /\ gateway' \in [Orders -> GatewayStates]
      /\ (\A q \in Orders : RowOK(q))'
      /\ SinglePrimary'
  BY <1>1, <1>3, GatewayMoves DEF GatewayStates
<1>5. gateway'[o] = "refunded"
  BY <1>1, <1>3 DEF LedgerInv, TablesOK
<1>6. LocalOK([proc[p] EXCEPT !.pc = pc], gateway', Booked')
  BY <1>1, <1>4, <1>5, AnsweredLocal DEF o
<1>7. proc' = [proc EXCEPT ![p] = [proc[p] EXCEPT !.pc = pc]]
  BY <1>2
<1>8. proc' \in [Procs -> Locals] /\ \A q \in Procs : LocalOK(proc'[q], gateway', Booked')
  BY <1>4, <1>6, <1>7, OneLocal
<1>9. TablesOK'
  BY <1>1, <1>4 DEF LedgerInv, TablesOK
<1> QED
  BY <1>4, <1>8, <1>9 DEF LedgerInv
-----------------------------------------------------------------------------
(* The steps that write an order.                                           *)

\* A step that makes no order primary and moves none to another reference keeps
\* SinglePrimary.
LEMMA FewerPrimaries ==
  ASSUME LedgerInv,
         \A o \in Orders : Primary(o)' => Primary(o) /\ order'[o].ref = order[o].ref
  PROVE  SinglePrimary'
  BY DEF LedgerInv, SinglePrimary

\* One order gets another status: the other rows are left as they were.
LEMMA StatusWritten ==
  ASSUME LedgerInv, NEW o \in Orders, NEW s \in OrderStatuses \ {"ABSENT", "PAID"},
         order' = [order EXCEPT ![o].status = s],
         UNCHANGED <<invoiced, gateway>>,
         s = "REFUNDED" => gateway[o] = "refunded"
  PROVE  /\ Advances
         /\ order' \in [Orders -> OrderRows]
         /\ (\A q \in Orders : RowOK(q))'
         /\ SinglePrimary'
<1>1. order \in [Orders -> OrderRows] /\ gateway \in [Orders -> GatewayStates]
  BY DEF LedgerInv, TablesOK
<1>2. \A q \in Orders : /\ order'[q].ref = order[q].ref
                        /\ order'[q].duplicate = order[q].duplicate
                        /\ order'[q].status = IF q = o THEN s ELSE order[q].status
  BY <1>1 DEF OrderRows
<1>3. Booked' = Booked
  BY <1>2 DEF Booked
<1>4. order' \in [Orders -> OrderRows]
  BY <1>1 DEF OrderRows
<1>5. ASSUME NEW q \in Orders PROVE RowOK(q)'
  <2>1. RowOK(q)
    BY DEF LedgerInv
  <2> QED
    BY <1>2, <1>3, <2>1 DEF RowOK, Primary
<1>6. SinglePrimary'
  BY <1>2, FewerPrimaries DEF Primary
<1> QED
  BY <1>3, <1>4, <1>5, <1>6 DEF Advances

\* A stale payment.failed may undo PAID, which only weakens the claims (markOrderFailed).
LEMMA FailWriteInv ==
  ASSUME LedgerInv, NEW p \in Procs, FailWrite(p)
  PROVE  LedgerInv'
<1> DEFINE o == proc[p].order
           l == [proc[p] EXCEPT !.pc = "failHandle"]
<1>1. o \in Orders /\ proc[p].event \in Events /\ proc[p] \in Locals
  BY DEF LedgerInv, LocalOK, OrderPcs, FailWrite
<1>2. /\ order' = [order EXCEPT ![o].status = "FAILED"]
      /\ proc' = [proc EXCEPT ![p] = l]
      /\ UNCHANGED <<refund, invoiced, gateway, sent, processed>>
  BY DEF FailWrite
<1>3. LocalOK(l, gateway', Booked')
  <2>1. l \in Locals /\ l.pc = "failHandle" /\ l.order = o /\ l.event = proc[p].event
    BY <1>1 DEF Locals, Pcs
  <2> HIDE DEF l
  <2> QED
    BY <1>1, <2>1 DEF LocalOK, OrderPcs, RefundPcs
<1> HIDE DEF o, l
<1>4. /\ Advances
      /\ order' \in [Orders -> OrderRows]
      /\ (\A q \in Orders : RowOK(q))'
      /\ SinglePrimary'
  <2>1. /\ "FAILED" \in OrderStatuses \ {"ABSENT", "PAID"}
        /\ "FAILED" # "REFUNDED"
    BY DEF OrderStatuses
  <2>2. UNCHANGED <<invoiced, gateway>>
    BY <1>2
  <2> QED
    BY <1>1, <1>2, <2>1, <2>2, StatusWritten
<1>5. proc' \in [Procs -> Locals] /\ \A q \in Procs : LocalOK(proc'[q], gateway', Booked')
  BY <1>2, <1>3, <1>4, OneLocal
<1>6. TablesOK'
  BY <1>2, <1>4 DEF LedgerInv, TablesOK
<1> QED
  BY <1>4, <1>5, <1>6 DEF LedgerInv

\* A refund is recorded only with the money back (recordRefund, phase 3).
LEMMA RefundCommitInv ==
  ASSUME LedgerInv, NEW p \in Procs, RefundCommit(p)
  PROVE  LedgerInv'
<1> DEFINE o == proc[p].order
<1>1. o \in Orders /\ gateway[o] = "refunded"
  BY RefundingLocals DEF RefundCommit, RefundPcs
<1>2. /\ order' = [order EXCEPT ![o].status = "REFUNDED"]
      /\ refund' = [refund EXCEPT ![proc[p].refund].status = "PROCESSED"]
      /\ proc' = [proc EXCEPT ![p] = Idle]
      /\ UNCHANGED <<invoiced, gateway, sent, processed>>
  BY DEF RefundCommit
<1> HIDE DEF o
<1>3. /\ Advances
      /\ order' \in [Orders -> OrderRows]
      /\ (\A q \in Orders : RowOK(q))'
      /\ SinglePrimary'
  BY <1>1, <1>2, StatusWritten DEF OrderStatuses
<1>4. proc' \in [Procs -> Locals] /\ \A q \in Procs : LocalOK(proc'[q], gateway', Booked')
  BY <1>2, <1>3, IdleLocal, OneLocal
<1>5. refund' \in [Refunds -> RefundRows]
  <2>1. refund \in [Refunds -> RefundRows]
    BY DEF LedgerInv, TablesOK
  <2> QED
    BY <1>2, <2>1 DEF RefundRows, RefundStatuses
<1>6. TablesOK'
  BY <1>2, <1>3, <1>5 DEF LedgerInv, TablesOK
<1> QED
  BY <1>3, <1>4, <1>6 DEF LedgerInv

\* A checkout closes pending orders and opens one: no order in it is paid.
LEMMA OpenOrderInv ==
  ASSUME LedgerInv, NEW ref \in Refs, NEW product \in Products, NEW new \in Orders,
         OpenOrder(ref, product, new)
  PROVE  LedgerInv'
<1> DEFINE row == [status |-> "CREATED", ref |-> ref, product |-> product,
                   duplicate |-> FALSE]
           kept(o) == [order[o] EXCEPT !.status = IF o \in Pending(ref) THEN "FAILED" ELSE @]
<1>1. /\ order[new].status = "ABSENT"
      /\ order' = [o \in Orders |-> IF o = new THEN row ELSE kept(o)]
      /\ UNCHANGED <<refund, invoiced, gateway, sent, processed, proc>>
  BY DEF OpenOrder
<1>2. order \in [Orders -> OrderRows]
  BY DEF LedgerInv, TablesOK
<1>3. row \in OrderRows /\ row.status = "CREATED" /\ row.duplicate = FALSE
  BY DEF OrderRows, OrderStatuses
<1>4. ASSUME NEW o \in Orders
      PROVE  /\ kept(o) \in OrderRows
             /\ kept(o).ref = order[o].ref /\ kept(o).duplicate = order[o].duplicate
             /\ \/ kept(o).status = order[o].status
                \/ order[o].status = "CREATED" /\ kept(o).status = "FAILED"
  <2>1. order[o] \in OrderRows
    BY <1>2
  <2>2. /\ kept(o) \in OrderRows
        /\ kept(o).ref = order[o].ref /\ kept(o).duplicate = order[o].duplicate
        /\ kept(o).status = IF o \in Pending(ref) THEN "FAILED" ELSE order[o].status
    BY <2>1 DEF OrderRows, OrderStatuses
  <2> QED
    BY <2>2 DEF Pending
<1> HIDE DEF row, kept
<1>5. order' \in [Orders -> OrderRows]
  BY <1>1, <1>3, <1>4
<1>6. ASSUME NEW o \in Orders
      PROVE  /\ order'[o].duplicate = order[o].duplicate
             /\ \/ order'[o].status = order[o].status /\ order'[o].ref = order[o].ref
                \/ order'[o].status \in {"CREATED", "FAILED"}
  <2>1. RowOK(new) /\ order[new].duplicate \in BOOLEAN
    BY <1>2 DEF LedgerInv, OrderRows
  <2>2. order[new].duplicate = FALSE
    BY <1>1, <2>1 DEF RowOK
  <2>3. CASE o = new
    BY <1>1, <1>3, <2>2, <2>3
  <2>4. CASE o # new
    BY <1>1, <1>4, <2>4
  <2> QED
    BY <2>3, <2>4
<1>7. Booked' = Booked
  BY <1>1, <1>6 DEF Booked
<1>8. Advances
  BY <1>1, <1>7 DEF Advances
<1>9. ASSUME NEW o \in Orders PROVE RowOK(o)'
  <2>1. RowOK(o)
    BY DEF LedgerInv
  <2> QED
    BY <1>1, <1>6, <1>7, <2>1 DEF RowOK, Primary
<1>10. SinglePrimary'
  BY <1>6, FewerPrimaries DEF Primary
<1>11. TablesOK'
  BY <1>1, <1>5 DEF LedgerInv, TablesOK
<1> QED
  BY <1>1, <1>8, <1>9, <1>10, <1>11, LocalsKept DEF LedgerInv

\* What a request knows when it books an order.
LEMMA FulfillingLocals ==
  ASSUME LedgerInv, NEW p \in Procs, proc[p].pc = "fulfil", proc[p].captured
  PROVE  /\ proc[p].order \in Orders
         /\ gateway[proc[p].order] \in {"captured", "refunded"}
  BY DEF LedgerInv, LocalOK, OrderPcs

\* A second capture is paid as a duplicate, not as a primary.
LEMMA FulfilDuplicateInv ==
  ASSUME LedgerInv, NEW p \in Procs, FulfilDuplicate(p)
  PROVE  LedgerInv'
<1> DEFINE o == proc[p].order
<1>1. o \in Orders /\ gateway[o] \in {"captured", "refunded"}
  BY FulfillingLocals DEF FulfilDuplicate
<1>2. /\ order' = [order EXCEPT ![o].status = "PAID", ![o].duplicate = TRUE]
      /\ proc' = [proc EXCEPT ![p] = Settle(p)]
      /\ UNCHANGED <<refund, invoiced, gateway, sent, processed>>
  BY DEF FulfilDuplicate
<1> HIDE DEF o
<1>3. order \in [Orders -> OrderRows]
  BY DEF LedgerInv, TablesOK
<1>4. order' \in [Orders -> OrderRows]
  BY <1>2, <1>3 DEF OrderRows, OrderStatuses
<1>5. \A q \in Orders : /\ q # o => order'[q] = order[q]
                        /\ q = o => order'[q].status = "PAID" /\ order'[q].duplicate
  BY <1>2, <1>3 DEF OrderRows
<1>6. Booked' = Booked \cup {o}
  BY <1>1, <1>2, <1>5 DEF Booked
<1>7. Advances
  BY <1>2, <1>6 DEF Advances
<1>8. ASSUME NEW q \in Orders PROVE RowOK(q)'
  <2>1. RowOK(q)
    BY DEF LedgerInv
  <2> QED
    BY <1>1, <1>2, <1>5, <1>6, <2>1 DEF RowOK, Primary
<1>9. SinglePrimary'
  BY <1>5, FewerPrimaries DEF Primary
<1>10. proc' \in [Procs -> Locals] /\ \A q \in Procs : LocalOK(proc'[q], gateway', Booked')
  BY <1>2, <1>7, SettleLocal, OneLocal
<1>11. TablesOK'
  BY <1>2, <1>4 DEF LedgerInv, TablesOK
<1> QED
  BY <1>8, <1>9, <1>10, <1>11 DEF LedgerInv

\* The lock on every order of the reference is what keeps the new primary alone:
\* another primary would have been found among the related orders.
LEMMA FulfilPrimaryInv ==
  ASSUME LedgerInv, NEW p \in Procs, FulfilPrimary(p)
  PROVE  LedgerInv'
<1> DEFINE o == proc[p].order
<1>1. o \in Orders /\ gateway[o] \in {"captured", "refunded"}
  BY FulfillingLocals DEF FulfilPrimary, RunsHandler
<1>2. /\ ~OtherPaid(o)
      /\ order' = [order EXCEPT ![o].status = "PAID"]
      /\ invoiced' = invoiced \cup {o}
      /\ proc' = [proc EXCEPT ![p] = Settle(p)]
      /\ UNCHANGED <<refund, gateway, sent, processed>>
  BY DEF FulfilPrimary, RunsHandler
<1> HIDE DEF o
<1>3. order \in [Orders -> OrderRows]
  BY DEF LedgerInv, TablesOK
<1>4. order' \in [Orders -> OrderRows]
  BY <1>2, <1>3 DEF OrderRows, OrderStatuses
<1>5. \A q \in Orders : /\ q # o => order'[q] = order[q]
                        /\ order'[q].ref = order[q].ref
                        /\ order'[q].duplicate = order[q].duplicate
                        /\ q = o => order'[q].status = "PAID"
  BY <1>2, <1>3 DEF OrderRows
<1>6. Booked' = Booked \cup {o}
  BY <1>1, <1>2, <1>5 DEF Booked
<1>7. Advances
  BY <1>2, <1>6 DEF Advances
<1>8. ASSUME NEW q \in Orders PROVE RowOK(q)'
  <2>1. RowOK(q)
    BY DEF LedgerInv
  <2> QED
    BY <1>1, <1>2, <1>5, <1>6, <2>1 DEF RowOK, Primary
<1>9. SinglePrimary'
  <2>1. \A q \in Orders \ {o} : order[q].ref = order[o].ref => order[q].status # "PAID"
    BY <1>2 DEF OtherPaid, Related
  <2>2. \A q \in Orders \ {o} : Primary(q)' => Primary(q) /\ order[q].ref # order[o].ref
    BY <1>5, <2>1 DEF Primary
  <2> QED
    BY <1>5, <2>2 DEF LedgerInv, SinglePrimary
<1>10. proc' \in [Procs -> Locals] /\ \A q \in Procs : LocalOK(proc'[q], gateway', Booked')
  BY <1>2, <1>7, SettleLocal, OneLocal
<1>11. TablesOK'
  BY <1>1, <1>2, <1>4 DEF LedgerInv, TablesOK
<1> QED
  BY <1>8, <1>9, <1>10, <1>11 DEF LedgerInv

\* The age of a pending refund is no part of the invariant.
LEMMA RefundAgesInv ==
  ASSUME LedgerInv, NEW r \in Refunds, RefundAges(r)
  PROVE  LedgerInv'
<1>1. refund \in [Refunds -> RefundRows]
  BY DEF LedgerInv, TablesOK
<1>2. refund' \in [Refunds -> RefundRows]
  BY <1>1 DEF RefundAges, RefundRows
<1>3. UNCHANGED <<order, invoiced, gateway, sent, processed, proc>>
  BY DEF RefundAges
<1>4. TablesOK'
  BY <1>2, <1>3 DEF LedgerInv, TablesOK
<1> QED
  BY <1>3, <1>4, RowsKept, LocalsKept DEF LedgerInv

\* A stuttering step keeps the invariant.
LEMMA LedgerStutterInv ==
  ASSUME LedgerInv, UNCHANGED ledgerVars
  PROVE  LedgerInv'
<1>1. UNCHANGED <<order, refund, invoiced, gateway, sent, processed, proc>>
  BY DEF ledgerVars
<1>2. TablesOK'
  BY <1>1 DEF LedgerInv, TablesOK
<1> QED
  BY <1>1, <1>2, RowsKept, LocalsKept DEF LedgerInv

\* Every step of the ledger keeps the invariant.
LEMMA LedgerNextInv ==
  ASSUME LedgerInv, LedgerNext
  PROVE  LedgerInv'
<1>1. CASE GatewayStep
  BY <1>1, GatewayStepInv
<1>2. CASE \E r \in Refunds : RefundAges(r)
  BY <1>2, RefundAgesInv
<1>3. ASSUME NEW p \in Procs, FulfilStep(p) PROVE LedgerInv'
  BY <1>3, SettlingInv, FulfilDuplicateInv DEF FulfilStep
<1>4. ASSUME NEW p \in Procs, RefundStep(p) PROVE LedgerInv'
  BY <1>4, GatewayPaysInv, AnswerInv, RefundFailInv, SettlingInv DEF RefundStep
<1>5. ASSUME NEW p \in Procs, Receive(p) \/ MarkProcessed(p) \/ FailWrite(p) PROVE LedgerInv'
  BY <1>5, ReceiveInv, MarkProcessedInv, FailWriteInv
<1>6. CASE PlainStep
  BY <1>1, <1>2, <1>3, <1>4, <1>5, <1>6 DEF PlainStep
<1>7. ASSUME NEW ref \in Refs, NEW product \in Products,
             ReuseOrder(ref, product) \/ \E new \in Orders : OpenOrder(ref, product, new)
      PROVE  LedgerInv'
  BY <1>7, LedgerStutterInv, OpenOrderInv DEF ReuseOrder
<1>8. ASSUME NEW p \in Procs,
             FulfilPrimary(p) \/ FulfilRolledBack(p) \/ FailHandled(p) \/ RefundCommit(p)
             \/ Crash(p)
      PROVE  LedgerInv'
  BY <1>8, FulfilPrimaryInv, SettlingInv, RefundCommitInv
<1>9. ASSUME NEW p \in Procs, NEW o \in Orders, RefundRequest(p, o) PROVE LedgerInv'
  BY <1>9, RefundRequestInv
<1> QED
  BY <1>6, <1>7, <1>8, <1>9 DEF LedgerNext

-----------------------------------------------------------------------------
(* The theorems.                                                            *)

\* The inductive invariant of the ledger holds in every behaviour.
THEOREM LedgerInvariant == LedgerSpec => []LedgerInv
<1>1. LedgerInit => LedgerInv
  BY LedgerInitInv
<1>2. LedgerInv /\ [LedgerNext]_ledgerVars => LedgerInv'
  BY LedgerNextInv, LedgerStutterInv
<1> QED
  BY <1>1, <1>2, PTL DEF LedgerSpec

\* The tables and the requests' locals keep their types.
THEOREM LedgerTypes == LedgerSpec => []LedgerTypeOK
<1>1. LedgerInv => LedgerTypeOK
  BY DEF LedgerInv, TablesOK, LedgerTypeOK
<1> QED
  BY <1>1, LedgerInvariant, PTL

\* However many requests and webhooks fulfil the orders of a reference, at most one
\* of them is paid for the product (fulfillOrderLocked).
THEOREM LedgerSinglePrimary == LedgerSpec => []SinglePrimary
<1>1. LedgerInv => SinglePrimary
  BY DEF LedgerInv
<1> QED
  BY <1>1, LedgerInvariant, PTL

\* The ledger never runs ahead of the gateway: PAID, REFUNDED and invoices are backed
\* by money, although both are written by requests that saw it some steps ago.
THEOREM LedgerMoneyBacked == LedgerSpec => []MoneyBacked
<1>1. LedgerInv => MoneyBacked
  BY DEF LedgerInv, RowOK, MoneyBacked, TablesOK
<1> QED
  BY <1>1, LedgerInvariant, PTL

-----------------------------------------------------------------------------
(* The ledger implements PaymentAccounting: every step captures, books or   *)
(* returns the money of one order, or changes nothing of the accounts.      *)

AccountingStutters == Money' = Money /\ Booked' = Booked

\* The abstract money of an order, by its state at the gateway.
LEMMA MoneyValues ==
  ASSUME LedgerInv
  PROVE  /\ Money \in [Orders -> {"none", "captured", "returned"}]
         /\ \A o \in Orders : /\ Money[o] = "captured" <=> gateway[o] = "captured"
                              /\ Money[o] = "returned" <=> gateway[o] = "refunded"
                              /\ Money[o] = "none" <=> gateway[o] \in {"unpaid", "authorized"}
<1>1. gateway \in [Orders -> GatewayStates]
  BY DEF LedgerInv, TablesOK
<1>2. \A g \in GatewayStates : /\ MoneyIn(g) \in {"none", "captured", "returned"}
                               /\ MoneyIn(g) = "captured" <=> g = "captured"
                               /\ MoneyIn(g) = "returned" <=> g = "refunded"
                               /\ MoneyIn(g) = "none" <=> g \in {"unpaid", "authorized"}
  BY DEF MoneyIn, GatewayStates
<1>3. \A o \in Orders : Money[o] = MoneyIn(gateway[o]) /\ gateway[o] \in GatewayStates
  BY <1>1 DEF Money
<1>4. Money = [o \in Orders |-> Money[o]]
  BY DEF Money
<1> QED
  BY <1>2, <1>3, <1>4

\* Abstract money changes at the gateway only.
LEMMA MoneyKept ==
  ASSUME UNCHANGED gateway
  PROVE  Money' = Money
  BY DEF Money

\* A step that leaves orders, invoices and the gateway alone stutters abstractly.
LEMMA AccountsKept ==
  ASSUME UNCHANGED <<order, invoiced, gateway>>
  PROVE  AccountingStutters
  BY MoneyKept DEF AccountingStutters, Booked

\* A step at the gateway that takes an order from "authorized" or "captured" on.
LEMMA MoneyMoves ==
  ASSUME LedgerInv, LedgerInv', NEW o \in Orders, NEW g \in GatewayStates,
         gateway' = [gateway EXCEPT ![o] = g]
  PROVE  Money' = [Money EXCEPT ![o] = MoneyIn(g)]
<1>1. gateway \in [Orders -> GatewayStates]
  BY DEF LedgerInv, TablesOK
<1>2. Money' = [q \in Orders |-> IF q = o THEN MoneyIn(g) ELSE MoneyIn(gateway[q])]
  BY <1>1 DEF Money
<1> QED
  BY <1>2 DEF Money

\* An authorization is invisible, a capture is Accounting's Capture.
LEMMA GatewayStepAccounting ==
  ASSUME LedgerInv, LedgerInv', GatewayStep
  PROVE  Accounting!Next \/ AccountingStutters
<1>1. ASSUME NEW o \in Orders, Authorize(o) PROVE AccountingStutters
  <2>1. Money[o] = "none"
    BY <1>1, MoneyValues DEF Authorize
  <2>2. gateway' = [gateway EXCEPT ![o] = "authorized"] /\ "authorized" \in GatewayStates
    BY <1>1 DEF Authorize, GatewayStates
  <2>3. Money' = [Money EXCEPT ![o] = "none"]
    BY <2>2, MoneyMoves DEF MoneyIn
  <2>4. Money' = Money
    BY <2>1, <2>3, MoneyValues
  <2> QED
    BY <1>1, <2>4 DEF Authorize, Booked, AccountingStutters
<1>2. ASSUME NEW o \in Orders, Capture(o) PROVE Accounting!Capture(o)
  <2>1. Money[o] = "none"
    BY <1>2, MoneyValues DEF Capture
  <2>2. gateway' = [gateway EXCEPT ![o] = "captured"] /\ "captured" \in GatewayStates
    BY <1>2 DEF Capture, GatewayStates
  <2>3. Money' = [Money EXCEPT ![o] = "captured"]
    BY <2>2, MoneyMoves DEF MoneyIn
  <2> QED
    BY <1>2, <2>1, <2>3 DEF Capture, Booked, Accounting!Capture
<1>3. ASSUME NEW o \in Orders, NEW n \in Attempts, AttemptFails(o, n)
      PROVE  AccountingStutters
  BY <1>3, AccountsKept DEF AttemptFails
<1> QED
  BY <1>1, <1>2, <1>3 DEF GatewayStep, Accounting!Next

\* A refund at the gateway is Accounting's Return, of a booked order.
LEMMA GatewayPaysAccounting ==
  ASSUME LedgerInv, LedgerInv', NEW p \in Procs, GatewayRefunds(p) \/ GatewayAnswerLost(p)
  PROVE  Accounting!Next
<1> DEFINE o == proc[p].order
<1>1. /\ proc[p].pc \in RefundPcs
      /\ gateway[o] = "captured"
      /\ gateway' = [gateway EXCEPT ![o] = "refunded"]
      /\ UNCHANGED <<order, invoiced>>
  BY DEF GatewayRefunds, GatewayAnswerLost, RefundPcs
<1>2. o \in Orders /\ o \in Booked
  BY <1>1, RefundingLocals
<1> HIDE DEF o
<1>3. Money' = [Money EXCEPT ![o] = "returned"] /\ Money[o] = "captured"
  BY <1>1, <1>2, MoneyMoves, MoneyValues DEF GatewayStates, MoneyIn
<1> QED
  BY <1>1, <1>2, <1>3 DEF Booked, Accounting!Return, Accounting!Next

\* Booking needs captured money, and money that was returned had been booked before.
LEMMA FulfilAccounting ==
  ASSUME LedgerInv, NEW p \in Procs, FulfilDuplicate(p) \/ FulfilPrimary(p)
  PROVE  Accounting!Next \/ AccountingStutters
<1> DEFINE o == proc[p].order
<1>1. o \in Orders /\ gateway[o] \in {"captured", "refunded"}
  BY FulfillingLocals DEF FulfilDuplicate, FulfilPrimary, RunsHandler
<1>2. order \in [Orders -> OrderRows]
  BY DEF LedgerInv, TablesOK
<1>3. Booked' = Booked \cup {o}
  <2>1. CASE FulfilDuplicate(p)
    BY <1>1, <1>2, <2>1 DEF FulfilDuplicate, Booked, OrderRows
  <2>2. CASE FulfilPrimary(p)
    BY <1>1, <1>2, <2>2 DEF FulfilPrimary, Booked, OrderRows
  <2> QED
    BY <2>1, <2>2
<1>4. Money' = Money
  BY MoneyKept DEF FulfilDuplicate, FulfilPrimary
<1>5. gateway[o] = "refunded" => o \in Booked
  BY <1>1 DEF LedgerInv, RowOK
<1> HIDE DEF o
<1> QED
  BY <1>1, <1>3, <1>4, <1>5, MoneyValues DEF AccountingStutters, Accounting!Book, Accounting!Next

\* A checkout, a failure and a recorded refund touch no account.
LEMMA StatusAccounting ==
  ASSUME LedgerInv, NEW p \in Procs, FailWrite(p) \/ RefundCommit(p)
  PROVE  AccountingStutters
<1>1. order \in [Orders -> OrderRows]
  BY DEF LedgerInv, TablesOK
<1>2. \A o \in Orders : order'[o].duplicate = order[o].duplicate
  BY <1>1 DEF FailWrite, RefundCommit, OrderRows
<1>3. UNCHANGED <<invoiced, gateway>>
  BY DEF FailWrite, RefundCommit
<1> QED
  BY <1>2, <1>3, MoneyKept DEF Booked, AccountingStutters

\* A checkout neither moves nor books money.
LEMMA OpenOrderAccounting ==
  ASSUME LedgerInv, NEW ref \in Refs, NEW product \in Products, NEW new \in Orders,
         OpenOrder(ref, product, new)
  PROVE  AccountingStutters
<1>1. order \in [Orders -> OrderRows]
  BY DEF LedgerInv, TablesOK
<1>2. order[new].duplicate = FALSE
  BY <1>1 DEF LedgerInv, RowOK, OpenOrder, OrderRows
<1>3. \A o \in Orders : order'[o].duplicate = order[o].duplicate
  BY <1>1, <1>2 DEF OpenOrder, OrderRows
<1>4. UNCHANGED <<invoiced, gateway>>
  BY DEF OpenOrder
<1> QED
  BY <1>3, <1>4, MoneyKept DEF Booked, AccountingStutters

\* Every step of the ledger is a step of the accounting or a stutter.
LEMMA LedgerNextAccounting ==
  ASSUME LedgerInv, LedgerInv', LedgerNext
  PROVE  Accounting!Next \/ AccountingStutters
<1>1. CASE GatewayStep
  BY <1>1, GatewayStepAccounting
<1>2. ASSUME NEW p \in Procs,
             \/ Receive(p) \/ MarkProcessed(p) \/ FulfilAlreadyPaid(p) \/ FulfilRefused(p)
             \/ FetchBeforeRefund(p) \/ GatewayAlreadyRefunded(p) \/ GatewayRefuses(p)
             \/ RefundFail(p)
             \/ RefundAlreadyRecorded(p) \/ FulfilRolledBack(p) \/ FailHandled(p) \/ Crash(p)
             \/ \E o \in Orders : RefundRequest(p, o)
      PROVE  AccountingStutters
  <2>1. UNCHANGED <<order, invoiced, gateway>>
    BY <1>2 DEF Receive, Verify, WebhookCaptured, FetchPayment, WebhookFailed, MarkProcessed,
       FulfilAlreadyPaid, FulfilRefused, FetchBeforeRefund, GatewayAlreadyRefunded, GatewayRefuses, RefundFail,
       RefundAlreadyRecorded, FulfilRolledBack, FailHandled, Crash, RefundRequest,
       TakeOverRefund, OpenRefund
  <2> QED
    BY <2>1, AccountsKept
<1>3. ASSUME NEW r \in Refunds, RefundAges(r) PROVE AccountingStutters
  BY <1>3, AccountsKept DEF RefundAges
<1>4. ASSUME NEW p \in Procs,
             \/ FulfilDuplicate(p) \/ FulfilPrimary(p) \/ FailWrite(p) \/ RefundCommit(p)
             \/ GatewayRefunds(p) \/ GatewayAnswerLost(p)
      PROVE  Accounting!Next \/ AccountingStutters
  BY <1>4, FulfilAccounting, StatusAccounting, GatewayPaysAccounting
<1>5. ASSUME NEW ref \in Refs, NEW product \in Products,
             ReuseOrder(ref, product) \/ \E new \in Orders : OpenOrder(ref, product, new)
      PROVE  AccountingStutters
  <2>1. CASE ReuseOrder(ref, product)
    BY <2>1, AccountsKept DEF ReuseOrder, ledgerVars
  <2> QED
    BY <1>5, <2>1, OpenOrderAccounting
<1>6. CASE PlainStep
  BY <1>1, <1>2, <1>3, <1>4, <1>6 DEF PlainStep, FulfilStep, RefundStep
<1> QED
  BY <1>2, <1>4, <1>5, <1>6 DEF LedgerNext

\* Nothing is booked before it is captured, and only booked money goes back, once:
\* the ledger implements PaymentAccounting.
THEOREM LedgerImplementsAccounting == LedgerSpec => AccountingSpec
<1>1. LedgerInit => Accounting!Init
  <2>1. ASSUME LedgerInit PROVE Money = [o \in Orders |-> "none"]
    BY <2>1 DEF LedgerInit, Money, MoneyIn
  <2>2. ASSUME LedgerInit PROVE Booked = {}
    BY <2>2 DEF LedgerInit, Booked
  <2> QED
    BY <2>1, <2>2 DEF Accounting!Init
<1>2. LedgerInv /\ LedgerInv' /\ [LedgerNext]_ledgerVars => [Accounting!Next]_Accounting!vars
  <2>1. ASSUME LedgerInv, UNCHANGED ledgerVars PROVE AccountingStutters
    BY <2>1, AccountsKept DEF ledgerVars
  <2> QED
    BY <2>1, LedgerNextAccounting DEF AccountingStutters, Accounting!vars
<1> QED
  BY <1>1, <1>2, LedgerInvariant, PTL DEF LedgerSpec, AccountingSpec, Accounting!Spec

-----------------------------------------------------------------------------
(* What a composition needs to know: an invoiced order stays one of its     *)
(* reference, and money that went back does not return.                     *)

InvoicedStay ==
  /\ invoiced \subseteq invoiced'
  /\ \A o \in invoiced : /\ order'[o].ref = order[o].ref
                         /\ gateway[o] = "refunded" => gateway'[o] = "refunded"

\* An invoiced order keeps its invoice, its reference and its refund.
LEMMA InvoicedKept ==
  ASSUME LedgerInv, LedgerNext
  PROVE  InvoicedStay
<1>1. /\ order \in [Orders -> OrderRows] /\ gateway \in [Orders -> GatewayStates]
      /\ invoiced \subseteq Orders
  BY DEF LedgerInv, TablesOK
<1>2. CASE UNCHANGED <<order, invoiced>>
           /\ \A o \in Orders : gateway[o] = "refunded" => gateway'[o] = "refunded"
  BY <1>1, <1>2 DEF InvoicedStay
<1>3. CASE GatewayStep
  <2>1. \A o \in Orders : gateway[o] = "refunded" => gateway'[o] = "refunded"
    BY <1>1, <1>3 DEF GatewayStep, Authorize, Capture, AttemptFails
  <2>2. UNCHANGED <<order, invoiced>>
    BY <1>3 DEF GatewayStep, Authorize, Capture, AttemptFails
  <2> QED
    BY <1>2, <2>1, <2>2
<1>4. ASSUME NEW p \in Procs, RefundStep(p) \/ Receive(p) \/ MarkProcessed(p)
      PROVE  InvoicedStay
  <2>1. \A o \in Orders : gateway[o] = "refunded" => gateway'[o] = "refunded"
    BY <1>1, <1>4 DEF RefundStep, FetchBeforeRefund, GatewayRefunds, GatewayAnswerLost, GatewayAlreadyRefunded,
       GatewayRefuses, RefundFail, RefundAlreadyRecorded, Receive, Verify, WebhookCaptured,
       FetchPayment, WebhookFailed, MarkProcessed
  <2>2. UNCHANGED <<order, invoiced>>
    BY <1>4 DEF RefundStep, FetchBeforeRefund, GatewayRefunds, GatewayAnswerLost, GatewayAlreadyRefunded,
       GatewayRefuses, RefundFail, RefundAlreadyRecorded, Receive, Verify, WebhookCaptured,
       FetchPayment, WebhookFailed, MarkProcessed
  <2> QED
    BY <1>2, <2>1, <2>2
<1>5. ASSUME NEW p \in Procs, FulfilStep(p) \/ FulfilPrimary(p) \/ FulfilRolledBack(p)
                              \/ FailWrite(p) \/ FailHandled(p) \/ RefundCommit(p) \/ Crash(p)
      PROVE  InvoicedStay
  <2>1. UNCHANGED gateway /\ invoiced \subseteq invoiced'
    BY <1>5 DEF FulfilStep, FulfilAlreadyPaid, FulfilRefused, FulfilDuplicate, FulfilPrimary,
       FulfilRolledBack, FailWrite, FailHandled, RefundCommit, Crash
  <2>2. \A o \in Orders : order'[o].ref = order[o].ref
    BY <1>1, <1>5 DEF FulfilStep, FulfilAlreadyPaid, FulfilRefused, FulfilDuplicate, FulfilPrimary,
       FulfilRolledBack, FailWrite, FailHandled, RefundCommit, Crash, OrderRows
  <2> QED
    BY <1>1, <2>1, <2>2 DEF InvoicedStay
<1>6. ASSUME NEW r \in Refunds, RefundAges(r) PROVE InvoicedStay
  BY <1>2, <1>6 DEF RefundAges
<1>7. ASSUME NEW p \in Procs, NEW o \in Orders, RefundRequest(p, o) PROVE InvoicedStay
  BY <1>2, <1>7 DEF RefundRequest, TakeOverRefund, OpenRefund
<1>8. ASSUME NEW ref \in Refs, NEW product \in Products, ReuseOrder(ref, product)
      PROVE  InvoicedStay
  BY <1>2, <1>8 DEF ReuseOrder, ledgerVars
<1>9. ASSUME NEW ref \in Refs, NEW product \in Products, NEW new \in Orders,
             OpenOrder(ref, product, new)
      PROVE  InvoicedStay
  <2>1. new \notin invoiced
    BY <1>9 DEF LedgerInv, RowOK, OpenOrder
  <2>2. \A o \in Orders : o # new => order'[o].ref = order[o].ref
    BY <1>1, <1>9 DEF OpenOrder, OrderRows
  <2>3. UNCHANGED <<invoiced, gateway>>
    BY <1>9 DEF OpenOrder
  <2> QED
    BY <1>1, <2>1, <2>2, <2>3 DEF InvoicedStay
<1> QED
  BY <1>3, <1>4, <1>5, <1>6, <1>7, <1>8, <1>9 DEF LedgerNext, PlainStep

-----------------------------------------------------------------------------
(* What the accounting promises, of the ledger's own variables.             *)

\* What is booked stays booked; money that was captured leaves only if it is booked, and what went
\* back stays with the payer.
MoneyFinal ==
  /\ Booked \subseteq Booked'
  /\ \A o \in Orders :
       /\ Money[o] = "captured" => \/ Money'[o] = "captured"
                                   \/ Money'[o] = "returned" /\ o \in Booked
       /\ Money[o] = "returned" => Money'[o] = "returned"

\* It holds of every step of the abstract accounting.
LEMMA AccountingIsFinal ==
  ASSUME [Accounting!Next]_Accounting!vars
  PROVE  MoneyFinal
<1>1. CASE UNCHANGED Accounting!vars
  BY <1>1 DEF Accounting!vars, MoneyFinal
<1>2. CASE Accounting!Next
  <2>1. PICK o \in Orders : Accounting!Capture(o) \/ Accounting!Book(o) \/ Accounting!Return(o)
    BY <1>2 DEF Accounting!Next
  <2>2. Booked \subseteq Booked'
    BY <2>1 DEF Accounting!Capture, Accounting!Book, Accounting!Return
  <2>3. \A q \in Orders : q # o => Money'[q] = Money[q]
    BY <2>1 DEF Accounting!Capture, Accounting!Book, Accounting!Return, Money
  <2>4. \/ Money[o] = "none"
        \/ Money'[o] = Money[o]
        \/ Money[o] = "captured" /\ Money'[o] = "returned" /\ o \in Booked
    BY <2>1 DEF Accounting!Capture, Accounting!Book, Accounting!Return, Money
  <2> QED
    BY <2>2, <2>3, <2>4 DEF MoneyFinal
<1> QED
  BY <1>1, <1>2

\* However webhooks, verifications, stale failures and refunds overlap, a booking (fulfillOrderLocked)
\* is final, a captured payment leaves only after it was booked, and a refunded one does not return.
THEOREM LedgerMoneyFinal == LedgerSpec => [][MoneyFinal]_ledgerVars
<1>1. AccountingSpec => [][Accounting!Next]_Accounting!vars
  BY PTL DEF AccountingSpec, Accounting!Spec
<1>2. [Accounting!Next]_Accounting!vars => [MoneyFinal]_ledgerVars
  BY AccountingIsFinal
<1> QED
  BY <1>1, <1>2, LedgerImplementsAccounting, PTL
=============================================================================
