-------------------- MODULE AdvertisementLifecycleProofs --------------------
(***************************************************************************)
(* For any campaigns, durations and batch sizes: nothing runs unreviewed,  *)
(* and an approved campaign gets the whole window it paid for.             *)
(***************************************************************************)
EXTENDS AdvertisementLifecycle, TLAPS

\* The row the job is busy with besides those it has still to save.
InHand == job.todo \cup ({job.current} \cap Ads)

\* What the job has read was approved; no status says so before it is.
Inv == /\ TypeOK
       /\ ReviewedBeforeRunning
       /\ \A a \in Ads : status[a] = "APPROVED" => approvedAt[a] # 0
       /\ \A a \in InHand : approvedAt[a] # 0
       /\ FullAirtime

-----------------------------------------------------------------------------
\* Every campaign's status has its row in the transition table.
LEMMA RowOfTable ==
  /\ \A to : ~CanTransition("REJECTED", to, FALSE) /\ ~CanTransition("EXPIRED", to, FALSE)
  /\ \A s \in AdStatuses : CanTransition(s, "APPROVED", FALSE) => s = "PENDING_REVIEW"
  /\ \A s \in AdStatuses : CanTransition(s, "PAUSED", FALSE) => s = "ACTIVE"
  /\ \A s \in AdStatuses : CanTransition(s, "ACTIVE", FALSE) => s \in {"APPROVED", "SCHEDULED", "PAUSED"}
BY SMT DEF CanTransition, Allowed, AdStatuses

\* The dates given at an approval or a publication are times.
LEMMA PublishedTimes ==
  ASSUME NEW chosen \in Nat, NEW t \in Nat
  PROVE  /\ PublishedFrom(chosen, t) \in Nat
         /\ PublishedFrom(chosen, t) >= t
         /\ PublishStatus(chosen, t) \in {"ACTIVE", "SCHEDULED"}
BY DEF PublishedFrom, PublishStatus

\* The initial states satisfy the invariant: nothing is approved, nothing runs.
LEMMA InitInv == Init => Inv
<1> SUFFICES ASSUME Init PROVE Inv
  OBVIOUS
<1> USE LifecycleAssumption
<1>1. TypeOK
  <2>1. status \in [Ads -> AdStatuses] /\ entitlement \in [Ads -> EntitlementStatuses]
    BY DEF Init, AdStatuses, EntitlementStatuses
  <2>2. /\ start \in [Ads -> Nat] /\ end \in [Ads -> Nat] /\ approvedAt \in [Ads -> Nat]
        /\ now \in Nat \ {0} /\ rescheduled \in SUBSET Ads
        /\ editor \in [Ads -> {"none", "owner", "admin"}]
    BY DEF Init, Time
  <2>3. QED
    BY <2>1, <2>2 DEF Init, TypeOK, IdleJob
<1>2. ReviewedBeforeRunning /\ \A a \in Ads : status[a] = "APPROVED" => approvedAt[a] # 0
  BY DEF Init, ReviewedBeforeRunning, Running
<1>3. (\A a \in InHand : approvedAt[a] # 0) /\ FullAirtime
  BY DEF Init, InHand, IdleJob, FullAirtime, Paid
<1>4. QED
  BY <1>1, <1>2, <1>3 DEF Inv

-----------------------------------------------------------------------------
(* One lemma per group of actions. *)

\* The first approval: the window is set on and after the day of the approval.
LEMMA ApproveFirstInv ==
  ASSUME Inv, NEW a \in Ads, ApproveFirst(a)
  PROVE  Inv'
<1> USE LifecycleAssumption
<1>1. /\ PublishedFrom(start[a], now) \in Nat /\ PublishedFrom(start[a], now) >= now
      /\ start'[a] = PublishedFrom(start[a], now)
      /\ status'[a] \in {"ACTIVE", "SCHEDULED"}
  BY PublishedTimes DEF Inv, TypeOK, ApproveFirst
<1>2. TypeOK'
  <2>1. status' \in [Ads -> AdStatuses] /\ entitlement' \in [Ads -> EntitlementStatuses]
    BY <1>1 DEF Inv, TypeOK, ApproveFirst, AdStatuses, EntitlementStatuses
  <2>2. start' \in [Ads -> Nat] /\ end' \in [Ads -> Nat] /\ approvedAt' \in [Ads -> Nat]
    BY <1>1 DEF Inv, TypeOK, ApproveFirst
  <2>3. QED
    BY <2>1, <2>2 DEF Inv, TypeOK, ApproveFirst
<1>3. \A b \in Ads : approvedAt'[b] = IF b = a THEN now ELSE approvedAt[b]
  BY DEF Inv, TypeOK, ApproveFirst
<1>4. ReviewedBeforeRunning' /\ \A b \in Ads : status'[b] = "APPROVED" => approvedAt'[b] # 0
  BY <1>3 DEF Inv, TypeOK, ApproveFirst, ReviewedBeforeRunning
<1>5. \A b \in InHand' : approvedAt'[b] # 0
  BY <1>3 DEF Inv, TypeOK, ApproveFirst, InHand
<1>6. FullAirtime'
  BY <1>1, <1>3 DEF Inv, TypeOK, ApproveFirst, FullAirtime, Paid
<1>7. QED
  BY <1>2, <1>4, <1>5, <1>6 DEF Inv

\* The second review changes the status only, and never before an approval.
LEMMA ApproveAgainInv ==
  ASSUME Inv, NEW a \in Ads, ApproveAgain(a)
  PROVE  Inv'
<1>1. status'[a] \in {"ACTIVE", "SCHEDULED", "EXPIRED"}
  BY PublishedTimes DEF Inv, TypeOK, ApproveAgain
<1>2. TypeOK'
  BY <1>1 DEF Inv, TypeOK, ApproveAgain, AdStatuses
<1>3. ReviewedBeforeRunning' /\ \A b \in Ads : status'[b] = "APPROVED" => approvedAt'[b] # 0
  BY DEF Inv, TypeOK, ApproveAgain, ReviewedBeforeRunning, Resubmitted
<1>4. \A b \in InHand' : approvedAt'[b] # 0
  BY DEF Inv, ApproveAgain, InHand
<1>5. FullAirtime'
  BY DEF Inv, ApproveAgain, FullAirtime
<1>6. QED
  BY <1>2, <1>3, <1>4, <1>5 DEF Inv

\* A publication without payment is the campaign's approval.
LEMMA PublishInv ==
  ASSUME Inv, NEW a \in Ads, NEW from \in Time \cup {0}, NEW to \in Time \cup {0},
         Publish(a, from, to)
  PROVE  Inv'
<1> USE LifecycleAssumption
<1>1. from \in Nat /\ to \in Nat
  BY DEF Time
<1>2. start'[a] \in Nat /\ start' \in [Ads -> Nat]
  BY <1>1, PublishedTimes DEF Inv, TypeOK, Publish
<1>3. end' \in [Ads -> Nat]
  <2>1. CASE to > start'[a]
    BY <1>1, <1>2, <2>1 DEF Inv, TypeOK, Publish
  <2>2. CASE ~(to > start'[a]) /\ end[a] > start'[a]
    BY <1>1, <1>2, <2>2 DEF Inv, TypeOK, Publish
  <2>3. CASE ~(to > start'[a]) /\ ~(end[a] > start'[a])
    BY <1>1, <1>2, <2>3 DEF Inv, TypeOK, Publish
  <2>4. QED
    BY <2>1, <2>2, <2>3
<1>4. status'[a] \in {"ACTIVE", "SCHEDULED"}
  BY <1>2, PublishedTimes DEF Inv, TypeOK, Publish
<1>5. \A b \in Ads : approvedAt'[b] = IF b = a THEN now ELSE approvedAt[b]
  BY DEF Inv, TypeOK, Publish
<1>6. TypeOK'
  <2>1. status' \in [Ads -> AdStatuses] /\ approvedAt' \in [Ads -> Nat]
    BY <1>4 DEF Inv, TypeOK, Publish, AdStatuses
  <2>2. QED
    BY <1>2, <1>3, <2>1 DEF Inv, TypeOK, Publish
<1>7. ReviewedBeforeRunning' /\ \A b \in Ads : status'[b] = "APPROVED" => approvedAt'[b] # 0
  BY <1>5 DEF Inv, TypeOK, Publish, ReviewedBeforeRunning
<1>8. \A b \in InHand' : approvedAt'[b] # 0
  BY <1>5 DEF Inv, TypeOK, Publish, InHand
<1>9. FullAirtime'
  <2>1. \A b \in Paid : b # a
    BY DEF Publish, Paid
  <2>2. \A b \in Paid : end'[b] = end[b] /\ start'[b] = start[b] /\ approvedAt'[b] = approvedAt[b]
    BY <2>1 DEF Inv, TypeOK, Publish, Paid
  <2>3. rescheduled' = rescheduled
    BY DEF Publish
  <2>4. QED
    BY <2>2, <2>3 DEF Inv, FullAirtime
<1>10. QED
  BY <1>6, <1>7, <1>8, <1>9 DEF Inv

\* Rejections, pauses, cancellations and resumptions leave dates alone, and resume only
\* what was running before.
LEMMA DecisionInv ==
  ASSUME Inv, NEW a \in Ads, Reject(a) \/ Pause(a) \/ Cancel(a) \/ Resume(a)
  PROVE  Inv'
<1>1. /\ UNCHANGED <<now, start, end, approvedAt, rescheduled, editor, job>>
      /\ status' \in [Ads -> AdStatuses]
      /\ \A b \in Ads : b # a => status'[b] = status[b]
  BY DEF Inv, TypeOK, Reject, Pause, Cancel, Resume, Decide, AdStatuses
<1>2. /\ status'[a] \in {"REJECTED", "CANCELLED", "PAUSED", "ACTIVE"}
      /\ status'[a] \in {"PAUSED", "ACTIVE"} => approvedAt[a] # 0
  <2>1. CASE Reject(a) \/ Cancel(a)
    BY <2>1 DEF Inv, TypeOK, Reject, Cancel, Decide
  <2>2. CASE Pause(a)
    <3>1. status[a] = "ACTIVE"
      BY <2>2, RowOfTable DEF Inv, TypeOK, Pause, Decide
    <3>2. QED
      BY <2>2, <3>1 DEF Inv, TypeOK, Pause, Decide, ReviewedBeforeRunning, Running
  <2>3. CASE Resume(a)
    <3>1. status[a] \in {"APPROVED", "SCHEDULED", "PAUSED"}
      BY <2>3, RowOfTable DEF Inv, TypeOK, Resume, Resumable
    <3>2. approvedAt[a] # 0
      BY <3>1 DEF Inv, ReviewedBeforeRunning, Running
    <3>3. QED
      BY <2>3, <3>2 DEF Inv, TypeOK, Resume
  <2>4. QED
    BY <2>1, <2>2, <2>3
<1>3. /\ entitlement' \in [Ads -> EntitlementStatuses]
      /\ \A b \in Ads : entitlement'[b] \in {entitlement[b], "CANCELLED"}
  BY DEF Inv, TypeOK, Reject, Pause, Cancel, Resume, Decide, EntitlementStatuses
<1>4. TypeOK'
  BY <1>1, <1>3 DEF Inv, TypeOK
<1>5. ReviewedBeforeRunning' /\ \A b \in Ads : status'[b] = "APPROVED" => approvedAt'[b] # 0
  BY <1>1, <1>2, <1>3 DEF Inv, ReviewedBeforeRunning, Running
<1>6. (\A b \in InHand' : approvedAt'[b] # 0) /\ FullAirtime'
  BY <1>1 DEF Inv, InHand, FullAirtime
<1>7. QED
  BY <1>4, <1>5, <1>6 DEF Inv

\* An extension only moves the end away.
LEMMA ExtendInv ==
  ASSUME Inv, NEW a \in Ads, NEW days \in Time, Extend(a, days)
  PROVE  Inv'
<1> USE LifecycleAssumption
<1>1. days \in Nat
  BY DEF Time
<1>2. end' \in [Ads -> Nat] /\ \A b \in Ads : end'[b] >= end[b]
  BY <1>1 DEF Inv, TypeOK, Extend
<1>3. TypeOK'
  BY <1>2 DEF Inv, TypeOK, Extend
<1>4. FullAirtime'
  BY <1>2 DEF Inv, TypeOK, Extend, FullAirtime, Paid
<1>5. QED
  BY <1>3, <1>4 DEF Inv, Extend, ReviewedBeforeRunning, InHand

\* Edits: a live edit leads to review only; a window set by hand is marked as such.
LEMMA EditInv ==
  ASSUME Inv, NEW a \in Ads, NEW from \in Time \cup {0}, NEW to \in Time \cup {0},
         EditStart(a) \/ EditSubmit(a) \/ EditAbandon(a) \/ RescheduleStart(a) \/ Reschedule(a, from, to)
  PROVE  Inv'
<1>1. from \in Nat /\ to \in Nat
  BY LifecycleAssumption DEF Time
<1>2. CASE EditStart(a) \/ EditAbandon(a) \/ RescheduleStart(a)
  <2>1. UNCHANGED <<now, campaignVars, job>> /\ editor' \in [Ads -> {"none", "owner", "admin"}]
    BY <1>2 DEF Inv, TypeOK, EditStart, EditAbandon, RescheduleStart, campaignVars
  <2>2. QED
    BY <2>1 DEF Inv, TypeOK, ReviewedBeforeRunning, InHand, FullAirtime, campaignVars
<1>3. CASE EditSubmit(a)
  <2>1. TypeOK'
    BY <1>3 DEF Inv, TypeOK, EditSubmit, AdStatuses
  <2>2. ReviewedBeforeRunning' /\ \A b \in Ads : status'[b] = "APPROVED" => approvedAt'[b] # 0
    BY <1>3 DEF Inv, TypeOK, EditSubmit, ReviewedBeforeRunning, Running
  <2>3. QED
    BY <1>3, <2>1, <2>2 DEF Inv, EditSubmit, InHand, FullAirtime
<1>4. CASE Reschedule(a, from, to)
  <2>1. start' \in [Ads -> Nat] /\ end' \in [Ads -> Nat]
    BY <1>1, <1>4 DEF Inv, TypeOK, Reschedule
  <2>2. TypeOK'
    BY <1>4, <2>1 DEF Inv, TypeOK, Reschedule
  <2>3. FullAirtime'
    BY <1>4 DEF Inv, TypeOK, Reschedule, FullAirtime, Paid
  <2>4. QED
    BY <1>4, <2>2, <2>3 DEF Inv, Reschedule, ReviewedBeforeRunning, InHand
<1>5. QED
  BY <1>2, <1>3, <1>4

\* The job only reads rows that are running, hence approved.
LEMMA JobReads ==
  ASSUME Inv, NEW rows, rows \in Batches(DueToStart) \/ rows \in Batches(DueToEnd)
  PROVE  rows \in SUBSET Ads /\ \A b \in rows : approvedAt[b] # 0
BY DEF Batches, DueToStart, DueToEnd, Inv, ReviewedBeforeRunning, Running

\* What the job saves late it saves on campaigns that were approved before.
LEMMA JobInv ==
  ASSUME Inv, JobStep
  PROVE  Inv'
<1> USE LifecycleAssumption
<1>1. CASE JobStart \/ JobTurn
  <2>1. PICK rows, phase : /\ rows \in Batches(DueToStart) \/ rows \in Batches(DueToEnd)
                           /\ phase \in {"activate", "expire"}
                           /\ job' = [phase |-> phase, todo |-> rows, current |-> None]
    BY <1>1 DEF JobStart, JobTurn
  <2>2. rows \in SUBSET Ads /\ \A b \in rows : approvedAt[b] # 0
    BY <2>1, JobReads
  <2>3. UNCHANGED <<now, campaignVars, editor>>
    BY <1>1 DEF JobStart, JobTurn
  <2>4. TypeOK'
    BY <2>1, <2>2, <2>3 DEF Inv, TypeOK, campaignVars
  <2>5. QED
    BY <2>1, <2>2, <2>3, <2>4 DEF Inv, ReviewedBeforeRunning, InHand, FullAirtime, campaignVars
<1>2. ASSUME NEW a \in Ads, JobActivate(a)
      PROVE  Inv'
  <2>1. TypeOK' /\ approvedAt[a] # 0
    BY <1>2 DEF Inv, TypeOK, JobActivate, AdStatuses, InHand
  <2>2. ReviewedBeforeRunning' /\ \A b \in Ads : status'[b] = "APPROVED" => approvedAt'[b] # 0
    BY <1>2, <2>1 DEF Inv, TypeOK, JobActivate, ReviewedBeforeRunning
  <2>3. QED
    BY <1>2, <2>1, <2>2 DEF Inv, TypeOK, JobActivate, InHand, FullAirtime
<1>3. ASSUME NEW a \in Ads, JobExpire(a)
      PROVE  Inv'
  <2>1. TypeOK' /\ approvedAt[a] # 0
    BY <1>3 DEF Inv, TypeOK, JobExpire, AdStatuses, InHand
  <2>2. ReviewedBeforeRunning' /\ \A b \in Ads : status'[b] = "APPROVED" => approvedAt'[b] # 0
    BY <1>3, <2>1 DEF Inv, TypeOK, JobExpire, ReviewedBeforeRunning
  <2>3. QED
    BY <1>3, <2>1, <2>2 DEF Inv, TypeOK, JobExpire, InHand, FullAirtime
<1>4. ASSUME NEW a \in Ads, JobSkip(a)
      PROVE  Inv'
  <2>1. TypeOK'
    BY <1>4 DEF Inv, TypeOK, JobSkip, campaignVars
  <2>2. QED
    BY <1>4, <2>1 DEF Inv, TypeOK, JobSkip, ReviewedBeforeRunning, InHand, FullAirtime, campaignVars
<1>5. CASE JobReadEntitlement
  <2>1. TypeOK'
    BY <1>5 DEF Inv, TypeOK, JobReadEntitlement, NextRow, campaignVars
  <2>2. InHand' \subseteq InHand
    BY <1>5 DEF Inv, TypeOK, JobReadEntitlement, NextRow, InHand
  <2>3. QED
    BY <1>5, <2>1, <2>2 DEF Inv, JobReadEntitlement, ReviewedBeforeRunning, FullAirtime, campaignVars
<1>6. CASE JobEndEntitlement
  <2>1. approvedAt[job.current] # 0 /\ job.current \in Ads
    BY <1>6 DEF Inv, TypeOK, JobEndEntitlement, InHand
  <2>2. TypeOK'
    BY <1>6 DEF Inv, TypeOK, JobEndEntitlement, NextRow, EntitlementStatuses
  <2>3. InHand' \subseteq InHand
    BY <1>6 DEF Inv, TypeOK, JobEndEntitlement, NextRow, InHand
  <2>4. ReviewedBeforeRunning'
    BY <1>6, <2>1 DEF Inv, TypeOK, JobEndEntitlement, ReviewedBeforeRunning
  <2>5. QED
    BY <1>6, <2>2, <2>3, <2>4 DEF Inv, JobEndEntitlement, FullAirtime
<1>7. CASE JobFinish \/ JobDie
  <2>1. UNCHANGED <<now, campaignVars, editor>> /\ job' = IdleJob
    BY <1>7 DEF JobFinish, JobDie
  <2>2. TypeOK' /\ InHand' = {}
    BY <2>1 DEF Inv, TypeOK, IdleJob, InHand, campaignVars
  <2>3. QED
    BY <2>1, <2>2 DEF Inv, ReviewedBeforeRunning, FullAirtime, campaignVars
<1>8. QED
  BY <1>1, <1>2, <1>3, <1>4, <1>5, <1>6, <1>7 DEF JobStep

\* Every step keeps the invariant.
LEMMA NextInv == Inv /\ [Next]_vars => Inv'
<1> SUFFICES ASSUME Inv, [Next]_vars PROVE Inv'
  OBVIOUS
<1>1. CASE Tick
  <2>1. TypeOK'
    BY <1>1 DEF Inv, TypeOK, Tick, campaignVars
  <2>2. QED
    BY <1>1, <2>1 DEF Inv, Tick, ReviewedBeforeRunning, InHand, FullAirtime, campaignVars
<1>2. CASE UNCHANGED vars
  BY <1>2 DEF Inv, TypeOK, ReviewedBeforeRunning, InHand, FullAirtime, campaignVars, vars
<1>3. CASE Next
  <2>1. 0 \in Time \cup {0}
    OBVIOUS
  <2>2. QED
    BY <1>1, <1>3, <2>1, ApproveFirstInv, ApproveAgainInv, PublishInv, DecisionInv, ExtendInv,
       EditInv, JobInv DEF Next
<1>4. QED
  BY <1>2, <1>3

-----------------------------------------------------------------------------
\* In every behaviour every variable has its type, and the invariant holds.
THEOREM LifecycleInvariant == Spec => []Inv
BY InitInv, NextInv, PTL DEF Spec

\* The type invariant of campaigns, edits and the job.
THEOREM LifecycleTypes == Spec => []TypeOK
<1>1. Inv => TypeOK
  BY DEF Inv
<1>2. QED
  BY <1>1, LifecycleInvariant, PTL

\* Stale saves of the job and of edits never put a campaign on the feed, or start its
\* entitlement, before a moderator approved it once.
THEOREM RunsOnlyReviewed == Spec => []ReviewedBeforeRunning
<1>1. Inv => ReviewedBeforeRunning
  BY DEF Inv
<1>2. QED
  BY <1>1, LifecycleInvariant, PTL

\* An approved campaign has at least the window it paid for, starting no earlier than
\* the approval, unless an admin set the dates by hand.
THEOREM PaidAirtimeIsKept == Spec => []FullAirtime
<1>1. Inv => FullAirtime
  BY DEF Inv
<1>2. QED
  BY <1>1, LifecycleInvariant, PTL
=============================================================================
