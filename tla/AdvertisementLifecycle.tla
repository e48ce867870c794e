----------------------- MODULE AdvertisementLifecycle -----------------------
(***************************************************************************)
(* Advertisement campaigns after the purchase: review, the moderator's     *)
(* decisions, edits of a running campaign, and the job that starts and     *)
(* ends campaigns when their time comes (AdvertisementLifecycle,           *)
(* AdvertisementModeration and Advertisement services).                    *)
(*                                                                         *)
(* A moderator's decision locks the campaign's row.  The job and the edits *)
(* do not: they save a row they read earlier, and what they save is only   *)
(* the columns they assign.  Dates are ticks from 1; 0 stands for NULL.    *)
(* Checkout, drafts and refunds are in AdvertisementPayments.              *)
(***************************************************************************)
EXTENDS AdvertisementState, FiniteSets, Integers

CONSTANTS
  Ads,            \* campaigns
  Complimentary,  \* those an admin created without payment
  Duration,       \* the days a campaign is bought for; 7 for a complimentary one
  Batch,          \* the LIMIT of the job's queries
  MaxTime,        \* bound: the clock stops here
  HandSet,        \* bound: the campaigns whose window an admin sets by hand, once
  HandDates,      \* bound: the dates set by hand; 0 leaves a date as it is
  None

ASSUME LifecycleAssumption ==
  /\ Complimentary \subseteq Ads /\ HandSet \subseteq Ads
  /\ Duration \in Nat \ {0} /\ Batch \in Nat \ {0} /\ MaxTime \in Nat \ {0}
  /\ None \notin Ads

VARIABLES
  now,
  status, start, end, approvedAt,   \* columns of advertisements
  entitlement,   \* advertisement_entitlements.status
  rescheduled,   \* campaigns whose window an admin has set by hand
  editor,        \* who is in the middle of saving an edit; at most one a campaign
  job            \* the lifecycle job: its phase, rows read and not yet saved, current row

campaignVars == <<status, start, end, approvedAt, entitlement, rescheduled>>
vars == <<now, campaignVars, editor, job>>

Time == 1..MaxTime
Horizon == MaxTime + Duration   \* bound: admins choose no later end
Running == {"SCHEDULED", "ACTIVE", "PAUSED"}
Paid == Ads \ Complimentary

TypeOK ==
  /\ now \in Nat \ {0}
  /\ status \in [Ads -> AdStatuses]
  /\ start \in [Ads -> Nat] /\ end \in [Ads -> Nat] /\ approvedAt \in [Ads -> Nat]
  /\ entitlement \in [Ads -> EntitlementStatuses]
  /\ rescheduled \in SUBSET Ads
  /\ editor \in [Ads -> {"none", "owner", "admin"}]
  /\ job \in [phase : {"idle", "activate", "expire", "entitlement", "revoke"},
              todo : SUBSET Ads, current : Ads \cup {None}]
  /\ job.phase \in {"entitlement", "revoke"} <=> job.current \in Ads
  /\ job.phase = "idle" => job.todo = {}

IdleJob == [phase |-> "idle", todo |-> {}, current |-> None]

\* A paid campaign starts here in review, its start chosen at the checkout; a
\* complimentary one as a draft, with or without a window.
Init ==
  /\ now = 1
  /\ status = [a \in Ads |-> IF a \in Paid THEN "PENDING_REVIEW" ELSE "DRAFT"]
  /\ start \in [Ads -> Time]
  /\ end = [a \in Ads |-> 0]
  /\ approvedAt = [a \in Ads |-> 0]
  /\ entitlement = [a \in Ads |-> IF a \in Paid THEN "PENDING" ELSE "ABSENT"]
  /\ rescheduled = {}
  /\ editor = [a \in Ads |-> "none"]
  /\ job = IdleJob

-----------------------------------------------------------------------------
(* Moderators: one transaction each, with the campaign's row locked. *)

Resubmitted(a) == approvedAt[a] # 0 /\ end[a] # 0

\* Faulty variant: the window starts on the day that was chosen, even when the review
\* came later.
PublishedAsChosen(chosen, t) == chosen

PublishedFrom(chosen, t) == IF chosen > t THEN chosen ELSE t

ApproveFirst(a) ==
  /\ CanTransition(status[a], "APPROVED", FALSE) /\ ~Resubmitted(a)
  /\ start' = [start EXCEPT ![a] = PublishedFrom(start[a], now)]
  /\ end' = [end EXCEPT ![a] = start'[a] + Duration]
  /\ status' = [status EXCEPT ![a] = PublishStatus(start'[a], now)]
  /\ approvedAt' = [approvedAt EXCEPT ![a] = now]
  /\ entitlement' = [entitlement EXCEPT ![a] = IF @ = "ABSENT" THEN @ ELSE "ACTIVE"]
  /\ UNCHANGED <<now, rescheduled, editor, job>>

\* The window keeps running during the second review, and may be over at its end.
ApproveAgain(a) ==
  /\ CanTransition(status[a], "APPROVED", FALSE) /\ Resubmitted(a)
  /\ status' = [status EXCEPT ![a] =
       IF end[a] <= now THEN "EXPIRED" ELSE PublishStatus(start[a], now)]
  /\ UNCHANGED <<now, start, end, approvedAt, entitlement, rescheduled, editor, job>>

\* publishComplimentaryAdvertisement: dates of the request, of the row, or defaults.
Publish(a, from, to) ==
  /\ a \in Complimentary
  /\ status[a] \notin {"ACTIVE", "SCHEDULED"}
  /\ start' = [start EXCEPT ![a] = IF from > now THEN from ELSE PublishedFrom(@, now)]
  /\ end' = [end EXCEPT ![a] = CASE to > start'[a] -> to
                                 [] to <= start'[a] /\ @ > start'[a] -> @
                                 [] OTHER -> start'[a] + Duration]
  /\ CanTransition(status[a], PublishStatus(start'[a], now), TRUE)
  /\ status' = [status EXCEPT ![a] = PublishStatus(start'[a], now)]
  /\ approvedAt' = [approvedAt EXCEPT ![a] = now]
  /\ UNCHANGED <<now, entitlement, rescheduled, editor, job>>

Decide(a, decision) ==
  /\ CanTransition(status[a], decision, FALSE)
  /\ status' = [status EXCEPT ![a] = decision]
  /\ UNCHANGED <<now, start, end, approvedAt, rescheduled, editor, job>>

Reject(a) == Decide(a, "REJECTED") /\ UNCHANGED entitlement
Pause(a)  == Decide(a, "PAUSED") /\ UNCHANGED entitlement

\* Also cancelOwned, the advertiser's own cancellation.
Cancel(a) ==
  /\ Decide(a, "CANCELLED")
  /\ entitlement' = [entitlement EXCEPT ![a] =
       IF @ \in {"ABSENT", "REFUNDED"} THEN @ ELSE "CANCELLED"]

\* Faulty variant: anything that is not over may be resumed.
ResumableUnlessOver(a) == status[a] \notin Terminal \cup {"ACTIVE"}

Resumable(a) == status[a] # "ACTIVE" /\ CanTransition(status[a], "ACTIVE", FALSE)

\* Also makes a SCHEDULED campaign ACTIVE, before its start.
Resume(a) ==
  /\ Resumable(a)
  /\ end[a] = 0 \/ end[a] > now
  /\ status' = [status EXCEPT ![a] = "ACTIVE"]
  /\ UNCHANGED <<now, start, end, approvedAt, entitlement, rescheduled, editor, job>>

Extend(a, days) ==
  /\ status[a] \in Running
  /\ end[a] + days <= Horizon
  /\ end' = [end EXCEPT ![a] = (IF @ = 0 THEN now ELSE @) + days]
  /\ UNCHANGED <<now, status, start, approvedAt, entitlement, rescheduled, editor, job>>

-----------------------------------------------------------------------------
(* Edits, without a lock. *)

\* submitLiveCreativeEdit reads an ACTIVE campaign and saves the new creative ...
EditStart(a) ==
  /\ status[a] = "ACTIVE" /\ editor[a] = "none"
  /\ editor' = [editor EXCEPT ![a] = "owner"]
  /\ UNCHANGED <<now, status, start, end, approvedAt, entitlement, rescheduled, job>>

\* ... then sends the campaign to review, whatever has become of it meanwhile.
EditSubmit(a) ==
  /\ editor[a] = "owner"
  /\ status' = [status EXCEPT ![a] = "PENDING_REVIEW"]
  /\ editor' = [editor EXCEPT ![a] = "none"]
  /\ UNCHANGED <<now, start, end, approvedAt, entitlement, rescheduled, job>>

\* Between the two, the creative may turn out not to be publishable or its media not
\* to be processed, and the request may die.
EditAbandon(a) ==
  /\ editor[a] # "none"
  /\ editor' = [editor EXCEPT ![a] = "none"]
  /\ UNCHANGED <<now, campaignVars, job>>

\* adminUpdateCreative checks the status first and sets the window last.
RescheduleStart(a) ==
  /\ status[a] \notin Terminal /\ editor[a] = "none"
  /\ a \in HandSet \ rescheduled
  /\ editor' = [editor EXCEPT ![a] = "admin"]
  /\ UNCHANGED <<now, campaignVars, job>>

Reschedule(a, from, to) ==
  /\ editor[a] = "admin" /\ {from, to} \subseteq HandDates
  /\ start' = [start EXCEPT ![a] = IF from = 0 THEN @ ELSE from]
  /\ end' = [end EXCEPT ![a] = IF to = 0 THEN @ ELSE to]
  /\ rescheduled' = rescheduled \cup {a}
  /\ editor' = [editor EXCEPT ![a] = "none"]
  /\ UNCHANGED <<now, status, approvedAt, entitlement, job>>

-----------------------------------------------------------------------------
(* runAdvertisementLifecycleJobs; a MySQL lock keeps it to one run at a time. *)

\* Faulty variant: only campaigns that were paid for are started.
PaidDueToStart == {a \in Paid : status[a] = "SCHEDULED" /\ start[a] <= now /\ now < end[a]}

DueToStart == {a \in Ads : status[a] = "SCHEDULED" /\ start[a] <= now /\ now < end[a]}

\* Faulty variant: a paused campaign is left alone.
UnpausedDueToEnd == {a \in Ads : status[a] \in {"ACTIVE", "SCHEDULED"} /\ end[a] # 0 /\ end[a] <= now}

DueToEnd == {a \in Ads : status[a] \in Running /\ end[a] # 0 /\ end[a] <= now}

\* findAll ... LIMIT without an ORDER BY: any Batch of the rows that are due.
Batches(due) == {rows \in SUBSET due :
                   \/ rows = due /\ Cardinality(due) <= Batch
                   \/ Cardinality(rows) = Batch}

JobStart ==
  /\ job.phase = "idle"
  /\ \E rows \in Batches(DueToStart) :
       job' = [phase |-> "activate", todo |-> rows, current |-> None]
  /\ UNCHANGED <<now, campaignVars, editor>>

\* The rows are as the query found them; each is saved over what it is now.
JobActivate(a) ==
  /\ job.phase = "activate" /\ a \in job.todo
  /\ status' = [status EXCEPT ![a] = "ACTIVE"]
  /\ job' = [job EXCEPT !.todo = @ \ {a}]
  /\ UNCHANGED <<now, start, end, approvedAt, entitlement, rescheduled, editor>>

JobTurn ==
  /\ job.phase = "activate" /\ job.todo = {}
  /\ \E rows \in Batches(DueToEnd) :
       job' = [phase |-> "expire", todo |-> rows, current |-> None]
  /\ UNCHANGED <<now, campaignVars, editor>>

JobExpire(a) ==
  /\ job.phase = "expire" /\ a \in job.todo
  /\ status' = [status EXCEPT ![a] = "EXPIRED"]
  /\ job' = [phase |-> "entitlement", todo |-> job.todo \ {a}, current |-> a]
  /\ UNCHANGED <<now, start, end, approvedAt, entitlement, rescheduled, editor>>

\* The current row is done.
NextRow == [job EXCEPT !.phase = "expire", !.current = None]

JobReadEntitlement ==
  /\ job.phase = "entitlement"
  /\ job' = IF entitlement[job.current] = "ACTIVE" THEN [job EXCEPT !.phase = "revoke"] ELSE NextRow
  /\ UNCHANGED <<now, campaignVars, editor>>

JobEndEntitlement ==
  /\ job.phase = "revoke"
  /\ entitlement' = [entitlement EXCEPT ![job.current] = "EXPIRED"]
  /\ job' = NextRow
  /\ UNCHANGED <<now, status, start, end, approvedAt, rescheduled, editor>>

\* A save that fails is logged and the next row is taken.
JobSkip(a) ==
  /\ job.phase \in {"activate", "expire"} /\ a \in job.todo
  /\ job' = [job EXCEPT !.todo = @ \ {a}]
  /\ UNCHANGED <<now, campaignVars, editor>>

JobFinish ==
  /\ job.phase = "expire" /\ job.todo = {}
  /\ job' = IdleJob
  /\ UNCHANGED <<now, campaignVars, editor>>

\* The worker dies; its locks go with its connection, and it is started again.
JobDie ==
  /\ job.phase # "idle"
  /\ job' = IdleJob
  /\ UNCHANGED <<now, campaignVars, editor>>

Tick == /\ now < MaxTime
        /\ now' = now + 1
        /\ UNCHANGED <<campaignVars, editor, job>>

-----------------------------------------------------------------------------
JobStep == \/ JobStart \/ JobTurn \/ JobReadEntitlement \/ JobEndEntitlement \/ JobFinish \/ JobDie
           \/ \E a \in Ads : JobActivate(a) \/ JobExpire(a) \/ JobSkip(a)

Next ==
  \/ \E a \in Ads :
       \/ ApproveFirst(a) \/ ApproveAgain(a) \/ Reject(a) \/ Pause(a) \/ Resume(a) \/ Cancel(a)
       \/ \E days \in Time : Extend(a, days)
       \/ EditStart(a) \/ EditSubmit(a) \/ EditAbandon(a) \/ RescheduleStart(a)
       \/ \E from, to \in Time \cup {0} : Publish(a, from, to) \/ Reschedule(a, from, to)
  \/ JobStep
  \/ Tick

Spec == Init /\ [][Next]_vars

\* The timer starts the job again and again; the job does not die, and no
\* row's save fails, every time.
Fairness == /\ WF_vars(JobStart) /\ WF_vars(JobFinish)
            /\ SF_vars(JobTurn)
            /\ WF_vars(JobReadEntitlement) /\ WF_vars(JobEndEntitlement)
            /\ \A a \in Ads : SF_vars(JobActivate(a)) /\ SF_vars(JobExpire(a))

FairSpec == Spec /\ Fairness

-----------------------------------------------------------------------------
(* Properties. *)

\* Nothing is shown, scheduled or counted as running that no moderator ever approved,
\* even when stale saves of the job and of edits overwrite decisions.
ReviewedBeforeRunning == \A a \in Ads :
  status[a] \in Running \cup {"EXPIRED"} \/ entitlement[a] \in {"ACTIVE", "EXPIRED"}
    => approvedAt[a] # 0

\* Time lost to the review is not taken from the campaign: the paid window lies entirely
\* after the approval (approveAdvertisement), through later edits and extensions, unless
\* an admin sets the dates by hand.
FullAirtime == \A a \in Paid \ rescheduled :
  approvedAt[a] # 0 => end[a] >= start[a] + Duration /\ start[a] >= approvedAt[a]

\* A campaign whose end has passed does not stay among the running ones, whatever
\* other rows are due, die or are edited at the same time (expireDueCampaigns).
Overstays(a) == status[a] \in Running /\ end[a] \in 1..now

NoOverstay == \A a \in Ads : Overstays(a) ~> ~Overstays(a)

\* A scheduled campaign whose time has come does not stay behind (activateDueScheduled).
Waits(a) == status[a] = "SCHEDULED" /\ now \in start[a]..end[a] - 1

ScheduledGoesLive == \A a \in Ads : Waits(a) ~> ~Waits(a)

\* AdvertisementState.service.ts on live edits: "Edit takes them off the feed into
\* review."  EditStart has saved the new creative; once the request is over, the
\* campaign is not shown with it before a moderator has seen it.
EditGoesToReview ==
  [][\A a \in Ads : editor[a] = "owner" /\ editor'[a] = "none" => status'[a] # "ACTIVE"]_vars
=============================================================================
