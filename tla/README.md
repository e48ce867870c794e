# Digital House backend: verification project

TLA+ models of the parts of `digitalhouse-backend` whose correctness depends on the order in
which concurrent requests, webhooks, jobs and crashes take effect; TLC configurations that check
them on small instances; and theorems about them that TLAPS proves for every value of the
constants. `PROJECT.json` gives, for each definition, the lines of code it models.

## 1. The system

An Express API (`src/src`, TypeScript, Sequelize on MySQL) for a community app, with two other
kinds of process: a *media worker* (transcoding jobs from a MySQL queue) and a *scheduler worker*
(timers under MySQL named locks). All shared state is in MySQL; Razorpay (payments) and an object
store are external. Handlers are asynchronous functions: between two `await`s that are not in one
transaction, any other request, in this process or another, may run.

### Inventory

| Component | State | Operations | What must hold | Model |
|---|---|---|---|---|
| Central payment ledger (`services/payments`) | `payment_orders`, `payment_invoices`, `payment_refunds`, `razorpay_webhook_events` | create or reuse an order, fulfil (verify call, webhook), mark failed, refund | one primary payment per purchase; nothing booked that was not captured; nothing captured forgotten; money goes back once | `PaymentLedger` |
| Razorpay | payments and refunds at the gateway; webhooks repeated until answered | authorize, capture, fail, refund | external | in `PaymentLedger` |
| Advertisement payments (`AdvertisementPaymentHandler`, parts of `Advertisement.service`) | `advertisements.status`, `advertisement_entitlements` | checkout, fulfil, revert, revoke | no review without payment; a cancelled campaign is not entitled | `AdvertisementPayments` |
| Advertisement moderation | the same rows, locked | approve, reject, pause, resume, extend, cancel, publish complimentary | only reviewed campaigns run; the paid days are kept | `AdvertisementLifecycle` |
| Advertisement lifecycle job | rows read by a query, saved one by one | activate, expire | what is due starts and ends in the end | `AdvertisementLifecycle` |
| Live edits | the row, unlocked | submit live edit, admin update | an edited creative is reviewed | `AdvertisementLifecycle` |
| Media jobs (`MediaJob.service`, `mediaWorker`) | `media_jobs`, `media_files.processingStatus` | enqueue, claim, complete, fail and retry, recover stale | a finished job is never reopened, none is stuck; job and file agree | `MediaJobs` |
| Media processing and clean-up (`MediaProcessing`, `Media`) | objects in R2 | read staging, write output, delete staging, orphans, uploads | what is published is stored; a job finds its source | `MediaJobs` |
| Content safety (`contentSafety`, `post/write`) | `media_files.safetyDecision`, `posts.safetyDecision`, `mediaVersion`, quarantined objects | moderate, promote, publish, edit, report, allow, reject, hide | nothing is published that was not found safe or allowed; the caption too | `ContentSafety` |
| Matrimony payments and subscriptions | matrimony orders, subscriptions, contact reveals | checkout, fulfil, fail, grant, extend, cancel, refund, expire | paid once, granted once; time that was paid for is not lost | `MatrimonyBilling` |
| Matrimony matches | interests, match row, blocks | send, accept, decline, withdraw, remove, block, unblock | matched means that both accepted, and the other way round | `MatrimonyMatches` |
| Matrimony profiles | application, review note, public JSON | draft, submit, edit, review, photo decisions, suspend, pause, close | shown is what was approved; a suspended profile is hidden | `MatrimonyProfiles` |
| Connections | two directed rows per pair, blocks | request, accept, reject, cancel, remove, block, unblock | connected by consent, once | `Connections` |
| Scheduler lock and tracking | `GET_LOCK`, run rows, counters, switch | run with lock, record, start by hand, switch | one run at a time; the history tells what ran | `SchedulerJobs`; `AdvertisementLifecycle` assumes the lock |
| Marketplace listings | `posts.marketplaceStatus`, expiry, moderation | publish, edit, approve, sold, renew, hide, report, expire | what is live expires in the end; the limit of live listings | `MarketplaceListings` |
| Presence | keys in Redis, connection handlers, sweeps | connect, disconnect, heartbeat, sweep | online agrees with connected; no ghost | `Presence` |
| Chat push | held push, Redis key, message row | send, hold, confirm, fire | no push after the confirmation, one without it | `ChatPush` |
| Help requests | `posts.helpStatus`, expiry, offers | publish, offer, extend, complete, cancel, reopen, expire | shown as its author left it | `HelpRequests` |
| Legal documents | versions, acceptances | draft, edit, restore, publish, accept | one version is in force | `LegalDocuments` |
| Accounts (`RegistrationStatus`, `AdminReports`, `AdminUserManagement`, `tokenRevocation`, `auth.middleware`) | `users.status`, marks in memory and Redis, a cache per process | approve, reject, ask for changes, correct, suspend, reactivate, delete, restore, log out; look up | an ended token stays ended; a change is soon followed by every process | `Accounts` |
| Everything else (OTP, profile sections, feed, likes, notifications, support, migrations, …) | | CRUD, queries, scoring, best-effort delivery | | not modelled; reasons in `PROJECT.json` |

### How they interact

* A checkout locks the campaign and all its orders in one transaction and opens an order at
  Razorpay. The client's *verify* call and the gateway's `payment.captured` webhook both end in
  `fulfillOrderLocked`, which locks all orders of the purchase and calls the handler the product
  registered. Handler and ledger commit or roll back together.
* A `payment.failed` webhook reads the order **without** a lock, saves `FAILED` and then calls the
  product's failure handler, which again reads and saves without a lock.
* A refund is a transaction, a call to Razorpay, and a second transaction.
* An upload is put into R2 by the client, *finalized* by an API request that queues a job, and
  processed by a slot of a media worker: read the staging object, write the output, commit job and
  media row in one transaction, delete the staging object. Every transaction locks the media row
  and then the job. Workers know a claim by status and worker id; a timer of every worker requeues
  claims whose heartbeat stopped. Deletions of uploads lock nothing.
* Moderators and owners lock the campaign's row. The lifecycle job and edits of running campaigns
  do not: they save rows they read earlier. Sequelize's `save` writes the changed columns only.
* The services around members (connections, matches, profiles, listings, help, legal documents)
  take no locks at all: each handler reads rows, checks them, awaits, and updates by id what it
  decided. What they share is the database; with few exceptions no transaction joins their steps.
* A processed upload is moderated by the worker that processed it, which then rewrites and
  publishes the posts that refer to it, while their owner edits them and administrators decide.
* Every request asks whether its token was ended and what its member's status is. The first is in
  Redis, or else in the process's memory; the second in a cache of the process for 20 s. A change
  of status tells its own process, and Redis when it ends tokens; other processes find out.
* API processes keep presence and the confirmations of held pushes in Redis; the timers, the
  sockets and the switch of a scheduled job are in one process's memory.

### What is hard

Interleavings of verify, webhooks and refunds of one purchase; crashes between the refund's
transactions, or between handling an event and marking it; repeated webhooks; stale rows saved
over newer decisions; campaigns that never start or end because the job's batch is always full or
one row always fails; runs of a media job that go on after their claim was taken from them, also by
another run of the same worker; objects and rows that change one after the other; two requests
that each read before the other wrote; what a process remembers of what another has changed.
`PROJECT.json` lists each such hazard at its line, with the properties that cover it, or the
reason why none does.

## 2. The modules

```
PaymentAccounting           what the ledger promises about money (abstract)
      ^ implemented by
PaymentLedger               payment_orders, invoices, refunds, webhooks, gateway
      ^ extended by                                AdvertisementState   the status table
AdvertisementPayments  <---------------------------------+---------->  AdvertisementLifecycle
      ^                                                                       ^
MCAdvertisementPayments     (TLC instances)              MCAdvertisementLifecycle
PaymentLedgerProofs, AdvertisementPaymentsProofs         AdvertisementLifecycleProofs

JobQueue  <-- implemented by --  MediaJobs  <--  MCMediaJobs, MediaJobsProofs

PaymentAccounting  <-- implemented by --  MatrimonyBilling

MCServices   Connections, SchedulerJobs, MarketplaceListings, ContentSafety
             MatrimonyBilling, MatrimonyMatches         <--  MatrimonyProofs
        ^ ServicesProofs (with MatrimonyProofs: the composition)
MCPlatform   MCMediaJobs                                <--  MediaJobsProofs
             Accounts                                   <--  AccountsProofs
             Presence, ChatPush, MatrimonyProfiles, HelpRequests, LegalDocuments
        ^ PlatformProofs (with the two others: the composition)
```

The last two put components side by side that share no variable: their initial states choose
which *part* moves, the others stand still, so the states of a run are the sum of its parts and
not their product. An invariant of one part is checked in all states of it; nothing is claimed
of several moving at once, which they could only do by sharing something.

**`PaymentLedger`.** Tables are functions from row identities. A transaction whose reads are
`FOR UPDATE` is one action; a request is a process `p` with a program counter `proc[p].pc` and the
values it read before its last `await`:

| `pc` | Code between |
|---|---|
| `fulfil` | the payment was fetched; the transaction of `fulfillOrderLocked` is next (one action for each of its ends: already paid, refused, duplicate, primary, rolled back) |
| `mark` | handled; the event is to be marked as processed |
| `failWrite`, `failHandle` | `markOrderFailed` after the webhook's read; its handler |
| `refundFetch`, `refundCall` | first refund transaction committed; the two calls of `createRazorpayRefund` |
| `refundFail`, `refundCommit` | the gateway said no (or its answer was lost), or yes |

`Crash(p)` drops a request anywhere: the locals go, the tables stay. The gateway authorizes,
captures, fails attempts, repeats a captured event until it is marked, refunds once, and answers
"already refunded" afterwards. `payment.captured` and `order.paid` are one event, since the code
treats them alike. A refund's age is a flag (younger than 60 s, or not).

**`AdvertisementPayments`** adds the campaign's status and entitlement and says what the handlers
do. `Fulfil` is `FulfilPrimary` of the ledger together with `fulfillPaidAdvertisement`;
`FulfilThrows` is the case in which it throws. `RevertRead`/`RevertWrite` are the unlocked read and
save of `revertPaymentFailure`. Owner and moderator decisions that race with payments are here;
`ACTIVE` stands for scheduled, active and paused. `CancelOverRefund` is a cancellation that read
the entitlement before a refund committed and writes it after.

**`AdvertisementLifecycle`** has the columns that decide when a campaign runs, the moderators'
actions with their date arithmetic, the two unlocked edits, and the job as a process: a query
chooses at most `Batch` rows (no `ORDER BY`: any of them), each is saved over whatever it is by
now, then the entitlement is read and saved. A save may fail (`JobSkip`), the worker may die
(`JobDie`). Dates are ticks; 0 is NULL.

**`MediaJobs`.** `media` and `job` are the two rows of an upload, `store` its objects: the staging
object and the output, which stands for variants, posters and optimized video. `run` holds the
worker's slots, processes with a program counter: `read`, `download`, `write` (calls of
`processMediaFile`), `commit`, `check`, `delete` (the end of `processClaimedMediaJob`), `fail` (its
`catch`). A slot keeps the key it is about to publish and whether the staging object is to be
dropped. `Throws` takes any call to `catch`; a crash drops all slots of a worker. Time is the flag
`old` of a job: not touched for 2 s (a pending one can be claimed) or for the stale limit (a
processing one can be recovered); it may turn old at any moment, so a run may be taken for dead
while it works. `poll` is the candidate a poller has read, not claimed. What a transaction checks
again is not modelled twice: the first reads of `recoverStaleMediaJobs` and the object check before
the queueing leave no trace. Deletions (`removing`) delete objects first, the row later or never.

**The services.** The next modules follow one scheme. A request is a record with a program
counter (`call`, `step`, `op`, `request`, `run`, …) that holds what it has read; a begin action
reads and checks, an end action writes by id, whatever the row has become. Requests die between
the two. Variables marked *history* belong to no table: they remember what the rows forget, and
only properties read them.

**`Connections`.** `conn` has the two directed rows of each pair, with status, attempts and
whether 30 days have passed since a rejection. `Begin` is what a call checks before it looks at
the rows; then come its reads and its writes, and an acceptance *collapses* the other row in a
second statement. Blocks disconnect both rows, unblocks write back what they find cancelled.
`consent` remembers who has asked or accepted, `loose` which pairs an unblock or a death between
two statements has touched.

**`MatrimonyBilling`.** Orders with the money the gateway has captured, the events it still posts
(`payment.captured` and `order.paid` announce one capture, each with an event id of its own, so the
marks of processed events do not tell the second from news), the member's subscription rows and the
contact reveal. What a request has read and not yet saved is a variable: `superseding`, `failing`,
`unsubscribing`, `granting`, `extending`, `expiring`. `grants` counts fulfilments, `stale` remembers
`FAILED` over `PAID`, `overtaken` a plan the job ended while an administrator extended it. Its
refinement mapping to `PaymentAccounting` books an order when it is fulfilled.

**`MatrimonyMatches`.** One interest each way, the match row with its chat and contact flags,
blocks. Acceptances that cross both look for the other's interest; a late withdrawal, removal or
block saves over them. `accepted` is the history of consent, `upset` whether a request died
half-way, or closed the match of two accepted interests, since the match was last made.

**`ContentSafety`.** An upload has a key (in quarantine or public), a verdict and its objects; a
post its references, caption verdict, `safetyDecision`, `mediaVersion` and `moderatedMediaVersion`.
`run` is the worker's moderation (classify, save the verdict, copy, rewrite, publish, delete, post
by post, from a list read before), `late` the failure path that may save over it, `edit` the
author's edit between its two saves, `allow` an administrator's allow between its own, `reporting` a
severe report that has read `SAFE`. `adminEdit` is `updateAdminPost`: it reads the row, saves the
caption, and applies the caption's verdict to the row as it was read at first, without the reload of
the author's edit. `TradeEditSaves` is what administrators do to the captions of listings and jobs
(`Trades`): one save, no check. `cleared` is what was ever found safe or allowed, `unsaid` the posts
whose caption an exception of `CaptionNotPublic` covers.

**`SchedulerJobs`.** One job, its switch and each process's *copy* of it, the lock (a set:
a lost session frees it while the job goes on), what each process is at, the rows of runs and the
counter. `broken` marks the first lost session, death at work, or failed write of the tracking.

**`MarketplaceListings`.** A row is status, expiry and moderation. A request is its operation, the
row it has read, and whether it is still to count the live ones (`assertCanGoLive`); `Wanted` says
what row each operation wants, and only the columns that differ from what was read are saved.

**`Presence`.** The Redis keys of one member, the handlers of connections (joining, handled,
removing), the servers with heartbeat, and the sweep of each. A command or pipeline is one step, the
awaits between are not: a handler looks the member up (`LookUp`), removes the reference
(`RemoveRef`), counts what is left and sets the member offline; a sweep checks a server, lists its
references, and looks up (`SweepTakes`), clears, drops and counts for each of them. A handler and a
sweep may both look up one reference before either removes it. `lapsed`, `stuck`, `latecomers` and
`unfinished` name the four ways in which the keys do go wrong.

**`ChatPush`.** The timer of a held push, its Redis key, and the confirmation (`message:delivered`)
in any process, which reads the message, cancels the push and saves. `markRead` confirms the
messages' delivery in their rows but cancels no push. `forgotten` remembers the cases in which the
code gives up: Redis failed, the key expired before the timer, the process died.

**`MatrimonyProfiles`.** The application's JSON (which form, active, submitted, change asked), the
review row and the profile's JSON of one member. Each operation reads one JSON and writes it as a
whole some statements later; after the write, several queue a review of their own. A rejected
application of which changes were asked is reopened in two places: when the hub finds none pending
(`Reopen`), and when a form is saved without a row (`Seek`), whatever is pending by then. `approved`
and `banned` remember the administrators' decisions, `early` which requests were under way when the
profile was suspended.

**`HelpRequests`.** A row's status, expiry, reminder and extensions, its offers, a clock. An
update sets the columns that differ from what was read; `Crossing` names the pairs of updates that
then cannot both have their way, and `meant` what the last author or administrator wanted.

**`LegalDocuments`.** Versions of one document, with a draft's suffix and the number that its columns
give it (a restored draft's is another row's), and the acceptances of one member. Publication
archives and publishes in one transaction but decides before it; `overlapped` remembers a
publication or an edit decided before another publication.

**`Accounts`.** One member's status and what each process knows of it. A change (`change[i]`) is
read, saved by id, and followed by what its handler does: a mark in memory and the cache's entry
dropped (`RevokeMarks`), the mark in Redis (`RevokePublishes`, `PublishFails`), or the entry only
(`Invalidated`). `GateReads` and `GateFills` are a request's read of the row and the entry made of
it; the process may change, save or restart in between. `since` and `dropped` remember the last save
and who forgot its predecessor, `newest` the newest mark that has reached Redis, `overtaken` whether
an older one came after it, and `barred` what stays ended even then: when a mark arrived, all that
were on their way were this new. A second of the clock stands for one of the token's; the cache's 20
s are 2.

**Assumptions.** Redis answers reads of marks (a process that cannot read them goes by its memory).
Razorpay is configured, and a paid order carries its payment id. `GET_LOCK` admits
one lifecycle job at a time; `SchedulerJobs` shows when that is so (`OneHolder`: as long as no
session was lost). Signatures are right. Refunds are of the whole order: the schema refuses an
amount. Components without a common variable do not disturb each other.

## 3. The runs

| Run | Instance | Shows |
|---|---|---|
| `adpay` | 1 campaign, 2 orders, 1 failed attempt, 1 refund, 2 requests; symmetric | `SinglePrimary`, `MoneyBacked`, `ReviewedIsPaidFor`, `CancelledNotEntitled`, `RefundedIsPrimary` in every reachable state, and the refinement of `PaymentAccounting` |
| `adpay_live` | 2 products, no refund, fair | `CapturedIsBooked`: captured money is recorded in the end, also of an order that a changed price superseded before it was captured |
| `lifecycle` | a paid and a complimentary campaign, `Batch` 1, 2 ticks, fair | `ReviewedBeforeRunning`, `FullAirtime`; `NoOverstay` and `ScheduledGoesLive` |
| `media_jobs_live` | an image and a video, one slot; 1 retry, 1 recovery; fair | `EveryJobEnds` |
| `services` | eight parts, below | six components and the refinement of `PaymentAccounting` by the matrimony ledger |
| `platform` | seven parts, below | six components, and the media jobs with the refinement of `JobQueue` |
| `failed_recovered` | 1 campaign, 2 orders at 2 prices, 2 requests, fair | violated: see *Findings* |
| `paid_never_deleted`, `edit_goes_to_review` | 1 campaign | violated: see *Findings* |
| `cleanup_spares_active` | a video, one slot | violated: see *Findings* |
| `unverified_not_public` | two uploads, a post with a thumbnail | violated: see *Findings* |
| `pending_not_public` | one application | violated: see *Findings* |

| Part | Instance | States | Shows |
|---|---|---|---|
| services / connections | 2 members, 2 calls, 2 attempts, one blocks | 121 000 | `ConnectedByConsent`, `OneAccepted` |
| services / orders | 2 orders, a plan or a contact, 2 fulfilments of one | 26 000 | `GrantedOnceUnlessStale`, `BillingAccounting` |
| services / plans | 1 order, 2 subscription rows, job of 1 row | 111 000 | `LiveUnlessReplaced` |
| services / matches | 2 members, 2 calls, one blocks | 163 000 | `MatchedByBoth`, `AcceptedIsMatched` |
| services / content | 2 uploads (one clean), 1 post, 2 versions, 3 things begin | 210 000 | `UnverifiedNotPublic`, `CaptionNotPublic` |
| services / jobs | a worker and an API process, 2 runs | 61 000 | `OneHolder`, `HistoryTold` |
| services / listing | 1 listing, 2 requests, all operations | 123 000 | `LiveExpires` |
| services / limit | 3 listings, 2 requests, limit 1; approvals and sales | 8 000 | `LiveLimit` |
| platform / media | a video; two workers, one with two slots; 1 retry, 2 recoveries | 250 000 | `LiveObjectStored`, `StagingKept`, `RowsAgree`, `QueueSpec` |
| platform / presence | 2 servers, 2 sockets, one fault | 105 000 | `NoGhost`, `SparesTheLiving`, `OnlineTold` |
| platform / chat | 1 message, with and without Redis | 352 | `PushSettled` |
| platform / profile | 2 requests at once, 4 begin, 1 application, 2 forms | 127 000 | `SuspendedHidden` |
| platform / help | 2 requests at once, 3 begin, 1 helper, 2 hours | 66 000 | `ShownAsMeant` |
| platform / legal | 2 requests at once, 6 begin, 3 rows, 3 texts | 51 000 | `AlwaysInForce` |
| platform / accounts | 2 processes, 3 changes, requests or restarts begin, 3 seconds | 73 000 | `TokensStayEnded`, `StatusSoonFollowed` |

The first states which may be terminal are in the payment runs (all orders settled, all campaigns
closed), in the media runs (all uploads processed or deleted) and in `services` and `platform` (a
budget is spent, a post deleted), so deadlock is not checked there; in `lifecycle` the job never
stops, and it is.

**Why the bounds are enough.** Two orders are the least with which one can be a duplicate of, or
superseded by, another; every property relates at most two. Two requests let any two steps of
verify, webhook, failure, refund and crash interleave, and since a request may die and another
start, sequences are unbounded. One campaign is enough because no step of the ledger relates two
references. One failed attempt gives the stale `FAILED`; more only repeat it. In `lifecycle` two
campaigns and `Batch = 1` make the batch too small for what is due; two ticks and a duration of
one let windows be in the future, current and past. `MaxTime` stops the clock, `Horizon` bounds
the ends admins choose, `HandSet` limits reschedules by hand to one of one campaign and
`HandDates` their dates to tick 2 or none (all of 0, 1 and 2 pass as well, in a longer run), and
at most one edit of a campaign is under way: two owners' edits write the same status. In
`platform` no safety property relates two uploads; three slots of two workers are the least with
which a job is claimed by another worker and by another slot of the same one. One retry and two
recoveries use both limits and still give a job back by each; resubmissions are unbounded. In
`media_jobs_live` two uploads compete for the one slot in the order of the queue. The theorems
carry the safety properties to all sizes.

In the parts, two members, requests or servers are the least that can cross, and the code of a third
would be the same; members are interchangeable (`k1`, `k2`), requests too (`t1`, `t2`), hence
`Symmetry`. Budgets (`ContentBudget`, `ProfileBudget`, `HelpBudget`, `LegalBudget`,
`AccountsBudget`) bound how many operations *begin*; whatever has begun goes on without one. They
allow two that cross after what they need to find. Larger ones were checked by hand while the models
were written: `HelpBudget` 5, `LegalBudget` 7, `AccountsBudget` 4, and a `ProfileBudget` of 3 with
two applications. `OneBlocks` lets one of two members block (both blocking doubles the pairs of
states without a new race), `OneOrder` and `Counting` split a component whose parts do not meet,
`OneFault` allows one server to fail and one to sweep at a time. `MaxGrants` is 2 because the third
fulfilment is as wrong as the second.

**Fairness.** `services` and `platform` check safety only. `adpay_live`: a request that is not
dropped goes on (weak fairness of its steps); the gateway repeats a captured event until it is
answered with success, and the retries are not all dropped (strong fairness of receiving it and of
its fulfilment). No fairness is assumed of clients, payers, moderators or refunds. `lifecycle`:
the timer starts the job again and again, the job is not killed every time, and a row's save does
not fail every time (strong fairness of its turn and of each save). No fairness of the edits or
the clock. `media_jobs_live`: time passes, every slot goes on or dies, stale jobs are recovered
(weak fairness); a worker that died is started again and does not die between every look and its
claim (strong fairness of both). One more assumption is needed, and TLC shows a starving job
without it: users give up on an upload that keeps failing. A failed job that is finalized again
keeps its `createdAt`, and the poller takes the oldest, so one that fails for ever can stay ahead
of a younger one.

## 4. Findings

Six statements of the repository that the code does not keep; each has a run whose trace shows it.

* **`FailedIsRecovered`.** The comment promises that an order which a newer checkout superseded
  (`FAILED`) and which was still paid is recovered. In the trace a `payment.failed` webhook reads the
  order as `CREATED`; the payment is captured; a checkout at another price supersedes the order; the
  captured event recovers it to `PAID`, as promised, and is marked; then the stale write of the first
  webhook makes it `FAILED` again beside the newer order, and nothing is left that would recover it.
  The invoice and the campaign are right, the order is not, and it can no longer be refunded.
  Without such a write the recovery works. (`Payment.service.ts:293`, against the comment at 207.)
* **`PaidNeverDeleted`.** The failure handler's stale save sends a paid campaign to `DRAFT`, which
  its owner may delete. (`Advertisement.service.ts:759`, against `AdvertisementState.service.ts:75`.)
* **`EditGoesToReview`.** `submitLiveCreativeEdit` saves the new creative before it checks it; when
  the check throws, the new creative is on the feed without a review.
  (`Advertisement.service.ts:239`, against `AdvertisementState.service.ts:67`.)
* **`CleanUpSparesActive`.** The clean-up counts active jobs, searches for references, and deletes:
  an upload finalized during the search loses its objects, and its job fails.
  (`Media.service.ts:494`, against the comment at 362.)

* **`UnverifiedNotPublic`.** A post whose thumbnail is an upload of its own is promoted and
  published with it as soon as its photo is found safe, whatever the thumbnail's own moderation
  says. With one upload a post the invariant holds, and `services` checks it.
  (`ContentSafety.service.ts:534`, against `docs/CONTENT_SAFETY.md:3`.)
* **`PendingNotPublic`.** The decision on an application's photo merges the whole pending form into
  the profile. (`MatrimonyAdmin.service.ts:1330`, against `PROFILE_APPROVAL_WORKFLOW.md:6`.)

The safety theorems hold *with* these races: a stale failure does not lead to a second primary
payment, to an entitlement for a cancelled campaign or to a review without payment.

**Seen while modelling, without a run of their own.** They are in the models, as actions or as the
history that excuses a property; no statement of the repository is quoted against them.

* Advertisements: `activateDueScheduled` saves `ACTIVE` over a campaign cancelled after its query.
* Connections: an unblock sets every row it finds cancelled to `ACCEPTED`, also one nobody had
  accepted (`MatrimonySafety.service.ts:187`), and matches the members again.
* Scheduler: a worker never reloads its copy of an administrator's switch; it keeps the one it
  started with, or the one set through itself. A run row of a dead worker stays `RUNNING`.
* Chat push: without Redis a held push is never sent: the timer forgets it before it asks whether
  it is still pending (`messagePushQueue.ts:96-99`, 66-71).
* Content: an administrator's reject, or a severe report, is overwritten by a later run for the
  same version. A moderation that ends before the post exists leaves it `PENDING`, since an upload
  is moderated once. An administrator's edit of a caption goes by the row it read before
  (`AdminPosts.service.ts:402`): a post read as held and published meanwhile is not held again. Edits of
  listings and jobs by administrators check no caption at all (`adminListingEdit.service.ts:24`,
  `AdminJobs.service.ts:459`). Both leave a `BLOCK` or `REVIEW` caption public, against the comment at
  `initialSafety.ts:67`; `CaptionNotPublic` lists them as exceptions. Posts that share an upload are left with a quarantine key whose object is
  gone. `withInferenceSlot` can exceed its limit by one.
* Profiles: photo decisions and approvals drop the flags of a submission; the change of an
  account's photo submits an unfinished draft; members with a closed profile may still browse
  (`matrimony.hub.service.ts`).
* Help: the job expires a request extended after its query; a late offer saves `IN_PROGRESS` over
  `COMPLETED`.
* Accounts: a correction or an approval that read before a suspension reopens the account; a
  reactivation or restoration approves an account that never was. A token signed in the second of
  its revocation stays active (`>=`, where the comment at `tokenRevocation.ts:46` says "at or
  before now"). The write of an older mark that arrives after a newer one replaces it, and the tokens
  between the two, which a revocation had ended, are active again in every process
  (`tokenRevocation.ts:59`). When a mark cannot be written, the one before it, if Redis has one, hides it in the
  process that made it too (line 35). `optionalAuth` does not ask for marks.
* Legal: a draft edited while it is published is edited in force; two publications of one draft
  may leave two versions in force, or renumber one.
* Never called: `closeAllMatrimonyWorkflowForUser`, `severConnectionWorkflow`, `recordSkipped`,
  `pruneOldRuns`.

## 5. The proofs

All but `UnverifiedStaysPrivate`, below, are from the named assumptions on the constants only
(`LedgerAssumption`: the null value is no row, product, attempt or event; `LifecycleAssumption`:
durations and bounds are positive;
`MediaAssumption`: slots belong to workers, uploads are finitely many, limits are numbers;
`AccountsAssumption`: the cache's lifetime and the clock's end are positive). The other modules'
assumptions say that limits and bounds are positive numbers and, where a proof counts or picks a
last one, that there are finitely many processes, connections, requests, listings, runs or
subscriptions at a time; `MatchesAssumption`, that a pair has two members. Every assumption is
evaluated by a run. Each of the components of `services` and `platform` is proved under its own
specification, so neither the parts and budgets of the runs nor `OneFault`, `OneOrder`, `Counting`
and `OneBlocks` limit a theorem. That the two runs show behaviours of the components, and nothing
else, is proved as well (`ServicesRunTheirParts`, `PlatformRunsItsParts`, at the end of
`ServicesProofs` and `PlatformProofs`): a step of a part is a step of its component and leaves the
others alone. With it every theorem about a component is one about the composition;
`ServicesTypes`, `PlatformTypes`, `ServicesKeepPromises` and `PlatformKeepsPromises` state the
invariants and refinements that the two runs check, for any constants.

Most theorems are invariants. The action properties (`[][A]_vars`) say what no step may do to what
is settled: a booking, and money that went back (`LedgerMoneyFinal`, `CampaignMoneyFinal`), a
published upload (`PublishedStays`), a completed job and its credit (`ReturnsStayLimited`), a
closed row of a job's history (`HistoryStays`), a published version (`LegalVersionsStay`). The
first and the fourth follow from the abstract module through the refinement, so they need no proof
of their own about the code's actions.

**`PaymentLedgerProofs`.** `SinglePrimary` and `MoneyBacked` are not inductive: a request acts
on what it fetched, so the invariant `LedgerInv` also says what the locals imply (`LocalOK`): a
payment seen as captured is captured or refunded at the gateway; a refund in progress is one of a
booked order; one about to be committed has its money back. `RowOK` relates each order's row to
gateway and invoices. `Advances` (the gateway only moves forward, what is booked stays booked) is
why the locals of the *other* requests stay true, which every action needs.
One lemma per action or group of alike actions shows that `LedgerInv` is preserved, and
`LedgerInvariant` follows. The refinement `LedgerImplementsAccounting` uses it: each action is a
`Capture`, a `Book`, a `Return` of the abstract module, or a stutter. An order is *booked*
when it is invoiced or recorded as duplicate; its row's `PAID` will not do, because the stale
`FAILED` removes it.

**`AdvertisementPaymentsProofs`.** `CampaignsImplementLedger` shows that each step of the
composition is a step of the ledger or leaves it alone, so the ledger's theorems hold of the
composition without a second proof. `CampaignInv` adds what the four campaign properties need,
for each campaign: past checkout
it has an entitlement and an invoiced order of its own whose money was captured; `PaymentsKept`
shows that no step takes such an order away, whatever a stale failure writes.

**`AdvertisementLifecycleProofs`.** `Inv` adds to `ReviewedBeforeRunning` and `FullAirtime` that
what the job has *in hand* was approved once: without it, a stale save could put anything on the
feed. `RunsOnlyReviewed` and `PaidAirtimeIsKept` follow, for every number of campaigns, duration,
batch size and horizon.

**`MediaJobsProofs`.** A run acts on what it saw before it may have lost its claim, so the four
invariants need facts about the slots (`RunSound`): the output a run is about to publish is in the
store, and a run that may delete the source belongs to an upload whose published object is the
output. `SourceStored` strengthens `StagingKept` to uploads that nothing is queued for, so that it
survives a resubmission; `JobsSound` says that a job still to be done has a recovery left, and that
an upload without a job is untouched. Together they are inductive (`Inv`), for any number of
uploads, workers and slots. `Implements` maps each job to `JobQueue`: a claim is a `Take`, a
failure or recovery a `GiveBack` or a `Fail`, and the credit is what is left of both counters; that
a late run of the same worker commits for a newer one is a `Finish` like any other.

**`AccountsProofs`.** `TokensStayEnded` has two parts. Until an older mark overtakes a newer one,
every token below the newest mark that arrived is ended: Redis holds that mark. After it, those
below `barred` still are, which is not inductive, since the next write may bring an older mark yet.
`MarksAboveBarred` says that no mark under way is below what is barred, nor in the future; the write
that bars more picks the lowest under way, so it keeps this, and Redis is never below.
`EntriesFollow` is `StatusSoonFollowed` of lapsed entries too, with a bound by the clock that a save
turns into one by `since`; `SavesStatus` excludes a save without a status. Any number of processes,
any lifetime of the cache.

**`ServicesProofs`.** *Connections*: `ConnectedByConsent` needs `RowsAsked` (a row exists only after
its requester asked) and `PlansKnown`, what a call that has read still knows when it writes: the
rows it will write are of its pair, and who accepts is their recipient. *Scheduled jobs*:
`OneHolder` and `HistoryTold` need `WorksUnderLock`, `RowsOwned` (runs at work have different rows,
still RUNNING) and a count: `CountBehind` holds whatever is lost, `CountExact` (counted and
uncounted runs together are the closed rows) until something is. *Listings*: `LiveLimit` relates
only live rows, which any request may add to after another one counted; `RoomCounted` counts those
to come, too, and is inductive because each of the other requests has added at most one. *Content
safety*: `CaptionHeld` is `CaptionNotPublic` of rows that are hidden as well. `EditKnows` says that
the version an author's edit has read is still the row's; `WillHold`, that an edit whose caption is
to be held, the author's or an administrator's, has still to take the row back; where none will,
`unsaid` says why. `UnverifiedStaysPrivate` adds what each run has found and moved (`VerifiedInv`).
Its hypothesis is that a post has one upload, as in the run `services`; with two the property is
false, which is the finding of `unverified_not_public`.

**`MatrimonyProofs`.** *Matches*: `StepsKnown` says what a request has established before it makes
or changes a match, `MatchAwaited` is `AcceptedIsMatched` without the condition that nobody is at
work. *Billing*: `OrderInv` ties a fulfilment to PAID or to a recorded overwriting
(`FulfilledIsPaid`), and gives the refinement `BillingImplementsAccounting`, in which an order is
booked once it was fulfilled. `LiveUnlessReplaced` speaks of the newest rows, so `PlanInv` says that
no rank is above the number of rows made, and the next one ranks after them all (`Ranked`), and what
the job has in hand was due or was extended since (`HandsKnown`).

**`PlatformProofs`.** *Chat pushes*: a push called off has lost its key or its timer
(`CalledOffStops`), a missing key has a reason (`MissingIsTold`). *Profiles*: what a request read
after the suspension keeps it (`KeepsSuspension`). *Presence* has the largest invariant: whom a
sweep suspects has failed, and stays so (`SuspectsFailed`); what it has taken belonged to one that
failed (`TakenOfFailed`); a reference without a connection is in a sweep's hand or known to a listed
server's key, where a handler or a later sweep will find it (`LostInHand`, `KnownFound`).
`OnlineInv` adds to `OnlineTold` that whoever has counted none overlooks latecomers only. Any number
of processes sweep and fail. *Requests for help*: until two updates cross, each operation under way
has seen what matters to it (`InTime`), and the row agrees with what was meant (`HelpKept`). *Legal
documents*: `AlwaysInForce` needs for its second half that an operation nothing has overtaken writes
a draft and knows what is in force (`Undisturbed`), and that an accepted number belongs to a row
that had it (`AcceptedOnce`). That the version in force is above all before it (`NewestInForce`)
needs `NumbersKnown`: an operation has seen its draft's number, which a restored draft has from
another row, and has chosen one next to the version in force.

Every type invariant is a theorem of its component (`...Types`, `TypeCorrect`); no run repeats those
of the advertisement modules and the ledger. `ProfilesTypes` needs `NotesInv`: what is still to come
of an operation, statement by statement and with the review it queues, belongs to its kind, and no
two submitted applications have the same place in the order of submission (`newer` counts the later
ones).

**Model-checked only.** Liveness (`CapturedIsBooked`, `NoOverstay`, `ScheduledGoesLive`,
`EveryJobEnds`): the prover does not reason about fairness and `ENABLED`. The six violations, and
with them what is left of `UnverifiedNotPublic` in the run `services`, where no post has two
uploads. What a recursive definition computes for every input would be out of reach too (induction
over data); no module uses `RECURSIVE`.

Every property is also run against a mutant: the faulty variants in the modules ("Faulty
variant: …") are slips that the code could have, and TLC finds the property violated with each.

## 6. Plan

Done: every module of section 2 modelled and checked; every safety invariant, type invariant and
refinement that a passing run checks proved for all sizes of its component, and for the
compositions `services` and `platform`; six action properties.

Next, in this order:

1. OTP issue and verification, and the columns a registration's correction carries.
2. Likes, impressions and other counters behind unique keys.
3. Job interests, support tickets and notifications, as far as other state depends on them.
4. More action properties from the inductive invariants, such as the finality of a match's history
   and of a presence sweep's verdict.

## 7. Not modelled

Transcoding and object keys; the draining of a media worker at a shutdown and its temporary
directories; read-only queries, ranking and scoring; formatting, invoice numbers and GST;
notifications, audit logs and sockets, whose failures the code swallows; validation of drafts and
media, of which only "accepted or not" matters here; signature checks; migrations. Within modelled
components: the memory fallback of presence (one process, no sweeps) and what watchers are told;
galleries, profile photos, reposts and fingerprints in content safety; `help_status` NULL,
appreciations and highlights of help requests; the featured flag and reminders of listings; lists,
notes and history of applications; the columns of a user other than the status, hard deletion and
the lifetime of the marks in accounts. Job interests and support tickets are rows created and
updated by id that nothing else relates to. `PROJECT.json` has the list by component.

## 8. Running

```
tlc -workers 2 -config MCAdvertisementPayments.cfg MCAdvertisementPayments
tlc -workers 2 -config MCServices.cfg MCServices
tlc -workers 2 -config MCPlatform.cfg MCPlatform
tlapm MediaJobsProofs.tla
tlapm PlatformProofs.tla
```
