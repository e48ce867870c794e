----------------------------- MODULE MediaJobs -----------------------------
(***************************************************************************)
(* Media processing (MediaJob.service, mediaWorker, MediaProcessing and    *)
(* the deletions of Media.service): uploads are queued in media_jobs, and  *)
(* worker processes claim them, write optimized objects, and publish them. *)
(*                                                                         *)
(* Each transaction locks the media row and then its job; it is one step.  *)
(* A slot of a worker is a process of its own between transactions.  The   *)
(* object store is external: of an upload it holds the staging object and  *)
(* the processed output (variants and posters are one object here).  A job *)
(* is named by its media file, which it is unique for.  Moderation, which  *)
(* follows and may move a completed upload's objects, is left out.         *)
(***************************************************************************)
EXTENDS Naturals, FiniteSets

CONSTANTS
  Media,           \* uploads whose staging object has been put
  Videos,          \* those that are videos
  Workers,         \* ids of worker processes
  Slots,           \* their slots: pairs of a worker and a number
  MaxRetries,      \* MAX_RETRIES
  MaxRecoveries,   \* MAX_STALE_RECOVERIES
  None

ASSUME MediaAssumption ==
  /\ Videos \subseteq Media /\ IsFiniteSet(Media)
  /\ Slots \subseteq Workers \X Nat
  /\ MaxRetries \in Nat /\ MaxRecoveries \in Nat \ {0}
  /\ None \notin Media /\ None \notin Workers

VARIABLES
  media,       \* media_files: processing status and live object
  job,         \* media_jobs
  born,        \* the order of media_jobs.createdAt; 0 before
  store,       \* the objects in R2
  poll,        \* the candidate a worker's poller has read, before it claims it
  run,         \* the slots
  removing     \* deletions under way: checked by the clean-up, or objects gone

tables == <<media, job, born>>
locals == <<poll, run>>
vars == <<tables, locals, store, removing>>

Objects == {"staging", "output"}
Active == {"pending", "processing"}
Statuses == Active \cup {"completed", "failed"}

MediaRows == [status : Statuses \cup {"ABSENT"}, key : Objects]

\* old: longer than 2 s not touched when pending, longer than the stale limit when processing.
JobRows == [status : Statuses \cup {"ABSENT"}, worker : Workers \cup {None},
            retries : 0..MaxRetries, recoveries : 0..MaxRecoveries, old : BOOLEAN]
NoJob == [status |-> "ABSENT", worker |-> None, retries |-> 0, recoveries |-> 0, old |-> FALSE]
NewJob == [NoJob EXCEPT !.status = "pending"]

Pcs == {"idle", "read", "download", "write", "commit", "check", "delete", "fail"}
Runs == [pc : Pcs, media : Media \cup {None}, key : Objects, drop : BOOLEAN]
Idle == [pc |-> "idle", media |-> None, key |-> "staging", drop |-> FALSE]

TypeOK ==
  /\ media \in [Media -> MediaRows]
  /\ job \in [Media -> JobRows]
  /\ born \in [Media -> Nat]
  /\ store \in [Media -> SUBSET Objects]
  /\ poll \in [Workers -> Media \cup {None}]
  /\ run \in [Slots -> Runs]
  /\ \A s \in Slots : run[s].pc = "idle" <=> run[s].media = None
  /\ removing \in [Media -> {"none", "checked", "purged"}]

Init ==
  /\ media = [m \in Media |-> [status |-> "pending", key |-> "staging"]]
  /\ job = [m \in Media |-> NoJob]
  /\ born = [m \in Media |-> 0]
  /\ store = [m \in Media |-> {"staging"}]
  /\ poll = [w \in Workers |-> None]
  /\ run = [s \in Slots |-> Idle]
  /\ removing = [m \in Media |-> "none"]

Exists(m) == media[m].status # "ABSENT"

\* A transaction gives the job and the media row their status together.
Becomes(m, row) ==
  /\ job' = [job EXCEPT ![m] = row]
  /\ media' = [media EXCEPT ![m].status = row.status]

-----------------------------------------------------------------------------
(* enqueueMediaFinalize. *)

\* A request for an upload that is queued or completed changes nothing.
Enqueues(m) ==
  /\ Exists(m)
  /\ \/ job[m].status \in {"ABSENT", "failed"}
     \/ job[m].status = "completed" /\ media[m].status # "completed"

\* The request has seen the object in the store before its transaction; it may be gone by
\* now.  A failed job starts again from its old place in the queue.
Finalize(m) ==
  /\ Enqueues(m)
  /\ Becomes(m, NewJob)
  /\ born' = [born EXCEPT ![m] = IF @ = 0 THEN 1 + Cardinality({n \in Media : born[n] # 0}) ELSE @]
  /\ UNCHANGED <<locals, store, removing>>

\* Time passes for a job that nobody touches.
GrowOld(m) ==
  /\ job[m].status \in Active /\ ~job[m].old
  /\ job' = [job EXCEPT ![m].old = TRUE]
  /\ UNCHANGED <<media, born, locals, store, removing>>

-----------------------------------------------------------------------------
(* claimNextMediaJob, called by the worker's one poller when a slot is free. *)

Claimable(m) == job[m].status = "pending" /\ job[m].old

IsNext(m) == Claimable(m) /\ \A n \in Media : Claimable(n) => born[m] <= born[n]

Look(w, m) ==
  /\ poll[w] = None
  /\ \E s \in Slots : s[1] = w /\ run[s].pc = "idle"
  /\ IsNext(m)
  /\ poll' = [poll EXCEPT ![w] = m]
  /\ UNCHANGED <<tables, run, store, removing>>

\* The transaction checks again; a job touched since the read is young.  (If it has grown
\* old again, the code asks for it once more; the model does not.)
Claim(s, m) ==
  /\ poll[s[1]] = m /\ run[s].pc = "idle"
  /\ Claimable(m)
  /\ Becomes(m, [job[m] EXCEPT !.status = "processing", !.worker = s[1], !.old = FALSE])
  /\ run' = [run EXCEPT ![s] = [Idle EXCEPT !.pc = "read", !.media = m]]
  /\ poll' = [poll EXCEPT ![s[1]] = None]
  /\ UNCHANGED <<born, store, removing>>

ClaimMissed(w) ==
  /\ poll[w] # None
  /\ ~Claimable(poll[w])
  /\ poll' = [poll EXCEPT ![w] = None]
  /\ UNCHANGED <<tables, run, store, removing>>

-----------------------------------------------------------------------------
(* processMediaFile: finalizeImage and finalizeVideo. *)

RunsOn(s, pc) == run[s].pc = pc

\* The slot goes on with these values.
Goes(s, pc, key, drop) ==
  run' = [run EXCEPT ![s].pc = pc, ![s].key = key, ![s].drop = drop]

OnlyRun == UNCHANGED <<tables, poll, store, removing>>

\* A row that is completed by now is not processed again.
Read(s) == LET m == run[s].media IN
  /\ RunsOn(s, "read")
  /\ IF ~Exists(m) THEN Goes(s, "fail", "staging", FALSE)
     ELSE IF media[m].status = "completed" THEN Goes(s, "commit", media[m].key, FALSE)
     ELSE Goes(s, "download", "staging", FALSE)
  /\ OnlyRun

\* Without the staging object, the output of an earlier attempt will do.
Download(s) == LET m == run[s].media IN
  /\ RunsOn(s, "download")
  /\ IF "staging" \in store[m] THEN Goes(s, "write", "staging", FALSE)
     ELSE IF "output" \in store[m] THEN Goes(s, "commit", "output", FALSE)
     ELSE Goes(s, "fail", "staging", FALSE)
  /\ OnlyRun

\* Faulty variant: the staging object is always dropped.
DropsAlways(m, key) == {TRUE}

\* The staging object may go when another object takes its place: for an image always,
\* for a video if the posters were written as well.
Drops(m, key) == IF key = "staging" THEN {FALSE} ELSE IF m \in Videos THEN BOOLEAN ELSE {TRUE}

\* Faulty variant: the staging object is replaced while the output is written.
KeptMoved(m, key) == IF key = "output" THEN {"output"} ELSE store[m] \cup {key}

Kept(m, key) == store[m] \cup {key}

\* A video that is not optimized is put back under the staging key.
Write(s) == LET m == run[s].media IN
  /\ RunsOn(s, "write")
  /\ \E key \in {"output"} \cup (IF m \in Videos THEN {"staging"} ELSE {}) :
       /\ store' = [store EXCEPT ![m] = Kept(m, key)]
       /\ \E drop \in Drops(m, key) : Goes(s, "commit", key, drop)
  /\ UNCHANGED <<tables, poll, removing>>

-----------------------------------------------------------------------------
(* processClaimedMediaJob: the transactions at its end. *)

\* Faulty variant: the status is not compared.
OwnsWhateverStatus(s) == job[run[s].media].worker = s[1]

\* A run recognizes its claim by status and worker id; a run of the same worker that
\* lost the job and another that has claimed it since are not told apart.
Owns(s) == job[run[s].media].status = "processing" /\ job[run[s].media].worker = s[1]

Ends(s) == run' = [run EXCEPT ![s] = Idle]

Commit(s) == LET m == run[s].media IN
  /\ RunsOn(s, "commit")
  /\ Owns(s)
  /\ job' = [job EXCEPT ![m].status = "completed", ![m].old = FALSE]
  /\ media' = [media EXCEPT ![m] = [status |-> "completed", key |-> run[s].key]]
  /\ IF run[s].drop THEN run' = [run EXCEPT ![s].pc = "check"] ELSE Ends(s)
  /\ UNCHANGED <<born, poll, store, removing>>

CommitLost(s) == RunsOn(s, "commit") /\ ~Owns(s) /\ Ends(s) /\ OnlyRun

CheckOwner(s) == LET row == job[run[s].media] IN
  /\ RunsOn(s, "check")
  /\ IF row.status = "completed" /\ row.worker = s[1]
     THEN run' = [run EXCEPT ![s].pc = "delete"]
     ELSE Ends(s)
  /\ OnlyRun

\* A deletion that fails is only logged.
DeleteStaging(s) == LET m == run[s].media IN
  /\ RunsOn(s, "delete")
  /\ store' \in {store, [store EXCEPT ![m] = @ \ {"staging"}]}
  /\ Ends(s)
  /\ UNCHANGED <<tables, poll, removing>>

\* Any call may throw; what was written stays.
Throws(s) ==
  /\ run[s].pc \in {"read", "download", "write", "commit", "check"}
  /\ run' = [run EXCEPT ![s].pc = "fail"]
  /\ OnlyRun

\* Faulty variant: one retry too many.
PastRetries(m) == job[m].retries > MaxRetries

RetriesUsed(m) == job[m].retries >= MaxRetries

AfterFailure(m) ==
  IF RetriesUsed(m)
  THEN [job[m] EXCEPT !.status = "failed", !.old = FALSE]
  ELSE [job[m] EXCEPT !.status = "pending", !.retries = @ + 1, !.worker = None, !.old = FALSE]

Fail(s) ==
  /\ RunsOn(s, "fail")
  /\ Owns(s)
  /\ Becomes(run[s].media, AfterFailure(run[s].media))
  /\ Ends(s)
  /\ UNCHANGED <<born, poll, store, removing>>

\* The claim is lost, or this transaction fails too.
FailIgnored(s) == RunsOn(s, "fail") /\ Ends(s) /\ OnlyRun

Heartbeat(s) ==
  /\ run[s].pc # "idle"
  /\ Owns(s) /\ job[run[s].media].old
  /\ job' = [job EXCEPT ![run[s].media].old = FALSE]
  /\ UNCHANGED <<media, born, locals, store, removing>>

\* A worker that is started again has a new id; no run with the old one is left, so the
\* model gives it the same.
Crash(w) ==
  /\ run' = [s \in Slots |-> IF s[1] = w THEN Idle ELSE run[s]]
  /\ poll' = [poll EXCEPT ![w] = None]
  /\ UNCHANGED <<tables, store, removing>>

-----------------------------------------------------------------------------
(* recoverStaleMediaJobs, by the timers of all workers.  What it reads first only names
   the jobs to look at: the transaction asks again. *)

\* Faulty variant: only jobs that have not been retried are recovered.
StaleFirstTry(m) == job[m].status = "processing" /\ job[m].old /\ job[m].retries = 0

Stale(m) == job[m].status = "processing" /\ job[m].old

Requeued(m) ==
  [job[m] EXCEPT !.status = IF job[m].recoveries + 1 >= MaxRecoveries THEN "failed" ELSE "pending",
                 !.recoveries = @ + 1, !.worker = None, !.old = FALSE]

\* Faulty variant: the media row is forgotten.
RecoverJobOnly(m) ==
  /\ Stale(m)
  /\ job' = [job EXCEPT ![m] = Requeued(m)]
  /\ UNCHANGED <<media, born, locals, store, removing>>

Recover(m) ==
  /\ Stale(m)
  /\ Becomes(m, Requeued(m))
  /\ UNCHANGED <<born, locals, store, removing>>

-----------------------------------------------------------------------------
(* Deletion (Media.service): objects first, then the row, and its job with it.  One that
   fails or dies in between leaves the row without its objects ("purged").  Deletions of
   the same upload follow one another. *)

Deletes(m, from, to) ==
  /\ removing[m] = from
  /\ removing' = [removing EXCEPT ![m] = to]
  /\ UNCHANGED locals

\* cleanupOrphanPendingMedia finds an old upload that is not being processed and, as the
\* search of posts and profiles that is left out here says, not attached to anything.
CleanUpCheck(m) ==
  /\ Exists(m)
  /\ job[m].status \notin Active
  /\ Deletes(m, "none", "checked")
  /\ UNCHANGED <<tables, store>>

CleanUpStops(m) == Deletes(m, "checked", "none") /\ UNCHANGED <<tables, store>>

CleanUpPurge(m) ==
  /\ Deletes(m, "checked", "purged")
  /\ store' = [store EXCEPT ![m] = {}]
  /\ UNCHANGED tables

\* deleteUserMediaUrls: the owner's own request, whatever the job is doing.
OwnerPurge(m) ==
  /\ Exists(m)
  /\ Deletes(m, "none", "purged")
  /\ store' = [store EXCEPT ![m] = {}]
  /\ UNCHANGED tables

DestroyRow(m) ==
  /\ Deletes(m, "purged", "none")
  /\ media' = [media EXCEPT ![m].status = "ABSENT"]
  /\ job' = [job EXCEPT ![m] = NoJob]
  /\ UNCHANGED <<born, store>>

\* The clean-up also drops staging objects that were left behind.
CleanUpStaging(m) ==
  /\ media[m] = [status |-> "completed", key |-> "output"]
  /\ job[m].status \notin Active
  /\ store' = [store EXCEPT ![m] = @ \ {"staging"}]
  /\ UNCHANGED <<tables, locals, removing>>

-----------------------------------------------------------------------------
RunStep(s) == \/ Read(s) \/ Download(s) \/ Write(s)
              \/ Commit(s) \/ CommitLost(s) \/ CheckOwner(s) \/ DeleteStaging(s)
              \/ Throws(s) \/ Fail(s) \/ FailIgnored(s)

DeletionStep(m) == \/ CleanUpCheck(m) \/ CleanUpStops(m) \/ CleanUpPurge(m)
                   \/ OwnerPurge(m) \/ DestroyRow(m) \/ CleanUpStaging(m)

Next ==
  \/ \E m \in Media :
       \/ Finalize(m) \/ GrowOld(m)
       \/ Recover(m)
       \/ DeletionStep(m)
       \/ \E w \in Workers : Look(w, m)
       \/ \E s \in Slots : Claim(s, m)
  \/ \E w \in Workers : ClaimMissed(w) \/ Crash(w)
  \/ \E s \in Slots : RunStep(s) \/ Heartbeat(s)

Spec == Init /\ [][Next]_vars

\* The pollers and the recovery timers run; a worker that dies is started again, and does
\* not die between every read and claim; processing comes to an end, with or without
\* success; users give up on uploads that keep failing (a failed job that is submitted
\* again is ahead of all younger ones, which starve while it comes back).
Fairness ==
  /\ \A m \in Media : /\ WF_vars(GrowOld(m))
                      /\ SF_vars(\E w \in Workers : Look(w, m))
                      /\ SF_vars(\E s \in Slots : Claim(s, m))
                      /\ WF_vars(Recover(m))
  /\ \A w \in Workers : WF_vars(ClaimMissed(w))
  /\ \A s \in Slots : WF_vars(RunStep(s))
  /\ \A m \in Media : <>[][~(job[m].status = "failed" /\ Finalize(m))]_vars

FairSpec == Spec /\ Fairness

-----------------------------------------------------------------------------
(* Properties. *)

\* What the service publishes is there: the live object of a processed upload is in the
\* store, whichever of several runs of the job wrote, committed, lost its claim or deleted
\* the staging object, until the upload is deleted on purpose.
LiveObjectStored == \A m \in Media :
  media[m].status = "completed" /\ removing[m] # "purged" => media[m].key \in store[m]

\* "On processing failure: staging is kept for retry" (MEDIA.md:94): as long as the job may be
\* worked on, its source is there, although earlier runs of it may still be under way.
StagingKept == \A m \in Media :
  job[m].status \in Active /\ removing[m] # "purged" => "staging" \in store[m]

\* The job, which clients poll, and the media row, which campaigns and posts look at, tell
\* the same story through claims, failures, recoveries and resubmissions.
RowsAgree == \A m \in Media : job[m].status # "ABSENT" => job[m].status = media[m].status

\* The queue implements JobQueue: no late run reopens a completed job, and a job is given
\* back to the queue only as often as retries and recoveries allow.
QueueState(m) == LET status == job[m].status IN
  IF status = "pending" THEN "waiting"
  ELSE IF status = "processing" THEN "running"
  ELSE IF status = "completed" THEN "done"
  ELSE IF status = "failed" THEN "failed" ELSE "none"

CreditLeft(m) == IF job[m].status \in Active
                 THEN (MaxRetries - job[m].retries) + (MaxRecoveries - 1 - job[m].recoveries)
                 ELSE 0

Queue == INSTANCE JobQueue WITH
  Jobs <- Media, Credit <- MaxRetries + MaxRecoveries - 1,
  state <- [m \in Media |-> QueueState(m)], credit <- [m \in Media |-> CreditLeft(m)]

QueueSpec == Queue!Spec

\* Nobody polls for ever: a queued job is completed or fails in the end, although workers
\* die, heartbeats stop, and claims are lost (the retry and recovery limits).
EveryJobEnds == \A m \in Media : job[m].status \in Active ~> job[m].status \notin Active

\* Media.service.ts on cleanupOrphanPendingMedia: "Never deletes processing/pending jobs'
\* objects."
CleanUpSparesActive ==
  [][\A m \in Media : removing[m] = "checked" /\ removing'[m] = "purged"
       => job[m].status \notin Active]_vars
=============================================================================
