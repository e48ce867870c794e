-------------------------- MODULE MediaJobsProofs --------------------------
(***************************************************************************)
(* For any uploads, workers and limits: what is published is stored, the   *)
(* source of unfinished work is kept, and the queue implements JobQueue.   *)
(***************************************************************************)
EXTENDS MediaJobs, FiniteSetTheorems, TLAPS

\* An upload that nobody deletes.
Lives(m) == Exists(m) /\ removing[m] # "purged"

\* A job that is to be done can still be recovered; an upload without a job is untouched.
JobsSound == \A m \in Media :
  /\ job[m].status \in Active => job[m].recoveries < MaxRecoveries
  /\ job[m].status = "ABSENT" => media[m].status \in {"ABSENT", "pending"}

\* The source stays until another object takes its place, also while nothing is queued.
SourceStored == \A m \in Media :
  Lives(m) /\ media[m].status # "completed" => "staging" \in store[m]

\* What a run is about to publish, it has seen in the store; a run that may delete the
\* source has published the output.
RunSound(r) ==
  /\ r.pc = "commit" => /\ r.drop => r.key = "output"
                        /\ Lives(r.media) /\ r.key = "output" => "output" \in store[r.media]
  /\ r.pc \in {"check", "delete"} /\ Exists(r.media)
       => media[r.media] = [status |-> "completed", key |-> "output"]

\* What the rows say: the tables, the store and the deletions.
RowsSound == /\ media \in [Media -> MediaRows] /\ job \in [Media -> JobRows]
             /\ store \in [Media -> SUBSET Objects]
             /\ removing \in [Media -> {"none", "checked", "purged"}]
             /\ RowsAgree /\ JobsSound /\ LiveObjectStored /\ SourceStored

\* What the slots say.
RunTyped(r) == r \in Runs /\ (r.pc = "idle" <=> r.media = None)

SlotsTyped == /\ born \in [Media -> Nat]
              /\ poll \in [Workers -> Media \cup {None}]
              /\ run \in [Slots -> Runs]
              /\ \A s \in Slots : RunTyped(run[s])

RunsSound == \A s \in Slots : RunSound(run[s])

Inv == RowsSound /\ SlotsTyped /\ RunsSound

\* The invariant holds at first: every upload is unprocessed and its staging object is there.
LEMMA InitInv == Init => Inv
<1> SUFFICES ASSUME Init PROVE Inv
  OBVIOUS
<1> USE MediaAssumption DEF Init
<1>1. RowsSound
  BY DEF RowsSound, RowsAgree, JobsSound, LiveObjectStored, SourceStored, Lives, Exists,
         MediaRows, JobRows, Statuses, Active, Objects, NoJob
<1>2. SlotsTyped
  BY DEF SlotsTyped, RunTyped, Runs, Pcs, Idle, Objects
<1>3. RunsSound
  BY DEF RunsSound, RunSound, Idle
<1>4. QED
  BY <1>1, <1>2, <1>3 DEF Inv

-----------------------------------------------------------------------------
(* What steps have in common. *)

\* An unfinished upload and its job are given a status together; the new one is not
\* "completed".
LEMMA BecomesSound ==
  ASSUME RowsSound, NEW m \in Media, NEW row \in JobRows,
         row.status \in Active \cup {"failed"},
         row.status \in Active => row.recoveries < MaxRecoveries,
         media[m].status \notin {"completed", "ABSENT"},
         Becomes(m, row), UNCHANGED <<store, removing>>
  PROVE  /\ RowsSound'
         /\ \A n \in Media : /\ Exists(n)' <=> Exists(n)
                             /\ Lives(n)' <=> Lives(n)
                             /\ media[n].status = "completed" => media'[n] = media[n]
<1> USE DEF Becomes, RowsSound
<1>1. media' \in [Media -> MediaRows] /\ job' \in [Media -> JobRows]
  BY DEF MediaRows, JobRows
<1>2. RowsAgree' /\ JobsSound'
  BY DEF RowsAgree, JobsSound, MediaRows, JobRows, Active
<1>3. \A n \in Media : /\ Exists(n)' <=> Exists(n)
                       /\ Lives(n)' <=> Lives(n)
                       /\ media[n].status = "completed" => media'[n] = media[n]
  BY DEF Exists, Lives, MediaRows, Active
<1>4. LiveObjectStored' /\ SourceStored'
  BY <1>3 DEF LiveObjectStored, SourceStored, MediaRows, Active
<1>5. QED
  BY <1>1, <1>2, <1>3, <1>4

\* A step that only changes one slot.
LEMMA OneSlotSound ==
  ASSUME Inv, NEW s \in Slots, NEW r, RunTyped(r), RunSound(r),
         run' = [run EXCEPT ![s] = r], OnlyRun
  PROVE  Inv'
<1> USE DEF OnlyRun, tables, Inv
<1>1. RowsSound'
  BY DEF RowsSound, RowsAgree, JobsSound, LiveObjectStored, SourceStored, Lives, Exists
<1>2. SlotsTyped'
  BY DEF SlotsTyped, RunTyped
<1>3. RunsSound'
  BY DEF RunsSound, RunSound, Lives, Exists, SlotsTyped
<1>4. QED
  BY <1>1, <1>2, <1>3

\* An idle slot says nothing.
LEMMA IdleSound == RunTyped(Idle) /\ RunSound(Idle)
BY MediaAssumption DEF RunTyped, RunSound, Idle, Runs, Pcs, Objects

\* An upload whose job is claimed or waits is there and unprocessed.
LEMMA ActiveRow ==
  ASSUME RowsSound, NEW m \in Media, job[m].status \in Active
  PROVE  media[m].status \notin {"completed", "ABSENT"} /\ job[m].recoveries < MaxRecoveries
BY DEF RowsSound, RowsAgree, JobsSound, Active

-----------------------------------------------------------------------------
(* One lemma per action, or per group of actions that do alike. *)

\* Queueing an upload, for the first time or again.
LEMMA FinalizeInv ==
  ASSUME Inv, NEW m \in Media, Finalize(m)
  PROVE  Inv'
<1> USE DEF Inv
<1>1. NewJob \in JobRows /\ NewJob.status = "pending" /\ NewJob.recoveries < MaxRecoveries
  <2>1. NoJob \in JobRows /\ NoJob.recoveries = 0
    BY MediaAssumption DEF NoJob, JobRows, Statuses, Active
  <2>2. NewJob \in JobRows /\ NewJob.status = "pending" /\ NewJob.recoveries = 0
    BY <2>1 DEF NewJob, JobRows, Statuses, Active
  <2>3. QED
    BY <2>2, MediaAssumption
<1>2. media[m].status \notin {"completed", "ABSENT"}
  BY DEF Finalize, Enqueues, Exists, RowsSound, RowsAgree, JobsSound
<1>3. /\ RowsSound'
      /\ \A n \in Media : /\ Exists(n)' <=> Exists(n)
                          /\ Lives(n)' <=> Lives(n)
                          /\ media[n].status = "completed" => media'[n] = media[n]
  BY <1>1, <1>2, BecomesSound DEF Finalize, Active
<1>4. SlotsTyped'
  <2>1. Cardinality({n \in Media : born[n] # 0}) \in Nat
    BY MediaAssumption, FS_Subset, FS_CardinalityType
  <2>2. QED
    BY <2>1 DEF SlotsTyped, Finalize, locals
<1>5. RunsSound'
  BY <1>3, MediaAssumption DEF Finalize, locals, RunsSound, RunSound, SlotsTyped, RunTyped, Runs
<1>6. QED
  BY <1>3, <1>4, <1>5

\* Time, and the heartbeat.
LEMMA TouchInv ==
  ASSUME Inv, NEW m \in Media, NEW b \in BOOLEAN,
         job' = [job EXCEPT ![m].old = b],
         UNCHANGED <<media, born, locals, store, removing>>
  PROVE  Inv'
<1> USE DEF Inv, locals
<1>1. /\ job' \in [Media -> JobRows]
      /\ \A n \in Media : job'[n].status = job[n].status /\ job'[n].recoveries = job[n].recoveries
  BY DEF RowsSound, JobRows
<1>2. RowsSound'
  BY <1>1 DEF RowsSound, RowsAgree, JobsSound, LiveObjectStored, SourceStored, Lives, Exists
<1>3. SlotsTyped'
  BY DEF SlotsTyped
<1>4. RunsSound'
  BY DEF RunsSound, RunSound, Lives, Exists
<1>5. QED
  BY <1>2, <1>3, <1>4

\* The poller reads a candidate, or gives one up.
LEMMA PollInv ==
  ASSUME Inv, NEW w \in Workers, NEW c \in Media \cup {None},
         poll' = [poll EXCEPT ![w] = c], UNCHANGED <<tables, run, store, removing>>
  PROVE  Inv'
<1> USE DEF Inv, tables
<1>1. RowsSound'
  BY DEF RowsSound, RowsAgree, JobsSound, LiveObjectStored, SourceStored, Lives, Exists
<1>2. SlotsTyped' /\ RunsSound'
  BY DEF SlotsTyped, RunsSound, RunSound, Lives, Exists
<1>3. QED
  BY <1>1, <1>2

\* A transaction gives an active job another status, and a slot begins or ends.
LEMMA JobInv ==
  ASSUME Inv, NEW m \in Media, job[m].status \in Active, NEW row \in JobRows,
         row.status \in Active \cup {"failed"}, row.recoveries < MaxRecoveries \/ row.status = "failed",
         Becomes(m, row), UNCHANGED <<born, store, removing>>, SlotsTyped',
         NEW r, RunSound(r)', \A s \in Slots : run'[s] = r \/ run'[s] = run[s]
  PROVE  Inv'
<1> USE DEF Inv
<1>1. /\ RowsSound'
      /\ \A n \in Media : /\ Exists(n)' <=> Exists(n)
                          /\ Lives(n)' <=> Lives(n)
                          /\ media[n].status = "completed" => media'[n] = media[n]
  BY ActiveRow, BecomesSound DEF Active
<1>2. RunsSound'
  BY <1>1, MediaAssumption DEF RunsSound, RunSound, SlotsTyped, RunTyped, Runs
<1>3. QED
  BY <1>1, <1>2

\* A claim.
LEMMA ClaimInv ==
  ASSUME Inv, NEW s \in Slots, NEW m \in Media, Claim(s, m)
  PROVE  Inv'
<1> DEFINE row == [job[m] EXCEPT !.status = "processing", !.worker = s[1], !.old = FALSE]
           r == [Idle EXCEPT !.pc = "read", !.media = m]
<1> USE DEF Inv
<1>1. job[m].status \in Active /\ job[m].recoveries < MaxRecoveries
  BY ActiveRow DEF Claim, Claimable, Active
<1>2. row \in JobRows /\ row.status = "processing" /\ row.recoveries < MaxRecoveries
  BY <1>1, MediaAssumption DEF RowsSound, JobRows, Statuses, Active
<1>3. RunTyped(r) /\ r.pc = "read"
  BY MediaAssumption DEF RunTyped, Runs, Idle, Pcs, Objects
<1>4. SlotsTyped'
  BY <1>3, MediaAssumption DEF SlotsTyped, RunTyped, Claim
<1>5. \A t \in Slots : run'[t] = r \/ run'[t] = run[t]
  BY DEF SlotsTyped, Claim
<1>6. RunSound(r)'
  BY <1>3 DEF RunSound
<1> HIDE DEF row, r
<1>7. QED
  BY <1>1, <1>2, <1>4, <1>5, <1>6, JobInv DEF Claim, Active, row

\* A failure that the run reports.
LEMMA FailInv ==
  ASSUME Inv, NEW s \in Slots, Fail(s)
  PROVE  Inv'
<1> DEFINE m == run[s].media
<1> USE DEF Inv
<1>1. m \in Media
  BY MediaAssumption DEF Fail, RunsOn, SlotsTyped, RunTyped, Runs
<1>2. job[m].status \in Active /\ job[m].recoveries < MaxRecoveries
  BY <1>1, ActiveRow DEF Fail, Owns, Active
<1>3. /\ AfterFailure(m) \in JobRows /\ AfterFailure(m).status \in Active \cup {"failed"}
      /\ AfterFailure(m).recoveries < MaxRecoveries
  <2>1. job[m] \in JobRows
    BY <1>1 DEF RowsSound
  <2>2. CASE RetriesUsed(m)
    BY <1>2, <2>1, <2>2 DEF AfterFailure, JobRows, Statuses, Active
  <2>3. CASE ~RetriesUsed(m)
    <3>1. job[m].retries \in 0..MaxRetries /\ job[m].retries + 1 \in 0..MaxRetries
      BY <2>1, <2>3, MediaAssumption DEF RetriesUsed, JobRows
    <3>2. QED
      BY <1>2, <2>1, <2>3, <3>1 DEF AfterFailure, JobRows, Statuses, Active
  <2>4. QED
    BY <2>2, <2>3
<1>4. SlotsTyped' /\ \A t \in Slots : run'[t] = Idle \/ run'[t] = run[t]
  BY IdleSound DEF SlotsTyped, RunTyped, Fail, Ends
<1>5. RunSound(Idle)'
  BY DEF RunSound, Idle
<1>6. QED
  BY <1>1, <1>2, <1>3, <1>4, <1>5, JobInv DEF Fail

\* A stale job is requeued or given up.
LEMMA RecoverInv ==
  ASSUME Inv, NEW m \in Media, Recover(m)
  PROVE  Inv'
<1> USE DEF Inv
<1>1. job[m].status \in Active /\ job[m].recoveries < MaxRecoveries
  BY ActiveRow DEF Recover, Stale, Active
<1>2. /\ Requeued(m) \in JobRows /\ Requeued(m).status \in Active \cup {"failed"}
      /\ Requeued(m).recoveries < MaxRecoveries \/ Requeued(m).status = "failed"
  <2>1. job[m] \in JobRows
    BY DEF RowsSound
  <2>2. job[m].recoveries + 1 \in 0..MaxRecoveries
    BY <1>1, <2>1, MediaAssumption DEF JobRows
  <2>3. /\ Requeued(m) \in JobRows
        /\ Requeued(m).status = IF job[m].recoveries + 1 >= MaxRecoveries THEN "failed" ELSE "pending"
        /\ Requeued(m).recoveries = job[m].recoveries + 1
    BY <2>1, <2>2 DEF Requeued, JobRows, Statuses, Active
  <2>4. QED
    BY <2>2, <2>3, MediaAssumption DEF Active
<1>3. SlotsTyped'
  BY DEF Recover, SlotsTyped, locals
<1>4. RunSound(Idle)'
  BY DEF RunSound, Idle
<1>5. \A s \in Slots : run'[s] = run[s]
  BY DEF Recover, locals
<1>6. QED
  BY <1>1, <1>2, <1>3, <1>4, <1>5, JobInv DEF Recover

\* Reading the row and looking for the objects: a run goes on to publish what it has seen.
LEMMA ReadInv ==
  ASSUME Inv, NEW s \in Slots, Read(s) \/ Download(s)
  PROVE  Inv'
<1> DEFINE m == run[s].media
<1> USE DEF Inv
<1>1. m \in Media /\ run[s].pc # "idle"
  BY MediaAssumption DEF Read, Download, RunsOn, SlotsTyped, RunTyped, Runs
<1>2. PICK pc \in {"fail", "commit", "download", "write"}, key \in Objects :
        /\ Goes(s, pc, key, FALSE) /\ OnlyRun
        /\ pc = "commit" /\ Lives(m) /\ key = "output" => "output" \in store[m]
  <2>1. CASE Read(s)
    <3>1. media[m].key \in Objects
      BY <1>1 DEF RowsSound, MediaRows
    <3>2. CASE media[m].status = "completed"
      BY <1>1, <2>1, <3>1, <3>2 DEF Read, Exists, Lives, RowsSound, LiveObjectStored
    <3>3. CASE media[m].status # "completed"
      BY <2>1, <3>3 DEF Read, Objects
    <3>4. QED
      BY <3>2, <3>3
  <2>2. CASE Download(s)
    BY <2>2 DEF Download, Objects
  <2>3. QED
    BY <2>1, <2>2
<1> DEFINE r == [run[s] EXCEPT !.pc = pc, !.key = key, !.drop = FALSE]
<1>3. run' = [run EXCEPT ![s] = r]
  BY <1>2 DEF Goes, SlotsTyped
<1>4. RunTyped(r) /\ r.pc = pc /\ r.media = m /\ r.key = key /\ r.drop = FALSE
  BY <1>1 DEF SlotsTyped, RunTyped, Runs, Pcs
<1>5. RunSound(r)
  BY <1>2, <1>4 DEF RunSound
<1> HIDE DEF r
<1>6. QED
  BY <1>2, <1>3, <1>4, <1>5, OneSlotSound

\* The output, or the source once more, is written; only the output lets the source go.
LEMMA WriteInv ==
  ASSUME Inv, NEW s \in Slots, Write(s)
  PROVE  Inv'
<1> DEFINE m == run[s].media
<1> USE DEF Inv
<1>1. m \in Media /\ run[s].pc # "idle" /\ s \in Slots
  BY MediaAssumption DEF Write, RunsOn, SlotsTyped, RunTyped, Runs
<1>2. PICK key \in Objects, drop \in BOOLEAN :
        /\ store' = [store EXCEPT ![m] = @ \cup {key}]
        /\ Goes(s, "commit", key, drop)
        /\ drop => key = "output"
        /\ UNCHANGED <<tables, poll, removing>>
  BY DEF Write, Kept, Drops, Objects
<1> DEFINE r == [run[s] EXCEPT !.pc = "commit", !.key = key, !.drop = drop]
<1>3. run' = [run EXCEPT ![s] = r]
  BY <1>2 DEF Goes, SlotsTyped
<1>4. RunTyped(r) /\ r.pc = "commit" /\ r.media = m /\ r.key = key /\ r.drop = drop
  BY <1>1 DEF SlotsTyped, RunTyped, Runs, Pcs
<1> HIDE DEF r
<1>5. /\ store' \in [Media -> SUBSET Objects]
      /\ \A n \in Media : store[n] \subseteq store'[n]
      /\ key \in store'[m]
  BY <1>1, <1>2 DEF RowsSound
<1>6. RowsSound'
  BY <1>2, <1>5 DEF tables, RowsSound, RowsAgree, JobsSound, LiveObjectStored, SourceStored,
                    Lives, Exists
<1>7. SlotsTyped'
  BY <1>2, <1>3, <1>4 DEF tables, SlotsTyped, RunTyped
<1>8. RunsSound'
  <2> SUFFICES ASSUME NEW t \in Slots PROVE RunSound(run[t])'
    BY DEF RunsSound
  <2>1. CASE t = s
    BY <1>2, <1>3, <1>4, <1>5, <2>1 DEF SlotsTyped, RunSound
  <2>2. CASE t # s
    <3>1. run'[t] = run[t] /\ RunSound(run[t])
      BY <1>3, <2>2 DEF RunsSound, SlotsTyped
    <3>2. run[t].pc = "commit" => run[t].media \in Media
      BY MediaAssumption DEF SlotsTyped, RunTyped, Runs
    <3>3. QED
      BY <1>2, <1>5, <3>1, <3>2 DEF RunSound, Lives, Exists, tables
  <2>3. QED
    BY <2>1, <2>2
<1>9. QED
  BY <1>6, <1>7, <1>8

\* The output is published: by a run that owns the job, or by a late one of its worker.
LEMMA CommitInv ==
  ASSUME Inv, NEW s \in Slots, Commit(s)
  PROVE  Inv'
<1> DEFINE m == run[s].media
           r == IF run[s].drop THEN [run[s] EXCEPT !.pc = "check"] ELSE Idle
<1> USE DEF Inv
<1>1. m \in Media /\ run[s].pc = "commit" /\ run[s] \in Runs
  BY MediaAssumption DEF Commit, RunsOn, SlotsTyped, RunTyped, Runs
<1>2. media[m].status \notin {"completed", "ABSENT"}
  BY <1>1, ActiveRow DEF Commit, Owns, Active
<1>3. run' = [run EXCEPT ![s] = r]
  BY DEF Commit, Ends, SlotsTyped
<1>4. /\ RunTyped(r)
      /\ r = Idle \/ (r.pc = "check" /\ r.media = m /\ r.key = run[s].key /\ run[s].drop)
  <2>1. CASE run[s].drop
    BY <1>1, <2>1 DEF SlotsTyped, RunTyped, Runs, Pcs
  <2>2. CASE ~run[s].drop
    BY <2>2, IdleSound
  <2>3. QED
    BY <2>1, <2>2
<1> HIDE DEF r
<1>5. /\ media' = [media EXCEPT ![m] = [status |-> "completed", key |-> run[s].key]]
      /\ job' = [job EXCEPT ![m].status = "completed", ![m].old = FALSE]
      /\ UNCHANGED <<born, poll, store, removing>>
  BY DEF Commit
<1>6. media' \in [Media -> MediaRows] /\ job' \in [Media -> JobRows]
  <2>1. [status |-> "completed", key |-> run[s].key] \in MediaRows
    BY <1>1 DEF MediaRows, Statuses, Runs
  <2>2. [job[m] EXCEPT !.status = "completed", !.old = FALSE] \in JobRows
    <3>1. job[m] \in JobRows
      BY <1>1 DEF RowsSound
    <3>2. QED
      BY <3>1 DEF JobRows, Statuses, Active
  <2>3. QED
    BY <1>1, <1>5, <2>1, <2>2 DEF RowsSound
<1>7. RowsAgree' /\ JobsSound' /\ SourceStored'
  BY <1>1, <1>5, <1>6 DEF RowsSound, RowsAgree, JobsSound, SourceStored, Lives, Exists, JobRows, Active
<1>8. LiveObjectStored'
  <2>1. removing[m] # "purged" => run[s].key \in store[m]
    BY <1>1, <1>2 DEF RowsSound, SourceStored, Lives, Exists, RunsSound, RunSound, Runs, Objects
  <2>2. QED
    BY <1>1, <1>5, <2>1 DEF RowsSound, LiveObjectStored
<1>9. RowsSound'
  BY <1>5, <1>6, <1>7, <1>8 DEF RowsSound
<1>10. SlotsTyped'
  BY <1>3, <1>4, <1>5 DEF SlotsTyped, RunTyped
<1>11. RunsSound'
  <2> SUFFICES ASSUME NEW t \in Slots PROVE RunSound(run[t])'
    BY DEF RunsSound
  <2>1. CASE t = s
    <3>1. run'[t] = r
      BY <1>3, <2>1 DEF SlotsTyped
    <3>2. run[s].drop => run[s].key = "output"
      BY <1>1 DEF RunsSound, RunSound
    <3>3. QED
      BY <1>1, <1>4, <1>5, <3>1, <3>2 DEF RowsSound, RunSound, Idle
  <2>2. CASE t # s
    <3>1. run'[t] = run[t] /\ RunSound(run[t])
      BY <1>3, <2>2 DEF RunsSound, SlotsTyped
    <3>2. run[t].pc \in {"check", "delete"} => run[t].media # m
      BY <1>2, <3>1 DEF RunSound, Exists
    <3>3. run[t].pc # "idle" => run[t].media \in Media
      BY MediaAssumption DEF SlotsTyped, RunTyped, Runs
    <3>4. QED
      BY <1>1, <1>2, <1>5, <3>1, <3>2, <3>3 DEF RowsSound, RunSound, Lives, Exists
  <2>3. QED
    BY <2>1, <2>2
<1>12. QED
  BY <1>9, <1>10, <1>11

\* Steps that only move a run on, or end it.
LEMMA MoveInv ==
  ASSUME Inv, NEW s \in Slots, CommitLost(s) \/ CheckOwner(s) \/ Throws(s) \/ FailIgnored(s)
  PROVE  Inv'
<1> USE DEF Inv
<1>1. CASE CommitLost(s) \/ FailIgnored(s)
  BY <1>1, IdleSound, OneSlotSound DEF CommitLost, FailIgnored, Ends
<1>2. CASE CheckOwner(s)
  <2> DEFINE r == [run[s] EXCEPT !.pc = "delete"]
  <2>1. RunTyped(r) /\ RunSound(r)
    BY <1>2, MediaAssumption
    DEF CheckOwner, RunsOn, SlotsTyped, RunTyped, Runs, Pcs, RunsSound, RunSound
  <2>2. CASE run' = [run EXCEPT ![s].pc = "delete"]
    <3>1. run' = [run EXCEPT ![s] = r]
      BY <2>2 DEF SlotsTyped
    <3>2. QED
      BY <1>2, <2>1, <3>1, OneSlotSound DEF CheckOwner
  <2>3. CASE Ends(s)
    BY <1>2, <2>3, IdleSound, OneSlotSound DEF CheckOwner, Ends
  <2>4. QED
    BY <1>2, <2>2, <2>3 DEF CheckOwner
<1>3. CASE Throws(s)
  <2> DEFINE r == [run[s] EXCEPT !.pc = "fail"]
  <2>1. RunTyped(r) /\ RunSound(r)
    BY <1>3, MediaAssumption DEF Throws, SlotsTyped, RunTyped, Runs, Pcs, RunSound
  <2>2. run' = [run EXCEPT ![s] = r]
    BY <1>3 DEF Throws, SlotsTyped
  <2>3. QED
    BY <1>3, <2>1, <2>2, OneSlotSound DEF Throws
<1>4. QED
  BY <1>1, <1>2, <1>3

\* A worker dies, and all its runs with it.
LEMMA CrashInv ==
  ASSUME Inv, NEW w \in Workers, Crash(w)
  PROVE  Inv'
<1> USE DEF Inv, Crash, tables
<1>1. RowsSound'
  BY DEF RowsSound, RowsAgree, JobsSound, LiveObjectStored, SourceStored, Lives, Exists
<1>2. SlotsTyped'
  BY IdleSound DEF SlotsTyped, RunTyped
<1>3. RunsSound'
  BY DEF RunsSound, RunSound, Idle, Lives, Exists
<1>4. QED
  BY <1>1, <1>2, <1>3

\* The source of a published output is dropped: by its run, or by the clean-up.
LEMMA DropInv ==
  ASSUME Inv, NEW m \in Media,
         Exists(m) => media[m] = [status |-> "completed", key |-> "output"],
         store' = [store EXCEPT ![m] = @ \ {"staging"}],
         UNCHANGED <<tables, poll, removing>>, SlotsTyped',
         \A s \in Slots : run'[s] \in {Idle, run[s]}
  PROVE  Inv'
<1> USE DEF Inv, tables
<1>1. /\ store' \in [Media -> SUBSET Objects]
      /\ \A n \in Media : "output" \in store[n] => "output" \in store'[n]
      /\ \A n \in Media : n # m => store'[n] = store[n]
  BY DEF RowsSound
<1>2. LiveObjectStored' /\ SourceStored'
  BY <1>1 DEF RowsSound, LiveObjectStored, SourceStored, Lives, Exists, MediaRows
<1>3. RowsSound'
  BY <1>1, <1>2 DEF RowsSound, RowsAgree, JobsSound
<1>4. RunsSound'
  BY <1>1, MediaAssumption
  DEF RunsSound, RunSound, Idle, SlotsTyped, RunTyped, Runs, Lives, Exists
<1>5. QED
  BY <1>3, <1>4

\* Those two steps are such.
LEMMA DropsInv ==
  ASSUME Inv, (\E s \in Slots : DeleteStaging(s)) \/ (\E m \in Media : CleanUpStaging(m))
  PROVE  Inv'
<1> USE DEF Inv
<1>1. ASSUME NEW s \in Slots, DeleteStaging(s) PROVE Inv'
  <2>1. run[s].media \in Media /\ run[s].pc = "delete" /\ RunSound(run[s])
    BY <1>1, MediaAssumption DEF DeleteStaging, RunsOn, SlotsTyped, RunTyped, Runs, RunsSound
  <2>2. SlotsTyped' /\ \A t \in Slots : run'[t] \in {Idle, run[t]}
    BY <1>1, IdleSound DEF DeleteStaging, Ends, SlotsTyped, RunTyped, tables
  <2>3. CASE store' = store
    BY <1>1, <2>3, IdleSound, OneSlotSound DEF DeleteStaging, Ends, OnlyRun
  <2>4. CASE store' = [store EXCEPT ![run[s].media] = @ \ {"staging"}]
    BY <1>1, <2>1, <2>2, <2>4, DropInv DEF DeleteStaging, RunSound
  <2>5. QED
    BY <1>1, <2>3, <2>4 DEF DeleteStaging
<1>2. ASSUME NEW m \in Media, CleanUpStaging(m) PROVE Inv'
  <2>1. SlotsTyped' /\ \A t \in Slots : run'[t] \in {Idle, run[t]}
    BY <1>2 DEF CleanUpStaging, SlotsTyped, tables, locals
  <2>2. QED
    BY <1>2, <2>1, DropInv DEF CleanUpStaging, locals
<1>3. QED
  BY <1>1, <1>2

\* The steps of a deletion.
LEMMA DeletionInv ==
  ASSUME Inv, NEW m \in Media,
         CleanUpCheck(m) \/ CleanUpStops(m) \/ CleanUpPurge(m) \/ OwnerPurge(m) \/ DestroyRow(m)
  PROVE  Inv'
<1> USE DEF Inv
<1>1. SlotsTyped'
  BY DEF CleanUpCheck, CleanUpStops, CleanUpPurge, OwnerPurge, DestroyRow, Deletes, locals,
         tables, SlotsTyped
<1>2. CASE CleanUpCheck(m) \/ CleanUpStops(m)
  <2>1. /\ removing' \in [Media -> {"none", "checked", "purged"}]
        /\ \A n \in Media : removing'[n] = "purged" <=> removing[n] = "purged"
        /\ UNCHANGED <<tables, run, store>>
    BY <1>2 DEF CleanUpCheck, CleanUpStops, Deletes, RowsSound, locals
  <2>2. RowsSound'
    BY <2>1 DEF tables, RowsSound, RowsAgree, JobsSound, LiveObjectStored, SourceStored, Lives, Exists
  <2>3. RunsSound'
    BY <2>1, MediaAssumption
    DEF tables, RunsSound, RunSound, SlotsTyped, RunTyped, Runs, Lives, Exists
  <2>4. QED
    BY <1>1, <2>2, <2>3
<1>3. CASE CleanUpPurge(m) \/ OwnerPurge(m)
  <2>1. /\ removing' = [removing EXCEPT ![m] = "purged"]
        /\ store' = [store EXCEPT ![m] = {}]
        /\ UNCHANGED <<tables, run>>
    BY <1>3 DEF CleanUpPurge, OwnerPurge, Deletes, locals
  <2>2. RowsSound'
    BY <2>1 DEF tables, RowsSound, RowsAgree, JobsSound, LiveObjectStored, SourceStored, Lives, Exists
  <2>3. RunsSound'
    BY <2>1, MediaAssumption
    DEF tables, RowsSound, RunsSound, RunSound, SlotsTyped, RunTyped, Runs, Lives, Exists
  <2>4. QED
    BY <1>1, <2>2, <2>3
<1>4. CASE DestroyRow(m)
  <2>1. /\ removing' = [removing EXCEPT ![m] = "none"]
        /\ media' = [media EXCEPT ![m].status = "ABSENT"]
        /\ job' = [job EXCEPT ![m] = NoJob]
        /\ UNCHANGED <<born, run, store>>
    BY <1>4 DEF DestroyRow, Deletes, locals
  <2>2. NoJob \in JobRows /\ NoJob.status = "ABSENT"
    BY MediaAssumption DEF NoJob, JobRows, Statuses, Active
  <2>3. media' \in [Media -> MediaRows] /\ job' \in [Media -> JobRows]
    BY <2>1, <2>2 DEF RowsSound, MediaRows
  <2>4. RowsSound'
    BY <2>1, <2>2, <2>3 DEF RowsSound, RowsAgree, JobsSound, LiveObjectStored, SourceStored, Lives,
                            Exists, Active, MediaRows
  <2>5. RunsSound'
    BY <2>1, MediaAssumption
    DEF RowsSound, RunsSound, RunSound, SlotsTyped, RunTyped, Runs, Lives, Exists, MediaRows
  <2>6. QED
    BY <1>1, <2>4, <2>5
<1>5. QED
  BY <1>2, <1>3, <1>4

-----------------------------------------------------------------------------
LEMMA NextInv == Inv /\ [Next]_vars => Inv'
<1> SUFFICES ASSUME Inv, [Next]_vars PROVE Inv'
  OBVIOUS
<1>1. CASE UNCHANGED vars
  BY <1>1 DEF vars, tables, locals, Inv, RowsSound, SlotsTyped, RunsSound, RunSound, RunTyped,
              RowsAgree, JobsSound, LiveObjectStored, SourceStored, Lives, Exists
<1>2. ASSUME NEW m \in Media, Finalize(m) PROVE Inv'
  BY <1>2, FinalizeInv
<1>3. ASSUME NEW m \in Media, GrowOld(m) PROVE Inv'
  BY <1>3, TouchInv DEF GrowOld
<1>4. ASSUME NEW m \in Media, Recover(m) PROVE Inv'
  BY <1>4, RecoverInv
<1>5. ASSUME NEW m \in Media, DeletionStep(m) PROVE Inv'
  BY <1>5, DeletionInv, DropsInv DEF DeletionStep
<1>6. ASSUME NEW m \in Media, NEW w \in Workers, Look(w, m) PROVE Inv'
  BY <1>6, PollInv DEF Look
<1>7. ASSUME NEW s \in Slots, NEW m \in Media, Claim(s, m) PROVE Inv'
  BY <1>7, ClaimInv
<1>8. ASSUME NEW w \in Workers, ClaimMissed(w) \/ Crash(w) PROVE Inv'
  BY <1>8, PollInv, CrashInv DEF ClaimMissed
<1>9. ASSUME NEW s \in Slots, RunStep(s) PROVE Inv'
  BY <1>9, ReadInv, WriteInv, CommitInv, MoveInv, FailInv, DropsInv DEF RunStep
<1>10. ASSUME NEW s \in Slots, Heartbeat(s) PROVE Inv'
  <2>1. run[s].media \in Media
    BY <1>10, MediaAssumption DEF Heartbeat, Inv, SlotsTyped, RunTyped, Runs
  <2>2. QED
    BY <1>10, <2>1, TouchInv DEF Heartbeat
<1>11. QED
  BY <1>1, <1>2, <1>3, <1>4, <1>5, <1>6, <1>7, <1>8, <1>9, <1>10 DEF Next

\* Inv holds in every reachable state.
THEOREM Invariance == Spec => []Inv
<1>1. QED
  BY InitInv, NextInv, PTL DEF Spec

\* Every variable has its type, and a slot is idle exactly when it has no upload.
THEOREM TypeCorrect == Spec => []TypeOK
<1>1. Inv => TypeOK
  BY DEF Inv, RowsSound, SlotsTyped, RunTyped, TypeOK
<1>2. QED
  BY <1>1, Invariance, PTL

\* Whatever the runs of a job do, late or not: what is published is in the store.
THEOREM Published == Spec => []LiveObjectStored
<1>1. Inv => LiveObjectStored
  BY DEF Inv, RowsSound
<1>2. QED
  BY <1>1, Invariance, PTL

\* A job that can still be worked on finds its source.
THEOREM SourceKept == Spec => []StagingKept
<1>1. Inv => StagingKept
  BY DEF Inv, RowsSound, StagingKept, SourceStored, RowsAgree, Lives, Exists, Active
<1>2. QED
  BY <1>1, Invariance, PTL

\* The job and the media row always have the same status.
THEOREM SameStory == Spec => []RowsAgree
<1>1. Inv => RowsAgree
  BY DEF Inv, RowsSound
<1>2. QED
  BY <1>1, Invariance, PTL

-----------------------------------------------------------------------------
(* The queue implements JobQueue. *)

\* A step that changes one job is a move of that job.
LEMMA QueueMove ==
  ASSUME job \in [Media -> JobRows], NEW m \in Media, NEW row,
         job' = [job EXCEPT ![m] = row]
  PROVE  /\ [n \in Media |-> QueueState(n)]'
              = [[n \in Media |-> QueueState(n)] EXCEPT ![m] = QueueState(m)']
         /\ [n \in Media |-> CreditLeft(n)]'
              = [[n \in Media |-> CreditLeft(n)] EXCEPT ![m] = CreditLeft(m)']
<1>1. \A n \in Media : n # m => QueueState(n)' = QueueState(n) /\ CreditLeft(n)' = CreditLeft(n)
  BY DEF QueueState, CreditLeft
<1>2. QED
  BY <1>1

\* A step that changes no job's status or counters is none of the queue.
LEMMA QueueStutters ==
  ASSUME \A m \in Media : /\ job'[m].status = job[m].status
                          /\ job'[m].retries = job[m].retries
                          /\ job'[m].recoveries = job[m].recoveries
  PROVE  UNCHANGED Queue!vars
BY DEF Queue!vars, QueueState, CreditLeft

\* At first nothing is queued.
LEMMA QueueInit == Init => Queue!Init
BY DEF Init, Queue!Init, QueueState, CreditLeft, NoJob, Active

\* Each step of the system is one of the queue, or none.
LEMMA QueueNext == Inv /\ [Next]_vars => [Queue!Next]_(Queue!vars)
<1> SUFFICES ASSUME Inv, [Next]_vars PROVE [Queue!Next]_(Queue!vars)
  OBVIOUS
<1> USE MediaAssumption DEF Inv
<1>1. job \in [Media -> JobRows]
  BY DEF RowsSound
<1>2. CASE UNCHANGED job
  BY <1>2, QueueStutters
<1>3. ASSUME NEW m \in Media, NEW b \in BOOLEAN, job' = [job EXCEPT ![m].old = b]
      PROVE  UNCHANGED Queue!vars
  BY <1>1, <1>3, QueueStutters DEF JobRows
<1>4. ASSUME NEW m \in Media, Finalize(m) PROVE Queue!Next
  <2>1. QueueState(m) \in {"none", "failed"}
    BY <1>4 DEF Finalize, Enqueues, Exists, RowsSound, RowsAgree, QueueState
  <2>2. job'[m] = NewJob /\ job' = [job EXCEPT ![m] = NewJob]
    BY <1>1, <1>4 DEF Finalize, Becomes
  <2>3. QueueState(m)' = "waiting" /\ CreditLeft(m)' = MaxRetries + MaxRecoveries - 1
    BY <2>2 DEF QueueState, CreditLeft, NewJob, NoJob, Active
  <2>4. Queue!Submit(m)
    BY <1>1, <2>1, <2>2, <2>3, QueueMove DEF Queue!Submit, Queue!Move
  <2>5. QED
    BY <2>4 DEF Queue!Next
<1>5. ASSUME NEW s \in Slots, NEW m \in Media, Claim(s, m) PROVE Queue!Next
  <2> DEFINE row == [job[m] EXCEPT !.status = "processing", !.worker = s[1], !.old = FALSE]
  <2>1. job' = [job EXCEPT ![m] = row] /\ job[m].status = "pending"
    BY <1>5 DEF Claim, Claimable, Becomes
  <2>2. /\ job'[m].status = "processing" /\ job'[m].retries = job[m].retries
        /\ job'[m].recoveries = job[m].recoveries
    BY <1>1, <2>1 DEF JobRows
  <2> HIDE DEF row
  <2>3. QueueState(m) = "waiting" /\ QueueState(m)' = "running" /\ CreditLeft(m)' = CreditLeft(m)
    BY <2>1, <2>2 DEF QueueState, CreditLeft, Active
  <2>4. Queue!Take(m)
    BY <1>1, <2>1, <2>3, QueueMove DEF Queue!Take, Queue!Move
  <2>5. QED
    BY <2>4 DEF Queue!Next
<1>6. ASSUME NEW s \in Slots, Commit(s) PROVE Queue!Next
  <2>1. PICK m \in Media : m = run[s].media
    BY <1>6 DEF Commit, RunsOn, SlotsTyped, RunTyped, Runs
  <2> DEFINE row == [job[m] EXCEPT !.status = "completed", !.old = FALSE]
  <2>2. job' = [job EXCEPT ![m] = row] /\ job[m].status = "processing"
    BY <1>1, <1>6, <2>1 DEF Commit, Owns
  <2>3. job'[m].status = "completed"
    BY <1>1, <2>1, <2>2 DEF JobRows
  <2> HIDE DEF row
  <2>4. QueueState(m) = "running" /\ QueueState(m)' = "done" /\ CreditLeft(m)' = 0
    BY <2>2, <2>3 DEF QueueState, CreditLeft, Active
  <2>5. Queue!Finish(m)
    BY <1>1, <2>1, <2>2, <2>4, QueueMove DEF Queue!Finish, Queue!Move
  <2>6. QED
    BY <2>1, <2>5 DEF Queue!Next
<1>7. ASSUME NEW m \in Media, job[m].status = "processing", NEW row \in JobRows,
             job' = [job EXCEPT ![m] = row],
             \/ row.status = "failed"
             \/ /\ row.status = "pending"
                /\ \/ row.retries = job[m].retries + 1 /\ row.recoveries = job[m].recoveries
                   \/ row.retries = job[m].retries /\ row.recoveries = job[m].recoveries + 1
                /\ row.recoveries < MaxRecoveries
      PROVE  Queue!Next
  <2>1. QueueState(m) = "running" /\ job'[m] = row /\ job[m].recoveries < MaxRecoveries
    BY <1>1, <1>7 DEF QueueState, RowsSound, JobsSound, Active
  <2>2. CASE row.status = "failed"
    <3>1. QueueState(m)' = "failed" /\ CreditLeft(m)' = 0
      BY <2>1, <2>2 DEF QueueState, CreditLeft, Active
    <3>2. Queue!Fail(m)
      BY <1>1, <1>7, <2>1, <3>1, QueueMove DEF Queue!Fail, Queue!Move
    <3>3. QED
      BY <3>2 DEF Queue!Next
  <2>3. CASE row.status = "pending"
    <3>1. /\ row.retries \in 0..MaxRetries /\ row.recoveries \in 0..MaxRecoveries
          /\ job[m].retries \in 0..MaxRetries /\ job[m].recoveries \in 0..MaxRecoveries
      BY <1>1, <1>7 DEF JobRows
    <3>2. /\ QueueState(m)' = "waiting"
          /\ CreditLeft(m) = MaxRetries - job[m].retries + (MaxRecoveries - 1 - job[m].recoveries)
          /\ CreditLeft(m)' = MaxRetries - row.retries + (MaxRecoveries - 1 - row.recoveries)
      BY <1>7, <2>1, <2>3 DEF QueueState, CreditLeft, Active
    <3>3. CreditLeft(m) > 0 /\ CreditLeft(m)' = CreditLeft(m) - 1
      BY <1>7, <2>3, <3>1, <3>2
    <3>4. Queue!GiveBack(m)
      BY <1>1, <1>7, <2>1, <3>2, <3>3, QueueMove DEF Queue!GiveBack, Queue!Move
    <3>5. QED
      BY <3>4 DEF Queue!Next
  <2>4. QED
    BY <1>7, <2>2, <2>3
<1>8. ASSUME NEW s \in Slots, Fail(s) PROVE Queue!Next
  <2> DEFINE m == run[s].media
             row == AfterFailure(m)
  <2>1. m \in Media
    BY <1>8 DEF Fail, RunsOn, SlotsTyped, RunTyped, Runs
  <2>2. job' = [job EXCEPT ![m] = row] /\ job[m].status = "processing" /\ job[m] \in JobRows
    BY <1>1, <1>8, <2>1 DEF Fail, Owns, Becomes
  <2>3. CASE RetriesUsed(m)
    <3>1. row \in JobRows /\ row.status = "failed"
      BY <2>2, <2>3 DEF AfterFailure, JobRows, Statuses, Active
    <3> HIDE DEF row, m
    <3>2. QED
      BY <1>7, <2>1, <2>2, <3>1
  <2>4. CASE ~RetriesUsed(m)
    <3>1. job[m].retries + 1 \in 0..MaxRetries /\ job[m].recoveries < MaxRecoveries
      BY <2>1, <2>2, <2>4 DEF RetriesUsed, JobRows, RowsSound, JobsSound, Active
    <3>2. /\ row \in JobRows /\ row.status = "pending"
          /\ row.retries = job[m].retries + 1 /\ row.recoveries = job[m].recoveries
      BY <2>2, <2>4, <3>1 DEF AfterFailure, JobRows, Statuses, Active
    <3> HIDE DEF row, m
    <3>3. QED
      BY <1>7, <2>1, <2>2, <3>1, <3>2
  <2>5. QED
    BY <2>3, <2>4
<1>9. ASSUME NEW m \in Media, Recover(m) PROVE Queue!Next
  <2> DEFINE row == Requeued(m)
  <2>1. job' = [job EXCEPT ![m] = row] /\ job[m].status = "processing" /\ job[m] \in JobRows
    BY <1>1, <1>9 DEF Recover, Stale, Becomes
  <2>2. job[m].recoveries + 1 \in 0..MaxRecoveries
    BY <2>1 DEF JobRows, RowsSound, JobsSound, Active
  <2>3. /\ row \in JobRows /\ row.retries = job[m].retries
        /\ row.recoveries = job[m].recoveries + 1
        /\ row.status = IF job[m].recoveries + 1 >= MaxRecoveries THEN "failed" ELSE "pending"
    BY <2>1, <2>2 DEF Requeued, JobRows, Statuses, Active
  <2> HIDE DEF row
  <2>4. row.status = "failed" \/ (row.status = "pending" /\ row.recoveries < MaxRecoveries)
    BY <2>2, <2>3
  <2>5. QED
    BY <1>7, <2>1, <2>3, <2>4
<1>10. ASSUME NEW m \in Media, DestroyRow(m) PROVE [Queue!Next]_(Queue!vars)
  <2>1. job' = [job EXCEPT ![m] = NoJob] /\ NoJob.status = "ABSENT"
    BY <1>10 DEF DestroyRow, NoJob
  <2>2. QueueState(m)' = "none" /\ CreditLeft(m)' = 0
    BY <1>1, <2>1 DEF QueueState, CreditLeft, Active
  <2>3. CASE job[m].status = "ABSENT"
    <3>1. QueueState(m) = "none" /\ CreditLeft(m) = 0
      BY <2>3 DEF QueueState, CreditLeft, Active
    <3>2. \A n \in Media : n # m => job'[n] = job[n]
      BY <1>1, <2>1
    <3>3. \A n \in Media : QueueState(n)' = QueueState(n) /\ CreditLeft(n)' = CreditLeft(n)
      BY <2>2, <3>1, <3>2 DEF QueueState, CreditLeft
    <3>4. QED
      BY <3>3 DEF Queue!vars
  <2>4. CASE job[m].status # "ABSENT"
    <3>1. job[m].status \in {"pending", "processing", "completed", "failed"}
      BY <1>1, <2>4 DEF JobRows, Statuses, Active
    <3>2. QueueState(m) \in Queue!Active \cup {"done", "failed"}
      BY <3>1 DEF QueueState, Queue!Active
    <3>3. Queue!Remove(m)
      BY <1>1, <2>1, <2>2, <3>2, QueueMove DEF Queue!Remove, Queue!Move
    <3>4. QED
      BY <3>3 DEF Queue!Next
  <2>5. QED
    BY <2>3, <2>4
<1>11. ASSUME NEW m \in Media, DeletionStep(m) PROVE [Queue!Next]_(Queue!vars)
  BY <1>2, <1>10, <1>11
  DEF DeletionStep, CleanUpCheck, CleanUpStops, CleanUpPurge, OwnerPurge, CleanUpStaging, tables
<1>12. ASSUME NEW s \in Slots, RunStep(s) PROVE [Queue!Next]_(Queue!vars)
  BY <1>2, <1>6, <1>8, <1>12
  DEF RunStep, Read, Download, Write, CommitLost, CheckOwner, DeleteStaging, Throws, FailIgnored,
      OnlyRun, tables
<1>13. ASSUME NEW s \in Slots, Heartbeat(s) PROVE [Queue!Next]_(Queue!vars)
  <2>1. run[s].media \in Media
    BY <1>13 DEF Heartbeat, SlotsTyped, RunTyped, Runs
  <2>2. QED
    BY <1>3, <1>13, <2>1 DEF Heartbeat
<1>14. ASSUME NEW m \in Media, GrowOld(m) PROVE [Queue!Next]_(Queue!vars)
  BY <1>3, <1>14 DEF GrowOld
<1>15. ASSUME NEW w \in Workers, \/ ClaimMissed(w) \/ Crash(w)
                                 \/ \E m \in Media : Look(w, m)
       PROVE  [Queue!Next]_(Queue!vars)
  BY <1>2, <1>15 DEF ClaimMissed, Crash, Look, tables
<1>16. CASE UNCHANGED vars
  BY <1>2, <1>16 DEF vars, tables
<1>17. QED
  BY <1>4, <1>5, <1>9, <1>11, <1>12, <1>13, <1>14, <1>15, <1>16 DEF Next

\* However many workers claim, die and come late: a finished job is never reopened, and a
\* job comes back to the queue only as often as its retries and recoveries allow.
THEOREM Implements == Spec => QueueSpec
<1>1. Spec => Queue!Init /\ [][Queue!Next]_(Queue!vars)
  BY QueueInit, QueueNext, Invariance, PTL DEF Spec
<1>2. QED
  BY <1>1 DEF QueueSpec, Queue!Spec

-----------------------------------------------------------------------------
(* Action properties of the queue. *)

\* What is published stays as it is, and what was deleted stays so.
PublishedFinal == \A m \in Media :
  /\ media[m].status = "completed" => media'[m] = media[m] \/ media'[m].status = "ABSENT"
  /\ media[m].status = "ABSENT" => media'[m].status = "ABSENT"

\* A step of the media row of one upload that is there and not published.
LEMMA OneRowMoves ==
  ASSUME Inv, NEW n \in Media, NEW row, media' = [media EXCEPT ![n] = row],
         media[n].status \notin {"completed", "ABSENT"} \/ row.status = "ABSENT"
  PROVE  PublishedFinal
<1>1. \A m \in Media : media'[m] = IF m = n THEN row ELSE media[m]
  BY DEF Inv, RowsSound
<1>2. QED
  BY <1>1 DEF PublishedFinal

LEMMA PublishedFinalNext == ASSUME Inv, [Next]_vars PROVE PublishedFinal
<1>1. CASE UNCHANGED media
  BY <1>1 DEF PublishedFinal
<1>2. ASSUME NEW n \in Media, NEW row, Becomes(n, row),
             media[n].status \notin {"completed", "ABSENT"}
      PROVE  PublishedFinal
  BY <1>2, OneRowMoves DEF Becomes
<1>3. \A n \in Media : job[n].status \in Active => media[n].status \in Active
  BY DEF Inv, RowsSound, RowsAgree, Active
<1>4. \A s \in Slots : run[s].pc # "idle" => run[s].media \in Media
  BY MediaAssumption DEF Inv, SlotsTyped, RunTyped, Runs
<1>5. ASSUME NEW n \in Media, Finalize(n) PROVE PublishedFinal
  <2>1. media[n].status \notin {"completed", "ABSENT"}
    BY <1>5 DEF Finalize, Enqueues, Exists, Inv, RowsSound, RowsAgree, JobsSound
  <2>2. QED
    BY <1>2, <1>5, <2>1 DEF Finalize
<1>6. ASSUME NEW n \in Media, Recover(n) PROVE PublishedFinal
  BY <1>2, <1>3, <1>6 DEF Recover, Stale, Active
<1>7. ASSUME NEW n \in Media, NEW s \in Slots, Claim(s, n) PROVE PublishedFinal
  BY <1>2, <1>3, <1>7 DEF Claim, Claimable, Active
<1>8. ASSUME NEW s \in Slots, Commit(s) PROVE PublishedFinal
  <2>1. run[s].media \in Media /\ media[run[s].media].status \in Active
    BY <1>3, <1>4, <1>8 DEF Commit, RunsOn, Owns, Active
  <2>2. QED
    BY <1>8, <2>1, OneRowMoves DEF Commit, Active
<1>9. ASSUME NEW s \in Slots, Fail(s) PROVE PublishedFinal
  <2>1. run[s].media \in Media /\ media[run[s].media].status \in Active
    BY <1>3, <1>4, <1>9 DEF Fail, RunsOn, Owns, Active
  <2>2. QED
    BY <1>2, <1>9, <2>1 DEF Fail, Active
<1>10. ASSUME NEW n \in Media, DestroyRow(n) PROVE PublishedFinal
  <2>1. media'[n].status = "ABSENT" /\ \A m \in Media : m # n => media'[m] = media[m]
    BY <1>10 DEF DestroyRow, Inv, RowsSound, MediaRows
  <2>2. QED
    BY <2>1 DEF PublishedFinal
<1>11. CASE \/ \E s \in Slots : RunStep(s) \/ Heartbeat(s)
            \/ \E w \in Workers : ClaimMissed(w) \/ Crash(w)
            \/ \E n \in Media : DeletionStep(n) \/ GrowOld(n) \/ \E w \in Workers : Look(w, n)
            \/ UNCHANGED vars
  BY <1>1, <1>8, <1>9, <1>10, <1>11
  DEF RunStep, Read, Download, Write, CommitLost, CheckOwner, DeleteStaging, Throws, FailIgnored,
      OnlyRun, tables, Heartbeat, ClaimMissed, Crash, DeletionStep, CleanUpCheck, CleanUpStops,
      CleanUpPurge, OwnerPurge, CleanUpStaging, GrowOld, Look, vars
<1>12. QED
  BY <1>5, <1>6, <1>7, <1>11 DEF Next

\* Whatever runs come late, fail or are recovered: a published upload keeps its live object until
\* it is deleted (the status check in processClaimedMediaJob's last transaction), and nothing
\* brings a deleted one back.
THEOREM PublishedStays == Spec => [][PublishedFinal]_vars
<1>1. QED
  BY PublishedFinalNext, Invariance, PTL DEF Spec


\* A completed job is never taken up again, and each time that a job comes back to the queue it
\* has one retry or recovery less.
ReturnsLimited == \A m \in Media :
  /\ job[m].status = "completed" => job'[m].status \in {"completed", "ABSENT"}
  /\ job[m].status \in Active /\ job'[m].status \in Active => CreditLeft(m)' <= CreditLeft(m)
  /\ job[m].status = "processing" /\ job'[m].status = "pending" => CreditLeft(m)' < CreditLeft(m)

\* It follows from what JobQueue promises of any queue.
LEMMA ReturnsLimitedNext == ASSUME Inv, [Next]_vars PROVE ReturnsLimited
<1> SUFFICES ASSUME NEW m \in Media
             PROVE  /\ job[m].status = "completed" => job'[m].status \in {"completed", "ABSENT"}
                    /\ job[m].status \in Active /\ job'[m].status \in Active
                         => CreditLeft(m)' <= CreditLeft(m)
                    /\ job[m].status = "processing" /\ job'[m].status = "pending"
                         => CreditLeft(m)' < CreditLeft(m)
  BY DEF ReturnsLimited
<1>1. /\ {job[m].status, job'[m].status} \subseteq Statuses \cup {"ABSENT"}
      /\ job[m].retries \in 0..MaxRetries /\ job[m].recoveries \in 0..MaxRecoveries
  <2>1. Inv'
    BY NextInv
  <2>2. job \in [Media -> JobRows] /\ job' \in [Media -> JobRows]
    BY <2>1 DEF Inv, RowsSound
  <2>3. QED
    BY <2>2 DEF JobRows
<1>2. /\ CreditLeft(m) \in Int
      /\ QueueState(m) = "done" <=> job[m].status = "completed"
      /\ QueueState(m) = "waiting" <=> job[m].status = "pending"
      /\ QueueState(m) = "running" <=> job[m].status = "processing"
      /\ QueueState(m)' \in {"done", "none"} => job'[m].status \in {"completed", "ABSENT"}
      /\ QueueState(m)' = "waiting" <=> job'[m].status = "pending"
      /\ QueueState(m)' = "running" <=> job'[m].status = "processing"
  BY <1>1, MediaAssumption DEF QueueState, CreditLeft, Statuses, Active
<1>3. [Queue!Next]_(Queue!vars)
  BY QueueNext
<1>4. CASE UNCHANGED Queue!vars
  <2>1. QueueState(m)' = QueueState(m) /\ CreditLeft(m)' = CreditLeft(m)
    BY <1>4 DEF Queue!vars
  <2>2. QED
    BY <1>2, <2>1 DEF Active
<1>5. CASE Queue!Next
  <2>1. PICK j \in Media : \/ Queue!Submit(j) \/ Queue!Take(j) \/ Queue!GiveBack(j)
                           \/ Queue!Finish(j) \/ Queue!Fail(j) \/ Queue!Remove(j)
    BY <1>5 DEF Queue!Next
  <2>2. ASSUME NEW from, NEW to, NEW left, Queue!Move(j, from, to, left)
        PROVE  /\ QueueState(j) \in from
               /\ QueueState(m)' = IF m = j THEN to ELSE QueueState(m)
               /\ CreditLeft(m)' = IF m = j THEN left ELSE CreditLeft(m)
    BY <2>2 DEF Queue!Move
  <2>3. CASE m # j
    <3>1. QueueState(m)' = QueueState(m) /\ CreditLeft(m)' = CreditLeft(m)
      BY <2>1, <2>2, <2>3 DEF Queue!Submit, Queue!Take, Queue!GiveBack, Queue!Finish, Queue!Fail,
                              Queue!Remove
    <3>2. QED
      BY <1>2, <3>1 DEF Active
  <2>4. CASE m = j /\ Queue!Submit(j)
    <3>1. QueueState(m) \in {"none", "failed"}
      BY <2>2, <2>4 DEF Queue!Submit
    <3>2. QED
      BY <1>1, <1>2, <3>1 DEF Active, QueueState, Statuses
  <2>5. CASE m = j /\ Queue!Take(j)
    <3>1. /\ QueueState(m) = "waiting" /\ QueueState(m)' = "running"
          /\ CreditLeft(m)' = CreditLeft(m)
      BY <2>2, <2>5 DEF Queue!Take
    <3>2. QED
      BY <1>2, <3>1
  <2>6. CASE m = j /\ Queue!GiveBack(j)
    <3>1. /\ QueueState(m) = "running" /\ QueueState(m)' = "waiting"
          /\ CreditLeft(m)' = CreditLeft(m) - 1
      BY <2>2, <2>6 DEF Queue!GiveBack
    <3>2. QED
      BY <1>2, <3>1
  <2>7. CASE m = j /\ (Queue!Finish(j) \/ Queue!Fail(j) \/ Queue!Remove(j))
    <3>1. QueueState(m)' \in {"done", "failed", "none"}
      BY <2>2, <2>7 DEF Queue!Finish, Queue!Fail, Queue!Remove
    <3>2. QueueState(m) = "done" => QueueState(m)' = "none"
      BY <2>2, <2>7 DEF Queue!Finish, Queue!Fail, Queue!Remove
    <3>3. QED
      BY <1>2, <3>1, <3>2 DEF Active
  <2>8. QED
    BY <2>1, <2>3, <2>4, <2>5, <2>6, <2>7
<1>6. QED
  BY <1>3, <1>4, <1>5

\* A completed job is never taken up again, and however many workers die and come late, a job
\* comes back to the queue only as long as it has retries or recoveries left.
THEOREM ReturnsStayLimited == Spec => [][ReturnsLimited]_vars
<1>1. QED
  BY ReturnsLimitedNext, Invariance, PTL DEF Spec
=============================================================================
