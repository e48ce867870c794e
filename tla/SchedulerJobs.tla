--------------------------- MODULE SchedulerJobs ---------------------------
(***************************************************************************)
(* One scheduled job, run by several processes                             *)
(* (SystemSchedulerTracking.service.ts, SchedulerLock.service.ts,          *)
(* SystemScheduler.service.ts, and the run...Jobs function of the job).    *)
(*                                                                         *)
(* Timers tick in the scheduler workers, administrators start the job in   *)
(* an API process.  A process runs the job once at a time; between         *)
(* processes a MySQL lock does that, as long as the connection that holds  *)
(* it lives.  A run opens a row, works, closes the row and counts itself   *)
(* in the job's row.  Each process keeps its own copy of the               *)
(* administrators' switch.                                                 *)
(***************************************************************************)
EXTENDS Naturals, FiniteSets

CONSTANTS Workers,          \* processes whose timers tick
          Apis,             \* processes administrators talk to
          RunIds            \* bound: rows of runs

Hosts == Workers \cup Apis

ASSUME SchedulerAssumption ==
    Workers \cap Apis = {} /\ IsFiniteSet(Hosts) /\ IsFiniteSet(RunIds)

VARIABLES switch,           \* enabled_override of the job's row
          copy,             \* enabledOverrideCache of each process, or "unloaded"
          lock,             \* the processes whose session holds the lock (none or one)
          job,              \* what each process is at
          runRow,           \* system_scheduler_runs
          counted,          \* success and failure count of the job's row
          broken            \* history: a lock was lost, a process died, or a write of the
                            \* tracking failed

jobVars == <<switch, copy, lock, job, runRow, counted, broken>>

Idle == [pc |-> "idle", manual |-> FALSE, row |-> {}, result |-> "none", seen |-> 0]
Closed == {r \in RunIds : runRow[r] \in {"SUCCESS", "FAILURE"}}

\* A worker's bootstrap seeds the jobs, which loads the copy.
SchedulerInit ==
    /\ switch = "unset"
    /\ copy = [h \in Hosts |-> "unset"]
    /\ lock = {}
    /\ job = [h \in Hosts |-> Idle]
    /\ runRow = [r \in RunIds |-> "NONE"]
    /\ counted = 0
    /\ broken = FALSE

Goes(h, pc) == job' = [job EXCEPT ![h].pc = pc]
Stops(h) == job' = [job EXCEPT ![h] = Idle]

-----------------------------------------------------------------------------
(***************************************************************************)
(* The switch                                                              *)
(***************************************************************************)
\* setJobEnabled: the row, and the copy of the process the administrator talks to.
SetJobEnabled(h) ==
    /\ h \in Apis
    /\ \E v \in {"on", "off"} : switch' = v
    /\ copy' = [copy EXCEPT ![h] = "unloaded"]
    /\ UNCHANGED <<lock, job, runRow, counted, broken>>

\* isJobEnabled: by the copy, loaded when it is not; the environment's default is on.
Word(h) == IF copy[h] = "unloaded" THEN switch ELSE copy[h]
Enabled(h) == Word(h) # "off"

-----------------------------------------------------------------------------
(***************************************************************************)
(* A run                                                                   *)
(***************************************************************************)
\* A tick of the timer.  jobRunning keeps the process to one run at a time.
Tick(h) ==
    /\ h \in Workers /\ job[h].pc = "idle"
    /\ copy' = [copy EXCEPT ![h] = Word(h)]
    /\ IF Enabled(h) THEN Goes(h, "lock") ELSE UNCHANGED job
    /\ UNCHANGED <<switch, lock, runRow, counted, broken>>

\* runJobNow, retryFailedJob: whatever the switch says.
RunNow(h) ==
    /\ h \in Apis /\ job[h].pc = "idle"
    /\ job' = [job EXCEPT ![h] = [Idle EXCEPT !.pc = "lock", !.manual = TRUE]]
    /\ UNCHANGED <<switch, copy, lock, runRow, counted, broken>>

\* Faulty variant: the answer of GET_LOCK is not read.
AcquiresAlways(h) == TRUE

\* GET_LOCK(name, 0)
Acquires(h) == lock = {}

TakeLock(h) ==
    /\ job[h].pc = "lock"
    /\ IF Acquires(h) THEN lock' = lock \cup {h} /\ Goes(h, "open") ELSE Stops(h) /\ UNCHANGED lock
    /\ UNCHANGED <<switch, copy, runRow, counted, broken>>

\* The row is opened; when that fails the run goes on without one.
OpenRun(h) ==
    /\ job[h].pc = "open"
    /\ \/ \E r \in RunIds :
             /\ runRow[r] = "NONE"
             /\ runRow' = [runRow EXCEPT ![r] = "RUNNING"]
             /\ job' = [job EXCEPT ![h].pc = "work", ![h].row = {r}]
             /\ UNCHANGED broken
       \/ Goes(h, "work") /\ broken' = TRUE /\ UNCHANGED runRow
    /\ UNCHANGED <<switch, copy, lock, counted>>

Work(h) ==
    /\ job[h].pc = "work"
    /\ \E result \in {"SUCCESS", "FAILURE", "quiet"} :
          /\ result = "quiet" => ~job[h].manual
          /\ job' = [job EXCEPT ![h].pc = IF job[h].row = {} THEN "release" ELSE "close",
                                ![h].result = result]
    /\ UNCHANGED <<switch, copy, lock, runRow, counted, broken>>

\* Faulty variant: the row of a quiet run stays RUNNING.
CloseRunLeft(h) ==
    /\ job[h].pc = "close"
    /\ runRow' = [r \in RunIds |-> IF r \notin job[h].row \/ job[h].result = "quiet" THEN runRow[r]
                                   ELSE job[h].result]
    /\ IF job[h].result = "quiet" THEN Goes(h, "release") ELSE Goes(h, "count")
    /\ UNCHANGED <<switch, copy, lock, counted, broken>>

\* The row of a quiet automatic run is dropped.
CloseRun(h) ==
    /\ job[h].pc = "close"
    /\ runRow' = [r \in RunIds |-> IF r \notin job[h].row THEN runRow[r]
                                   ELSE IF job[h].result = "quiet" THEN "NONE" ELSE job[h].result]
    /\ IF job[h].result = "quiet" THEN Goes(h, "release") ELSE Goes(h, "count")
    /\ UNCHANGED <<switch, copy, lock, counted, broken>>

\* findOne, then update with the count that was read plus one.
CountReads(h) ==
    /\ job[h].pc = "count"
    /\ job' = [job EXCEPT ![h].pc = "save", ![h].seen = counted]
    /\ UNCHANGED <<switch, copy, lock, runRow, counted, broken>>

CountSaves(h) ==
    /\ job[h].pc = "save"
    /\ counted' = job[h].seen + 1
    /\ Goes(h, "release")
    /\ UNCHANGED <<switch, copy, lock, runRow, broken>>

\* Closing and counting are best effort.
TrackingFails(h) ==
    /\ job[h].pc \in {"close", "count", "save"}
    /\ Goes(h, "release")
    /\ broken' = TRUE
    /\ UNCHANGED <<switch, copy, lock, runRow, counted>>

ReleaseLock(h) ==
    /\ job[h].pc = "release"
    /\ lock' = lock \ {h}
    /\ Stops(h)
    /\ UNCHANGED <<switch, copy, runRow, counted, broken>>

-----------------------------------------------------------------------------
(***************************************************************************)
(* Faults                                                                  *)
(***************************************************************************)
\* The session ends, and with it the lock; the work goes on over other connections.
ConnectionLost(h) ==
    /\ h \in lock
    /\ lock' = lock \ {h}
    /\ broken' = TRUE
    /\ UNCHANGED <<switch, copy, job, runRow, counted>>

\* The process ends and is started again.
Restart(h) ==
    /\ lock' = lock \ {h}
    /\ Stops(h)
    /\ copy' = [copy EXCEPT ![h] = switch]
    /\ broken' = (broken \/ job[h].pc \notin {"idle", "lock"})
    /\ UNCHANGED <<switch, runRow, counted>>

\* pruneOldRuns is never called; the bound on rows is lifted here.
SchedulerNext ==
    \E h \in Hosts :
        \/ SetJobEnabled(h) \/ Tick(h) \/ RunNow(h)
        \/ TakeLock(h) \/ OpenRun(h) \/ Work(h) \/ CloseRun(h) \/ CountReads(h) \/ CountSaves(h)
        \/ TrackingFails(h) \/ ReleaseLock(h)
        \/ ConnectionLost(h) \/ Restart(h)

SchedulerSpec == SchedulerInit /\ [][SchedulerNext]_jobVars

-----------------------------------------------------------------------------
(***************************************************************************)
(* Properties                                                              *)
(***************************************************************************)
SchedulerTypeOK ==
    /\ switch \in {"unset", "on", "off"}
    /\ copy \in [Hosts -> {"unset", "on", "off", "unloaded"}]
    /\ lock \subseteq Hosts
    /\ runRow \in [RunIds -> {"NONE", "RUNNING", "SUCCESS", "FAILURE"}]
    /\ counted \in 0 .. Cardinality(RunIds)
    /\ \A h \in Hosts : job[h].row \subseteq RunIds

\* "only one holder runs the job body" (SchedulerLock.service.ts): as long as no session was
\* lost.
Working(h) == job[h].pc \in {"open", "work", "close", "count", "save", "release"}

OneHolder == \A g, h \in Hosts : Working(g) /\ Working(h) => g = h \/ broken

\* The job's counters tell how many runs were closed, and a row says RUNNING while its run is at
\* work: whatever ticks, restarts before the work begins and manual runs overlap, until the first
\* lost session, death at work or failed write, after which nothing repairs them.
HistoryTold ==
    broken \/ /\ Cardinality(Closed) - counted \in {0, 1}
              /\ (\A h \in Hosts : ~Working(h)) => counted = Cardinality(Closed)
              /\ \A r \in RunIds : runRow[r] = "RUNNING" => \E h \in Hosts : Working(h) /\ r \in job[h].row
=============================================================================
