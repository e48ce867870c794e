----------------------------- MODULE JobQueue -----------------------------
(***************************************************************************)
(* What the media queue promises: a job waits, is worked on, and is done   *)
(* for good or fails; it is given back to the queue a bounded number of    *)
(* times.  Nothing is said of workers, claims and crashes.  MediaJobs      *)
(* implements this module.                                                 *)
(***************************************************************************)
EXTENDS Naturals

CONSTANTS Jobs,
          Credit       \* how often a job may be given back

VARIABLES state,       \* where each job is
          credit       \* how often it may still be given back

vars == <<state, credit>>

Active == {"waiting", "running"}

TypeOK == /\ state \in [Jobs -> Active \cup {"none", "done", "failed"}]
          /\ credit \in [Jobs -> 0..Credit]

Init == /\ state = [j \in Jobs |-> "none"]
        /\ credit = [j \in Jobs |-> 0]

Move(j, from, to, left) ==
  /\ state[j] \in from
  /\ state' = [state EXCEPT ![j] = to]
  /\ credit' = [credit EXCEPT ![j] = left]

Submit(j)   == Move(j, {"none", "failed"}, "waiting", Credit)
Take(j)     == Move(j, {"waiting"}, "running", credit[j])
GiveBack(j) == credit[j] > 0 /\ Move(j, {"running"}, "waiting", credit[j] - 1)
Finish(j)   == Move(j, {"running"}, "done", 0)
Fail(j)     == Move(j, {"running"}, "failed", 0)
Remove(j)   == Move(j, Active \cup {"done", "failed"}, "none", 0)

Next == \E j \in Jobs : \/ Submit(j) \/ Take(j) \/ GiveBack(j)
                        \/ Finish(j) \/ Fail(j) \/ Remove(j)

Spec == Init /\ [][Next]_vars
=============================================================================
