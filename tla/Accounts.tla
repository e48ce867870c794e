------------------------------ MODULE Accounts ------------------------------
(***************************************************************************)
(* The status of one member's account and who acts on it: the review of a  *)
(* registration (RegistrationStatus.service.ts), suspension, soft deletion *)
(* and their reversal (AdminReports and AdminUserManagement services), the *)
(* mark that ends older tokens (tokenRevocation.ts) and the status each    *)
(* API process remembers for a while (auth.middleware.ts).                 *)
(*                                                                         *)
(* A change reads the row, saves by id what it has decided, and then tells *)
(* its own process and Redis; no other process is told.  A token is the    *)
(* second in which it was signed.  Redis may refuse a write, but answers   *)
(* reads, and keeps a mark for longer than tokens live (8 days to 7).      *)
(***************************************************************************)
EXTENDS Naturals, FiniteSets

CONSTANTS Instances,    \* API processes
          GateTtl,      \* GATE_CACHE_TTL_MS, in seconds
          LastSecond    \* bound: the clock stops

ASSUME AccountsAssumption == GateTtl \in Nat \ {0} /\ LastSecond \in Nat \ {0}

VARIABLES status,      \* users.status
          second,      \* Date.now() / 1000
          change,      \* what an administrator, or the member, asked of each process
          minIat,      \* memoryMinIat of each process, 0 when there is none
          redisMinIat, \* auth:tokenMinIat, 0 when there is none
          gate,        \* gateUserCache of each process
          visit,       \* the status a request of each process has read and not remembered yet
          since,       \* history: when the status was last saved
          dropped,     \* history: processes that forgot the status after that save
          newest,      \* history: the newest mark that has reached Redis
          overtaken,   \* history: an older mark reached Redis after it
          barred       \* history: when a mark reached Redis, all under way were this new

accountsVars == <<status, second, change, minIat, redisMinIat, gate, visit, since, dropped, newest, overtaken, barred>>

AccountStatuses == {"PENDING", "CHANGES_REQUESTED", "APPROVED", "REJECTED", "SUSPENDED", "DELETED"}

Changes == {"approve", "reject", "requestChanges", "correct", "suspend", "reactivate",
            "softDelete", "restore", "logout"}

NoChange == [kind |-> "none", at |-> "idle", mark |-> 0]
NoEntry == [status |-> "NONE", until |-> 0, late |-> FALSE]

\* register, and members of long ago.
AccountsInit ==
    /\ status \in {"PENDING", "APPROVED"}
    /\ second = 1 /\ since = 1
    /\ change = [i \in Instances |-> NoChange]
    /\ minIat = [i \in Instances |-> 0] /\ redisMinIat = 0
    /\ gate = [i \in Instances |-> NoEntry]
    /\ visit = [i \in Instances |-> "NONE"]
    /\ dropped = {} /\ newest = 0 /\ overtaken = FALSE /\ barred = 0

-----------------------------------------------------------------------------
\* isReviewableRegistrationStatus
Reviewable == {"PENDING", "CHANGES_REQUESTED"}

\* The statuses each change accepts ...
From(kind) ==
    CASE kind \in {"approve", "reject"} -> Reviewable
      [] kind = "requestChanges" -> {"PENDING"}  \* asking again does not write the status
      [] kind = "correct"    -> {"CHANGES_REQUESTED"}
      [] kind = "suspend"    -> AccountStatuses \ {"SUSPENDED"}
      [] kind = "reactivate" -> {"SUSPENDED"}
      [] kind = "restore"    -> {"DELETED"}
      [] OTHER               -> AccountStatuses \ {"DELETED"}

\* ... and the one it saves.
To(kind) ==
    CASE kind \in {"approve", "reactivate", "restore"} -> "APPROVED"
      [] kind = "reject"         -> "REJECTED"
      [] kind = "requestChanges" -> "CHANGES_REQUESTED"
      [] kind = "correct"        -> "PENDING"
      [] kind = "suspend"        -> "SUSPENDED"
      [] kind = "softDelete"     -> "DELETED"

\* What follows the save.
Following(kind) ==
    CASE kind \in {"approve", "suspend", "softDelete"} -> "revoke"
      [] kind \in {"reactivate", "restore"}            -> "invalidate"
      [] OTHER                                         -> "idle"

ToDo(step) == [NoChange EXCEPT !.at = step]

\* The row is read and its status accepted; a logout saves nothing.
ChangeReads(i) ==
    /\ change[i] = NoChange
    /\ \E kind \in Changes :
          /\ status \in From(kind)
          /\ change' = [change EXCEPT ![i] = IF kind = "logout" THEN ToDo("revoke")
                                            ELSE [ToDo("save") EXCEPT !.kind = kind]]
    /\ UNCHANGED <<status, second, minIat, redisMinIat, gate, visit, since, dropped, newest, overtaken, barred>>

\* The new status is saved, whatever the row says now.
StatusSaved(i) ==
    /\ change[i].at = "save"
    /\ status' = To(change[i].kind)
    /\ since' = second /\ dropped' = {}
    /\ change' = [change EXCEPT ![i] = ToDo(Following(@.kind))]
    /\ UNCHANGED <<second, minIat, redisMinIat, gate, visit, newest, overtaken, barred>>

\* Faulty variant: only members are thought to be remembered.
InvalidateMembersOnly(i) == IF gate[i].status = "APPROVED" THEN [gate EXCEPT ![i] = NoEntry] ELSE gate

\* invalidateAuthGateCache
InvalidateAuthGateCache(i) == [gate EXCEPT ![i] = NoEntry]

\* reactivateUser, restoreSoftDeletedUser: this process forgets the old status.
Invalidated(i) ==
    /\ change[i].at = "invalidate"
    /\ gate' = InvalidateAuthGateCache(i)
    /\ dropped' = dropped \cup {i}
    /\ change' = [change EXCEPT ![i] = NoChange]
    /\ UNCHANGED <<status, second, minIat, redisMinIat, visit, since, newest, overtaken, barred>>

\* revokeUserTokens: the mark in this process and its cache, ...
RevokeMarks(i) ==
    /\ change[i].at = "revoke"
    /\ minIat' = [minIat EXCEPT ![i] = second]
    /\ gate' = InvalidateAuthGateCache(i)
    /\ dropped' = dropped \cup {i}
    /\ change' = [change EXCEPT ![i] = [@ EXCEPT !.at = "publish", !.mark = second]]
    /\ UNCHANGED <<status, second, redisMinIat, visit, since, newest, overtaken, barred>>

\* Marks on their way to Redis: any of them can be the last to arrive.
MarksUnderWay == {change[i].mark : i \in {j \in Instances : change[j].at = "publish"}}

\* ... and in Redis, over whatever mark is there: an older one too.
RevokePublishes(i) ==
    /\ change[i].at = "publish"
    /\ redisMinIat' = change[i].mark
    /\ newest' = IF change[i].mark > newest THEN change[i].mark ELSE newest
    /\ overtaken' = (change[i].mark < newest)
    /\ \E safe \in MarksUnderWay :
          /\ \A mark \in MarksUnderWay : safe <= mark
          /\ barred' = IF safe > barred THEN safe ELSE barred
    /\ change' = [change EXCEPT ![i] = NoChange]
    /\ UNCHANGED <<status, second, minIat, gate, visit, since, dropped>>

\* Redis refuses the write.
PublishFails(i) ==
    /\ change[i].at = "publish"
    /\ change' = [change EXCEPT ![i] = NoChange]
    /\ UNCHANGED <<status, second, minIat, redisMinIat, gate, visit, since, dropped, newest, overtaken, barred>>

-----------------------------------------------------------------------------
\* Faulty variant: Redis is the fallback.
MemoryFirst(i) == IF minIat[i] # 0 THEN minIat[i] ELSE redisMinIat

\* getTokenMinIat: what this process remembers counts only when Redis has nothing.
TokenMinIat(i) == IF redisMinIat # 0 THEN redisMinIat ELSE minIat[i]

\* isAccessTokenActive
AccessTokenActive(i, iat) == iat >= TokenMinIat(i)

\* readGateCache
ReadGateCache(i) == IF gate[i].until <= second THEN NoEntry ELSE gate[i]

\* loadUserFromBearer, optionalAuth: nothing is remembered and the row is read, ...
GateReads(i) ==
    /\ visit[i] = "NONE" /\ ReadGateCache(i) = NoEntry
    /\ status # "DELETED"
    /\ visit' = [visit EXCEPT ![i] = status]
    /\ UNCHANGED <<status, second, change, minIat, redisMinIat, gate, since, dropped, newest, overtaken, barred>>

\* writeGateCache
GateEntry(i) == [status |-> visit[i], until |-> second + GateTtl, late |-> visit[i] # status]

\* ... and its status remembered.
GateFills(i) ==
    /\ visit[i] # "NONE"
    /\ gate' = [gate EXCEPT ![i] = GateEntry(i)]
    /\ visit' = [visit EXCEPT ![i] = "NONE"]
    /\ UNCHANGED <<status, second, change, minIat, redisMinIat, since, dropped, newest, overtaken, barred>>

\* An external event: a process starts anew, without the changes it was at.
InstanceRestarts(i) ==
    /\ change' = [change EXCEPT ![i] = NoChange]
    /\ minIat' = [minIat EXCEPT ![i] = 0]
    /\ gate' = [gate EXCEPT ![i] = NoEntry]
    /\ visit' = [visit EXCEPT ![i] = "NONE"]
    /\ UNCHANGED <<status, second, redisMinIat, since, dropped, newest, overtaken, barred>>

SecondPasses ==
    /\ second < LastSecond
    /\ second' = second + 1
    /\ UNCHANGED <<status, change, minIat, redisMinIat, gate, visit, since, dropped, newest, overtaken, barred>>

AccountsBegin == \E i \in Instances : ChangeReads(i) \/ GateReads(i) \/ InstanceRestarts(i)

AccountsGoOn ==
    \/ SecondPasses
    \/ \E i \in Instances :
          \/ StatusSaved(i) \/ Invalidated(i)
          \/ RevokeMarks(i) \/ RevokePublishes(i) \/ PublishFails(i)
          \/ GateFills(i)

AccountsNext == AccountsBegin \/ AccountsGoOn

AccountsSpec == AccountsInit /\ [][AccountsNext]_accountsVars

-----------------------------------------------------------------------------
AccountsTypeOK ==
    /\ status \in AccountStatuses
    /\ second \in 1 .. LastSecond /\ since \in 1 .. LastSecond
    /\ change \in [Instances -> [kind : Changes \cup {"none"}, mark : 0 .. LastSecond,
                                 at : {"idle", "save", "revoke", "invalidate", "publish"}]]
    /\ minIat \in [Instances -> 0 .. LastSecond] /\ redisMinIat \in 0 .. LastSecond
    /\ gate \in [Instances -> [status : AccountStatuses \cup {"NONE"}, until : Nat, late : BOOLEAN]]
    /\ visit \in [Instances -> AccountStatuses \cup {"NONE"}]
    /\ dropped \subseteq Instances
    /\ newest \in 0 .. LastSecond /\ overtaken \in BOOLEAN /\ barred \in 0 .. LastSecond

\* A token older than a revocation whose mark reached Redis is active in no process, whatever
\* write fails and whichever process starts anew (isAccessTokenActive).  The exception: the write
\* of an older revocation, overtaken by the newer one, arrives after it, and the tokens between the
\* two marks are active again until a mark as new as the newest is written.  Even then those stay
\* ended that are older than every mark which was on its way when one of them arrived.
TokensStayEnded ==
    \A i \in Instances, iat \in 0 .. LastSecond :
        iat < barred \/ (iat < newest /\ ~overtaken) => ~AccessTokenActive(i, iat)

\* A process goes by a status that is no longer the row's only for the rest of the time it
\* remembers one: GateTtl from the change at most, and not at all once it has dropped what it
\* had, unless a request that read before the change remembered the status after it.
StatusSoonFollowed ==
    \A i \in Instances : LET entry == ReadGateCache(i) IN
        entry # NoEntry /\ entry.status # status /\ ~entry.late =>
            i \notin dropped /\ entry.until <= since + GateTtl

=============================================================================
