--------------------------- MODULE AccountsProofs ---------------------------
(***************************************************************************)
(* For any processes, lifetime of the cache and clock: ended tokens stay   *)
(* ended, and a status remembered is soon the one of the row.              *)
(***************************************************************************)
EXTENDS Accounts, TLAPS

\* No write that is still under way, and none that has arrived, is below what is barred; and the
\* newest that has arrived is the mark in Redis, unless an older one came after it.
MarksAboveBarred ==
    /\ barred <= second /\ barred <= redisMinIat
    /\ newest <= second /\ (~overtaken => newest <= redisMinIat)
    /\ \A i \in Instances : change[i].at = "publish" =>
          barred <= change[i].mark /\ change[i].mark <= second

\* StatusSoonFollowed of the entries as they are stored, lapsed or not.
EntriesFollow ==
    \A i \in Instances : gate[i] # NoEntry =>
        /\ gate[i].until <= second + GateTtl
        /\ gate[i].status # status /\ ~gate[i].late =>
              i \notin dropped /\ gate[i].until <= since + GateTtl

\* What is about to be saved is the status of a change that has one.
SavesStatus == \A i \in Instances : change[i].at = "save" => change[i].kind \in Changes \ {"logout"}

AccountsInv == AccountsTypeOK /\ MarksAboveBarred /\ EntriesFollow /\ SavesStatus

-----------------------------------------------------------------------------
\* Every status and step a change leads to exists.
LEMMA ChangesKnown ==
  ASSUME NEW kind \in Changes
  PROVE  /\ kind # "logout" => To(kind) \in AccountStatuses
         /\ Following(kind) \in {"idle", "revoke", "invalidate"}
<1>1. Following(kind) \in {"idle", "revoke", "invalidate"}
  BY DEF Following
<1>2. ASSUME kind # "logout" PROVE To(kind) \in AccountStatuses
  BY <1>2 DEF Changes, To, AccountStatuses
<1>3. QED
  BY <1>1, <1>2

\* The initial states satisfy the invariant: nothing is remembered and nothing barred.
LEMMA AccountsInitInv == AccountsInit => AccountsInv
<1> SUFFICES ASSUME AccountsInit PROVE AccountsInv
  OBVIOUS
<1> USE AccountsAssumption
<1>1. AccountsTypeOK
  <2>1. status \in AccountStatuses /\ second \in 1 .. LastSecond /\ since \in 1 .. LastSecond
    BY DEF AccountsInit, AccountStatuses
  <2>2. change \in [Instances -> [kind : Changes \cup {"none"}, mark : 0 .. LastSecond,
                                  at : {"idle", "save", "revoke", "invalidate", "publish"}]]
    BY DEF AccountsInit, NoChange
  <2>3. gate \in [Instances -> [status : AccountStatuses \cup {"NONE"}, until : Nat, late : BOOLEAN]]
    BY DEF AccountsInit, NoEntry
  <2>4. overtaken \in BOOLEAN
    BY Zenon DEF AccountsInit
  <2>5. /\ minIat \in [Instances -> 0 .. LastSecond] /\ redisMinIat \in 0 .. LastSecond
        /\ newest \in 0 .. LastSecond /\ barred \in 0 .. LastSecond
    BY DEF AccountsInit
  <2>6. visit \in [Instances -> AccountStatuses \cup {"NONE"}] /\ dropped \subseteq Instances
    BY DEF AccountsInit
  <2>7. QED
    BY <2>1, <2>2, <2>3, <2>4, <2>5, <2>6 DEF AccountsTypeOK
<1>2. MarksAboveBarred
  BY DEF AccountsInit, MarksAboveBarred, NoChange
<1>3. EntriesFollow
  BY DEF AccountsInit, EntriesFollow
<1>4. SavesStatus
  BY DEF AccountsInit, SavesStatus, NoChange
<1>5. QED
  BY <1>1, <1>2, <1>3, <1>4 DEF AccountsInv

-----------------------------------------------------------------------------
(* One lemma per action. *)

\* A change that has only read disturbs nothing.
LEMMA ChangeReadsInv ==
  ASSUME AccountsInv, NEW i \in Instances, ChangeReads(i)
  PROVE  AccountsInv'
<1> PICK kind \in Changes :
         change' = [change EXCEPT ![i] = IF kind = "logout" THEN ToDo("revoke")
                                         ELSE [ToDo("save") EXCEPT !.kind = kind]]
  BY DEF ChangeReads
<1>1. AccountsTypeOK'
  BY AccountsAssumption DEF AccountsInv, AccountsTypeOK, ChangeReads, ToDo, NoChange
<1>2. MarksAboveBarred'
  BY DEF AccountsInv, AccountsTypeOK, MarksAboveBarred, ChangeReads, ToDo, NoChange
<1>3. EntriesFollow'
  BY DEF AccountsInv, EntriesFollow, ChangeReads
<1>4. SavesStatus'
  BY DEF AccountsInv, AccountsTypeOK, SavesStatus, ToDo, NoChange
<1>5. QED
  BY <1>1, <1>2, <1>3, <1>4 DEF AccountsInv

\* From the save on what a process remembers lasts for GateTtl at most.
LEMMA StatusSavedInv ==
  ASSUME AccountsInv, NEW i \in Instances, StatusSaved(i)
  PROVE  AccountsInv'
<1>1. /\ To(change[i].kind) \in AccountStatuses
      /\ Following(change[i].kind) \in {"idle", "revoke", "invalidate"}
  BY ChangesKnown DEF AccountsInv, SavesStatus, StatusSaved
<1>2. AccountsTypeOK'
  BY <1>1, AccountsAssumption DEF AccountsInv, AccountsTypeOK, StatusSaved, ToDo, NoChange
<1>3. MarksAboveBarred'
  BY <1>1 DEF AccountsInv, AccountsTypeOK, MarksAboveBarred, StatusSaved, ToDo, NoChange
<1>4. EntriesFollow'
  BY DEF AccountsInv, EntriesFollow, StatusSaved
<1>5. SavesStatus'
  BY <1>1 DEF AccountsInv, AccountsTypeOK, SavesStatus, StatusSaved, ToDo, NoChange
<1>6. QED
  BY <1>2, <1>3, <1>4, <1>5 DEF AccountsInv

\* What is dropped has nothing left to follow.
LEMMA InvalidatedInv ==
  ASSUME AccountsInv, NEW i \in Instances, Invalidated(i)
  PROVE  AccountsInv'
<1>1. AccountsTypeOK'
  BY AccountsAssumption DEF AccountsInv, AccountsTypeOK, Invalidated, InvalidateAuthGateCache, NoChange, NoEntry
<1>2. MarksAboveBarred'
  BY DEF AccountsInv, AccountsTypeOK, MarksAboveBarred, Invalidated, NoChange
<1>3. EntriesFollow'
  BY DEF AccountsInv, AccountsTypeOK, EntriesFollow, Invalidated, InvalidateAuthGateCache
<1>4. SavesStatus'
  BY DEF AccountsInv, AccountsTypeOK, SavesStatus, Invalidated, NoChange
<1>5. QED
  BY <1>1, <1>2, <1>3, <1>4 DEF AccountsInv

\* A new mark is the present second, which is not below what is barred.
LEMMA RevokeMarksInv ==
  ASSUME AccountsInv, NEW i \in Instances, RevokeMarks(i)
  PROVE  AccountsInv'
<1>1. AccountsTypeOK'
  <2>1. /\ change' \in [Instances -> [kind : Changes \cup {"none"}, mark : 0 .. LastSecond,
                                      at : {"idle", "save", "revoke", "invalidate", "publish"}]]
        /\ minIat' \in [Instances -> 0 .. LastSecond]
    <3>1. second \in 0 .. LastSecond
      BY AccountsAssumption DEF AccountsInv, AccountsTypeOK
    <3>2. QED
      BY <3>1 DEF AccountsInv, AccountsTypeOK, RevokeMarks
  <2>2. gate' \in [Instances -> [status : AccountStatuses \cup {"NONE"}, until : Nat, late : BOOLEAN]]
    BY DEF AccountsInv, AccountsTypeOK, RevokeMarks, InvalidateAuthGateCache, NoEntry
  <2>3. QED
    BY <2>1, <2>2 DEF AccountsInv, AccountsTypeOK, RevokeMarks
<1>2. MarksAboveBarred'
  BY DEF AccountsInv, AccountsTypeOK, MarksAboveBarred, RevokeMarks
<1>3. EntriesFollow'
  BY DEF AccountsInv, AccountsTypeOK, EntriesFollow, RevokeMarks, InvalidateAuthGateCache
<1>4. SavesStatus'
  BY DEF AccountsInv, AccountsTypeOK, SavesStatus, RevokeMarks
<1>5. QED
  BY <1>1, <1>2, <1>3, <1>4 DEF AccountsInv

\* What is barred by a write is not above the marks still under way.
LEMMA RevokePublishesInv ==
  ASSUME AccountsInv, NEW i \in Instances, RevokePublishes(i)
  PROVE  AccountsInv'
<1> PICK safe \in MarksUnderWay :
         /\ \A mark \in MarksUnderWay : safe <= mark
         /\ barred' = IF safe > barred THEN safe ELSE barred
  BY DEF RevokePublishes
<1>1. /\ safe \in 0 .. LastSecond
      /\ \A j \in Instances : change[j].at = "publish" => safe <= change[j].mark
  BY DEF MarksUnderWay, AccountsInv, AccountsTypeOK
<1>2. change[i].mark \in 0 .. LastSecond /\ change[i].mark <= second
  BY DEF RevokePublishes, AccountsInv, AccountsTypeOK, MarksAboveBarred
<1>3. barred' \in 0 .. LastSecond /\ barred' <= second
  <2>1. safe <= change[i].mark
    BY <1>1 DEF RevokePublishes
  <2>2. QED
    BY <1>1, <1>2, <2>1 DEF AccountsInv, AccountsTypeOK, MarksAboveBarred
<1>4. /\ newest' \in 0 .. LastSecond /\ newest' <= second /\ overtaken' \in BOOLEAN
      /\ ~overtaken' => newest' <= redisMinIat'
  <2>1. /\ redisMinIat' = change[i].mark /\ overtaken' = (change[i].mark < newest)
        /\ newest' = IF change[i].mark > newest THEN change[i].mark ELSE newest
    BY DEF RevokePublishes
  <2>2. newest \in 0 .. LastSecond /\ newest <= second
    BY DEF AccountsInv, AccountsTypeOK, MarksAboveBarred
  <2>3. ~overtaken' => ~(change[i].mark < newest)
    BY <2>1
  <2>4. overtaken' \in BOOLEAN
    BY <2>1
  <2>5. QED
    BY <1>2, <2>1, <2>2, <2>3, <2>4
<1>5. AccountsTypeOK'
  BY <1>3, <1>4, AccountsAssumption DEF AccountsInv, AccountsTypeOK, RevokePublishes, NoChange
<1>6. MarksAboveBarred'
  BY <1>1, <1>3, <1>4 DEF AccountsInv, AccountsTypeOK, MarksAboveBarred, RevokePublishes, NoChange
<1>7. EntriesFollow'
  BY DEF AccountsInv, EntriesFollow, RevokePublishes
<1>8. SavesStatus'
  BY DEF AccountsInv, AccountsTypeOK, SavesStatus, RevokePublishes, NoChange
<1>9. QED
  BY <1>5, <1>6, <1>7, <1>8 DEF AccountsInv

\* A refused write leaves Redis as it was.
LEMMA PublishFailsInv ==
  ASSUME AccountsInv, NEW i \in Instances, PublishFails(i)
  PROVE  AccountsInv'
<1>1. AccountsTypeOK'
  BY AccountsAssumption DEF AccountsInv, AccountsTypeOK, PublishFails, NoChange
<1>2. MarksAboveBarred'
  BY DEF AccountsInv, AccountsTypeOK, MarksAboveBarred, PublishFails, NoChange
<1>3. EntriesFollow'
  BY DEF AccountsInv, EntriesFollow, PublishFails
<1>4. SavesStatus'
  BY DEF AccountsInv, AccountsTypeOK, SavesStatus, PublishFails, NoChange
<1>5. QED
  BY <1>1, <1>2, <1>3, <1>4 DEF AccountsInv

\* A request on its way remembers nothing yet.
LEMMA GateReadsInv ==
  ASSUME AccountsInv, NEW i \in Instances, GateReads(i)
  PROVE  AccountsInv'
<1>1. AccountsTypeOK'
  BY AccountsAssumption DEF AccountsInv, AccountsTypeOK, GateReads
<1>2. MarksAboveBarred' /\ EntriesFollow' /\ SavesStatus'
  BY DEF AccountsInv, MarksAboveBarred, EntriesFollow, SavesStatus, GateReads
<1>3. QED
  BY <1>1, <1>2 DEF AccountsInv

\* What is remembered is the row's status, or was read before a change.
LEMMA GateFillsInv ==
  ASSUME AccountsInv, NEW i \in Instances, GateFills(i)
  PROVE  AccountsInv'
<1> USE AccountsAssumption
<1>1. AccountsTypeOK'
  BY DEF AccountsInv, AccountsTypeOK, GateFills, GateEntry
<1>2. EntriesFollow'
  <2> SUFFICES ASSUME NEW j \in Instances, gate'[j] # NoEntry
               PROVE  /\ gate'[j].until <= second + GateTtl
                      /\ gate'[j].status # status /\ ~gate'[j].late =>
                            j \notin dropped /\ gate'[j].until <= since + GateTtl
    BY DEF EntriesFollow, GateFills
  <2>1. CASE j = i
    <3>1. gate'[j] = GateEntry(i)
      BY <2>1 DEF AccountsInv, AccountsTypeOK, GateFills
    <3>2. gate'[j].status # status => gate'[j].late
      <4>1. /\ GateEntry(i).status = visit[i]
            /\ GateEntry(i).late = (visit[i] # status)
        BY Zenon DEF GateEntry
      <4>2. QED
        BY <3>1, <4>1, Zenon
    <3>3. gate'[j].until <= second + GateTtl
      BY <3>1 DEF GateEntry, AccountsInv, AccountsTypeOK
    <3>4. QED
      BY <3>2, <3>3
  <2>2. CASE j # i
    BY <2>2 DEF AccountsInv, AccountsTypeOK, EntriesFollow, GateFills
  <2>3. QED
    BY <2>1, <2>2
<1>3. MarksAboveBarred' /\ SavesStatus'
  BY DEF AccountsInv, MarksAboveBarred, SavesStatus, GateFills
<1>4. QED
  BY <1>1, <1>2, <1>3 DEF AccountsInv

\* A process that starts anew remembers nothing; Redis does.
LEMMA InstanceRestartsInv ==
  ASSUME AccountsInv, NEW i \in Instances, InstanceRestarts(i)
  PROVE  AccountsInv'
<1>1. AccountsTypeOK'
  BY AccountsAssumption DEF AccountsInv, AccountsTypeOK, InstanceRestarts, NoChange, NoEntry
<1>2. MarksAboveBarred'
  BY DEF AccountsInv, AccountsTypeOK, MarksAboveBarred, InstanceRestarts, NoChange
<1>3. EntriesFollow'
  BY DEF AccountsInv, AccountsTypeOK, EntriesFollow, InstanceRestarts
<1>4. SavesStatus'
  BY DEF AccountsInv, AccountsTypeOK, SavesStatus, InstanceRestarts, NoChange
<1>5. QED
  BY <1>1, <1>2, <1>3, <1>4 DEF AccountsInv

\* Time only adds to what was set from it.
LEMMA SecondPassesInv ==
  ASSUME AccountsInv, SecondPasses
  PROVE  AccountsInv'
<1> USE AccountsAssumption
<1>1. AccountsTypeOK'
  BY DEF AccountsInv, AccountsTypeOK, SecondPasses
<1>2. MarksAboveBarred'
  BY DEF AccountsInv, AccountsTypeOK, MarksAboveBarred, SecondPasses
<1>3. EntriesFollow'
  BY DEF AccountsInv, AccountsTypeOK, EntriesFollow, SecondPasses
<1>4. SavesStatus'
  BY DEF AccountsInv, SavesStatus, SecondPasses
<1>5. QED
  BY <1>1, <1>2, <1>3, <1>4 DEF AccountsInv

-----------------------------------------------------------------------------
\* No step leaves the invariant.
LEMMA AccountsNextInv == AccountsInv /\ [AccountsNext]_accountsVars => AccountsInv'
<1> SUFFICES ASSUME AccountsInv, [AccountsNext]_accountsVars PROVE AccountsInv'
  OBVIOUS
<1>1. CASE AccountsBegin
  BY <1>1, ChangeReadsInv, GateReadsInv, InstanceRestartsInv DEF AccountsBegin
<1>2. CASE AccountsGoOn
  BY <1>2, SecondPassesInv, StatusSavedInv, InvalidatedInv, RevokeMarksInv, RevokePublishesInv,
     PublishFailsInv, GateFillsInv DEF AccountsGoOn
<1>3. CASE UNCHANGED accountsVars
  <2>1. AccountsTypeOK' /\ MarksAboveBarred'
    BY <1>3 DEF AccountsInv, accountsVars, AccountsTypeOK, MarksAboveBarred
  <2>2. EntriesFollow' /\ SavesStatus'
    BY <1>3 DEF AccountsInv, accountsVars, EntriesFollow, SavesStatus
  <2>3. QED
    BY <2>1, <2>2 DEF AccountsInv
<1>4. QED
  BY <1>1, <1>2, <1>3 DEF AccountsNext

\* The invariant of every behaviour: marks under way are above what is barred, and what is
\* remembered does not outlast GateTtl.
THEOREM AccountsInvariant == AccountsSpec => []AccountsInv
BY AccountsInitInv, AccountsNextInv, PTL DEF AccountsSpec

\* Every variable keeps its type: no change saves a status that does not exist.
THEOREM AccountsTypes == AccountsSpec => []AccountsTypeOK
<1>1. AccountsInv => AccountsTypeOK
  BY DEF AccountsInv
<1>2. QED
  BY <1>1, AccountsInvariant, PTL

\* A token older than the newest mark that reached Redis is active in no process, for any number of
\* processes, order of their writes, failures and restarts, unless an older mark arrived after that
\* one; and one older than all marks which were then on their way is active in none even so.
THEOREM EndedTokens == AccountsSpec => []TokensStayEnded
<1>1. AccountsInv => TokensStayEnded
  <2> SUFFICES ASSUME AccountsInv, NEW i \in Instances, NEW iat \in 0 .. LastSecond,
                      iat < barred \/ (iat < newest /\ ~overtaken)
               PROVE  ~AccessTokenActive(i, iat)
    BY DEF TokensStayEnded
  <2>1. /\ iat \in Nat /\ redisMinIat \in Nat /\ iat < redisMinIat
    BY AccountsAssumption DEF AccountsInv, AccountsTypeOK, MarksAboveBarred
  <2>2. TokenMinIat(i) = redisMinIat
    BY <2>1 DEF TokenMinIat
  <2>3. QED
    BY <2>1, <2>2 DEF AccessTokenActive
<1>2. QED
  BY <1>1, AccountsInvariant, PTL

\* No process goes by an earlier status for longer than GateTtl after a change, nor once it has
\* dropped it, unless a request that overlapped the change brought it back.
THEOREM ChangesSoonFollowed == AccountsSpec => []StatusSoonFollowed
<1>1. AccountsInv => StatusSoonFollowed
  BY DEF AccountsInv, EntriesFollow, StatusSoonFollowed, ReadGateCache
<1>2. QED
  BY <1>1, AccountsInvariant, PTL
=============================================================================
