--------------------------- MODULE PlatformProofs ---------------------------
(***************************************************************************)
(* Proofs about the services of MCPlatform: chat pushes, matrimony         *)
(* profiles, presence, requests for help and legal documents.  Each has an *)
(* inductive invariant of its own (ChatInv, ProfileInv, ...), from which   *)
(* the properties of its module follow.  The last section is about the     *)
(* composition: what is proved of a component holds of the run platform.   *)
(***************************************************************************)
EXTENDS MCPlatform, AccountsProofs, MediaJobsProofs, FiniteSetTheorems, TLAPS

-----------------------------------------------------------------------------
(***************************************************************************)
(* ChatPush                                                                *)
(***************************************************************************)
Notes == [pc : {"none", "clear", "ask", "mark", "held", "fired", "send", "over"},
          key : BOOLEAN, armed : BOOLEAN]

ChatTyped ==
    /\ note \in [ChatMessages -> Notes]
    /\ row \in [ChatMessages -> [delivered : BOOLEAN, read : BOOLEAN]]
    /\ \A m \in ChatMessages : row[m].read => row[m].delivered
    /\ ack \in [ChatMessages -> {"none", "cancel", "save"}]
    /\ redis \in BOOLEAN
    /\ pushed \cup confirmed \cup calledOff \cup forgotten \subseteq ChatMessages

\* The timer of a push that was called off has ended, or will not find its key.
CalledOffStops(m) ==
    m \in calledOff =>
        /\ m \notin pushed
        /\ note[m].pc \in {"held", "fired", "over"}
        /\ note[m].pc # "over" => redis /\ ~note[m].key

\* With Redis, the key of a push that waits is missing only for a reason.
MissingIsTold(m) ==
    redis => /\ note[m].pc \in {"held", "fired"} /\ ~note[m].key => m \in confirmed \cup forgotten
             /\ note[m].pc = "over" => m \in pushed \cup confirmed \cup forgotten

PushedIsOver(m) == m \in pushed => note[m].pc = "over"

ChatInv ==
    /\ ChatTyped
    /\ \A m \in ChatMessages : CalledOffStops(m) /\ MissingIsTold(m) /\ PushedIsOver(m)

ChatPcs == {"none", "clear", "ask", "mark", "held", "fired", "send", "over"}

\* What is left of the type of a step, once the columns of its message are known.
LEMMA NoteSet ==
    ASSUME ChatTyped, NEW m \in ChatMessages, NEW r \in Notes, note' = [note EXCEPT ![m] = r]
    PROVE  /\ note' \in [ChatMessages -> Notes] /\ note'[m] = r
           /\ \A n \in ChatMessages \ {m} : note'[n] = note[n]
  BY DEF ChatTyped

LEMMA NotePcKey ==
    ASSUME ChatTyped, NEW m \in ChatMessages, NEW p \in ChatPcs, NEW k \in BOOLEAN,
           note' = [note EXCEPT ![m].pc = p, ![m].key = k]
    PROVE  /\ note' \in [ChatMessages -> Notes]
           /\ note'[m].pc = p /\ note'[m].key = k /\ note'[m].armed = note[m].armed
           /\ \A n \in ChatMessages \ {m} : note'[n] = note[n]
  <1> DEFINE r == [note[m] EXCEPT !.pc = p, !.key = k]
  <1>1. note' = [note EXCEPT ![m] = r]
    BY DEF ChatTyped
  <1>2. r \in Notes /\ r.pc = p /\ r.key = k /\ r.armed = note[m].armed
    BY DEF ChatTyped, Notes, ChatPcs
  <1> HIDE DEF r
  <1> QED BY <1>1, <1>2, NoteSet

LEMMA NotePcArmed ==
    ASSUME ChatTyped, NEW m \in ChatMessages, NEW p \in ChatPcs, NEW a \in BOOLEAN,
           note' = [note EXCEPT ![m].pc = p, ![m].armed = a]
    PROVE  /\ note' \in [ChatMessages -> Notes]
           /\ note'[m].pc = p /\ note'[m].key = note[m].key /\ note'[m].armed = a
           /\ \A n \in ChatMessages \ {m} : note'[n] = note[n]
  <1> DEFINE r == [note[m] EXCEPT !.pc = p, !.armed = a]
  <1>1. note' = [note EXCEPT ![m] = r]
    BY DEF ChatTyped
  <1>2. r \in Notes /\ r.pc = p /\ r.key = note[m].key /\ r.armed = a
    BY DEF ChatTyped, Notes, ChatPcs
  <1> HIDE DEF r
  <1> QED BY <1>1, <1>2, NoteSet

LEMMA NotePc ==
    ASSUME ChatTyped, NEW m \in ChatMessages, NEW p \in ChatPcs, note' = [note EXCEPT ![m].pc = p]
    PROVE  /\ note' \in [ChatMessages -> Notes]
           /\ note'[m].pc = p /\ note'[m].key = note[m].key /\ note'[m].armed = note[m].armed
           /\ \A n \in ChatMessages \ {m} : note'[n] = note[n]
  BY DEF ChatTyped, Notes, ChatPcs

\* The step of one message leaves the invariant of the others as it was.
LEMMA ChatKept ==
    ASSUME ChatInv, NEW m \in ChatMessages,
           note' \in [ChatMessages -> Notes],
           \A n \in ChatMessages \ {m} : note'[n] = note[n],
           row' = row, redis' = redis, ack' \in {ack, [ack EXCEPT ![m] = "save"]},
           pushed' \in {pushed, pushed \cup {m}}, confirmed' \in {confirmed, confirmed \cup {m}},
           calledOff' \in {calledOff, calledOff \cup {m}}, forgotten' \in {forgotten, forgotten \cup {m}},
           CalledOffStops(m)', MissingIsTold(m)', PushedIsOver(m)'
    PROVE  ChatInv'
  <1>1. ASSUME NEW n \in ChatMessages \ {m}
        PROVE  CalledOffStops(n)' /\ MissingIsTold(n)' /\ PushedIsOver(n)'
    <2>1. /\ n \in pushed' <=> n \in pushed
          /\ n \in confirmed' <=> n \in confirmed
          /\ n \in calledOff' <=> n \in calledOff
          /\ n \in forgotten' <=> n \in forgotten
          /\ redis' = redis /\ note'[n] = note[n]
      BY <1>1
    <2>2. CalledOffStops(n) /\ MissingIsTold(n) /\ PushedIsOver(n)
      BY DEF ChatInv
    <2> QED BY <2>1, <2>2 DEF CalledOffStops, MissingIsTold, PushedIsOver
  <1>2. ChatTyped'
    BY DEF ChatInv, ChatTyped
  <1> QED BY <1>1, <1>2 DEF ChatInv

LEMMA SenderSteps ==
    ASSUME ChatInv, NEW m \in ChatMessages,
           \/ SendMessage(m) \/ ClearKey(m) \/ AskOnline(m) \/ HoldPush(m) \/ KeyExpires(m)
           \/ TimerFires(m) \/ TimerLooks(m) \/ Push(m) \/ SenderDies(m)
    PROVE  ChatInv'
  <1> DEFINE Typed == /\ note' \in [ChatMessages -> Notes]
                      /\ \A n \in ChatMessages \ {m} : note'[n] = note[n]
             Frame == /\ row' = row /\ redis' = redis /\ ack' = ack
                      /\ confirmed' = confirmed /\ calledOff' = calledOff
                      /\ pushed' \in {pushed, pushed \cup {m}}
                      /\ forgotten' \in {forgotten, forgotten \cup {m}}
             Settles == CalledOffStops(m)' /\ MissingIsTold(m)' /\ PushedIsOver(m)'
  <1>0. /\ ChatTyped /\ note[m] \in Notes
        /\ CalledOffStops(m) /\ MissingIsTold(m) /\ PushedIsOver(m)
    BY DEF ChatInv, ChatTyped
  <1>1. CASE SendMessage(m)
    <2>1. Typed /\ Frame /\ note'[m].pc = "clear"
      BY <1>0, <1>1, NotePc DEF SendMessage, NoteGoes, chatHistory, ChatPcs
    <2>2. Settles
      BY <1>0, <1>1, <2>1
         DEF SendMessage, NoteGoes, chatHistory, CalledOffStops, MissingIsTold, PushedIsOver
    <2> QED BY <2>1, <2>2, ChatKept
  <1>2. CASE ClearKey(m)
    <2>1. Typed /\ Frame /\ note'[m].pc = "ask"
      BY <1>0, <1>2, NotePcKey DEF ClearKey, chatHistory, ChatPcs
    <2>2. Settles
      BY <1>0, <1>2, <2>1
         DEF ClearKey, chatHistory, CalledOffStops, MissingIsTold, PushedIsOver
    <2> QED BY <2>1, <2>2, ChatKept
  <1>3. CASE AskOnline(m)
    <2>1. Typed /\ Frame /\ note'[m].pc \in {"mark", "send"}
      BY <1>0, <1>3, NotePc DEF AskOnline, NoteGoes, chatHistory, ChatPcs
    <2>2. Settles
      BY <1>0, <1>3, <2>1
         DEF AskOnline, NoteGoes, chatHistory, CalledOffStops, MissingIsTold, PushedIsOver
    <2> QED BY <2>1, <2>2, ChatKept
  <1>4. CASE HoldPush(m)
    <2>1. PICK marked \in BOOLEAN :
              /\ marked => redis
              /\ note' = [note EXCEPT ![m] = [pc |-> "held", key |-> marked, armed |-> TRUE]]
              /\ Forget(m, redis /\ ~marked)
      BY <1>4 DEF HoldPush
    <2>2. Typed /\ note'[m].pc = "held" /\ note'[m].key = marked
      BY <1>0, <2>1 DEF ChatTyped, Notes
    <2>3. note[m].pc = "mark" /\ UNCHANGED <<row, ack, redis, pushed, confirmed, calledOff>>
      BY <1>4 DEF HoldPush
    <2>4. forgotten' = IF redis /\ ~marked THEN forgotten \cup {m} ELSE forgotten
      BY <2>1 DEF Forget
    <2>5. Settles
      BY <1>0, <2>2, <2>3, <2>4 DEF CalledOffStops, MissingIsTold, PushedIsOver
    <2>6. Frame
      BY <2>3, <2>4
    <2> QED BY <2>2, <2>5, <2>6, ChatKept
  <1>5. CASE KeyExpires(m)
    <2>1. Typed /\ note'[m].pc = note[m].pc /\ ~note'[m].key
      BY <1>0, <1>5 DEF KeyExpires, ChatTyped, Notes
    <2>2. Settles
      BY <1>0, <1>5, <2>1
         DEF KeyExpires, Forget, CalledOffStops, MissingIsTold, PushedIsOver
    <2> QED BY <1>5, <2>1, <2>2, ChatKept DEF KeyExpires, Forget
  <1>6. CASE TimerFires(m)
    <2>1. Typed /\ Frame /\ note'[m].pc = "fired" /\ note'[m].key = note[m].key
      BY <1>0, <1>6, NotePcArmed DEF TimerFires, chatHistory, ChatPcs
    <2>2. Settles
      BY <1>0, <1>6, <2>1
         DEF TimerFires, chatHistory, CalledOffStops, MissingIsTold, PushedIsOver
    <2> QED BY <2>1, <2>2, ChatKept
  <1>7. CASE TimerLooks(m)
    <2>1. \/ StillPending(m) /\ note' = [note EXCEPT ![m].pc = "send", ![m].key = FALSE] /\ forgotten' = forgotten
          \/ ~StillPending(m) /\ note' = [note EXCEPT ![m].pc = "over"] /\ forgotten' = forgotten
          \/ redis /\ note' = [note EXCEPT ![m].pc = "over"] /\ forgotten' = forgotten \cup {m}
      BY <1>7 DEF TimerLooks, NoteGoes, Forget
    <2>2. note[m].pc = "fired" /\ UNCHANGED <<row, ack, redis, pushed, confirmed, calledOff>>
      BY <1>7 DEF TimerLooks
    <2>3. Typed
      BY <1>0, <2>1, NotePc, NotePcKey DEF ChatPcs
    <2>4. Settles
      <3>1. CASE StillPending(m) /\ note' = [note EXCEPT ![m].pc = "send", ![m].key = FALSE]
                   /\ forgotten' = forgotten
        <4>1. note'[m].pc = "send"
          BY <1>0, <3>1, NotePcKey DEF ChatPcs
        <4> QED
          BY <1>0, <2>2, <3>1, <4>1 DEF StillPending, CalledOffStops, MissingIsTold, PushedIsOver
      <3>2. CASE ~StillPending(m) /\ note' = [note EXCEPT ![m].pc = "over"] /\ forgotten' = forgotten
        <4>1. note'[m].pc = "over"
          BY <1>0, <3>2, NotePc DEF ChatPcs
        <4> QED
          BY <1>0, <2>2, <3>2, <4>1 DEF StillPending, CalledOffStops, MissingIsTold, PushedIsOver
      <3>3. CASE redis /\ note' = [note EXCEPT ![m].pc = "over"] /\ forgotten' = forgotten \cup {m}
        <4>1. note'[m].pc = "over"
          BY <1>0, <3>3, NotePc DEF ChatPcs
        <4> QED
          BY <1>0, <2>2, <3>3, <4>1 DEF CalledOffStops, MissingIsTold, PushedIsOver
      <3> QED BY <2>1, <3>1, <3>2, <3>3
    <2>5. Frame
      BY <2>1, <2>2
    <2> QED BY <2>3, <2>4, <2>5, ChatKept
  <1>8. CASE Push(m)
    <2>1. Typed /\ Frame /\ note'[m].pc = "over"
      BY <1>0, <1>8, NotePc DEF Push, NoteGoes, ChatPcs
    <2>2. Settles
      BY <1>0, <1>8, <2>1
         DEF Push, NoteGoes, CalledOffStops, MissingIsTold, PushedIsOver
    <2> QED BY <2>1, <2>2, ChatKept
  <1>9. CASE SenderDies(m)
    <2>1. Typed /\ Frame /\ note'[m].pc = "over"
      BY <1>0, <1>9, NotePcArmed DEF SenderDies, Forget, ChatPcs
    <2>2. Settles
      BY <1>0, <1>9, <2>1
         DEF SenderDies, Forget, CalledOffStops, MissingIsTold, PushedIsOver
    <2> QED BY <2>1, <2>2, ChatKept
  <1> QED BY <1>1, <1>2, <1>3, <1>4, <1>5, <1>6, <1>7, <1>8, <1>9

LEMMA AckSteps ==
    ASSUME ChatInv, NEW m \in ChatMessages,
           AckReads(m) \/ AckCancels(m) \/ AckSaves(m) \/ AckDies(m) \/ MarkRead(m)
    PROVE  ChatInv'
  <1>1. CASE AckCancels(m)
    <2>1. PICK near \in BOOLEAN, removed \in BOOLEAN :
              /\ ~redis => near /\ ~removed
              /\ note' = [note EXCEPT ![m].key = @ /\ ~removed, ![m].armed = @ /\ ~near,
                             ![m].pc = IF @ = "held" /\ near THEN "over" ELSE @]
              /\ calledOff' = IF note[m].pc = "held" /\ (near \/ removed)
                              THEN calledOff \cup {m} ELSE calledOff
      BY <1>1 DEF AckCancels
    <2>2. /\ confirmed' = confirmed \cup {m} /\ ack' = [ack EXCEPT ![m] = "save"]
          /\ UNCHANGED <<row, redis, pushed, forgotten>>
      BY <1>1 DEF AckCancels
    <2> DEFINE p == IF note[m].pc = "held" /\ near THEN "over" ELSE note[m].pc
               k == note[m].key /\ ~removed
               a == note[m].armed /\ ~near
               r == [note[m] EXCEPT !.key = k, !.armed = a, !.pc = p]
    <2>3. note' = [note EXCEPT ![m] = r]
      BY <2>1 DEF ChatInv, ChatTyped
    <2>4. note[m] \in Notes /\ p \in ChatPcs /\ k \in BOOLEAN /\ a \in BOOLEAN
      BY DEF ChatInv, ChatTyped, Notes, ChatPcs
    <2>5. r \in Notes /\ r.pc = p /\ r.key = k
      <3> HIDE DEF p, k, a
      <3> QED BY <2>4 DEF Notes, ChatPcs
    <2>6. /\ note' \in [ChatMessages -> Notes] /\ note'[m].pc = p /\ note'[m].key = k
          /\ \A n \in ChatMessages \ {m} : note'[n] = note[n]
      <3> HIDE DEF r
      <3> QED BY <2>3, <2>5, NoteSet DEF ChatInv
    <2>7. CalledOffStops(m)' /\ MissingIsTold(m)' /\ PushedIsOver(m)'
      <3>1. CalledOffStops(m) /\ MissingIsTold(m) /\ PushedIsOver(m)
        BY DEF ChatInv
      <3> QED BY <3>1, <2>1, <2>2, <2>4, <2>6 DEF CalledOffStops, MissingIsTold, PushedIsOver
    <2> QED BY <2>1, <2>2, <2>6, <2>7, ChatKept
  <1>2. CASE AckReads(m) \/ AckSaves(m) \/ AckDies(m) \/ MarkRead(m)
    <2>1. ack' \in [ChatMessages -> {"none", "cancel", "save"}]
      BY <1>2 DEF AckReads, AckSaves, AckDies, MarkRead, ChatInv, ChatTyped
    <2>2. \/ row' = row
          \/ row' = [row EXCEPT ![m].delivered = TRUE]
          \/ row' = [row EXCEPT ![m] = [delivered |-> TRUE, read |-> TRUE]]
      BY <1>2 DEF AckReads, AckSaves, AckDies, MarkRead
    <2>3. /\ row' \in [ChatMessages -> [delivered : BOOLEAN, read : BOOLEAN]]
          /\ \A n \in ChatMessages \ {m} : row'[n] = row[n]
          /\ row'[m] = row[m] \/ row'[m].delivered
      <3>1. CASE row' = row
        BY <3>1 DEF ChatInv, ChatTyped
      <3>2. CASE row' = [row EXCEPT ![m].delivered = TRUE]
        BY <3>2 DEF ChatInv, ChatTyped
      <3>3. CASE row' = [row EXCEPT ![m] = [delivered |-> TRUE, read |-> TRUE]]
        BY <3>3 DEF ChatInv, ChatTyped
      <3> QED BY <2>2, <3>1, <3>2, <3>3
    <2>4. UNCHANGED <<note, redis, pushed, confirmed, calledOff, forgotten>>
      BY <1>2 DEF AckReads, AckSaves, AckDies, MarkRead, chatHistory
    <2>5. ChatTyped'
      BY <2>1, <2>3, <2>4 DEF ChatInv, ChatTyped
    <2> QED
      BY <2>4, <2>5 DEF ChatInv, CalledOffStops, MissingIsTold, PushedIsOver
  <1> QED BY <1>1, <1>2

LEMMA ChatSteps ==
    ASSUME ChatInv, [ChatNext]_chatVars
    PROVE  ChatInv'
  <1>1. CASE UNCHANGED chatVars
    BY <1>1 DEF chatVars, ChatInv, ChatTyped, CalledOffStops, MissingIsTold, PushedIsOver
  <1> QED BY <1>1, SenderSteps, AckSteps DEF ChatNext

\* The invariant of the pushes: a push called off can no longer be sent, and one that is not sent
\* was confirmed or forgotten (messagePushQueue.ts).
THEOREM ChatInvariant == ChatSpec => []ChatInv
  <1>1. ChatInit => ChatInv
    BY DEF ChatInit, ChatInv, ChatTyped, Notes, CalledOffStops, MissingIsTold, PushedIsOver
  <1> QED BY <1>1, ChatSteps, PTL DEF ChatSpec

\* The type invariant of the pushes.
THEOREM ChatTypes == ChatSpec => []ChatTypeOK
  <1>1. ChatInv => ChatTypeOK
    BY DEF ChatInv, ChatTyped, Notes, ChatTypeOK
  <1> QED BY <1>1, ChatInvariant, PTL

\* A push that a confirmation has called off is never sent, whichever process got the confirmation
\* and whenever the timer fires, and with Redis a push that is over was sent, confirmed or forgotten
\* (messagePushQueue.ts).
THEOREM PushesSettle == ChatSpec => []PushSettled
  <1>1. ChatInv => PushSettled
    BY DEF ChatInv, CalledOffStops, MissingIsTold, PushSettled
  <1> QED BY <1>1, ChatInvariant, PTL

-----------------------------------------------------------------------------
(***************************************************************************)
(* MatrimonyProfiles: the suspension.  What newer and review hold does not *)
(* matter to it.                                                           *)
(***************************************************************************)
FormData == [form : 0 .. MaxForms, live : BOOLEAN, submitted : BOOLEAN, asked : BOOLEAN]
ApplicationRows == [status : {"NONE", "PENDING", "APPROVED", "REJECTED"}, form : 0 .. MaxForms,
                    live : BOOLEAN, submitted : BOOLEAN, asked : BOOLEAN]
ProfileData == [form : 0 .. MaxForms, active : BOOLEAN, suspended : BOOLEAN,
                life : {"ACTIVE", "PAUSED", "CLOSED"}]
OpKinds == {"none", "draft", "submit", "section", "again", "life", "approve", "photo", "reject",
            "changes", "update", "suspend"}
OpPcs == {"idle", "checked", "seek", "save", "resave", "noted", "again", "life", "approve", "recheck",
          "copy", "close", "activate", "photo", "merge", "reject", "changes", "suspend"}
Ops == [kind : OpKinds, pc : OpPcs, row : 0 .. MaxApplications, seen : FormData,
        held : ProfileData, early : BOOLEAN]

ProfileTyped ==
    /\ application \in [Applications -> ApplicationRows]
    /\ profile \in ProfileData
    /\ op \in [ProfileCalls -> Ops]
    /\ forms \in 0 .. MaxForms
    /\ banned \in BOOLEAN

\* An approval that is about to read its row again has one.
RowRead(o) == o.pc \in {"approve", "recheck"} => o.row \in Applications

\* What a request that began after the suspension will write is suspended, too.
KeepsSuspension(o) == banned /\ ~o.early /\ o.pc \in {"life", "merge"} => o.held.suspended

SuspensionKept ==
    /\ banned => profile.suspended
    /\ \A c \in ProfileCalls : KeepsSuspension(op[c])

ProfileInv ==
    /\ ProfileTyped
    /\ \A c \in ProfileCalls : RowRead(op[c])
    /\ SuspensionKept

LEMMA NoProfileTyped == NoProfile \in ProfileData /\ NoForm \in FormData /\ NoOp \in Ops
  BY ProfilesAssumption DEF NoProfile, NoForm, NoOp, ProfileData, FormData, Ops, OpKinds, OpPcs

LEMMA DataTyped ==
    ASSUME ProfileTyped, NEW a \in Applications
    PROVE  Data(a) \in FormData
  BY DEF ProfileTyped, ApplicationRows, FormData, Data

LEMMA BareTyped ==
    ASSUME NEW data \in FormData
    PROVE  Bare(data) \in FormData
  BY DEF FormData, Bare

LEMMA FilledTyped ==
    ASSUME ProfileTyped, NEW a \in Applications, NEW data \in FormData
    PROVE  Filled(a, data) \in ApplicationRows /\ Filled(a, data).status = application[a].status
  <1> DEFINE row0 == application[a]
             r == [row0 EXCEPT !.form = data.form, !.live = data.live,
                               !.submitted = data.submitted, !.asked = data.asked]
  <1>1. row0 \in ApplicationRows
    BY DEF ProfileTyped
  <1>2. r \in ApplicationRows /\ r.status = row0.status
    <2> HIDE DEF row0
    <2> QED BY <1>1 DEF ApplicationRows, FormData
  <1> QED BY <1>2 DEF Filled

\* One request's next state; the profile stays suspended if it has to.
LEMMA ProfileOpKept ==
    ASSUME ProfileInv, NEW c \in ProfileCalls, NEW r \in Ops,
           op' = [op EXCEPT ![c] = r],
           application' \in [Applications -> ApplicationRows], forms' \in 0 .. MaxForms,
           profile' \in ProfileData, banned' \in BOOLEAN,
           banned' => banned, banned' => profile'.suspended,
           RowRead(r),
           banned' /\ ~r.early /\ r.pc \in {"life", "merge"} => r.held.suspended
    PROVE  ProfileInv'
  <1>1. op' \in [ProfileCalls -> Ops] /\ op'[c] = r /\ \A d \in ProfileCalls \ {c} : op'[d] = op[d]
    BY DEF ProfileInv, ProfileTyped
  <1>2. ASSUME NEW d \in ProfileCalls
        PROVE  RowRead(op[d])' /\ KeepsSuspension(op[d])'
    <2>1. CASE d = c
      BY <1>1, <2>1 DEF RowRead, KeepsSuspension
    <2>2. CASE d # c
      BY <1>1, <2>2 DEF ProfileInv, SuspensionKept, RowRead, KeepsSuspension
    <2> QED BY <2>1, <2>2
  <1> QED BY <1>1, <1>2 DEF ProfileInv, ProfileTyped, SuspensionKept

\* What a step writes into op.
LEMMA OpPcSet ==
    ASSUME NEW o \in Ops, NEW p \in OpPcs
    PROVE  LET r == [o EXCEPT !.pc = p] IN
           r \in Ops /\ r.pc = p /\ r.row = o.row /\ r.held = o.held /\ r.early = o.early
  BY DEF Ops

\* The same for a step that leaves the profile as it is.
LEMMA ProfileReadKept ==
    ASSUME ProfileInv, NEW c \in ProfileCalls, NEW r \in Ops,
           op' = [op EXCEPT ![c] = r],
           application' \in [Applications -> ApplicationRows], forms' \in 0 .. MaxForms,
           profile' = profile, banned' = banned,
           RowRead(r),
           r.pc \in {"life", "merge"} => r.held.suspended = profile.suspended
    PROVE  ProfileInv'
  BY ProfileOpKept DEF ProfileInv, ProfileTyped, SuspensionKept

LEMMA ProfileEndKept ==
    ASSUME ProfileInv, NEW c \in ProfileCalls, ProfileEnds(c),
           application' \in [Applications -> ApplicationRows], forms' \in 0 .. MaxForms,
           profile' \in ProfileData, banned' \in BOOLEAN, banned' => banned,
           banned' => profile'.suspended
    PROVE  ProfileInv'
  BY NoProfileTyped, ProfileOpKept DEF ProfileEnds, RowRead, NoOp

LEMMA ProfileGoKept ==
    ASSUME ProfileInv, NEW c \in ProfileCalls, NEW p \in OpPcs \ {"life", "merge", "approve", "recheck"},
           ProfileGoes(c, p),
           application' \in [Applications -> ApplicationRows], forms' \in 0 .. MaxForms,
           profile' \in ProfileData, banned' \in BOOLEAN, banned' => banned,
           banned' => profile'.suspended
    PROVE  ProfileInv'
  <1> DEFINE r == [op[c] EXCEPT !.pc = p]
  <1>1. op' = [op EXCEPT ![c] = r]
    BY DEF ProfileGoes, ProfileInv, ProfileTyped
  <1>2. r \in Ops /\ r.pc = p
    BY OpPcSet DEF ProfileInv, ProfileTyped
  <1> HIDE DEF r
  <1> QED BY <1>1, <1>2, ProfileOpKept DEF RowRead

LEMMA SaveAtPc ==
    ASSUME NEW kind, NEW a
    PROVE  SaveAt(kind, a) \in {"seek", "save"}
  BY DEF SaveAt

\* Reopening a row keeps its type.
LEMMA ReopenedTyped ==
    ASSUME ProfileTyped, NEW a \in Applications
    PROVE  Reopened(a) \in [Applications -> ApplicationRows]
  <1> DEFINE r == [application[a] EXCEPT !.status = "PENDING", !.submitted = FALSE, !.asked = FALSE]
  <1>1. r \in ApplicationRows
    BY DEF ProfileTyped, ApplicationRows
  <1>2. Reopened(a) = [application EXCEPT ![a] = r]
    BY DEF ProfileTyped, Reopened
  <1> HIDE DEF r
  <1> QED BY <1>1, <1>2 DEF ProfileTyped

LEMMA ProfileReadsStep ==
    ASSUME ProfileInv, NEW c \in ProfileCalls, NEW kind \in {"draft", "submit", "section"},
           NEW rows \in SUBSET Applications,
           forms < MaxForms, Reads(c, kind, rows), forms' = forms + 1,
           UNCHANGED <<application, profile, banned>>
    PROVE  ProfileInv'
  <1>1. PICK a \in IF rows = {} THEN {0} ELSE rows, live \in {kind = "submit", TRUE} :
            op' = [op EXCEPT ![c] = [NoOp EXCEPT !.kind = kind, !.pc = SaveAt(kind, a), !.row = a,
                      !.seen = [form |-> forms + 1, live |-> live, submitted |-> kind # "draft",
                                asked |-> a # 0 /\ kind # "section" /\ application[a].asked]]]
    BY DEF Reads
  <1> DEFINE asked0 == a # 0 /\ kind # "section" /\ application[a].asked
             submitted0 == kind # "draft"
             data == [form |-> forms + 1, live |-> live, submitted |-> submitted0, asked |-> asked0]
             pc0 == SaveAt(kind, a)
             r == [NoOp EXCEPT !.kind = kind, !.pc = pc0, !.row = a, !.seen = data]
  <1>2. a \in 0 .. MaxApplications /\ forms + 1 \in 0 .. MaxForms /\ live \in BOOLEAN
    <2>1. a \in 0 .. MaxApplications
      BY ProfilesAssumption DEF Applications
    <2>2. forms + 1 \in 0 .. MaxForms
      BY ProfilesAssumption DEF ProfileInv, ProfileTyped
    <2>3. live \in BOOLEAN
      OBVIOUS
    <2> QED BY <2>1, <2>2, <2>3
  <1>3. asked0 \in BOOLEAN /\ submitted0 \in BOOLEAN
    OBVIOUS
  <1>4. data \in FormData
    <2> HIDE DEF asked0, submitted0
    <2> QED BY <1>2, <1>3 DEF FormData
  <1>5. op' = [op EXCEPT ![c] = r]
    BY <1>1
  <1>6. r \in Ops /\ r.pc \in {"seek", "save"}
    <2>2. pc0 \in {"seek", "save"}
      BY SaveAtPc
    <2> HIDE DEF data, pc0
    <2>1. kind \in OpKinds /\ pc0 \in OpPcs
      BY <2>2 DEF OpKinds, OpPcs
    <2> QED BY <1>2, <1>4, <2>1, <2>2, NoProfileTyped DEF Ops, NoOp
  <1> HIDE DEF r
  <1> QED BY <1>2, <1>5, <1>6, ProfileReadKept DEF RowRead, ProfileInv, ProfileTyped

LEMMA ProfileBegins ==
    ASSUME ProfileInv, NEW c \in ProfileCalls,
           \/ DraftChecks(c) \/ SubmitReads(c) \/ SectionReads(c) \/ AccountPhoto(c) \/ LifeReads(c)
           \/ DraftReads(c)
    PROVE  ProfileInv'
  <1> USE DEF OpKinds, OpPcs
  <1>1. CASE DraftChecks(c)
    <2> DEFINE r == [NoOp EXCEPT !.kind = "draft", !.pc = "checked"]
    <2>1. r \in Ops /\ r.pc = "checked"
      BY NoProfileTyped DEF Ops, NoOp
    <2>2. op' = [op EXCEPT ![c] = r]
      BY <1>1 DEF DraftChecks
    <2> HIDE DEF r
    <2> QED
      BY <1>1, <2>1, <2>2, ProfileReadKept DEF DraftChecks, RowRead, ProfileInv, ProfileTyped
  <1>2. CASE SubmitReads(c)
    <2>1. LatestPending \in SUBSET Applications
      BY DEF LatestPending, Pending
    <2> QED BY <1>2, <2>1, ProfileReadsStep DEF SubmitReads
  <1>3. CASE SectionReads(c)
    <2>1. Pending \in SUBSET Applications
      BY DEF Pending
    <2> QED BY <1>3, <2>1, ProfileReadsStep DEF SectionReads
  <1>4. CASE AccountPhoto(c)
    <2> DEFINE r == [NoOp EXCEPT !.kind = "again", !.pc = "again"]
    <2>1. r \in Ops /\ r.pc = "again"
      BY NoProfileTyped DEF Ops, NoOp
    <2>2. op' = [op EXCEPT ![c] = r]
      BY <1>4 DEF AccountPhoto
    <2> HIDE DEF r
    <2> QED
      BY <1>4, <2>1, <2>2, ProfileReadKept DEF AccountPhoto, RowRead, ProfileInv, ProfileTyped
  <1>5. CASE LifeReads(c)
    <2>1. PICK next \in {"ACTIVE", "PAUSED", "CLOSED"} \ {profile.life} :
              op' = [op EXCEPT ![c] = [NoOp EXCEPT !.kind = "life", !.pc = "life",
                                                   !.held = [profile EXCEPT !.life = next]]]
      BY <1>5 DEF LifeReads
    <2> DEFINE json == [profile EXCEPT !.life = next]
               r == [NoOp EXCEPT !.kind = "life", !.pc = "life", !.held = json]
    <2>2. json \in ProfileData /\ json.suspended = profile.suspended
      BY DEF ProfileInv, ProfileTyped, ProfileData
    <2>3. r \in Ops /\ r.pc = "life" /\ r.held = json
      <3> HIDE DEF json
      <3> QED BY <2>2, NoProfileTyped DEF Ops, NoOp
    <2>4. op' = [op EXCEPT ![c] = r]
      BY <2>1
    <2> HIDE DEF r, json
    <2> QED
      BY <1>5, <2>2, <2>3, <2>4, ProfileReadKept
         DEF LifeReads, RowRead, ProfileInv, ProfileTyped
  <1>6. CASE DraftReads(c)
    <2>1. LatestPending \in SUBSET Applications
      BY DEF LatestPending, Pending
    <2> QED BY <1>6, <2>1, ProfileReadsStep DEF DraftReads
  <1> QED BY <1>1, <1>2, <1>3, <1>4, <1>5, <1>6

LEMMA ProfileMemberSteps ==
    ASSUME ProfileInv, NEW c \in ProfileCalls,
           Seek(c) \/ Save(c) \/ SaveAgain(c) \/ ReviewAgain(c) \/ LifeWrites(c) \/ ProfileOpDies(c)
    PROVE  ProfileInv'
  <1> USE DEF OpKinds, OpPcs
  <1>0. /\ ProfileTyped /\ op[c] \in Ops /\ op[c].seen \in FormData
        /\ banned => profile.suspended
        /\ KeepsSuspension(op[c])
    BY DEF ProfileInv, ProfileTyped, SuspensionKept, Ops
  <1>1. CASE Save(c)
    <2>1. PICK a \in IF op[c].row # 0 THEN {op[c].row}
                     ELSE {b \in Applications : application[b].status = "NONE"} :
              /\ application' = [application EXCEPT ![a] =
                    [Filled(a, op[c].seen) EXCEPT !.status = IF op[c].row = 0 THEN "PENDING" ELSE @]]
              /\ \/ /\ op[c].kind = "submit"
                    /\ op' = [op EXCEPT ![c].pc = "resave", ![c].row = a]
                 \/ op[c].kind # "submit" /\ ProfileEnds(c)
                 \/ op[c].kind = "section" /\ ProfileGoes(c, "again")
      BY <1>1 DEF Save
    <2>2. UNCHANGED <<review, profile, forms, approved, banned>>
      BY <1>1 DEF Save
    <2>3. a \in Applications
      BY <1>0, ProfilesAssumption DEF Ops, Applications
    <2> DEFINE filled == Filled(a, op[c].seen)
               is == IF op[c].row = 0 THEN "PENDING" ELSE filled.status
               saved == [filled EXCEPT !.status = is]
    <2>4. saved \in ApplicationRows
      <3>1. filled \in ApplicationRows /\ filled.status = application[a].status
        BY <1>0, <2>3, FilledTyped
      <3> HIDE DEF filled
      <3> QED BY <3>1 DEF ApplicationRows
    <2>5. application' \in [Applications -> ApplicationRows]
      <3>1. application' = [application EXCEPT ![a] = saved]
        BY <2>1
      <3> HIDE DEF saved
      <3> QED BY <1>0, <3>1, <2>4 DEF ProfileTyped
    <2>6. CASE op' = [op EXCEPT ![c].pc = "resave", ![c].row = a]
      <3> DEFINE r == [op[c] EXCEPT !.pc = "resave", !.row = a]
      <3>1. op' = [op EXCEPT ![c] = r]
        BY <1>0, <2>6 DEF ProfileTyped
      <3>2. r \in Ops /\ r.pc = "resave"
        <4>1. a \in 0 .. MaxApplications
          BY <2>3, ProfilesAssumption DEF Applications
        <4> QED BY <1>0, <4>1 DEF Ops
      <3> HIDE DEF r
      <3> QED BY <1>0, <2>2, <2>5, <3>1, <3>2, ProfileReadKept DEF RowRead, ProfileTyped
    <2>7. CASE ProfileEnds(c)
      BY <1>0, <2>2, <2>5, <2>7, ProfileEndKept DEF ProfileTyped
    <2>8. CASE ProfileGoes(c, "again")
      BY <1>0, <2>2, <2>5, <2>8, ProfileGoKept DEF ProfileTyped
    <2> QED BY <2>1, <2>6, <2>7, <2>8
  <1>2. CASE SaveAgain(c)
    <2> DEFINE a == op[c].row
               filled == Filled(a, op[c].seen)
    <2>1. application' = [application EXCEPT ![a] = filled]
      BY <1>2 DEF SaveAgain
    <2>2. a \in Applications => filled \in ApplicationRows
      BY <1>0, FilledTyped
    <2>3. application' \in [Applications -> ApplicationRows]
      <3> HIDE DEF filled, a
      <3> QED BY <1>0, <2>1, <2>2 DEF ProfileTyped
    <2> QED BY <1>0, <1>2, <2>3, ProfileGoKept DEF SaveAgain, ProfileTyped
  <1>3. CASE ReviewAgain(c)
    <2>1. CASE ProfileEnds(c)
      BY <1>0, <1>3, <2>1, ProfileEndKept DEF ReviewAgain, ProfileTyped
    <2>2. CASE \E a \in IF Pending = {} THEN {0} ELSE LatestPending :
                   op' = [op EXCEPT ![c] = [NoOp EXCEPT !.kind = "again", !.pc = SaveAt("again", a), !.row = a,
                             !.seen = [form |-> profile.form, live |-> TRUE, submitted |-> TRUE,
                                       asked |-> a # 0 /\ application[a].asked]]]
      <3>1. PICK a \in IF Pending = {} THEN {0} ELSE LatestPending :
                   op' = [op EXCEPT ![c] = [NoOp EXCEPT !.kind = "again", !.pc = SaveAt("again", a), !.row = a,
                             !.seen = [form |-> profile.form, live |-> TRUE, submitted |-> TRUE,
                                       asked |-> a # 0 /\ application[a].asked]]]
        BY <2>2
      <3> DEFINE asked0 == a # 0 /\ application[a].asked
                 data == [form |-> profile.form, live |-> TRUE, submitted |-> TRUE, asked |-> asked0]
                 pc0 == SaveAt("again", a)
                 r == [NoOp EXCEPT !.kind = "again", !.pc = pc0, !.row = a, !.seen = data]
      <3>2. a \in 0 .. MaxApplications
        BY ProfilesAssumption DEF Applications, LatestPending, Pending
      <3>3. asked0 \in BOOLEAN
        <4>1. a = 0 \/ a \in Applications
          BY ProfilesAssumption DEF LatestPending, Pending
        <4> QED BY <1>0, <4>1 DEF ProfileTyped, ApplicationRows
      <3>4. data \in FormData
        <4> HIDE DEF asked0
        <4> QED BY <1>0, <3>3 DEF ProfileTyped, ProfileData, FormData
      <3>5. op' = [op EXCEPT ![c] = r]
        BY <3>1
      <3>6. r \in Ops /\ r.pc \in {"seek", "save"}
        <4>1. pc0 \in {"seek", "save"}
          BY SaveAtPc
        <4> HIDE DEF data, pc0
        <4> QED BY <3>2, <3>4, <4>1, NoProfileTyped DEF Ops, NoOp
      <3> HIDE DEF r
      <3> QED BY <1>0, <1>3, <3>5, <3>6, ProfileReadKept DEF ReviewAgain, RowRead, ProfileTyped
    <2> QED BY <1>3, <2>1, <2>2 DEF ReviewAgain
  <1>4. CASE LifeWrites(c)
    <2>1. /\ op[c].pc = "life" /\ ProfileEnds(c)
          /\ profile' = op[c].held /\ banned' = (banned /\ ~op[c].early)
          /\ application' = application /\ forms' = forms
      BY <1>4 DEF LifeWrites, WriteProfile
    <2>2. profile' \in ProfileData /\ banned' \in BOOLEAN
      BY <1>0, <2>1 DEF Ops, ProfileTyped
    <2> QED BY <1>0, <2>1, <2>2, ProfileEndKept DEF KeepsSuspension, ProfileTyped
  <1>5. CASE ProfileOpDies(c)
    BY <1>0, <1>5, ProfileEndKept DEF ProfileOpDies, ProfileTyped
  <1>6. CASE Seek(c)
    <2>1. UNCHANGED <<profile, forms, banned>>
      BY <1>6 DEF Seek
    <2>2. CASE ProfileGoes(c, "save") /\ UNCHANGED application
      BY <1>0, <2>1, <2>2, ProfileGoKept DEF ProfileTyped
    <2>3. CASE \E a \in Rejected : /\ application' = Reopened(a)
                                  /\ op' = [op EXCEPT ![c].pc = "save", ![c].row = a]
      <3>1. PICK a \in Rejected : /\ application' = Reopened(a)
                                 /\ op' = [op EXCEPT ![c].pc = "save", ![c].row = a]
        BY <2>3
      <3> DEFINE r == [op[c] EXCEPT !.pc = "save", !.row = a]
      <3>2. a \in Applications /\ a \in 0 .. MaxApplications
        BY ProfilesAssumption DEF Rejected, Applications
      <3>3. r \in Ops /\ r.pc = "save"
        BY <1>0, <3>2 DEF Ops
      <3>4. op' = [op EXCEPT ![c] = r]
        BY <1>0, <3>1 DEF ProfileTyped
      <3>5. application' \in [Applications -> ApplicationRows]
        BY <1>0, <3>1, <3>2, ReopenedTyped
      <3> HIDE DEF r
      <3> QED BY <1>0, <2>1, <3>3, <3>4, <3>5, ProfileReadKept DEF RowRead, ProfileTyped
    <2> QED BY <1>6, <2>2, <2>3 DEF Seek
  <1> QED BY <1>1, <1>2, <1>3, <1>4, <1>5, <1>6

LEMMA AdminBegins ==
    ASSUME ProfileInv, NEW c \in ProfileCalls, NEW a \in Applications,
           \/ UpdateReads(c, a) \/ SuspendReads(c, a)
           \/ \E kind \in {"approve", "photo", "reject", "changes"} : AdminReads(c, a, kind)
    PROVE  ProfileInv'
  <1> USE DEF OpKinds, OpPcs
  <1>0. /\ ProfileTyped /\ Data(a) \in FormData /\ a \in 0 .. MaxApplications
    BY DataTyped, ProfilesAssumption DEF ProfileInv, Applications
  <1>1. ASSUME NEW k \in OpKinds, NEW p \in OpPcs \ {"life", "merge"},
               op' = [op EXCEPT ![c] = [NoOp EXCEPT !.kind = k, !.row = a, !.pc = p, !.seen = Data(a)]],
               UNCHANGED <<application, forms, profile, banned>>
        PROVE  ProfileInv'
    <2> DEFINE data == Data(a)
               r == [NoOp EXCEPT !.kind = k, !.row = a, !.pc = p, !.seen = data]
    <2>1. r \in Ops /\ r.pc = p /\ r.row = a
      <3>1. data \in FormData
        BY <1>0
      <3> HIDE DEF data
      <3> QED BY <1>0, <3>1, NoProfileTyped DEF Ops, NoOp
    <2>2. op' = [op EXCEPT ![c] = r]
      BY <1>1
    <2> HIDE DEF r
    <2> QED BY <1>0, <1>1, <2>1, <2>2, ProfileReadKept DEF RowRead, ProfileTyped
  <1>2. CASE UpdateReads(c, a)
    <2>1. op' = [op EXCEPT ![c] = [NoOp EXCEPT !.kind = "update", !.row = a, !.pc = "copy",
                                               !.seen = Data(a)]]
      BY <1>2 DEF UpdateReads, NoOp
    <2> QED BY <1>1, <1>2, <2>1 DEF UpdateReads
  <1>3. ASSUME NEW kind \in {"approve", "photo", "reject", "changes"}, AdminReads(c, a, kind)
        PROVE  ProfileInv'
    <2>1. op' = [op EXCEPT ![c] = [NoOp EXCEPT !.kind = kind, !.row = a, !.pc = kind,
                                               !.seen = Data(a)]]
      BY <1>3 DEF AdminReads
    <2> QED BY <1>1, <1>3, <2>1 DEF AdminReads
  <1>4. CASE SuspendReads(c, a)
    <2> DEFINE r == [NoOp EXCEPT !.kind = "suspend", !.pc = "suspend", !.held = profile]
    <2>1. r \in Ops /\ r.pc = "suspend"
      BY <1>0, NoProfileTyped DEF Ops, NoOp, ProfileTyped
    <2>2. op' = [op EXCEPT ![c] = r]
      BY <1>4 DEF SuspendReads
    <2> HIDE DEF r
    <2> QED
      BY <1>0, <1>4, <2>1, <2>2, ProfileReadKept DEF SuspendReads, RowRead, ProfileTyped
  <1> QED BY <1>2, <1>3, <1>4

LEMMA AdminRowSteps ==
    ASSUME ProfileInv, NEW c \in ProfileCalls,
           \/ ApproveSaves(c) \/ CopyReads(c) \/ CloseApplication(c) \/ PhotoSaves(c)
           \/ RejectApplication(c) \/ RequestChanges(c) \/ Note(c)
    PROVE  ProfileInv'
  <1> USE DEF OpKinds, OpPcs
  <1>0. /\ ProfileTyped /\ op[c] \in Ops /\ op[c].seen \in FormData /\ profile \in ProfileData
        /\ application \in [Applications -> ApplicationRows] /\ forms \in 0 .. MaxForms
        /\ banned \in BOOLEAN /\ (banned => profile.suspended)
    BY DEF ProfileInv, ProfileTyped, SuspensionKept, Ops
  <1>1. ASSUME NEW data \in FormData,
               application' = [application EXCEPT ![op[c].row] = Filled(op[c].row, data)]
        PROVE  application' \in [Applications -> ApplicationRows]
    <2> DEFINE a == op[c].row
               filled == Filled(a, data)
    <2>1. a \in Applications => filled \in ApplicationRows
      BY <1>0, FilledTyped
    <2>2. application' = [application EXCEPT ![a] = filled]
      BY <1>1
    <2> HIDE DEF filled, a
    <2> QED BY <1>0, <2>1, <2>2
  <1>2. ASSUME NEW s \in {"APPROVED", "REJECTED"},
               application' = [application EXCEPT ![op[c].row].status = s]
        PROVE  application' \in [Applications -> ApplicationRows]
    BY <1>0, <1>2 DEF ApplicationRows
  <1>3. CASE ApproveSaves(c)
    <2>1. op[c].row \in Applications
      BY <1>3 DEF ApproveSaves, ProfileInv, RowRead
    <2>2. application' \in [Applications -> ApplicationRows]
      BY <1>0, <1>1, <1>3, BareTyped DEF ApproveSaves
    <2> DEFINE r == [op[c] EXCEPT !.pc = "recheck"]
    <2>3. r \in Ops /\ r.pc = "recheck" /\ r.row = op[c].row
      BY <1>0 DEF Ops
    <2>4. op' = [op EXCEPT ![c] = r]
      BY <1>0, <1>3 DEF ApproveSaves, ProfileGoes, ProfileTyped
    <2> HIDE DEF r
    <2> QED BY <1>0, <1>3, <2>1, <2>2, <2>3, <2>4, ProfileReadKept DEF ApproveSaves, RowRead
  <1>4. CASE CopyReads(c)
    <2>1. op[c].row \in Applications /\ UNCHANGED <<application, forms, profile, banned>>
      BY <1>4 DEF CopyReads, ProfileInv, RowRead
    <2>2. CASE op' = [op EXCEPT ![c].pc = "copy", ![c].seen = Data(op[c].row)]
      <3> DEFINE data == Data(op[c].row)
                 r == [op[c] EXCEPT !.pc = "copy", !.seen = data]
      <3>1. data \in FormData
        BY <1>0, <2>1, DataTyped
      <3>2. r \in Ops /\ r.pc = "copy"
        <4> HIDE DEF data
        <4> QED BY <1>0, <3>1 DEF Ops
      <3>3. op' = [op EXCEPT ![c] = r]
        BY <1>0, <2>2 DEF ProfileTyped
      <3> HIDE DEF r
      <3> QED BY <1>0, <2>1, <3>2, <3>3, ProfileReadKept DEF RowRead
    <2>3. CASE ProfileEnds(c)
      BY <1>0, <2>1, <2>3, ProfileEndKept
    <2> QED BY <1>4, <2>2, <2>3 DEF CopyReads
  <1>5. CASE CloseApplication(c)
    <2>1. application' \in [Applications -> ApplicationRows]
      BY <1>2, <1>5 DEF CloseApplication
    <2>2. UNCHANGED <<forms, profile, banned>>
      BY <1>5 DEF CloseApplication
    <2>3. CASE op' = [op EXCEPT ![c].pc = "activate", ![c].held = profile]
      <3> DEFINE r == [op[c] EXCEPT !.pc = "activate", !.held = profile]
      <3>1. r \in Ops /\ r.pc = "activate"
        BY <1>0 DEF Ops
      <3>2. op' = [op EXCEPT ![c] = r]
        BY <1>0, <2>3 DEF ProfileTyped
      <3> HIDE DEF r
      <3> QED BY <1>0, <2>1, <2>2, <3>1, <3>2, ProfileReadKept DEF RowRead
    <2>4. CASE ProfileEnds(c)
      BY <1>0, <2>1, <2>2, <2>4, ProfileEndKept
    <2> QED BY <1>5, <2>3, <2>4 DEF CloseApplication, ProfileEnds
  <1>6. CASE PhotoSaves(c)
    <2>1. application' \in [Applications -> ApplicationRows]
      BY <1>0, <1>1, <1>6, BareTyped DEF PhotoSaves
    <2>2. UNCHANGED <<forms, profile, banned>>
      BY <1>6 DEF PhotoSaves
    <2>3. CASE op' = [op EXCEPT ![c].pc = "merge", ![c].held = profile]
      <3> DEFINE r == [op[c] EXCEPT !.pc = "merge", !.held = profile]
      <3>1. r \in Ops /\ r.pc = "merge" /\ r.held = profile
        BY <1>0 DEF Ops
      <3>2. op' = [op EXCEPT ![c] = r]
        BY <1>0, <2>3 DEF ProfileTyped
      <3> HIDE DEF r
      <3> QED BY <1>0, <2>1, <2>2, <3>1, <3>2, ProfileReadKept DEF RowRead
    <2>4. CASE ProfileEnds(c)
      BY <1>0, <2>1, <2>2, <2>4, ProfileEndKept
    <2> QED BY <1>6, <2>3, <2>4 DEF PhotoSaves
  <1>7. CASE RejectApplication(c)
    <2>1. application' \in [Applications -> ApplicationRows] /\ UNCHANGED <<forms, profile, banned>>
      BY <1>2, <1>7 DEF RejectApplication
    <2> QED BY <1>0, <1>7, <2>1, ProfileGoKept, ProfileEndKept DEF RejectApplication
  <1>8. CASE RequestChanges(c)
    <2> DEFINE data == [op[c].seen EXCEPT !.submitted = FALSE, !.asked = TRUE]
    <2>1. data \in FormData
      BY <1>0 DEF FormData
    <2>2. application' \in [Applications -> ApplicationRows]
      BY <1>1, <1>8, <2>1 DEF RequestChanges
    <2> QED BY <1>0, <1>8, <2>2, ProfileGoKept DEF RequestChanges
  <1>9. CASE Note(c)
    BY <1>0, <1>9, ProfileEndKept DEF Note
  <1> QED BY <1>3, <1>4, <1>5, <1>6, <1>7, <1>8, <1>9

LEMMA AdminProfileSteps ==
    ASSUME ProfileInv, NEW c \in ProfileCalls,
           Copy(c) \/ Activate(c) \/ PhotoMerges(c) \/ SuspendWrites(c)
    PROVE  ProfileInv'
  <1> USE DEF OpKinds, OpPcs
  <1>0. /\ ProfileTyped /\ op[c] \in Ops /\ op[c].seen \in FormData /\ op[c].held \in ProfileData
        /\ application \in [Applications -> ApplicationRows] /\ forms \in 0 .. MaxForms
        /\ KeepsSuspension(op[c])
    BY DEF ProfileInv, ProfileTyped, SuspensionKept, Ops
  <1>1. CASE Copy(c)
    <2> DEFINE json == [NoProfile EXCEPT !.form = op[c].seen.form, !.active = op[c].seen.live]
    <2>1. json \in ProfileData
      BY <1>0, NoProfileTyped DEF ProfileData, FormData
    <2>2. /\ profile' = json /\ banned' = FALSE /\ ProfileGoes(c, "close")
          /\ UNCHANGED <<application, forms>>
      BY <1>1 DEF Copy, WriteProfile
    <2> HIDE DEF json
    <2> QED BY <1>0, <2>1, <2>2, ProfileGoKept
  <1>2. CASE Activate(c)
    <2> DEFINE json == [op[c].held EXCEPT !.active = TRUE, !.suspended = FALSE, !.life = "ACTIVE"]
    <2>1. json \in ProfileData
      BY <1>0 DEF ProfileData
    <2>2. /\ profile' = json /\ banned' = FALSE /\ ProfileGoes(c, "noted")
          /\ UNCHANGED <<application, forms>>
      BY <1>2 DEF Activate, WriteProfile
    <2> HIDE DEF json
    <2> QED BY <1>0, <2>1, <2>2, ProfileGoKept
  <1>3. CASE PhotoMerges(c)
    <2> DEFINE live == op[c].held.active \/ op[c].seen.live
               json == [op[c].held EXCEPT !.form = op[c].seen.form, !.active = live]
    <2>1. live \in BOOLEAN
      BY <1>0 DEF ProfileData, FormData
    <2>2. json \in ProfileData /\ json.suspended = op[c].held.suspended
      <3> HIDE DEF live
      <3> QED BY <1>0, <2>1 DEF ProfileData, FormData
    <2>3. /\ op[c].pc = "merge" /\ profile' = json /\ banned' = (banned /\ ~op[c].early)
          /\ ProfileEnds(c) /\ UNCHANGED <<application, forms>>
      BY <1>0, <1>3 DEF PhotoMerges, WriteProfile, ProfileData
    <2>4. banned' \in BOOLEAN
      BY <1>0, <2>3 DEF ProfileTyped, Ops
    <2> HIDE DEF json
    <2> QED BY <1>0, <2>2, <2>3, <2>4, ProfileEndKept DEF KeepsSuspension, ProfileTyped
  <1>4. CASE SuspendWrites(c)
    <2>1. /\ profile' = Suspended(op[c].held) /\ banned' = TRUE
          /\ op' = [d \in ProfileCalls |-> IF d = c \/ op[d].pc = "idle" THEN NoOp
                                           ELSE [op[d] EXCEPT !.early = TRUE]]
          /\ UNCHANGED <<application, forms>>
      BY <1>4 DEF SuspendWrites
    <2>2. profile' \in ProfileData /\ profile'.suspended
      BY <1>0, <2>1 DEF Suspended, ProfileData
    <2>3. ASSUME NEW d \in ProfileCalls
          PROVE  op'[d] \in Ops /\ RowRead(op[d])' /\ KeepsSuspension(op[d])'
      <3>1. CASE op'[d] = NoOp
        BY <3>1, NoProfileTyped DEF RowRead, KeepsSuspension, NoOp
      <3>2. CASE op'[d] = [op[d] EXCEPT !.early = TRUE]
        <4> DEFINE r == [op[d] EXCEPT !.early = TRUE]
        <4>1. op[d] \in Ops /\ RowRead(op[d])
          BY DEF ProfileInv, ProfileTyped
        <4>2. r \in Ops /\ r.early /\ r.pc = op[d].pc /\ r.row = op[d].row
          BY <4>1 DEF Ops
        <4>3. op'[d] = r
          BY <3>2
        <4> HIDE DEF r
        <4> QED BY <4>1, <4>2, <4>3 DEF RowRead, KeepsSuspension
      <3> QED BY <2>1, <3>1, <3>2
    <2>4. op' \in [ProfileCalls -> Ops]
      BY <2>1, <2>3
    <2> QED BY <1>0, <2>1, <2>2, <2>3, <2>4 DEF ProfileInv, ProfileTyped, SuspensionKept
  <1> QED BY <1>1, <1>2, <1>3, <1>4

LEMMA ProfileSteps ==
    ASSUME ProfileInv, [ProfilesNext]_profileVars
    PROVE  ProfileInv'
  <1>1. CASE UNCHANGED profileVars
    BY <1>1 DEF profileVars, ProfileInv, ProfileTyped, RowRead, SuspensionKept, KeepsSuspension
  <1>2. CASE Reopen
    <2>5. application' \in [Applications -> ApplicationRows]
      BY <1>2, ReopenedTyped DEF Reopen, Reopenable, Rejected, ProfileInv
    <2> QED
      BY <1>2, <2>5 DEF Reopen, ProfileInv, ProfileTyped, RowRead, SuspensionKept, KeepsSuspension
  <1>3. ASSUME NEW a \in Applications, AssignReviewer(a)
        PROVE  ProfileInv'
    BY <1>3 DEF AssignReviewer, ProfileInv, ProfileTyped, RowRead, SuspensionKept, KeepsSuspension
  <1> QED
    BY <1>1, <1>2, <1>3, ProfileBegins, ProfileMemberSteps, AdminBegins, AdminRowSteps,
       AdminProfileSteps
       DEF ProfilesNext, ProfilesBegin, ProfilesGoOn

\* The invariant of the suspension: what is read after it and written back keeps it
\* (transitionMatrimonyLifecycle, updateCandidatePhotoStatus), and what was read before it is
\* marked early.
THEOREM ProfilesInvariant == ProfilesSpec => []ProfileInv
  <1>1. ProfilesInit => ProfileInv
    <2> SUFFICES ASSUME ProfilesInit PROVE ProfileInv
      OBVIOUS
    <2>1. ProfileTyped
      <3>1. NoApplication \in ApplicationRows
        BY ProfilesAssumption DEF NoApplication, ApplicationRows
      <3>2. 0 \in 0 .. MaxForms
        BY ProfilesAssumption
      <3> QED BY <3>1, <3>2, NoProfileTyped DEF ProfilesInit, ProfileTyped
    <2> QED
      BY <2>1 DEF ProfilesInit, ProfileInv, RowRead, SuspensionKept, KeepsSuspension, NoOp
  <1> QED BY <1>1, ProfileSteps, PTL DEF ProfilesSpec

\* A suspended profile stays hidden, whatever the member, administrators and photo reviews write
\* after the suspension, until an approval lifts it (suspendMatrimonyProfile): the history
\* variable banned ends with an approval, or with a write decided before the suspension.
THEOREM SuspendedStaysHidden == ProfilesSpec => []SuspendedHidden
  <1>1. ProfileInv => SuspendedHidden
    BY DEF ProfileInv, SuspensionKept, SuspendedHidden, Discoverable
  <1> QED BY <1>1, ProfilesInvariant, PTL

-----------------------------------------------------------------------------
(***************************************************************************)
(* MatrimonyProfiles: the order of the applications and what is noted.     *)
(***************************************************************************)
Flows == {"NONE", "UNDER_REVIEW", "APPROVED", "REJECTED", "CHANGES_REQUESTED", "SUSPENDED"}

\* No two applications have the same place in the order in which they were submitted.
Ordered(place) ==
    /\ place \in [Applications -> 0 .. MaxApplications]
    /\ \A a, b \in Applications : place[a] = place[b] => a = b \/ place[a] = MaxApplications

\* On the way to a note, an operation is of a kind that has something to note.
NotesItsKind(o) ==
    /\ o.pc \in {"approve", "recheck", "activate"} => o.kind = "approve"
    /\ o.pc \in {"copy", "close"} => o.kind \in {"approve", "update"}
    /\ o.pc = "resave" => o.kind = "submit" /\ o.row \in Applications
    /\ o.pc = "reject" => o.kind = "reject"
    /\ o.pc = "changes" => o.kind = "changes"
    /\ o.pc = "noted" => o.kind \in {"submit", "approve", "reject", "changes"}

NotesInv ==
    /\ Ordered(newer)
    /\ review \in [Applications -> [flow : Flows, changes : BOOLEAN]]
    /\ approved \subseteq 0 .. MaxForms
    /\ \A c \in ProfileCalls : NotesItsKind(op[c])

\* The one submitted goes before all others, which keep their order.
LEMMA SubmittedOrdered ==
    ASSUME Ordered(newer), NEW a \in Applications
    PROVE  Ordered(Submitted(a))
  <1>1. \A b \in Applications : newer[b] \in 0 .. MaxApplications
    BY DEF Ordered
  <1>2. \A b \in Applications : Submitted(a)[b] = IF b = a THEN 0
                                   ELSE IF newer[b] < newer[a] THEN newer[b] + 1 ELSE newer[b]
    BY DEF Submitted
  <1>3. \A b \in Applications : Submitted(a)[b] \in 0 .. MaxApplications
    BY <1>1, <1>2, ProfilesAssumption
  <1>4. Submitted(a) \in [Applications -> 0 .. MaxApplications]
    BY <1>3 DEF Submitted
  <1>5. ASSUME NEW b \in Applications, NEW d \in Applications, Submitted(a)[b] = Submitted(a)[d]
        PROVE  b = d \/ Submitted(a)[b] = MaxApplications
    <2>1. newer[b] = newer[d] => b = d \/ newer[b] = MaxApplications
      BY DEF Ordered
    <2>2. /\ newer[a] = newer[b] => a = b \/ newer[a] = MaxApplications
          /\ newer[a] = newer[d] => a = d \/ newer[a] = MaxApplications
      BY DEF Ordered
    <2> QED BY <1>1, <1>2, <1>5, <2>1, <2>2, ProfilesAssumption
  <1> QED BY <1>4, <1>5 DEF Ordered

\* One operation's next state, with whatever it notes.
LEMMA NotesKept ==
    ASSUME ProfileInv, NotesInv, NEW c \in ProfileCalls, NEW r,
           op' = [op EXCEPT ![c] = r], NotesItsKind(r),
           newer' = newer \/ Ordered(newer'),
           review' \in [Applications -> [flow : Flows, changes : BOOLEAN]],
           approved' \subseteq 0 .. MaxForms
    PROVE  NotesInv'
  <1>1. op'[c] = r /\ \A d \in ProfileCalls \ {c} : op'[d] = op[d]
    BY DEF ProfileInv, ProfileTyped
  <1>2. \A d \in ProfileCalls : NotesItsKind(op'[d])
    BY <1>1 DEF NotesInv
  <1>3. Ordered(newer')
    BY DEF NotesInv
  <1> QED BY <1>2, <1>3 DEF NotesInv, NotesItsKind, Ordered

\* An operation that goes on to pc or ends.
LEMMA NotesGo ==
    ASSUME ProfileInv, NotesInv, NEW c \in ProfileCalls,
           \/ ProfileEnds(c)
           \/ \E pc \in OpPcs : ProfileGoes(c, pc) /\ NotesItsKind([op[c] EXCEPT !.pc = pc]),
           newer' = newer \/ Ordered(newer'),
           review' \in [Applications -> [flow : Flows, changes : BOOLEAN]],
           UNCHANGED approved
    PROVE  NotesInv'
  <1>1. NotesItsKind(NoOp)
    BY DEF NotesItsKind, NoOp
  <1>2. CASE ProfileEnds(c)
    BY <1>1, <1>2, NotesKept DEF ProfileEnds, NotesInv
  <1>3. ASSUME NEW pc \in OpPcs, ProfileGoes(c, pc), NotesItsKind([op[c] EXCEPT !.pc = pc])
        PROVE  NotesInv'
    <2> DEFINE r == [op[c] EXCEPT !.pc = pc]
    <2>1. op' = [op EXCEPT ![c] = r]
      BY <1>3 DEF ProfileGoes, ProfileInv, ProfileTyped
    <2>2. NotesItsKind(r)
      BY <1>3
    <2> HIDE DEF r
    <2> QED BY <2>1, <2>2, NotesKept DEF NotesInv
  <1> QED BY <1>2, <1>3

LEMMA NotesTypes == ProfileInv /\ NotesInv => \A c \in ProfileCalls :
    op[c] \in Ops /\ NotesItsKind(op[c])
  BY DEF ProfileInv, ProfileTyped, NotesInv

LEMMA NotesMemberSteps ==
    ASSUME ProfileInv, ProfileInv', NotesInv, NEW c \in ProfileCalls,
           \/ DraftChecks(c) \/ SubmitReads(c) \/ SectionReads(c) \/ AccountPhoto(c) \/ LifeReads(c)
           \/ DraftReads(c) \/ ReviewAgain(c) \/ Seek(c)
    PROVE  NotesInv'
  <1>1. ASSUME NEW r, op' = [op EXCEPT ![c] = r],
               r.pc \in {"checked", "seek", "save", "again", "life"},
               UNCHANGED <<newer, review, approved>>
        PROVE  NotesInv'
    BY <1>1, NotesKept DEF NotesItsKind, NotesInv
  <1>2. NoOp.pc = "idle" /\ DOMAIN NoOp = {"kind", "pc", "row", "seen", "held", "early"}
    BY DEF NoOp
  <1>3. ASSUME NEW kind, NEW rows, Reads(c, kind, rows), UNCHANGED <<newer, review, approved>>
        PROVE  NotesInv'
    <2>1. PICK a \in IF rows = {} THEN {0} ELSE rows, live \in {kind = "submit", TRUE} :
            op' = [op EXCEPT ![c] = [NoOp EXCEPT !.kind = kind, !.pc = SaveAt(kind, a), !.row = a,
                      !.seen = [form |-> forms + 1, live |-> live, submitted |-> kind # "draft",
                                asked |-> a # 0 /\ kind # "section" /\ application[a].asked]]]
      BY <1>3 DEF Reads
    <2> DEFINE data == [form |-> forms + 1, live |-> live, submitted |-> kind # "draft",
                        asked |-> a # 0 /\ kind # "section" /\ application[a].asked]
    <2> DEFINE pc0 == SaveAt(kind, a)
               r == [NoOp EXCEPT !.kind = kind, !.pc = pc0, !.row = a, !.seen = data]
    <2>2. op' = [op EXCEPT ![c] = r]
      BY <2>1
    <2>3. r.pc \in {"seek", "save"}
      <3>1. pc0 \in {"seek", "save"}
        BY SaveAtPc
      <3> HIDE DEF data, pc0
      <3> QED BY <1>2, <3>1
    <2> HIDE DEF r
    <2> QED BY <1>1, <1>3, <2>2, <2>3
  <1>4. CASE DraftChecks(c)
    <2> DEFINE r == [NoOp EXCEPT !.kind = "draft", !.pc = "checked"]
    <2>1. r.pc = "checked" /\ op' = [op EXCEPT ![c] = r] /\ UNCHANGED <<newer, review, approved>>
      BY <1>2, <1>4 DEF DraftChecks
    <2> HIDE DEF r
    <2> QED BY <1>1, <2>1
  <1>5. CASE AccountPhoto(c)
    <2> DEFINE r == [NoOp EXCEPT !.kind = "again", !.pc = "again"]
    <2>1. r.pc = "again" /\ op' = [op EXCEPT ![c] = r] /\ UNCHANGED <<newer, review, approved>>
      BY <1>2, <1>5 DEF AccountPhoto
    <2> HIDE DEF r
    <2> QED BY <1>1, <2>1
  <1>6. CASE LifeReads(c)
    <2>1. PICK next \in {"ACTIVE", "PAUSED", "CLOSED"} \ {profile.life} :
              op' = [op EXCEPT ![c] = [NoOp EXCEPT !.kind = "life", !.pc = "life",
                                                   !.held = [profile EXCEPT !.life = next]]]
      BY <1>6 DEF LifeReads
    <2> DEFINE json == [profile EXCEPT !.life = next]
               r == [NoOp EXCEPT !.kind = "life", !.pc = "life", !.held = json]
    <2>2. op' = [op EXCEPT ![c] = r]
      BY <2>1
    <2>3. r.pc = "life"
      <3> HIDE DEF json
      <3> QED BY <1>2
    <2> HIDE DEF r
    <2> QED BY <1>1, <1>6, <2>2, <2>3 DEF LifeReads
  <1>7. CASE ReviewAgain(c)
    <2>1. UNCHANGED <<newer, review, approved>>
      BY <1>7 DEF ReviewAgain
    <2>2. CASE ProfileEnds(c)
      BY <2>1, <2>2, NotesGo DEF NotesInv
    <2>3. CASE \E a \in IF Pending = {} THEN {0} ELSE LatestPending :
                   op' = [op EXCEPT ![c] = [NoOp EXCEPT !.kind = "again", !.pc = SaveAt("again", a), !.row = a,
                             !.seen = [form |-> profile.form, live |-> TRUE, submitted |-> TRUE,
                                       asked |-> a # 0 /\ application[a].asked]]]
      <3>1. PICK a \in IF Pending = {} THEN {0} ELSE LatestPending :
                   op' = [op EXCEPT ![c] = [NoOp EXCEPT !.kind = "again", !.pc = SaveAt("again", a), !.row = a,
                             !.seen = [form |-> profile.form, live |-> TRUE, submitted |-> TRUE,
                                       asked |-> a # 0 /\ application[a].asked]]]
        BY <2>3
      <3> DEFINE data == [form |-> profile.form, live |-> TRUE, submitted |-> TRUE,
                          asked |-> a # 0 /\ application[a].asked]
                 pc0 == SaveAt("again", a)
                 r == [NoOp EXCEPT !.kind = "again", !.pc = pc0, !.row = a, !.seen = data]
      <3>2. op' = [op EXCEPT ![c] = r]
        BY <3>1
      <3>3. r.pc \in {"seek", "save"}
        <4>1. pc0 \in {"seek", "save"}
          BY SaveAtPc
        <4> HIDE DEF data, pc0
        <4> QED BY <1>2, <4>1
      <3> HIDE DEF r
      <3> QED BY <1>1, <2>1, <3>2, <3>3
    <2> QED BY <1>7, <2>2, <2>3 DEF ReviewAgain
  <1>8. CASE Seek(c)
    <2>1. UNCHANGED <<newer, review, approved>> /\ op \in [ProfileCalls -> Ops]
      BY <1>8 DEF Seek, ProfileInv, ProfileTyped
    <2>2. ASSUME NEW a, op' = [op EXCEPT ![c].pc = "save", ![c].row = a]
          PROVE  NotesInv'
      <3> DEFINE r == [op[c] EXCEPT !.pc = "save", !.row = a]
      <3>1. op' = [op EXCEPT ![c] = r] /\ r.pc = "save"
        BY <2>1, <2>2 DEF Ops
      <3> HIDE DEF r
      <3> QED BY <1>1, <2>1, <3>1
    <2>3. CASE ProfileGoes(c, "save")
      <3> DEFINE r == [op[c] EXCEPT !.pc = "save"]
      <3>1. op' = [op EXCEPT ![c] = r] /\ r.pc = "save"
        BY <2>1, <2>3 DEF ProfileGoes, Ops
      <3> HIDE DEF r
      <3> QED BY <1>1, <2>1, <3>1
    <2> QED BY <1>8, <2>2, <2>3 DEF Seek
  <1> QED BY <1>3, <1>4, <1>5, <1>6, <1>7, <1>8 DEF SubmitReads, SectionReads, DraftReads,
                                             DraftChecks, AccountPhoto, LifeReads

LEMMA NotesSaveSteps ==
    ASSUME ProfileInv, NotesInv, NEW c \in ProfileCalls, Save(c) \/ SaveAgain(c)
    PROVE  NotesInv'
  <1>0. op[c] \in Ops /\ NotesItsKind(op[c]) /\ "noted" \in OpPcs /\ "again" \in OpPcs
    BY NotesTypes DEF OpPcs
  <1>1. UNCHANGED <<review, approved>>
    BY DEF Save, SaveAgain
  <1>2. CASE Save(c)
    <2>1. PICK a \in IF op[c].row # 0 THEN {op[c].row}
                     ELSE {b \in Applications : application[b].status = "NONE"} :
              /\ newer' = Submitted(a)
              /\ \/ /\ op[c].kind = "submit"
                    /\ op' = [op EXCEPT ![c].pc = "resave", ![c].row = a]
                 \/ op[c].kind # "submit" /\ ProfileEnds(c)
                 \/ op[c].kind = "section" /\ ProfileGoes(c, "again")
      BY <1>2 DEF Save
    <2>2. a \in Applications
      BY <1>0, ProfilesAssumption DEF Ops, Applications
    <2>3. Ordered(newer')
      BY <2>1, <2>2, SubmittedOrdered DEF NotesInv
    <2>4. CASE op[c].kind = "submit" /\ op' = [op EXCEPT ![c].pc = "resave", ![c].row = a]
      <3> DEFINE r == [op[c] EXCEPT !.pc = "resave", !.row = a]
      <3>1. op' = [op EXCEPT ![c] = r]
        BY <2>4 DEF ProfileInv, ProfileTyped
      <3>2. NotesItsKind(r)
        BY <1>0, <2>2, <2>4 DEF NotesItsKind, Ops
      <3> HIDE DEF r
      <3> QED BY <1>1, <2>3, <3>1, <3>2, NotesKept DEF NotesInv
    <2>5. CASE ProfileEnds(c)
      BY <1>1, <2>3, <2>5, NotesGo DEF NotesInv
    <2>6. CASE ProfileGoes(c, "again")
      <3>1. NotesItsKind([op[c] EXCEPT !.pc = "again"])
        BY <1>0 DEF NotesItsKind, Ops
      <3> QED BY <1>0, <1>1, <2>3, <2>6, <3>1, NotesGo DEF NotesInv
    <2> QED BY <2>1, <2>4, <2>5, <2>6
  <1>3. CASE SaveAgain(c)
    <2>1. newer' = Submitted(op[c].row) /\ op[c].pc = "resave" /\ ProfileGoes(c, "noted")
      BY <1>3 DEF SaveAgain
    <2>2. Ordered(newer') /\ op[c].kind = "submit"
      BY <1>0, <2>1, SubmittedOrdered DEF NotesInv, NotesItsKind
    <2>3. NotesItsKind([op[c] EXCEPT !.pc = "noted"])
      BY <1>0, <2>2 DEF NotesItsKind, Ops
    <2> QED BY <1>0, <1>1, <2>1, <2>2, <2>3, NotesGo DEF NotesInv
  <1> QED BY <1>2, <1>3

LEMMA NotesAdminBegins ==
    ASSUME ProfileInv, NotesInv, NEW c \in ProfileCalls, NEW a \in Applications,
           \/ UpdateReads(c, a) \/ SuspendReads(c, a)
           \/ \E kind \in {"approve", "photo", "reject", "changes"} : AdminReads(c, a, kind)
    PROVE  NotesInv'
  <1>0. application[a].form \in 0 .. MaxForms
    BY DEF ProfileInv, ProfileTyped, ApplicationRows
  <1> DEFINE data == Data(a)
  <1>1. CASE UpdateReads(c, a)
    <2> DEFINE r == [NoOp EXCEPT !.kind = "update", !.pc = "copy", !.row = a, !.seen = data]
    <2>1. op' = [op EXCEPT ![c] = r]
      BY <1>1 DEF UpdateReads
    <2>2. NotesItsKind(r)
      <3> HIDE DEF data
      <3> QED BY DEF NotesItsKind, NoOp
    <2> HIDE DEF r
    <2> QED BY <1>0, <1>1, <2>1, <2>2, NotesKept DEF UpdateReads, NotesInv
  <1>2. ASSUME NEW kind \in {"approve", "photo", "reject", "changes"}, AdminReads(c, a, kind)
        PROVE  NotesInv'
    <2> DEFINE r == [NoOp EXCEPT !.kind = kind, !.row = a, !.pc = kind, !.seen = data]
    <2>1. op' = [op EXCEPT ![c] = r]
      BY <1>2 DEF AdminReads
    <2>2. NotesItsKind(r)
      <3> HIDE DEF data
      <3> QED BY DEF NotesItsKind, NoOp
    <2> HIDE DEF r
    <2> QED BY <1>0, <1>2, <2>1, <2>2, NotesKept DEF AdminReads, NotesInv
  <1>3. CASE SuspendReads(c, a)
    <2> DEFINE r == [NoOp EXCEPT !.kind = "suspend", !.pc = "suspend", !.held = profile]
    <2>1. op' = [op EXCEPT ![c] = r] /\ review' = [review EXCEPT ![a].flow = "SUSPENDED"]
      BY <1>3 DEF SuspendReads
    <2>2. NotesItsKind(r)
      BY DEF NotesItsKind, NoOp
    <2>3. review' \in [Applications -> [flow : Flows, changes : BOOLEAN]]
      BY <2>1 DEF NotesInv, Flows
    <2> HIDE DEF r
    <2> QED BY <1>3, <2>1, <2>2, <2>3, NotesKept DEF SuspendReads, NotesInv
  <1> QED BY <1>1, <1>2, <1>3

LEMMA NotesAdminSteps ==
    ASSUME ProfileInv, NotesInv, NEW c \in ProfileCalls,
           \/ ApproveSaves(c) \/ CopyReads(c) \/ CloseApplication(c) \/ PhotoSaves(c)
           \/ RejectApplication(c) \/ RequestChanges(c)
           \/ Copy(c) \/ Activate(c) \/ PhotoMerges(c) \/ LifeWrites(c) \/ ProfileOpDies(c)
    PROVE  NotesInv'
  <1>0. op[c] \in Ops /\ NotesItsKind(op[c]) /\ op \in [ProfileCalls -> Ops]
    BY NotesTypes DEF ProfileInv, ProfileTyped
  <1>1. UNCHANGED <<newer, review, approved>>
    BY DEF ApproveSaves, CopyReads, CloseApplication, PhotoSaves, RejectApplication, RequestChanges,
           Copy, Activate, PhotoMerges, LifeWrites, ProfileOpDies
  <1>2. ASSUME ProfileEnds(c)
        PROVE  NotesInv'
    BY <1>1, <1>2, NotesGo DEF NotesInv
  <1>3. ASSUME NEW pc \in {"recheck", "noted", "close"}, ProfileGoes(c, pc),
               NotesItsKind([op[c] EXCEPT !.pc = pc])
        PROVE  NotesInv'
    BY <1>1, <1>3, NotesGo DEF NotesInv, OpPcs
  <1>4. CASE ApproveSaves(c)
    <2>1. op[c].kind = "approve" /\ ProfileGoes(c, "recheck")
      BY <1>0, <1>4 DEF ApproveSaves, NotesItsKind
    <2>2. NotesItsKind([op[c] EXCEPT !.pc = "recheck"])
      BY <1>0, <2>1 DEF NotesItsKind, Ops
    <2> QED BY <1>3, <2>1, <2>2
  <1>5. CASE CopyReads(c)
    <2>1. op[c].kind = "approve"
      BY <1>0, <1>5 DEF CopyReads, NotesItsKind
    <2>2. CASE op' = [op EXCEPT ![c].pc = "copy", ![c].seen = Data(op[c].row)]
      <3> DEFINE data == Data(op[c].row)
                 r == [op[c] EXCEPT !.pc = "copy", !.seen = data]
      <3>1. op' = [op EXCEPT ![c] = r]
        BY <1>0, <2>2
      <3>2. NotesItsKind(r)
        <4> HIDE DEF data
        <4> QED BY <1>0, <2>1 DEF NotesItsKind, Ops
      <3> HIDE DEF r
      <3> QED BY <1>1, <3>1, <3>2, NotesKept DEF NotesInv
    <2> QED BY <1>2, <1>5, <2>2 DEF CopyReads
  <1>6. CASE CloseApplication(c)
    <2>1. CASE op[c].kind = "approve" /\ op' = [op EXCEPT ![c].pc = "activate", ![c].held = profile]
      <3> DEFINE r == [op[c] EXCEPT !.pc = "activate", !.held = profile]
      <3>1. op' = [op EXCEPT ![c] = r]
        BY <1>0, <2>1
      <3>2. NotesItsKind(r)
        BY <1>0, <2>1 DEF NotesItsKind, Ops
      <3> HIDE DEF r
      <3> QED BY <1>1, <3>1, <3>2, NotesKept DEF NotesInv
    <2> QED BY <1>2, <1>6, <2>1 DEF CloseApplication, ProfileEnds
  <1>7. CASE PhotoSaves(c)
    <2>1. CASE op' = [op EXCEPT ![c].pc = "merge", ![c].held = profile]
      <3> DEFINE r == [op[c] EXCEPT !.pc = "merge", !.held = profile]
      <3>1. op' = [op EXCEPT ![c] = r]
        BY <1>0, <2>1
      <3>2. NotesItsKind(r)
        BY <1>0 DEF NotesItsKind, Ops
      <3> HIDE DEF r
      <3> QED BY <1>1, <3>1, <3>2, NotesKept DEF NotesInv
    <2> QED BY <1>2, <1>7, <2>1 DEF PhotoSaves
  <1>8. CASE RejectApplication(c)
    <2>1. op[c].kind = "reject"
      BY <1>0, <1>8 DEF RejectApplication, NotesItsKind
    <2>2. NotesItsKind([op[c] EXCEPT !.pc = "noted"])
      BY <1>0, <2>1 DEF NotesItsKind, Ops
    <2> QED BY <1>2, <1>3, <1>8, <2>2 DEF RejectApplication
  <1>9. CASE RequestChanges(c)
    <2>1. op[c].kind = "changes" /\ ProfileGoes(c, "noted")
      BY <1>0, <1>9 DEF RequestChanges, NotesItsKind
    <2>2. NotesItsKind([op[c] EXCEPT !.pc = "noted"])
      BY <1>0, <2>1 DEF NotesItsKind, Ops
    <2> QED BY <1>3, <2>1, <2>2
  <1>10. CASE Copy(c)
    <2>1. op[c].kind \in {"approve", "update"} /\ ProfileGoes(c, "close")
      BY <1>0, <1>10 DEF Copy, NotesItsKind
    <2>2. NotesItsKind([op[c] EXCEPT !.pc = "close"])
      BY <1>0, <2>1 DEF NotesItsKind, Ops
    <2> QED BY <1>3, <2>1, <2>2
  <1>11. CASE Activate(c)
    <2>1. op[c].kind = "approve" /\ ProfileGoes(c, "noted")
      BY <1>0, <1>11 DEF Activate, NotesItsKind
    <2>2. NotesItsKind([op[c] EXCEPT !.pc = "noted"])
      BY <1>0, <2>1 DEF NotesItsKind, Ops
    <2> QED BY <1>3, <2>1, <2>2
  <1>12. CASE PhotoMerges(c) \/ LifeWrites(c) \/ ProfileOpDies(c)
    BY <1>2, <1>12 DEF PhotoMerges, LifeWrites, ProfileOpDies
  <1> QED BY <1>4, <1>5, <1>6, <1>7, <1>8, <1>9, <1>10, <1>11, <1>12

\* The note itself is one of the four, so the row's flow keeps its type.
LEMMA NoteTyped ==
    ASSUME ProfileInv, NotesInv, NEW c \in ProfileCalls, Note(c)
    PROVE  NotesInv'
  <1> DEFINE a == op[c].row
             noted == CASE op[c].kind = "submit"  -> [review[a] EXCEPT !.flow = "UNDER_REVIEW"]
                        [] op[c].kind = "approve" -> [review[a] EXCEPT !.flow = "APPROVED"]
                        [] op[c].kind = "reject"  -> [flow |-> "REJECTED", changes |-> FALSE]
                        [] op[c].kind = "changes" -> [flow |-> "CHANGES_REQUESTED", changes |-> TRUE]
             Reviews == [flow : Flows, changes : BOOLEAN]
  <1>1. /\ op[c].pc = "noted" /\ review' = [review EXCEPT ![a] = noted]
        /\ ProfileEnds(c) /\ UNCHANGED <<newer, approved>>
    BY DEF Note
  <1>2. op[c].kind \in {"submit", "approve", "reject", "changes"}
    BY <1>1, NotesTypes DEF NotesItsKind
  <1>3. a \in Applications => review[a] \in Reviews
    BY DEF NotesInv
  <1>4. a \in Applications => noted \in Reviews
    BY <1>2, <1>3 DEF Flows
  <1>5. review' \in [Applications -> Reviews]
    <2> HIDE DEF a, noted
    <2> QED BY <1>1, <1>4 DEF NotesInv
  <1> QED BY <1>1, <1>5, NotesGo DEF NotesInv

LEMMA NotesSuspension ==
    ASSUME ProfileInv, NotesInv, NEW c \in ProfileCalls, SuspendWrites(c)
    PROVE  NotesInv'
  <1>1. /\ op' = [d \in ProfileCalls |-> IF d = c \/ op[d].pc = "idle" THEN NoOp
                                         ELSE [op[d] EXCEPT !.early = TRUE]]
        /\ UNCHANGED <<newer, review, approved>>
    BY DEF SuspendWrites
  <1>2. ASSUME NEW d \in ProfileCalls
        PROVE  NotesItsKind(op'[d])
    <2>1. op[d] \in Ops /\ NotesItsKind(op[d])
      BY NotesTypes
    <2>2. NotesItsKind(NoOp)
      BY DEF NotesItsKind, NoOp
    <2>3. NotesItsKind([op[d] EXCEPT !.early = TRUE])
      BY <2>1 DEF NotesItsKind, Ops
    <2>4. op'[d] = NoOp \/ op'[d] = [op[d] EXCEPT !.early = TRUE]
      BY <1>1
    <2> QED BY <2>2, <2>3, <2>4
  <1> QED BY <1>1, <1>2 DEF NotesInv, NotesItsKind, Ordered

LEMMA NotesSteps ==
    ASSUME ProfileInv, ProfileInv', NotesInv, [ProfilesNext]_profileVars
    PROVE  NotesInv'
  <1>1. CASE UNCHANGED profileVars
    BY <1>1 DEF profileVars, NotesInv, NotesItsKind, Ordered
  <1>2. CASE Reopen
    BY <1>2 DEF Reopen, NotesInv, NotesItsKind, Ordered
  <1>3. ASSUME NEW a \in Applications, AssignReviewer(a)
        PROVE  NotesInv'
    <2>1. review' = [review EXCEPT ![a].flow = "UNDER_REVIEW"] /\ UNCHANGED <<newer, op, approved>>
      BY <1>3 DEF AssignReviewer
    <2>2. review' \in [Applications -> [flow : Flows, changes : BOOLEAN]]
      BY <2>1 DEF NotesInv, Flows
    <2> QED BY <2>1, <2>2 DEF NotesInv, NotesItsKind, Ordered
  <1> QED
    BY <1>1, <1>2, <1>3, NotesMemberSteps, NotesSaveSteps, NotesAdminBegins, NotesAdminSteps,
       NoteTyped, NotesSuspension DEF ProfilesNext, ProfilesBegin, ProfilesGoOn

\* Every variable of the profile keeps its type, the order of the applications included.
THEOREM ProfilesTypes == ProfilesSpec => []ProfilesTypeOK
  <1>1. ProfilesInit => NotesInv
    <2> SUFFICES ASSUME ProfilesInit PROVE NotesInv
      OBVIOUS
    <2>1. Ordered(newer)
      BY ProfilesAssumption DEF ProfilesInit, Ordered
    <2>2. review \in [Applications -> [flow : Flows, changes : BOOLEAN]]
      BY DEF ProfilesInit, NoReview, Flows
    <2> QED BY <2>1, <2>2 DEF ProfilesInit, NotesInv, NotesItsKind, NoOp
  <1>2. ProfileInv /\ NotesInv => ProfilesTypeOK
    <2> SUFFICES ASSUME ProfileInv, NotesInv PROVE ProfilesTypeOK
      OBVIOUS
    <2>1. \A a \in Applications : application[a] \in ApplicationRows
      BY DEF ProfileInv, ProfileTyped
    <2>2. \A a \in Applications : review[a].flow \in Flows
      BY DEF NotesInv
    <2> QED BY <2>1, <2>2 DEF ProfileInv, ProfileTyped, ProfileData, ApplicationRows, Flows, NotesInv,
                              Ordered, ProfilesTypeOK
  <1> QED BY <1>1, <1>2, ProfilesInvariant, NotesSteps, PTL DEF ProfilesSpec

-----------------------------------------------------------------------------
(***************************************************************************)
(* Presence                                                                *)
(***************************************************************************)
SocketPcs == {"none", "adding", "joined", "handled", "removing", "dropping", "counting", "last", "gone"}
SweepPcs == {"idle", "check", "refs", "each", "take", "clear", "drop", "count", "last"}
AtRef == {"take", "clear", "drop"}
InTodo == AtRef \cup {"each", "count", "last"}
SocketStates == [pc : SocketPcs, at : SUBSET Servers, up : BOOLEAN]
SweepStates == [pc : SweepPcs, list : SUBSET Servers, victim : SUBSET Servers,
                todo : SUBSET Sockets, ref : SUBSET Sockets]

PresenceTyped ==
    /\ socket \in [Sockets -> SocketStates]
    /\ server \in [Servers -> {"up", "closing", "down"}]
    /\ refs \in SUBSET Sockets /\ known \in SUBSET Sockets /\ stuck \in SUBSET Sockets
    /\ held \in [Servers -> SUBSET Sockets]
    /\ listed \in SUBSET Servers /\ beating \in SUBSET Servers /\ lapsed \in SUBSET Servers
    /\ sweep \in [Servers -> SweepStates]

Failed(s) == s \in lapsed \/ server[s] = "down"
Placed(k) == socket[k].pc \notin {"none", "adding"}

\* Whoever is swept has failed: a server not listed without a heartbeat that is up has lapsed.
SuspectsFailed ==
    /\ \A s \in listed : s \in beating \/ Failed(s)
    /\ \A s \in Servers : \A v \in sweep[s].list : v \in beating \/ Failed(v)
    /\ \A s \in Servers : sweep[s].pc \notin {"idle", "check"} => \A v \in sweep[s].victim : Failed(v)

\* So has the server of a reference that a sweep is about to take or to drop.
OfFailed(k) == Placed(k) /\ \E v \in Servers : On(k, v) /\ Failed(v)
TakenOfFailed ==
    \A s \in Servers :
        /\ sweep[s].pc \in InTodo => \A k \in sweep[s].todo : OfFailed(k)
        /\ sweep[s].pc \in AtRef => \A k \in sweep[s].ref : OfFailed(k)
        /\ sweep[s].pc \in {"clear", "drop"} => \A k \in sweep[s].ref : k \notin known

\* Where references are.
HeldHere == \A s \in Servers : \A k \in held[s] : On(k, s) /\ Placed(k)
RefsPlaced ==
    /\ known \subseteq refs
    /\ \A k \in refs : Placed(k) /\ socket[k].pc \notin {"counting", "last"}
DownGone == \A k \in Sockets, s \in Servers : On(k, s) /\ server[s] = "down" => socket[k].pc = "gone"

\* Who removes a reference: nobody is sure to, or a sweep has it in hand, or it is known and its
\* handler or a later sweep finds it.
LostInHand == \A k \in refs \ stuck : k \in known \/ \E s \in Servers : k \in InHand(s)
KnownFound ==
    \A k \in known \ stuck : \E s \in listed :
        /\ k \in held[s]
        /\ server[s] = "down" \/ socket[k].pc \in {"joined", "handled", "removing", "dropping"}

\* A connection whose server has not lapsed is known.
LivingKnown ==
    \A k \in Sockets, s \in Servers :
        On(k, s) /\ socket[k].pc \in {"joined", "handled"} /\ s \notin lapsed
            => k \in known /\ k \in held[s]

PresenceInv ==
    /\ PresenceTyped
    /\ SuspectsFailed /\ TakenOfFailed
    /\ HeldHere /\ RefsPlaced /\ DownGone
    /\ LostInHand /\ KnownFound /\ LivingKnown

\* A server stays failed and a reference keeps its server.
FailedStays ==
    /\ \A s \in Servers : Failed(s) => Failed(s)'
    /\ \A k \in Sockets : Placed(k) => Placed(k)' /\ socket'[k].at = socket[k].at

LEMMA OfFailedStays ==
    ASSUME FailedStays, NEW k \in Sockets, OfFailed(k)
    PROVE  OfFailed(k)'
  BY DEF FailedStays, OfFailed, On

\* A sweep that does not move keeps what it has.
LEMMA TakenKept ==
    ASSUME PresenceInv, FailedStays, NEW s \in Servers, sweep'[s] = sweep[s],
           \A k \in Sockets : k \in known' => k \in known \/ ~Placed(k)
    PROVE  /\ sweep'[s].pc \in InTodo => \A k \in sweep'[s].todo : OfFailed(k)'
           /\ sweep'[s].pc \in AtRef => \A k \in sweep'[s].ref : OfFailed(k)'
           /\ sweep'[s].pc \in {"clear", "drop"} => \A k \in sweep'[s].ref : k \notin known'
  <1>1. sweep[s] \in SweepStates
    BY DEF PresenceInv, PresenceTyped
  <1>2. sweep[s].todo \in SUBSET Sockets /\ sweep[s].ref \in SUBSET Sockets
    BY <1>1 DEF SweepStates
  <1>3. /\ sweep[s].pc \in InTodo => \A k \in sweep[s].todo : OfFailed(k)
        /\ sweep[s].pc \in AtRef => \A k \in sweep[s].ref : OfFailed(k)
        /\ sweep[s].pc \in {"clear", "drop"} => \A k \in sweep[s].ref : k \notin known
    BY DEF PresenceInv, TakenOfFailed
  <1> QED BY <1>2, <1>3, OfFailedStays DEF OfFailed, AtRef

\* The steps that change neither a sweep nor the keys in Redis, but one connection.
LEMMA SocketKept ==
    ASSUME PresenceInv, NEW k \in Sockets, NEW r \in SocketStates,
           socket' = [socket EXCEPT ![k] = r],
           UNCHANGED <<server, refs, known, held, listed, beating, lapsed, sweep>>,
           stuck' = stuck \/ (stuck' = stuck \cup {k} /\ r.pc = "gone"),
           Placed(k) => r.pc \notin {"none", "adding"} /\ r.at = socket[k].at,
           k \in refs => r.pc \notin {"counting", "last"},
           k \in known /\ k \notin stuck' =>
              \/ socket[k].pc \notin {"joined", "handled", "removing", "dropping"}
              \/ r.pc \in {"joined", "handled", "removing", "dropping"},
           r.pc \in {"joined", "handled"} => socket[k].pc \in {"joined", "handled"},
           \A s \in Servers : r.at = {s} /\ server[s] = "down" => r.pc = "gone"
    PROVE  PresenceInv'
  <1>1. /\ socket' \in [Sockets -> SocketStates] /\ socket'[k] = r
        /\ \A j \in Sockets \ {k} : socket'[j] = socket[j]
    BY DEF PresenceInv, PresenceTyped
  <1>2. PresenceTyped' /\ \A j \in Sockets : j \in stuck => j \in stuck'
    BY <1>1 DEF PresenceInv, PresenceTyped
  <1>3. FailedStays
    BY <1>1 DEF FailedStays, Failed, Placed
  <1>4. SuspectsFailed'
    BY DEF PresenceInv, SuspectsFailed, Failed
  <1>5. TakenOfFailed'
    BY <1>3, TakenKept DEF TakenOfFailed
  <1>6. HeldHere'
    BY <1>1, <1>3 DEF PresenceInv, PresenceTyped, HeldHere, FailedStays, On
  <1>7. RefsPlaced'
    BY <1>1, <1>3 DEF PresenceInv, PresenceTyped, RefsPlaced, FailedStays, Placed
  <1>8. DownGone'
    BY <1>1 DEF PresenceInv, DownGone, On
  <1>9. LostInHand'
    BY <1>2 DEF PresenceInv, PresenceTyped, LostInHand, InHand
  <1>10. KnownFound'
    BY <1>1, <1>2 DEF PresenceInv, PresenceTyped, KnownFound
  <1>11. LivingKnown'
    <2> SUFFICES ASSUME NEW j \in Sockets, NEW s \in Servers,
                        On(j, s)', socket'[j].pc \in {"joined", "handled"}, s \notin lapsed
                 PROVE  j \in known /\ j \in held[s]
      BY DEF LivingKnown
    <2>1. On(j, s) /\ socket[j].pc \in {"joined", "handled"}
      BY <1>1 DEF On, Placed
    <2> QED BY <2>1 DEF PresenceInv, LivingKnown
  <1> QED BY <1>2, <1>4, <1>5, <1>6, <1>7, <1>8, <1>9, <1>10, <1>11 DEF PresenceInv

LEMMA ConnectionSteps ==
    ASSUME PresenceInv, NEW k \in Sockets,
           \/ \E s \in Servers : Connect(k, s)
           \/ RegisterHandler(k) \/ Disconnects(k) \/ LookUp(k) \/ CountRefs(k) \/ GoOffline(k)
    PROVE  PresenceInv'
  <1>0. /\ socket \in [Sockets -> SocketStates] /\ socket[k] \in SocketStates
        /\ \A s \in Servers : On(k, s) /\ server[s] = "down" => socket[k].pc = "gone"
        /\ known \subseteq refs
        /\ k \in refs => Placed(k) /\ socket[k].pc \notin {"counting", "last"}
    BY DEF PresenceInv, PresenceTyped, DownGone, RefsPlaced
  <1>1. ASSUME NEW s \in Servers, Connect(k, s)
        PROVE  PresenceInv'
    <2> DEFINE r == [pc |-> "adding", at |-> {s}, up |-> TRUE]
    <2>1. r \in SocketStates /\ r.pc = "adding" /\ r.at = {s}
      BY DEF SocketStates, SocketPcs
    <2>2. socket' = [socket EXCEPT ![k] = r]
      BY <1>1 DEF Connect
    <2>3. /\ socket[k].pc = "none" /\ server[s] # "down" /\ stuck' = stuck
          /\ UNCHANGED <<server, refs, known, held, listed, beating, lapsed, sweep>>
      BY <1>1 DEF Connect, userKeys, serverKeys
    <2>4. \A v \in Servers : {s} = {v} => v = s
      OBVIOUS
    <2> HIDE DEF r
    <2> QED BY <1>0, <2>1, <2>2, <2>3, <2>4, SocketKept DEF Placed
  <1>2. ASSUME NEW p \in {"handled", "dropping", "gone", "last"},
               Handler(k, p),
               UNCHANGED <<server, refs, known, held, listed, beating, lapsed, sweep>>,
               \/ socket[k].pc = "joined" /\ p = "handled" /\ stuck' = stuck
               \/ socket[k].pc = "joined" /\ p = "gone" /\ stuck' = stuck \cup {k}
               \/ socket[k].pc = "removing" /\ p = "dropping" /\ stuck' = stuck
               \/ socket[k].pc = "removing" /\ p = "gone" /\ k \notin known /\ stuck' = stuck
               \/ socket[k].pc \in {"counting", "last"} /\ p \in {"gone", "last"} /\ stuck' = stuck
        PROVE  PresenceInv'
    <2> DEFINE r == [socket[k] EXCEPT !.pc = p]
    <2>1. r \in SocketStates /\ r.pc = p /\ r.at = socket[k].at
      BY <1>0 DEF SocketStates, SocketPcs
    <2>2. socket' = [socket EXCEPT ![k] = r]
      BY <1>0, <1>2 DEF Handler
    <2>3. \A s \in Servers : r.at = {s} /\ server[s] = "down" => r.pc = "gone"
      BY <1>0, <1>2, <2>1 DEF On
    <2> HIDE DEF r
    <2> QED BY <1>0, <1>2, <2>1, <2>2, <2>3, SocketKept DEF Placed
  <1>3. CASE RegisterHandler(k)
    BY <1>2, <1>3 DEF RegisterHandler, userKeys, serverKeys
  <1>4. CASE Disconnects(k)
    <2> DEFINE p == IF socket[k].pc = "handled" THEN "removing" ELSE socket[k].pc
               r == [socket[k] EXCEPT !.up = FALSE, !.pc = p]
    <2>1. p \in SocketPcs
      BY <1>0 DEF SocketStates, SocketPcs
    <2>2. r \in SocketStates /\ r.pc = p /\ r.at = socket[k].at
      <3> HIDE DEF p
      <3> QED BY <1>0, <2>1 DEF SocketStates
    <2>3. socket' = [socket EXCEPT ![k] = r]
      BY <1>0, <1>4 DEF Disconnects
    <2>4. /\ stuck' = stuck
          /\ UNCHANGED <<server, refs, known, held, listed, beating, lapsed, sweep>>
      BY <1>4 DEF Disconnects, userKeys, serverKeys
    <2>5. \A s \in Servers : r.at = {s} /\ server[s] = "down" => r.pc = "gone"
      BY <1>0, <2>2 DEF On
    <2> HIDE DEF r
    <2> QED BY <1>0, <2>2, <2>3, <2>4, <2>5, SocketKept DEF Placed
  <1>5. CASE CountRefs(k)
    BY <1>2, <1>5 DEF CountRefs, userKeys, serverKeys
  <1>6. CASE GoOffline(k)
    BY <1>2, <1>6 DEF GoOffline, SetOffline, serverKeys
  <1>7. CASE LookUp(k)
    BY <1>2, <1>7 DEF LookUp, userKeys, serverKeys
  <1> QED BY <1>1, <1>3, <1>4, <1>5, <1>6, <1>7

LEMMA AddRefStep ==
    ASSUME PresenceInv, NEW k \in Sockets, NEW s \in Servers, AddRef(k, s)
    PROVE  PresenceInv'
  <1> DEFINE r == [socket[k] EXCEPT !.pc = "joined"]
  <1>1. /\ socket[k].pc = "adding" /\ On(k, s)
        /\ refs' = refs \cup {k} /\ known' = known \cup {k}
        /\ held' = [held EXCEPT ![s] = @ \cup {k}]
        /\ listed' = listed \cup {s} /\ beating' = beating \cup {s}
        /\ UNCHANGED <<server, sweep, lapsed, stuck>>
    BY DEF AddRef
  <1>2. r \in SocketStates /\ r.pc = "joined" /\ r.at = socket[k].at
    BY DEF PresenceInv, PresenceTyped, SocketStates, SocketPcs
  <1>3. socket' = [socket EXCEPT ![k] = r]
    BY DEF AddRef, Handler, PresenceInv, PresenceTyped
  <1>4. /\ socket' \in [Sockets -> SocketStates] /\ socket'[k].pc = "joined"
        /\ socket'[k].at = socket[k].at
        /\ \A j \in Sockets \ {k} : socket'[j] = socket[j]
    <2> HIDE DEF r
    <2> QED BY <1>2, <1>3 DEF PresenceInv, PresenceTyped
  <1>5. /\ held' \in [Servers -> SUBSET Sockets] /\ held'[s] = held[s] \cup {k}
        /\ \A v \in Servers \ {s} : held'[v] = held[v]
    BY <1>1 DEF PresenceInv, PresenceTyped
  <1>6. PresenceTyped'
    BY <1>1, <1>4, <1>5 DEF PresenceInv, PresenceTyped
  <1>7. FailedStays
    BY <1>1, <1>4 DEF FailedStays, Failed, Placed
  <1>8. SuspectsFailed'
    BY <1>1 DEF PresenceInv, SuspectsFailed, Failed
  <1>9. TakenOfFailed'
    BY <1>1, <1>7, TakenKept DEF TakenOfFailed, Placed
  <1>10. HeldHere'
    BY <1>1, <1>4, <1>5, <1>7 DEF PresenceInv, PresenceTyped, HeldHere, FailedStays, On, Placed
  <1>11. RefsPlaced'
    BY <1>1, <1>4, <1>7 DEF PresenceInv, PresenceTyped, RefsPlaced, FailedStays, Placed
  <1>12. DownGone'
    BY <1>1, <1>4 DEF PresenceInv, DownGone, On
  <1>13. LostInHand'
    BY <1>1 DEF PresenceInv, LostInHand, InHand
  <1>14. KnownFound'
    BY <1>1, <1>4, <1>5 DEF PresenceInv, PresenceTyped, KnownFound
  <1>15. LivingKnown'
    <2>1. \A v \in Servers : On(k, v)' => v = s
      BY <1>1, <1>4 DEF On
    <2> QED BY <1>1, <1>4, <1>5, <2>1 DEF PresenceInv, LivingKnown, On
  <1> QED BY <1>6, <1>8, <1>9, <1>10, <1>11, <1>12, <1>13, <1>14, <1>15 DEF PresenceInv

LEMMA RemoveRefStep ==
    ASSUME PresenceInv, NEW k \in Sockets, NEW s \in Servers, RemoveRef(k, s)
    PROVE  PresenceInv'
  <1> DEFINE r == [socket[k] EXCEPT !.pc = "counting"]
  <1>1. /\ socket[k].pc = "dropping" /\ On(k, s)
        /\ Handler(k, "counting")
        /\ refs' = refs \ {k} /\ known' = known \ {k}
        /\ held' = [held EXCEPT ![s] = @ \ {k}]
        /\ UNCHANGED <<server, listed, beating, lapsed, sweep, stuck>>
    BY DEF RemoveRef, serverKeys
  <1>2. r \in SocketStates /\ r.pc = "counting" /\ r.at = socket[k].at
    BY DEF PresenceInv, PresenceTyped, SocketStates, SocketPcs
  <1>3. socket' = [socket EXCEPT ![k] = r]
    BY <1>1 DEF Handler, PresenceInv, PresenceTyped
  <1>4. /\ socket' \in [Sockets -> SocketStates] /\ socket'[k].pc = "counting"
        /\ socket'[k].at = socket[k].at
        /\ \A j \in Sockets \ {k} : socket'[j] = socket[j]
    <2> HIDE DEF r
    <2> QED BY <1>2, <1>3 DEF PresenceInv, PresenceTyped
  <1>5. /\ held' \in [Servers -> SUBSET Sockets]
        /\ \A v \in Servers : held'[v] \subseteq held[v] /\ held[v] \ {k} \subseteq held'[v]
    BY <1>1 DEF PresenceInv, PresenceTyped
  <1>6. /\ refs' \in SUBSET refs /\ known' \in SUBSET known /\ refs \ {k} \subseteq refs'
        /\ known \ {k} \subseteq known' /\ k \notin known'
        /\ known' \subseteq refs' /\ k \notin refs'
    BY <1>1 DEF PresenceInv, RefsPlaced
  <1>7. PresenceTyped'
    BY <1>1, <1>4, <1>5, <1>6 DEF PresenceInv, PresenceTyped
  <1>8. FailedStays
    BY <1>1, <1>4 DEF FailedStays, Failed, Placed
  <1>9. SuspectsFailed'
    BY <1>1 DEF PresenceInv, SuspectsFailed, Failed
  <1>10. TakenOfFailed'
    BY <1>1, <1>6, <1>8, TakenKept DEF TakenOfFailed
  <1>11. HeldHere'
    BY <1>4, <1>5, <1>8 DEF PresenceInv, PresenceTyped, HeldHere, FailedStays, On
  <1>12. RefsPlaced'
    BY <1>1, <1>4, <1>6, <1>8 DEF PresenceInv, PresenceTyped, RefsPlaced, FailedStays, Placed
  <1>13. DownGone'
    BY <1>1, <1>4 DEF PresenceInv, DownGone, On
  <1>14. LostInHand'
    BY <1>1, <1>6 DEF PresenceInv, LostInHand, InHand
  <1>15. KnownFound'
    BY <1>1, <1>4, <1>5, <1>6 DEF PresenceInv, PresenceTyped, KnownFound
  <1>16. LivingKnown'
    <2> SUFFICES ASSUME NEW j \in Sockets, NEW v \in Servers, On(j, v)',
                        socket'[j].pc \in {"joined", "handled"}, v \notin lapsed
                 PROVE  j \in known' /\ j \in held'[v]
      BY <1>1 DEF LivingKnown
    <2>1. j # k
      BY <1>4
    <2>2. j \in known /\ j \in held[v]
      BY <1>4, <2>1 DEF PresenceInv, LivingKnown, On
    <2> QED BY <1>5, <1>6, <2>1, <2>2
  <1> QED BY <1>7, <1>9, <1>10, <1>11, <1>12, <1>13, <1>14, <1>15, <1>16 DEF PresenceInv

LEMMA BeatSteps ==
    ASSUME PresenceInv, NEW s \in Servers, Beat(s) \/ BeatLapses(s)
    PROVE  PresenceInv'
  <1>1. /\ UNCHANGED <<server, refs, socket, known, held, sweep, stuck>>
        /\ \/ listed' = listed \cup {s} /\ beating' = beating \cup {s} /\ lapsed' = lapsed
           \/ /\ listed' = listed /\ beating' = beating \ {s}
              /\ lapsed' = IF server[s] = "down" THEN lapsed ELSE lapsed \cup {s}
    BY DEF Beat, BeatLapses, userKeys
  <1>2. PresenceTyped'
    BY <1>1 DEF PresenceInv, PresenceTyped
  <1>3. FailedStays
    BY <1>1 DEF FailedStays, Failed, Placed
  <1>4. SuspectsFailed'
    BY <1>1 DEF PresenceInv, SuspectsFailed, Failed
  <1>5. TakenOfFailed'
    BY <1>1, <1>3, TakenKept DEF TakenOfFailed
  <1>6. HeldHere' /\ RefsPlaced' /\ DownGone'
    BY <1>1 DEF PresenceInv, HeldHere, RefsPlaced, DownGone, On, Placed
  <1>7. LostInHand' /\ KnownFound'
    BY <1>1 DEF PresenceInv, LostInHand, KnownFound, InHand
  <1>8. LivingKnown'
    BY <1>1 DEF PresenceInv, LivingKnown, On
  <1> QED BY <1>2, <1>4, <1>5, <1>6, <1>7, <1>8 DEF PresenceInv

\* A process ends: its connections and its sweep with it.
LEMMA ServerEnds ==
    ASSUME PresenceInv, NEW s \in Servers, SweepDone(s),
           UNCHANGED <<refs, known, lapsed>>,
           held' \in [Servers -> SUBSET Sockets],
           \A v \in Servers \ {s} : held'[v] = held[v],
           held'[s] = held[s] \/ (held'[s] = {} /\ held[s] \subseteq stuck'),
           stuck' \in SUBSET Sockets, stuck \cup InHand(s) \subseteq stuck',
           listed' \in SUBSET Servers, beating' \in SUBSET Servers,
           listed' = listed \/ (listed' = listed \ {s} /\ held[s] \subseteq stuck'),
           listed' \subseteq listed, beating \ {s} \subseteq beating'
    PROVE  PresenceInv'
  <1>1. /\ server' = [server EXCEPT ![s] = "down"]
        /\ sweep' = [sweep EXCEPT ![s] = NoSweep]
        /\ socket' = [k \in Sockets |-> IF On(k, s) THEN [socket[k] EXCEPT !.pc = "gone", !.up = FALSE]
                                        ELSE socket[k]]
    BY DEF SweepDone
  <1>2. ASSUME NEW k \in Sockets
        PROVE  /\ socket'[k] \in SocketStates /\ socket'[k].at = socket[k].at
               /\ On(k, s) => socket'[k].pc = "gone"
               /\ ~On(k, s) => socket'[k] = socket[k]
    <2> DEFINE r == [socket[k] EXCEPT !.pc = "gone", !.up = FALSE]
    <2>1. socket[k] \in SocketStates
      BY DEF PresenceInv, PresenceTyped
    <2>2. r \in SocketStates /\ r.pc = "gone" /\ r.at = socket[k].at
      BY <2>1 DEF SocketStates, SocketPcs
    <2>3. socket'[k] = IF On(k, s) THEN r ELSE socket[k]
      BY <1>1
    <2> HIDE DEF r
    <2> QED BY <2>1, <2>2, <2>3
  <1>3. /\ server' \in [Servers -> {"up", "closing", "down"}] /\ server'[s] = "down"
        /\ \A v \in Servers \ {s} : server'[v] = server[v]
    BY <1>1 DEF PresenceInv, PresenceTyped
  <1>4. /\ sweep' \in [Servers -> SweepStates]
        /\ sweep'[s].pc = "idle" /\ sweep'[s].list = {}
        /\ \A v \in Servers \ {s} : sweep'[v] = sweep[v]
    <2>1. NoSweep \in SweepStates /\ NoSweep.pc = "idle" /\ NoSweep.list = {}
      BY DEF NoSweep, SweepStates, SweepPcs
    <2> QED BY <1>1, <2>1 DEF PresenceInv, PresenceTyped
  <1>5. PresenceTyped'
    <2>1. socket' \in [Sockets -> SocketStates]
      BY <1>1, <1>2
    <2> QED BY <1>3, <1>4, <2>1 DEF PresenceInv, PresenceTyped
  <1>6. FailedStays
    BY <1>2, <1>3 DEF FailedStays, Failed, Placed
  <1>7. SuspectsFailed'
    <2>1. ASSUME NEW v \in Servers, v \in beating \/ Failed(v)
          PROVE  v \in beating' \/ Failed(v)'
      BY <1>3, <1>6, <2>1 DEF FailedStays, Failed
    <2>2. \A v \in listed' : v \in beating' \/ Failed(v)'
      BY <2>1 DEF PresenceInv, PresenceTyped, SuspectsFailed
    <2>3. ASSUME NEW t \in Servers, t # s
          PROVE  /\ \A v \in sweep'[t].list : v \in beating' \/ Failed(v)'
                 /\ sweep'[t].pc \notin {"idle", "check"} => \A v \in sweep'[t].victim : Failed(v)'
      <3>1. sweep'[t] = sweep[t] /\ sweep[t].list \in SUBSET Servers /\ sweep[t].victim \in SUBSET Servers
        BY <1>4, <2>3 DEF PresenceInv, PresenceTyped, SweepStates
      <3> QED BY <1>6, <2>1, <3>1 DEF PresenceInv, SuspectsFailed, FailedStays
    <2> QED BY <1>4, <2>2, <2>3 DEF SuspectsFailed
  <1>8. TakenOfFailed'
    <2>1. ASSUME NEW t \in Servers, t # s
          PROVE  /\ sweep'[t].pc \in InTodo => \A k \in sweep'[t].todo : OfFailed(k)'
                 /\ sweep'[t].pc \in AtRef => \A k \in sweep'[t].ref : OfFailed(k)'
                 /\ sweep'[t].pc \in {"clear", "drop"} => \A k \in sweep'[t].ref : k \notin known'
      BY <1>4, <1>6, <2>1, TakenKept
    <2> QED BY <1>4, <2>1 DEF TakenOfFailed, InTodo, AtRef
  <1>9. HeldHere'
    BY <1>2, <1>6 DEF PresenceInv, PresenceTyped, HeldHere, FailedStays, On
  <1>10. RefsPlaced'
    BY <1>2, <1>6 DEF PresenceInv, PresenceTyped, RefsPlaced, FailedStays, Placed
  <1>11. DownGone'
    BY <1>2, <1>3 DEF PresenceInv, DownGone, On
  <1>12. LostInHand'
    <2> SUFFICES ASSUME NEW k \in refs, k \notin stuck', k \notin known
                 PROVE  \E t \in Servers : k \in InHand(t)'
      BY DEF LostInHand
    <2>1. PICK t \in Servers : k \in InHand(t)
      BY DEF PresenceInv, LostInHand
    <2>2. t # s
      BY <2>1
    <2> QED BY <1>4, <2>1, <2>2 DEF InHand
  <1>13. KnownFound'
    <2> SUFFICES ASSUME NEW k \in known, k \notin stuck'
                 PROVE  \E v \in listed' :
                           /\ k \in held'[v]
                           /\ server'[v] = "down" \/ socket'[k].pc \in {"joined", "handled", "removing", "dropping"}
      BY DEF KnownFound
    <2>1. PICK v \in listed :
              /\ k \in held[v]
              /\ server[v] = "down" \/ socket[k].pc \in {"joined", "handled", "removing", "dropping"}
      BY DEF PresenceInv, KnownFound
    <2>2. v \in Servers /\ k \in Sockets /\ On(k, v)
      BY <2>1 DEF PresenceInv, PresenceTyped, HeldHere
    <2>3. v \in listed' /\ k \in held'[v]
      BY <2>1, <2>2
    <2>4. CASE v = s
      BY <1>3, <2>3, <2>4
    <2>5. CASE v # s
      <3>1. ~On(k, s)
        BY <2>2, <2>5 DEF On
      <3> QED BY <1>2, <1>3, <2>1, <2>2, <2>3, <2>5, <3>1
    <2> QED BY <2>4, <2>5
  <1>14. LivingKnown'
    <2> SUFFICES ASSUME NEW k \in Sockets, NEW v \in Servers, On(k, v)',
                        socket'[k].pc \in {"joined", "handled"}, v \notin lapsed
                 PROVE  k \in known /\ k \in held'[v]
      BY DEF LivingKnown
    <2>1. ~On(k, s) /\ socket'[k] = socket[k]
      BY <1>2
    <2>2. v # s /\ On(k, v)
      BY <2>1 DEF On
    <2> QED BY <2>1, <2>2 DEF PresenceInv, LivingKnown
  <1> QED BY <1>5, <1>7, <1>8, <1>9, <1>10, <1>11, <1>12, <1>13, <1>14 DEF PresenceInv

LEMMA ServerSteps ==
    ASSUME PresenceInv, NEW s \in Servers, ProcessDies(s) \/ Close(s) \/ CloseEnds(s)
    PROVE  PresenceInv'
  <1>0. InHand(s) \in SUBSET Sockets
    BY DEF PresenceInv, PresenceTyped, SweepStates, InHand
  <1>1. CASE ProcessDies(s)
    BY <1>0, <1>1, ServerEnds DEF ProcessDies, PresenceInv, PresenceTyped
  <1>2. CASE CloseEnds(s)
    <2>1. /\ SweepDone(s) /\ UNCHANGED <<refs, known, lapsed>>
          /\ stuck' = stuck \cup held[s] \cup InHand(s)
          /\ held' = [held EXCEPT ![s] = {}]
          /\ listed' = listed \ {s} /\ beating' = beating \ {s}
      BY <1>2 DEF CloseEnds
    <2>2. /\ held' \in [Servers -> SUBSET Sockets] /\ held'[s] = {}
          /\ \A v \in Servers \ {s} : held'[v] = held[v]
      BY <2>1 DEF PresenceInv, PresenceTyped
    <2>3. stuck' \in SUBSET Sockets /\ listed' \in SUBSET Servers /\ beating' \in SUBSET Servers
      BY <1>0, <2>1 DEF PresenceInv, PresenceTyped
    <2> QED BY <2>1, <2>2, <2>3, ServerEnds
  <1>3. CASE Close(s)
    <2>1. /\ server[s] = "up" /\ server' = [server EXCEPT ![s] = "closing"]
          /\ socket' = [k \in Sockets |->
                IF k \in held[s] /\ socket[k].pc \in {"joined", "handled", "gone"}
                THEN [socket[k] EXCEPT !.pc = "removing"] ELSE socket[k]]
          /\ UNCHANGED <<refs, listed, beating, lapsed, known, held, sweep, stuck>>
      BY <1>3 DEF Close, userKeys
    <2>2. ASSUME NEW k \in Sockets
          PROVE  /\ socket'[k] \in SocketStates /\ socket'[k].at = socket[k].at
                 /\ \/ socket'[k] = socket[k]
                    \/ /\ socket'[k].pc = "removing" /\ k \in held[s]
                       /\ socket[k].pc \in {"joined", "handled", "gone"}
      <3> DEFINE r == [socket[k] EXCEPT !.pc = "removing"]
      <3>1. socket[k] \in SocketStates
        BY DEF PresenceInv, PresenceTyped
      <3>2. r \in SocketStates /\ r.pc = "removing" /\ r.at = socket[k].at
        BY <3>1 DEF SocketStates, SocketPcs
      <3>3. socket'[k] = IF k \in held[s] /\ socket[k].pc \in {"joined", "handled", "gone"}
                         THEN r ELSE socket[k]
        BY <2>1
      <3> HIDE DEF r
      <3> QED BY <3>1, <3>2, <3>3
    <2>3. /\ server' \in [Servers -> {"up", "closing", "down"}]
          /\ \A v \in Servers : server'[v] = "down" <=> server[v] = "down"
      BY <2>1 DEF PresenceInv, PresenceTyped
    <2>4. PresenceTyped'
      <3>1. socket' \in [Sockets -> SocketStates]
        BY <2>1, <2>2
      <3> QED BY <2>1, <2>3, <3>1 DEF PresenceInv, PresenceTyped
    <2>5. FailedStays
      BY <2>1, <2>2, <2>3 DEF FailedStays, Failed, Placed
    <2>6. SuspectsFailed'
      BY <2>1, <2>3 DEF PresenceInv, PresenceTyped, SweepStates, SuspectsFailed, Failed
    <2>7. TakenOfFailed'
      BY <2>1, <2>5, TakenKept DEF TakenOfFailed
    <2>8. HeldHere'
      BY <2>1, <2>2, <2>5 DEF PresenceInv, PresenceTyped, HeldHere, FailedStays, On
    <2>9. RefsPlaced'
      BY <2>1, <2>2, <2>5 DEF PresenceInv, PresenceTyped, RefsPlaced, FailedStays, Placed
    <2>10. DownGone'
      <3> SUFFICES ASSUME NEW k \in Sockets, NEW v \in Servers, On(k, v)', server'[v] = "down"
                   PROVE  socket'[k].pc = "gone"
        BY DEF DownGone
      <3>1. On(k, v) /\ server[v] = "down" /\ socket[k].pc = "gone"
        BY <2>2, <2>3 DEF PresenceInv, DownGone, On
      <3>2. k \notin held[s]
        BY <2>1, <3>1 DEF PresenceInv, HeldHere, On
      <3> QED BY <2>2, <3>1, <3>2
    <2>11. LostInHand'
      BY <2>1 DEF PresenceInv, LostInHand, InHand
    <2>12. KnownFound'
      <3> SUFFICES ASSUME NEW k \in known, k \notin stuck
                   PROVE  \E v \in listed :
                            /\ k \in held[v]
                            /\ server'[v] = "down" \/ socket'[k].pc \in {"joined", "handled", "removing", "dropping"}
        BY <2>1 DEF KnownFound
      <3>1. PICK v \in listed :
                /\ k \in held[v]
                /\ server[v] = "down" \/ socket[k].pc \in {"joined", "handled", "removing", "dropping"}
        BY DEF PresenceInv, KnownFound
      <3>2. v \in Servers /\ k \in Sockets
        BY <3>1 DEF PresenceInv, PresenceTyped
      <3> QED BY <2>2, <2>3, <3>1, <3>2
    <2>13. LivingKnown'
      <3> SUFFICES ASSUME NEW k \in Sockets, NEW v \in Servers, On(k, v)',
                          socket'[k].pc \in {"joined", "handled"}, v \notin lapsed
                   PROVE  k \in known /\ k \in held[v]
        BY <2>1 DEF LivingKnown
      <3> QED BY <2>2 DEF PresenceInv, LivingKnown, On
    <2> QED
      BY <2>4, <2>6, <2>7, <2>8, <2>9, <2>10, <2>11, <2>12, <2>13 DEF PresenceInv
  <1> QED BY <1>1, <1>2, <1>3

\* A sweep moves on, with the keys it may have removed.
LEMMA SweepKept ==
    ASSUME PresenceInv, NEW s \in Servers, NEW r \in SweepStates,
           sweep' = [sweep EXCEPT ![s] = r],
           UNCHANGED <<socket, server, beating, lapsed>>,
           refs' \in SUBSET refs, known' \in SUBSET known, known' \subseteq refs',
           listed' \in SUBSET listed, stuck' \in SUBSET Sockets, stuck \subseteq stuck',
           held' \in [Servers -> SUBSET Sockets],
           \A v \in Servers : held'[v] \subseteq held[v],
           \A v \in r.list : v \in beating \/ Failed(v),
           r.pc \notin {"idle", "check"} => \A v \in r.victim : Failed(v),
           r.pc \in InTodo => \A k \in r.todo : OfFailed(k),
           r.pc \in AtRef => \A k \in r.ref : OfFailed(k),
           r.pc \in {"clear", "drop"} => \A k \in r.ref : k \notin known',
           \A k \in refs' \ stuck' :
              \/ k \in known' \/ (r.pc = "drop" /\ k \in r.ref)
              \/ k \notin known /\ k \notin InHand(s),
           \A k \in known' \ stuck', v \in listed : k \in held[v] => v \in listed' /\ k \in held'[v],
           \A k \in known, v \in Servers : k \in held[v] => (k \in known' /\ k \in held'[v]) \/ OfFailed(k)
    PROVE  PresenceInv'
  <1>1. /\ sweep' \in [Servers -> SweepStates] /\ sweep'[s] = r
        /\ \A v \in Servers \ {s} : sweep'[v] = sweep[v]
    BY DEF PresenceInv, PresenceTyped
  <1>2. PresenceTyped'
    BY <1>1 DEF PresenceInv, PresenceTyped
  <1>3. /\ FailedStays
        /\ \A v : Failed(v)' <=> Failed(v)
        /\ \A k : OfFailed(k)' <=> OfFailed(k)
    BY DEF FailedStays, Failed, Placed, OfFailed, On
  <1>4. SuspectsFailed'
    BY <1>1, <1>3 DEF PresenceInv, SuspectsFailed
  <1>5. TakenOfFailed'
    <2>1. ASSUME NEW t \in Servers, t # s
          PROVE  /\ sweep'[t].pc \in InTodo => \A k \in sweep'[t].todo : OfFailed(k)'
                 /\ sweep'[t].pc \in AtRef => \A k \in sweep'[t].ref : OfFailed(k)'
                 /\ sweep'[t].pc \in {"clear", "drop"} => \A k \in sweep'[t].ref : k \notin known'
      BY <1>1, <1>3, <2>1, TakenKept
    <2> QED BY <1>1, <1>3, <2>1 DEF TakenOfFailed
  <1>6. HeldHere' /\ RefsPlaced' /\ DownGone'
    BY DEF PresenceInv, PresenceTyped, HeldHere, RefsPlaced, DownGone, On, Placed
  <1>7. LostInHand'
    <2> SUFFICES ASSUME NEW k \in refs', k \notin stuck', k \notin known'
                 PROVE  \E t \in Servers : k \in InHand(t)'
      BY DEF LostInHand
    <2>1. CASE r.pc = "drop" /\ k \in r.ref
      BY <1>1, <2>1 DEF InHand
    <2>2. CASE k \notin known /\ k \notin InHand(s)
      <3>1. PICK t \in Servers : k \in InHand(t)
        BY <2>2 DEF PresenceInv, LostInHand
      <3> QED BY <1>1, <2>2, <3>1 DEF InHand
    <2> QED BY <2>1, <2>2
  <1>8. KnownFound'
    <2> SUFFICES ASSUME NEW k \in known', k \notin stuck'
                 PROVE  \E v \in listed' :
                          /\ k \in held'[v]
                          /\ server[v] = "down" \/ socket[k].pc \in {"joined", "handled", "removing", "dropping"}
      BY DEF KnownFound
    <2> QED BY DEF PresenceInv, KnownFound
  <1>9. LivingKnown'
    <2> SUFFICES ASSUME NEW k \in Sockets, NEW v \in Servers, On(k, v),
                        socket[k].pc \in {"joined", "handled"}, v \notin lapsed
                 PROVE  k \in known' /\ k \in held'[v]
      BY DEF LivingKnown, On
    <2>1. k \in known /\ k \in held[v]
      BY DEF PresenceInv, LivingKnown
    <2>2. ~OfFailed(k)
      <3>1. server[v] # "down"
        BY DEF PresenceInv, DownGone
      <3>2. \A u \in Servers : On(k, u) => u = v
        BY DEF On
      <3> QED BY <3>1, <3>2 DEF OfFailed, Failed
    <2> QED BY <2>1, <2>2
  <1> QED BY <1>2, <1>4, <1>5, <1>6, <1>7, <1>8, <1>9 DEF PresenceInv

\* The steps that remove nothing.
LEMMA SweepOnlyKept ==
    ASSUME PresenceInv, NEW s \in Servers, NEW r \in SweepStates,
           sweep' = [sweep EXCEPT ![s] = r],
           UNCHANGED <<socket, server, beating, lapsed, refs, known, held, listed>>,
           stuck' \in SUBSET Sockets, stuck \subseteq stuck', InHand(s) \subseteq stuck',
           \A v \in r.list : v \in beating \/ Failed(v),
           r.pc \notin {"idle", "check"} => \A v \in r.victim : Failed(v),
           r.pc \in InTodo => \A k \in r.todo : OfFailed(k),
           r.pc \in AtRef => \A k \in r.ref : OfFailed(k),
           r.pc = "clear" => \A k \in r.ref : k \notin known,
           r.pc # "drop"
    PROVE  PresenceInv'
  <1>1. /\ held' \in [Servers -> SUBSET Sockets] /\ known \subseteq refs
        /\ refs' \in SUBSET refs /\ known' \in SUBSET known /\ listed' \in SUBSET listed
    BY DEF PresenceInv, PresenceTyped, RefsPlaced
  <1>2. \A k \in refs' \ stuck' : k \in known' \/ (k \notin known /\ k \notin InHand(s))
    OBVIOUS
  <1> QED BY <1>1, <1>2, SweepKept

LEMMA SweepReadSteps ==
    ASSUME PresenceInv, NEW s \in Servers,
           \/ SweepLists(s) \/ SweepChecks(s) \/ SweepReads(s) \/ SweepTakes(s) \/ SweepCounts(s)
           \/ SweepSetsOffline(s) \/ SweepStops(s)
    PROVE  PresenceInv'
  <1>0. /\ sweep \in [Servers -> SweepStates] /\ sweep[s] \in SweepStates
        /\ stuck \in SUBSET Sockets /\ listed \in SUBSET Servers
        /\ held \in [Servers -> SUBSET Sockets]
        /\ NoSweep \in SweepStates
        /\ \A v \in sweep[s].list : v \in beating \/ Failed(v)
        /\ sweep[s].pc \notin {"idle", "check"} => \A v \in sweep[s].victim : Failed(v)
        /\ sweep[s].pc \in InTodo => \A k \in sweep[s].todo : OfFailed(k)
    BY DEF PresenceInv, PresenceTyped, SuspectsFailed, TakenOfFailed, NoSweep, SweepStates, SweepPcs
  <1>1. CASE SweepLists(s)
    <2> DEFINE list0 == listed \ {s}
               r == [NoSweep EXCEPT !.pc = "check", !.list = list0]
    <2>1. r \in SweepStates /\ r.pc = "check" /\ r.list = list0
      <3>1. list0 \in SUBSET Servers
        BY <1>0
      <3> HIDE DEF list0
      <3> QED BY <3>1 DEF NoSweep, SweepStates, SweepPcs
    <2>2. sweep' = [sweep EXCEPT ![s] = r]
      BY <1>1 DEF SweepLists
    <2>3. \A v \in list0 : v \in beating \/ Failed(v)
      BY DEF PresenceInv, SuspectsFailed
    <2>4. /\ sweep[s].pc = "idle" /\ stuck' = stuck
          /\ UNCHANGED <<socket, server, beating, lapsed, refs, known, held, listed>>
      BY <1>1 DEF SweepLists, Sweeps, userKeys, serverKeys
    <2> HIDE DEF r, list0
    <2> QED BY <1>0, <2>1, <2>2, <2>3, <2>4, SweepOnlyKept DEF InHand, InTodo, AtRef
  <1>2. CASE SweepChecks(s)
    <2>1. PICK v \in sweep[s].list :
              sweep' = [sweep EXCEPT ![s].list = @ \ {v}, ![s].victim = {v},
                                     ![s].pc = IF Dead(v) THEN "refs" ELSE "check"]
      BY <1>2 DEF SweepChecks
    <2> DEFINE list0 == sweep[s].list \ {v}
               p == IF Dead(v) THEN "refs" ELSE "check"
               r == [sweep[s] EXCEPT !.list = list0, !.victim = {v}, !.pc = p]
    <2>2. sweep' = [sweep EXCEPT ![s] = r]
      BY <1>0, <2>1
    <2>3. r \in SweepStates /\ r.pc = p /\ r.list = list0 /\ r.victim = {v}
      <3>1. p \in SweepPcs /\ list0 \in SUBSET Servers /\ v \in Servers
        BY <1>0 DEF SweepPcs, SweepStates
      <3> HIDE DEF p, list0
      <3> QED BY <1>0, <3>1 DEF SweepStates
    <2>4. p = "check" \/ (p = "refs" /\ Failed(v))
      BY <1>0 DEF Dead
    <2>5. \A u \in list0 : u \in beating \/ Failed(u)
      BY <1>0
    <2>6. /\ sweep[s].pc = "check" /\ stuck' = stuck
          /\ UNCHANGED <<socket, server, beating, lapsed, refs, known, held, listed>>
      BY <1>2 DEF SweepChecks, Sweeps, userKeys, serverKeys
    <2> HIDE DEF r, list0, p
    <2> QED BY <1>0, <2>2, <2>3, <2>4, <2>5, <2>6, SweepOnlyKept DEF InHand, InTodo, AtRef
  <1>3. CASE SweepReads(s)
    <2>1. PICK v \in sweep[s].victim : sweep' = [sweep EXCEPT ![s].pc = "each", ![s].todo = held[v]]
      BY <1>3 DEF SweepReads
    <2> DEFINE todo0 == held[v]
               r == [sweep[s] EXCEPT !.pc = "each", !.todo = todo0]
    <2>2. sweep' = [sweep EXCEPT ![s] = r]
      BY <1>0, <2>1
    <2>3. v \in Servers /\ sweep[s].pc = "refs" /\ Failed(v)
      BY <1>0, <1>3 DEF SweepReads, Sweeps, SweepStates
    <2>4. /\ r \in SweepStates /\ r.pc = "each" /\ r.list = sweep[s].list
          /\ r.victim = sweep[s].victim /\ r.todo = todo0
      <3>1. todo0 \in SUBSET Sockets
        BY <1>0, <2>3
      <3> HIDE DEF todo0
      <3> QED BY <1>0, <3>1 DEF SweepStates, SweepPcs
    <2>5. \A k \in todo0 : OfFailed(k)
      BY <2>3 DEF PresenceInv, HeldHere, OfFailed
    <2>6. /\ stuck' = stuck
          /\ UNCHANGED <<socket, server, beating, lapsed, refs, known, held, listed>>
      BY <1>3 DEF SweepReads, userKeys, serverKeys
    <2> HIDE DEF r, todo0
    <2> QED BY <1>0, <2>2, <2>3, <2>4, <2>5, <2>6, SweepOnlyKept DEF InHand, InTodo, AtRef
  <1>4. ASSUME NEW p \in {"last", "each"}, sweep' = [sweep EXCEPT ![s].pc = p],
               sweep[s].pc \in {"count", "last"}, stuck' = stuck,
               UNCHANGED <<socket, server, beating, lapsed, refs, known, held, listed>>
        PROVE  PresenceInv'
    <2> DEFINE r == [sweep[s] EXCEPT !.pc = p]
    <2>1. sweep' = [sweep EXCEPT ![s] = r]
      BY <1>0, <1>4
    <2>2. /\ r \in SweepStates /\ r.pc = p /\ r.list = sweep[s].list
          /\ r.victim = sweep[s].victim /\ r.todo = sweep[s].todo
      BY <1>0 DEF SweepStates, SweepPcs
    <2> HIDE DEF r
    <2> QED BY <1>0, <1>4, <2>1, <2>2, SweepOnlyKept DEF InHand, InTodo, AtRef
  <1>5. CASE SweepCounts(s)
    BY <1>4, <1>5 DEF SweepCounts, Sweeps, userKeys, serverKeys
  <1>6. CASE SweepSetsOffline(s)
    BY <1>4, <1>6 DEF SweepSetsOffline, Sweeps, SetOffline, serverKeys
  <1>7. CASE SweepStops(s)
    <2>1. InHand(s) \in SUBSET Sockets
      BY <1>0 DEF InHand, SweepStates
    <2>2. /\ sweep' = [sweep EXCEPT ![s] = NoSweep] /\ stuck' = stuck \cup InHand(s)
          /\ UNCHANGED <<socket, server, beating, lapsed, refs, known, held, listed>>
      BY <1>7 DEF SweepStops, serverKeys
    <2>3. NoSweep.pc = "idle" /\ NoSweep.list = {}
      BY DEF NoSweep
    <2> QED BY <1>0, <2>1, <2>2, <2>3, SweepOnlyKept DEF InTodo, AtRef
  <1>8. CASE SweepTakes(s)
    <2>1. PICK k \in sweep[s].todo :
              sweep' = [sweep EXCEPT ![s].todo = @ \ {k}, ![s].ref = {k},
                                     ![s].pc = IF k \in known THEN "take" ELSE "clear"]
      BY <1>8 DEF SweepTakes
    <2>2. /\ sweep[s].pc = "each" /\ stuck' = stuck
          /\ UNCHANGED <<socket, server, beating, lapsed, refs, known, held, listed>>
      BY <1>8 DEF SweepTakes, Sweeps, userKeys, serverKeys
    <2> DEFINE todo0 == sweep[s].todo \ {k}
               p == IF k \in known THEN "take" ELSE "clear"
               r == [sweep[s] EXCEPT !.todo = todo0, !.ref = {k}, !.pc = p]
    <2>3. sweep' = [sweep EXCEPT ![s] = r]
      BY <1>0, <2>1
    <2>4. k \in Sockets /\ OfFailed(k) /\ todo0 \subseteq sweep[s].todo
      BY <1>0, <2>2 DEF SweepStates, InTodo
    <2>5. /\ r \in SweepStates /\ r.pc = p /\ r.list = sweep[s].list
          /\ r.victim = sweep[s].victim /\ r.todo = todo0 /\ r.ref = {k}
      <3>1. p \in SweepPcs /\ todo0 \in SUBSET Sockets
        BY <1>0 DEF SweepPcs, SweepStates
      <3> HIDE DEF p, todo0
      <3> QED BY <1>0, <2>4, <3>1 DEF SweepStates
    <2>6. p \in {"take", "clear"} /\ (p = "clear" => k \notin known)
      OBVIOUS
    <2>7. \A j \in todo0 : OfFailed(j)
      BY <1>0, <2>2 DEF InTodo
    <2> HIDE DEF r, p, todo0
    <2> QED BY <1>0, <2>2, <2>3, <2>4, <2>5, <2>6, <2>7, SweepOnlyKept DEF InHand
  <1> QED BY <1>1, <1>2, <1>3, <1>5, <1>6, <1>7, <1>8

LEMMA SweepKeySteps ==
    ASSUME PresenceInv, NEW s \in Servers, SweepClears(s) \/ SweepDrops(s) \/ SweepForgets(s)
    PROVE  PresenceInv'
  <1>0. /\ sweep \in [Servers -> SweepStates] /\ sweep[s] \in SweepStates
        /\ stuck \in SUBSET Sockets /\ listed \in SUBSET Servers /\ refs \in SUBSET Sockets
        /\ held \in [Servers -> SUBSET Sockets] /\ known \in SUBSET Sockets /\ known \subseteq refs
        /\ \A v \in sweep[s].list : v \in beating \/ Failed(v)
        /\ sweep[s].pc \notin {"idle", "check"} => \A v \in sweep[s].victim : Failed(v)
        /\ sweep[s].pc \in InTodo => \A k \in sweep[s].todo : OfFailed(k)
        /\ sweep[s].pc \in AtRef => \A k \in sweep[s].ref : OfFailed(k)
        /\ sweep[s].pc \in {"clear", "drop"} => \A k \in sweep[s].ref : k \notin known
    BY DEF PresenceInv, PresenceTyped, SuspectsFailed, TakenOfFailed, RefsPlaced
  <1>1. CASE SweepClears(s)
    <2>1. PICK v \in sweep[s].victim : held' = [held EXCEPT ![v] = @ \ sweep[s].ref]
      BY <1>1 DEF SweepClears
    <2> DEFINE p == IF sweep[s].pc = "take" THEN "drop" ELSE "each"
               r == [sweep[s] EXCEPT !.pc = p]
    <2>2. /\ sweep[s].pc \in {"take", "clear"} /\ stuck' = stuck /\ known' = known \ sweep[s].ref
          /\ sweep' = [sweep EXCEPT ![s] = r]
          /\ UNCHANGED <<socket, server, beating, lapsed, refs, listed>>
      BY <1>0, <1>1 DEF SweepClears, Sweeps, userKeys, serverKeys
    <2>3. /\ sweep[s].ref \in SUBSET Sockets /\ v \in Servers
          /\ \A k \in sweep[s].ref : OfFailed(k)
          /\ \A k \in sweep[s].todo : OfFailed(k)
          /\ sweep[s].pc = "clear" => \A k \in sweep[s].ref : k \notin known
      BY <1>0, <2>2 DEF SweepStates, InTodo, AtRef
    <2>4. /\ r \in SweepStates /\ r.pc = p /\ r.list = sweep[s].list
          /\ r.victim = sweep[s].victim /\ r.todo = sweep[s].todo /\ r.ref = sweep[s].ref
      <3>1. p \in SweepPcs
        BY DEF SweepPcs
      <3> HIDE DEF p
      <3> QED BY <1>0, <3>1 DEF SweepStates
    <2>5. \/ sweep[s].pc = "take" /\ p = "drop"
          \/ sweep[s].pc = "clear" /\ p = "each"
      BY <2>2
    <2>6. /\ held' \in [Servers -> SUBSET Sockets]
          /\ \A u \in Servers : held'[u] \subseteq held[u] /\ held[u] \ sweep[s].ref \subseteq held'[u]
      BY <1>0, <2>1, <2>3
    <2>7. \A j \in refs' \ stuck' :
              \/ j \in known' \/ (r.pc = "drop" /\ j \in r.ref)
              \/ j \notin known /\ j \notin InHand(s)
      BY <2>2, <2>3, <2>4, <2>5 DEF InHand
    <2>8. \A j \in known, u \in Servers : j \in held[u] =>
              (j \in known' /\ j \in held'[u]) \/ OfFailed(j)
      BY <2>2, <2>3, <2>6
    <2>9. \A j \in known' \ stuck', u \in listed : j \in held[u] => u \in listed' /\ j \in held'[u]
      BY <1>0, <2>2, <2>6
    <2>10. known' \in SUBSET known /\ known' \subseteq refs' /\ refs' \in SUBSET refs
           /\ listed' \in SUBSET listed /\ stuck' \in SUBSET Sockets
      BY <1>0, <2>2
    <2>11. \A j \in r.ref : OfFailed(j) /\ j \notin known'
      BY <2>2, <2>3, <2>4
    <2> HIDE DEF r, p
    <2> QED
      BY <1>0, <2>2, <2>3, <2>4, <2>5, <2>6, <2>7, <2>8, <2>9, <2>10, <2>11, SweepKept
  <1>2. CASE SweepDrops(s)
    <2>1. /\ sweep[s].pc = "drop" /\ refs' = refs \ sweep[s].ref
          /\ sweep' = [sweep EXCEPT ![s].pc = "count"]
          /\ UNCHANGED <<socket, server, beating, lapsed, known, held, listed, stuck>>
      BY <1>2 DEF SweepDrops, Sweeps, serverKeys
    <2> DEFINE r == [sweep[s] EXCEPT !.pc = "count"]
    <2>2. sweep' = [sweep EXCEPT ![s] = r]
      BY <1>0, <2>1
    <2>3. /\ r \in SweepStates /\ r.pc = "count" /\ r.list = sweep[s].list
          /\ r.victim = sweep[s].victim /\ r.todo = sweep[s].todo
      BY <1>0 DEF SweepStates, SweepPcs
    <2>4. known' \subseteq refs' /\ refs' \in SUBSET refs /\ known' \in SUBSET known
      BY <1>0, <2>1
    <2>5. \A k \in refs' \ stuck' : k \in known' \/ (k \notin known /\ k \notin InHand(s))
      BY <2>1 DEF InHand
    <2> HIDE DEF r
    <2> QED BY <1>0, <2>1, <2>2, <2>3, <2>4, <2>5, SweepKept DEF InTodo, AtRef
  <1>3. CASE SweepForgets(s)
    <2>1. PICK v \in sweep[s].victim :
              /\ stuck' = stuck \cup held[v]
              /\ held' = [held EXCEPT ![v] = {}]
              /\ listed' = listed \ {v}
      BY <1>3 DEF SweepForgets
    <2>2. /\ sweep[s].pc = "each"
          /\ sweep' = [sweep EXCEPT ![s].pc = "check", ![s].victim = {}]
          /\ UNCHANGED <<socket, server, beating, lapsed, known, refs>>
      BY <1>3 DEF SweepForgets, Sweeps, userKeys
    <2> DEFINE r == [sweep[s] EXCEPT !.pc = "check", !.victim = {}]
    <2>3. sweep' = [sweep EXCEPT ![s] = r]
      BY <1>0, <2>2
    <2>4. r \in SweepStates /\ r.pc = "check" /\ r.list = sweep[s].list
      BY <1>0 DEF SweepStates, SweepPcs
    <2>5. v \in Servers /\ Failed(v)
      BY <1>0, <2>2 DEF SweepStates
    <2>6. /\ held' \in [Servers -> SUBSET Sockets] /\ held'[v] = {}
          /\ \A u \in Servers \ {v} : held'[u] = held[u]
      BY <1>0, <2>1, <2>5
    <2>7. \A k \in refs' \ stuck' : k \in known' \/ (k \notin known /\ k \notin InHand(s))
      BY <2>2 DEF InHand
    <2>8. \A k \in known' \ stuck', u \in listed : k \in held[u] => u \in listed' /\ k \in held'[u]
      BY <1>0, <2>1, <2>2, <2>6
    <2>9. \A k \in known, u \in Servers : k \in held[u] =>
              (k \in known' /\ k \in held'[u]) \/ OfFailed(k)
      <3> SUFFICES ASSUME NEW k \in known, NEW u \in Servers, k \in held[u], u = v
                   PROVE  OfFailed(k)
        BY <2>2, <2>6
      <3> QED BY <2>5 DEF PresenceInv, HeldHere, OfFailed
    <2>10. /\ stuck' \in SUBSET Sockets /\ listed' \in SUBSET listed
           /\ known' \in SUBSET known /\ refs' \in SUBSET refs /\ known' \subseteq refs'
           /\ stuck \subseteq stuck'
      BY <1>0, <2>1, <2>2, <2>5
    <2>11. held' \in [Servers -> SUBSET Sockets] /\ \A u \in Servers : held'[u] \subseteq held[u]
      BY <2>6
    <2>12. UNCHANGED <<socket, server, beating, lapsed>>
      BY <2>2
    <2>13. \A u \in r.list : u \in beating \/ Failed(u)
      BY <1>0, <2>4
    <2> HIDE DEF r
    <2> QED
      BY <2>3, <2>4, <2>7, <2>8, <2>9, <2>10, <2>11, <2>12, <2>13, SweepKept DEF InTodo, AtRef
  <1> QED BY <1>1, <1>2, <1>3

LEMMA PresenceSteps ==
    ASSUME PresenceInv, [PresenceNext]_presenceVars
    PROVE  PresenceInv'
  <1>1. CASE UNCHANGED presenceVars
    BY <1>1 DEF presenceVars, PresenceInv, PresenceTyped, SuspectsFailed, TakenOfFailed, HeldHere,
                RefsPlaced, DownGone, LostInHand, KnownFound, LivingKnown, Failed, Placed, OfFailed,
                On, InHand, InTodo, AtRef
  <1>2. ASSUME NEW s \in Servers,
               \/ Beat(s) \/ BeatLapses(s) \/ ProcessDies(s) \/ Close(s) \/ CloseEnds(s)
               \/ SweepLists(s) \/ SweepChecks(s) \/ SweepReads(s) \/ SweepTakes(s) \/ SweepClears(s)
               \/ SweepDrops(s) \/ SweepCounts(s) \/ SweepSetsOffline(s) \/ SweepForgets(s) \/ SweepStops(s)
        PROVE  PresenceInv'
    BY <1>2, BeatSteps, ServerSteps, SweepReadSteps, SweepKeySteps
  <1>3. ASSUME NEW k \in Sockets,
               \/ \E s \in Servers : Connect(k, s) \/ AddRef(k, s) \/ RemoveRef(k, s)
               \/ RegisterHandler(k) \/ Disconnects(k) \/ LookUp(k) \/ CountRefs(k) \/ GoOffline(k)
        PROVE  PresenceInv'
    BY <1>3, ConnectionSteps, AddRefStep, RemoveRefStep
  <1> QED BY <1>1, <1>2, <1>3 DEF PresenceNext

\* The invariant of the keys in Redis: who has a reference in hand or can find it, and that what
\* is swept has failed (redisAdd, redisRemove, reconcileDeadPresenceServers).
THEOREM PresenceInvariant == PresenceSpec => []PresenceInv
  <1>1. PresenceInit => PresenceInv
    <2> SUFFICES ASSUME PresenceInit PROVE PresenceInv
      OBVIOUS
    <2>1. PresenceTyped
      BY DEF PresenceInit, PresenceTyped, SocketStates, SocketPcs, SweepStates, SweepPcs, NoSweep
    <2>2. SuspectsFailed /\ TakenOfFailed
      BY DEF PresenceInit, SuspectsFailed, TakenOfFailed, NoSweep, InTodo, AtRef
    <2> QED
      BY <2>1, <2>2 DEF PresenceInit, PresenceInv, HeldHere, RefsPlaced, DownGone, LostInHand,
                        KnownFound, LivingKnown
  <1> QED BY <1>1, PresenceSteps, PTL DEF PresenceSpec

\* The type invariant of presence.
THEOREM PresenceTypes == PresenceSpec => []PresenceTypeOK
  <1>1. PresenceInv => PresenceTypeOK
    BY DEF PresenceInv, PresenceTyped, SocketStates, SocketPcs, SweepStates, SweepPcs, PresenceTypeOK
  <1> QED BY <1>1, PresenceInvariant, PTL

\* Any number of processes may sweep at once, and any of them fail: the connections of one whose
\* heartbeat has not failed keep their references.
THEOREM LivingSpared == PresenceSpec => []SparesTheLiving
  <1>1. PresenceInv => SparesTheLiving
    BY DEF PresenceInv, RefsPlaced, LivingKnown, SparesTheLiving
  <1> QED BY <1>1, PresenceInvariant, PTL

\* A reference without a connection is removed by somebody, except in the ways stuck records.
THEOREM GhostsAreSwept == PresenceSpec => []NoGhost
  <1>1. PresenceInv => NoGhost
    BY DEF PresenceInv, PresenceTyped, LostInHand, KnownFound, NoGhost
  <1> QED BY <1>1, PresenceInvariant, PTL

-----------------------------------------------------------------------------
\* What is told: nobody counts a reference that was added after the decision to go offline was
\* made, and one who has counted none left is about to set the member offline.
OnlineInv ==
    /\ OnlineTold
    /\ Deciding => refs \subseteq latecomers

\* A step that writes none of the member's keys and ends no removal that has counted.
LEMMA OnlineKept ==
    ASSUME OnlineInv, UNCHANGED userKeys,
           refs = {} => \A k \in Sockets : socket[k].pc \in {"counting", "last"} =>
              socket'[k].pc \in {"counting", "last"} /\ socket'[k].at = socket[k].at,
           refs = {} => \A s \in Servers : Sweeping(s) => Sweeping(s)',
           Deciding' => Deciding \/ refs = {}
    PROVE  OnlineInv'
  <1>1. OnlineTold'
    <2>1. ASSUME online, refs = {}
          PROVE  unfinished \/ \E s \in Servers : Removing(s)' \/ Sweeping(s)'
      BY <2>1 DEF OnlineInv, OnlineTold, Removing, On
    <2> QED BY <2>1 DEF OnlineInv, OnlineTold, userKeys
  <1>2. Deciding' => refs' \subseteq latecomers'
    BY DEF OnlineInv, userKeys
  <1> QED BY <1>1, <1>2 DEF OnlineInv

LEMMA OnlineSocketSteps ==
    ASSUME PresenceInv, OnlineInv, NEW k \in Sockets,
           \/ \E s \in Servers : Connect(k, s) \/ AddRef(k, s) \/ RemoveRef(k, s)
           \/ RegisterHandler(k) \/ Disconnects(k) \/ LookUp(k) \/ CountRefs(k) \/ GoOffline(k)
    PROVE  OnlineInv'
  <1>0. /\ socket \in [Sockets -> SocketStates] /\ socket[k] \in SocketStates
        /\ refs \in SUBSET Sockets /\ known \subseteq refs
    BY DEF PresenceInv, PresenceTyped, RefsPlaced
  <1>1. ASSUME NEW r \in SocketStates, socket' = [socket EXCEPT ![k] = r],
               UNCHANGED userKeys, UNCHANGED sweep,
               \/ /\ socket[k].pc \notin {"counting", "last"} \/ refs # {}
                  /\ r.pc # "last"
               \/ socket[k].pc = "counting" /\ r.pc = "last" /\ r.at = socket[k].at /\ refs = {}
        PROVE  OnlineInv'
    <2>1. socket'[k] = r /\ \A j \in Sockets \ {k} : socket'[j] = socket[j]
      BY <1>0, <1>1
    <2>2. Deciding' => Deciding \/ refs = {}
      BY <1>1, <2>1 DEF Deciding
    <2>3. \A s \in Servers : Sweeping(s) => Sweeping(s)'
      BY <1>1 DEF Sweeping
    <2> QED BY <1>1, <2>1, <2>2, <2>3, OnlineKept
  <1>2. ASSUME NEW p \in SocketPcs, Handler(k, p)
        PROVE  \E r \in SocketStates : /\ socket' = [socket EXCEPT ![k] = r]
                                       /\ r.pc = p /\ r.at = socket[k].at
    <2> DEFINE r == [socket[k] EXCEPT !.pc = p]
    <2>1. r \in SocketStates /\ r.pc = p /\ r.at = socket[k].at
      BY <1>0 DEF SocketStates
    <2>2. socket' = [socket EXCEPT ![k] = r]
      BY <1>0, <1>2 DEF Handler
    <2> HIDE DEF r
    <2> QED BY <2>1, <2>2
  <1>3. ASSUME NEW s \in Servers, Connect(k, s)
        PROVE  OnlineInv'
    <2> DEFINE r == [pc |-> "adding", at |-> {s}, up |-> TRUE]
    <2>1. r \in SocketStates /\ r.pc = "adding"
      BY DEF SocketStates, SocketPcs
    <2>2. socket' = [socket EXCEPT ![k] = r] /\ socket[k].pc = "none" /\ UNCHANGED <<userKeys, sweep>>
      BY <1>3 DEF Connect
    <2> HIDE DEF r
    <2> QED BY <1>1, <2>1, <2>2
  <1>4. ASSUME NEW s \in Servers, AddRef(k, s)
        PROVE  OnlineInv'
    <2>1. /\ refs' = refs \cup {k} /\ online' = TRUE
          /\ latecomers' = IF Deciding THEN latecomers \cup {k} ELSE latecomers
          /\ Handler(k, "joined") /\ sweep' = sweep
      BY <1>4 DEF AddRef
    <2>2. OnlineTold'
      BY <2>1 DEF OnlineTold
    <2>3. Deciding' => Deciding
      <3>1. socket'[k].pc = "joined" /\ \A j \in Sockets \ {k} : socket'[j] = socket[j]
        BY <1>0, <2>1 DEF Handler, SocketStates
      <3> QED BY <2>1, <3>1 DEF Deciding
    <2> QED BY <2>1, <2>2, <2>3 DEF OnlineInv
  <1>5. ASSUME NEW s \in Servers, RemoveRef(k, s)
        PROVE  OnlineInv'
    <2>1. /\ On(k, s) /\ socket[k].pc = "dropping" /\ refs' = refs \ {k}
          /\ Handler(k, "counting") /\ UNCHANGED <<online, latecomers, unfinished, sweep>>
      BY <1>5 DEF RemoveRef
    <2>2. PICK r \in SocketStates : /\ socket' = [socket EXCEPT ![k] = r]
                                    /\ r.at = socket[k].at /\ r.pc = "counting"
      BY <1>2, <2>1 DEF SocketPcs
    <2>3. socket'[k] = r /\ \A j \in Sockets \ {k} : socket'[j] = socket[j]
      BY <1>0, <2>2
    <2>4. Deciding' => Deciding
      BY <2>1, <2>2, <2>3 DEF Deciding
    <2>5. Removing(s)'
      BY <2>1, <2>2, <2>3 DEF Removing, On
    <2>6. refs' \subseteq refs /\ latecomers' = latecomers /\ online' = online
      BY <2>1
    <2>7. ~online' => refs' \subseteq latecomers'
      BY <2>6 DEF OnlineInv, OnlineTold
    <2>8. Deciding' => refs' \subseteq latecomers'
      BY <2>4, <2>6 DEF OnlineInv
    <2> QED BY <2>5, <2>7, <2>8 DEF OnlineInv, OnlineTold
  <1>6. CASE RegisterHandler(k)
    <2>1. /\ socket[k].pc = "joined" /\ UNCHANGED <<userKeys, sweep>>
          /\ Handler(k, "handled") \/ Handler(k, "gone")
      BY <1>6 DEF RegisterHandler
    <2>2. PICK r \in SocketStates : socket' = [socket EXCEPT ![k] = r] /\ r.pc \in {"handled", "gone"}
      BY <1>2, <2>1 DEF SocketPcs
    <2> QED BY <1>1, <2>1, <2>2
  <1>7. CASE Disconnects(k)
    <2> DEFINE p == IF socket[k].pc = "handled" THEN "removing" ELSE socket[k].pc
               r == [socket[k] EXCEPT !.up = FALSE, !.pc = p]
    <2>1. p \in SocketPcs
      BY <1>0 DEF SocketStates, SocketPcs
    <2>2. r \in SocketStates /\ r.pc = p /\ r.at = socket[k].at
      <3> HIDE DEF p
      <3> QED BY <1>0, <2>1 DEF SocketStates
    <2>3. socket' = [socket EXCEPT ![k] = r] /\ UNCHANGED <<userKeys, sweep>>
      BY <1>0, <1>7 DEF Disconnects
    <2> HIDE DEF r
    <2>4. socket'[k] = r /\ \A j \in Sockets \ {k} : socket'[j] = socket[j]
      BY <1>0, <2>3
    <2>5. Deciding' => Deciding
      BY <2>2, <2>3, <2>4 DEF Deciding
    <2>6. \A s \in Servers : Sweeping(s) => Sweeping(s)'
      BY <2>3 DEF Sweeping
    <2> QED BY <2>2, <2>3, <2>4, <2>5, <2>6, OnlineKept
  <1>8. CASE CountRefs(k)
    <2>1. /\ socket[k].pc = "counting" /\ UNCHANGED <<userKeys, sweep>>
          /\ (refs = {} /\ Handler(k, "last")) \/ (refs # {} /\ Handler(k, "gone"))
      BY <1>8 DEF CountRefs, NoneLeft
    <2>2. PICK r \in SocketStates : /\ socket' = [socket EXCEPT ![k] = r] /\ r.at = socket[k].at
                                    /\ (refs = {} /\ r.pc = "last") \/ (refs # {} /\ r.pc = "gone")
      BY <1>2, <2>1 DEF SocketPcs
    <2> QED BY <1>1, <2>1, <2>2
  <1>9. CASE GoOffline(k)
    <2>1. /\ socket[k].pc = "last" /\ Handler(k, "gone") /\ online' = FALSE
          /\ UNCHANGED <<refs, latecomers>>
      BY <1>9 DEF GoOffline, SetOffline
    <2>2. refs \subseteq latecomers
      BY <2>1 DEF OnlineInv, Deciding
    <2> QED BY <2>1, <2>2 DEF OnlineInv, OnlineTold
  <1>10. CASE LookUp(k)
    <2>1. /\ socket[k].pc = "removing" /\ UNCHANGED <<userKeys, sweep>>
          /\ Handler(k, "dropping") \/ Handler(k, "gone")
      BY <1>10 DEF LookUp
    <2>2. PICK r \in SocketStates : socket' = [socket EXCEPT ![k] = r] /\ r.pc \in {"dropping", "gone"}
      BY <1>2, <2>1 DEF SocketPcs
    <2> QED BY <1>1, <2>1, <2>2
  <1> QED BY <1>3, <1>4, <1>5, <1>6, <1>7, <1>8, <1>9, <1>10

LEMMA OnlineServerSteps ==
    ASSUME PresenceInv, OnlineInv, NEW s \in Servers,
           Beat(s) \/ BeatLapses(s) \/ ProcessDies(s) \/ Close(s) \/ CloseEnds(s)
    PROVE  OnlineInv'
  <1>0. /\ socket \in [Sockets -> SocketStates]
        /\ sweep \in [Servers -> SweepStates]
    BY DEF PresenceInv, PresenceTyped
  <1>1. CASE Beat(s) \/ BeatLapses(s)
    <2>1. UNCHANGED <<userKeys, socket, sweep>>
      BY <1>1 DEF Beat, BeatLapses
    <2>2. (Deciding' => Deciding) /\ \A t \in Servers : Sweeping(t) => Sweeping(t)'
      BY <2>1 DEF Deciding, Sweeping
    <2> QED BY <2>1, <2>2, OnlineKept
  <1>2. CASE Close(s)
    <2>1. /\ UNCHANGED <<userKeys, sweep>>
          /\ socket' = [k \in Sockets |->
                IF k \in held[s] /\ socket[k].pc \in {"joined", "handled", "gone"}
                THEN [socket[k] EXCEPT !.pc = "removing"] ELSE socket[k]]
      BY <1>2 DEF Close
    <2>2. \A k \in Sockets :
             \/ socket'[k] = socket[k]
             \/ socket[k].pc \in {"joined", "handled", "gone"} /\ socket'[k].pc = "removing"
      BY <1>0, <2>1 DEF SocketStates
    <2>3. (Deciding' => Deciding) /\ \A t \in Servers : Sweeping(t) => Sweeping(t)'
      BY <2>1, <2>2 DEF Deciding, Sweeping
    <2> QED BY <2>1, <2>2, <2>3, OnlineKept
  <1>3. ASSUME SweepDone(s), UNCHANGED <<refs, online, latecomers>>
        PROVE  OnlineInv'
    <2>1. /\ sweep' = [sweep EXCEPT ![s] = NoSweep]
          /\ socket' = [k \in Sockets |-> IF On(k, s) THEN [socket[k] EXCEPT !.pc = "gone", !.up = FALSE]
                                          ELSE socket[k]]
          /\ unfinished' = (unfinished \/ Removing(s) \/ Sweeping(s))
      BY <1>3 DEF SweepDone
    <2>2. sweep'[s].pc = "idle" /\ \A t \in Servers \ {s} : sweep'[t] = sweep[t]
      BY <1>0, <2>1 DEF NoSweep
    <2>3. \A k \in Sockets : /\ On(k, s) => socket'[k].pc = "gone"
                             /\ ~On(k, s) => socket'[k] = socket[k]
      BY <1>0, <2>1 DEF SocketStates
    <2>4. Deciding' => Deciding
      BY <2>2, <2>3 DEF Deciding
    <2>5. ASSUME online, refs = {}, ~unfinished'
          PROVE  \E t \in Servers : Removing(t)' \/ Sweeping(t)'
      <3>1. PICK t \in Servers : Removing(t) \/ Sweeping(t)
        BY <2>1, <2>5 DEF OnlineInv, OnlineTold
      <3>2. t # s /\ {t} # {s}
        BY <2>1, <2>5, <3>1
      <3>3. Removing(t) => Removing(t)'
        BY <2>3, <3>2 DEF Removing, On
      <3>4. Sweeping(t) => Sweeping(t)'
        BY <2>2, <3>2 DEF Sweeping
      <3> QED BY <3>1, <3>3, <3>4
    <2>6. OnlineTold'
      BY <1>3, <2>5 DEF OnlineInv, OnlineTold
    <2> QED BY <1>3, <2>4, <2>6 DEF OnlineInv
  <1>4. CASE ProcessDies(s)
    BY <1>3, <1>4 DEF ProcessDies
  <1>5. CASE CloseEnds(s)
    BY <1>3, <1>5 DEF CloseEnds
  <1> QED BY <1>1, <1>2, <1>4, <1>5

LEMMA OnlineSweepSteps ==
    ASSUME PresenceInv, OnlineInv, NEW s \in Servers,
           \/ SweepLists(s) \/ SweepChecks(s) \/ SweepReads(s) \/ SweepTakes(s) \/ SweepClears(s)
           \/ SweepDrops(s) \/ SweepCounts(s) \/ SweepSetsOffline(s) \/ SweepForgets(s) \/ SweepStops(s)
    PROVE  OnlineInv'
  <1>0. sweep \in [Servers -> SweepStates] /\ sweep[s] \in SweepStates
    BY DEF PresenceInv, PresenceTyped
  <1>1. ASSUME UNCHANGED <<userKeys, socket>>, \A t \in Servers \ {s} : sweep'[t] = sweep[t],
               refs = {} => (Sweeping(s) => Sweeping(s)'),
               sweep'[s].pc = "last" => refs = {}
        PROVE  OnlineInv'
    <2>1. Deciding' => Deciding \/ refs = {}
      BY <1>1 DEF Deciding
    <2>2. refs = {} => \A t \in Servers : Sweeping(t) => Sweeping(t)'
      BY <1>1 DEF Sweeping
    <2> QED BY <1>1, <2>1, <2>2, OnlineKept
  <1>2. CASE \/ SweepLists(s) \/ SweepChecks(s) \/ SweepReads(s) \/ SweepTakes(s) \/ SweepClears(s)
             \/ SweepForgets(s)
    <2>1. UNCHANGED <<userKeys, socket>> /\ ~Sweeping(s)
      BY <1>2 DEF SweepLists, SweepChecks, SweepReads, SweepTakes, SweepClears, SweepForgets, Sweeps, Sweeping
    <2>2. \A t \in Servers \ {s} : sweep'[t] = sweep[t]
      BY <1>0, <1>2 DEF SweepLists, SweepChecks, SweepReads, SweepTakes, SweepClears, SweepForgets
    <2>3. sweep'[s].pc \in {"check", "refs", "each", "take", "clear", "drop"}
      <3>1. CASE SweepLists(s)
        BY <1>0, <3>1 DEF SweepLists, NoSweep
      <3>2. CASE SweepChecks(s)
        <4>1. PICK v \in sweep[s].list :
                  sweep' = [sweep EXCEPT ![s].list = @ \ {v}, ![s].victim = {v},
                                         ![s].pc = IF Dead(v) THEN "refs" ELSE "check"]
          BY <3>2 DEF SweepChecks
        <4> DEFINE list0 == sweep[s].list \ {v}
                   p == IF Dead(v) THEN "refs" ELSE "check"
                   r == [sweep[s] EXCEPT !.list = list0, !.victim = {v}, !.pc = p]
        <4>2. sweep' = [sweep EXCEPT ![s] = r]
          BY <1>0, <4>1
        <4>3. p \in {"refs", "check"}
          OBVIOUS
        <4>4. r.pc = p
          <5> HIDE DEF p, list0
          <5> QED BY <1>0 DEF SweepStates
        <4> HIDE DEF r, p
        <4> QED BY <1>0, <4>2, <4>3, <4>4
      <3>3. CASE SweepReads(s)
        BY <1>0, <3>3 DEF SweepReads, SweepStates
      <3>4. CASE SweepTakes(s)
        <4>1. PICK k \in sweep[s].todo :
                  sweep' = [sweep EXCEPT ![s].todo = @ \ {k}, ![s].ref = {k},
                                         ![s].pc = IF k \in known THEN "take" ELSE "clear"]
          BY <3>4 DEF SweepTakes
        <4> DEFINE todo0 == sweep[s].todo \ {k}
                   p == IF k \in known THEN "take" ELSE "clear"
                   r == [sweep[s] EXCEPT !.todo = todo0, !.ref = {k}, !.pc = p]
        <4>2. sweep' = [sweep EXCEPT ![s] = r]
          BY <1>0, <4>1
        <4>3. p \in {"take", "clear"}
          OBVIOUS
        <4>4. r.pc = p
          <5> HIDE DEF p, todo0
          <5> QED BY <1>0 DEF SweepStates
        <4> HIDE DEF r, p
        <4> QED BY <1>0, <4>2, <4>3, <4>4
      <3>5. CASE SweepForgets(s)
        BY <1>0, <3>5 DEF SweepForgets, SweepStates
      <3>6. CASE SweepClears(s)
        <4> DEFINE p == IF sweep[s].pc = "take" THEN "drop" ELSE "each"
                   r == [sweep[s] EXCEPT !.pc = p]
        <4>1. sweep' = [sweep EXCEPT ![s] = r]
          BY <1>0, <3>6 DEF SweepClears
        <4>2. p \in {"drop", "each"}
          OBVIOUS
        <4>3. r.pc = p
          <5> HIDE DEF p
          <5> QED BY <1>0 DEF SweepStates
        <4> HIDE DEF r, p
        <4> QED BY <1>0, <4>1, <4>2, <4>3
      <3> QED BY <1>2, <3>1, <3>2, <3>3, <3>4, <3>5, <3>6
    <2> QED BY <1>1, <2>1, <2>2, <2>3
  <1>3. CASE SweepCounts(s)
    <2>1. /\ UNCHANGED <<userKeys, socket>>
          /\ sweep' = [sweep EXCEPT ![s].pc = IF refs = {} THEN "last" ELSE "each"]
      BY <1>3 DEF SweepCounts, NoneLeft
    <2>2. /\ sweep'[s].pc = IF refs = {} THEN "last" ELSE "each"
          /\ \A t \in Servers \ {s} : sweep'[t] = sweep[t]
      BY <1>0, <2>1 DEF SweepStates
    <2> QED BY <1>1, <2>1, <2>2 DEF Sweeping
  <1>4. CASE SweepDrops(s)
    <2>1. /\ refs' = refs \ sweep[s].ref
          /\ sweep' = [sweep EXCEPT ![s].pc = "count"]
          /\ UNCHANGED <<online, latecomers, unfinished, socket>>
      BY <1>4 DEF SweepDrops
    <2>2. sweep'[s].pc = "count" /\ \A t \in Servers \ {s} : sweep'[t] = sweep[t]
      BY <1>0, <2>1 DEF SweepStates
    <2>3. Sweeping(s)' /\ (Deciding' => Deciding)
      BY <2>1, <2>2 DEF Sweeping, Deciding
    <2> QED BY <2>1, <2>3 DEF OnlineInv, OnlineTold
  <1>5. CASE SweepSetsOffline(s)
    <2>1. sweep[s].pc = "last" /\ online' = FALSE /\ UNCHANGED <<refs, latecomers>>
      BY <1>5 DEF SweepSetsOffline, Sweeps, SetOffline
    <2>2. refs \subseteq latecomers
      BY <2>1 DEF OnlineInv, Deciding
    <2> QED BY <2>1, <2>2 DEF OnlineInv, OnlineTold
  <1>6. CASE SweepStops(s)
    <2>1. /\ sweep' = [sweep EXCEPT ![s] = NoSweep]
          /\ unfinished' = (unfinished \/ Sweeping(s))
          /\ UNCHANGED <<refs, online, latecomers, socket>>
      BY <1>6 DEF SweepStops, serverKeys
    <2>2. sweep'[s].pc = "idle" /\ \A t \in Servers \ {s} : sweep'[t] = sweep[t]
      BY <1>0, <2>1 DEF NoSweep
    <2>3. Deciding' => Deciding
      BY <2>1, <2>2 DEF Deciding
    <2>4. ASSUME online, refs = {}, ~unfinished'
          PROVE  \E t \in Servers : Removing(t)' \/ Sweeping(t)'
      <3>1. PICK t \in Servers : Removing(t) \/ Sweeping(t)
        BY <2>1, <2>4 DEF OnlineInv, OnlineTold
      <3>2. Removing(t) => Removing(t)'
        BY <2>1 DEF Removing, On
      <3>3. Sweeping(t) => Sweeping(t)'
        BY <2>1, <2>2, <2>4 DEF Sweeping
      <3> QED BY <3>1, <3>2, <3>3
    <2>5. OnlineTold'
      BY <2>1, <2>4 DEF OnlineInv, OnlineTold
    <2> QED BY <2>1, <2>3, <2>5 DEF OnlineInv
  <1> QED BY <1>2, <1>3, <1>4, <1>5, <1>6

\* Online and connected agree: a member without a reference is online only while a removal or a
\* sweep that is about to count is under way, or died (unfinished); one with a reference is offline
\* only because it was added after a removal had counted none (latecomers).
THEOREM OnlineIsTold == PresenceSpec => []OnlineTold
  <1>1. PresenceInit => OnlineInv
    BY DEF PresenceInit, OnlineInv, OnlineTold
  <1>2. PresenceInv /\ OnlineInv /\ [PresenceNext]_presenceVars => OnlineInv'
    <2> SUFFICES ASSUME PresenceInv, OnlineInv, [PresenceNext]_presenceVars PROVE OnlineInv'
      OBVIOUS
    <2>1. CASE UNCHANGED presenceVars
      BY <2>1 DEF presenceVars, OnlineInv, OnlineTold, Deciding, Removing, Sweeping, On
    <2>2. ASSUME NEW s \in Servers,
                 \/ Beat(s) \/ BeatLapses(s) \/ ProcessDies(s) \/ Close(s) \/ CloseEnds(s)
                 \/ SweepLists(s) \/ SweepChecks(s) \/ SweepReads(s) \/ SweepTakes(s) \/ SweepClears(s)
                 \/ SweepDrops(s) \/ SweepCounts(s) \/ SweepSetsOffline(s) \/ SweepForgets(s) \/ SweepStops(s)
          PROVE  OnlineInv'
      BY <2>2, OnlineServerSteps, OnlineSweepSteps
    <2> QED BY <2>1, <2>2, OnlineSocketSteps DEF PresenceNext
  <1>3. OnlineInv => OnlineTold
    BY DEF OnlineInv
  <1> QED BY <1>1, <1>2, <1>3, PresenceInvariant, PTL DEF PresenceSpec


-----------------------------------------------------------------------------
(***************************************************************************)
(* HelpRequests                                                            *)
(***************************************************************************)
HelpRows == [status : HelpStatuses \cup {"NONE", "GONE"}, expires : 0 .. Horizon,
             reminder : {"null", "H1", "EXPIRED"}, extended : Nat]
HelpOps == [kind : {"none", "remind", "complete", "sweep"} \cup Extensions \cup Offering \cup Edits,
            seen : HelpRows, to : HelpStatuses \cup {"NONE", ""}, by : SUBSET Helpers,
            early : BOOLEAN]

HelpTyped ==
    /\ help \in HelpRows
    /\ offers \subseteq Helpers /\ hour \in 0 .. LastHour
    /\ helpOp \in [HelpCalls -> HelpOps]
    /\ meant \in [open : BOOLEAN, until : 0 .. Horizon] /\ crossed \in BOOLEAN

\* What the guard of the read let through.
HelpRead(o) ==
    /\ o.kind # "none" => o.seen.status \in HelpStatuses
    /\ o.kind = "extend" => ActivelyOpen(o.seen.status)
    /\ o.kind = "sweep" => ActivelyOpen(o.seen.status)
    /\ o.kind = "complete" => o.seen.status # "COMPLETED"
    /\ o.kind = "offered" => o.seen.status = "OPEN"
    /\ o.kind \in Edits => o.to \in HelpStatuses

\* The row agrees with what was meant, but for a request that is over and not yet expired, or
\* expired without having been closed.
HelpKept ==
    /\ Stored => help.expires = meant.until
    /\ meant.open => Stored
    /\ ActivelyOpen(help.status) => meant.open
    /\ meant.open => ActivelyOpen(help.status) \/ (help.status = "EXPIRED" /\ help.expires <= hour)

\* An operation that nothing has crossed will write what its author saw.
InTime(o) ==
    /\ o.kind \in Edits => help.status = o.seen.status /\ help.expires = o.seen.expires
    /\ o.kind \in Offering => meant.open
    /\ o.kind \in Extensions /\ o.seen.status \notin {"EXPIRED", "CANCELLED"}
         => ~(help.status = "EXPIRED" /\ meant.open)
    /\ o.kind = "sweep" => help.expires <= hour

AllInTime == Stored => \A c \in HelpCalls : helpOp[c].early \/ InTime(helpOp[c])

HelpInv ==
    /\ HelpTyped
    /\ help.status = "NONE" => \A c \in HelpCalls : helpOp[c].kind = "none"
    /\ \A c \in HelpCalls : HelpRead(helpOp[c])
    /\ ~crossed => HelpKept /\ AllInTime

\* The columns an update sets: the ones whose new value is not the one that was read.
LEMMA ColumnsSet ==
    ASSUME NEW row0 \in HelpRows, NEW want \in HelpRows, NEW seen \in HelpRows, NEW new,
           new = [f \in DOMAIN row0 |-> IF want[f] # seen[f] THEN want[f] ELSE row0[f]]
    PROVE  /\ new \in HelpRows
           /\ new.status = IF want.status # seen.status THEN want.status ELSE row0.status
           /\ new.expires = IF want.expires # seen.expires THEN want.expires ELSE row0.expires
  BY DEF HelpRows

\* Who is crossed by whom.
LEMMA CrossingPairs ==
    ASSUME NEW a, NEW b, <<a, b>> \notin Crossing
    PROVE  /\ a = "sweep" => b \notin Extensions \cup Offering \cup Edits
           /\ a = "complete" => b \notin Offering \cup Edits
           /\ a \in Edits => b \notin Offering \cup Edits \cup {"sweep"}
           /\ a \in Extensions \cup Offering => b \notin Edits
           /\ a \in Extensions => b # "sweep"
  BY DEF Crossing

LEMMA IdleTyped == NoHelp \in HelpRows /\ IdleHelp \in HelpOps
  <1>1. 0 \in 0 .. Horizon
    BY HelpAssumption DEF Horizon
  <1>2. NoHelp \in HelpRows
    BY <1>1 DEF NoHelp, HelpRows
  <1> QED BY <1>2 DEF IdleHelp, HelpOps

\* A write by c keeps the invariant when, unless it was crossed, it leaves the row as it is meant
\* and the operations it does not cross in time.
LEMMA HelpWriteKept ==
    ASSUME HelpInv, NEW c \in HelpCalls, helpOp[c].kind # "none",
           NEW want \in HelpRows, want.status \in HelpStatuses,
           NEW means \in [open : BOOLEAN, until : 0 .. Horizon],
           HelpWrites(c, want, means),
           ASSUME Stored, ~crossed, ~helpOp[c].early, HelpKept, InTime(helpOp[c]), hour' = hour,
                  meant' = means, Stored',
                  help'.status = IF want.status # helpOp[c].seen.status THEN want.status
                                 ELSE help.status,
                  help'.expires = IF want.expires # helpOp[c].seen.expires THEN want.expires
                                  ELSE help.expires
           PROVE  /\ HelpKept'
                  /\ \A o \in HelpOps : InTime(o) /\ <<helpOp[c].kind, o.kind>> \notin Crossing
                                            => InTime(o)'
    PROVE  HelpInv'
  <1>0. /\ help \in HelpRows /\ helpOp \in [HelpCalls -> HelpOps] /\ IdleHelp \in HelpOps
        /\ helpOp[c] \in HelpOps /\ helpOp[c].seen \in HelpRows /\ helpOp[c].early \in BOOLEAN
    <2>1. helpOp \in [HelpCalls -> HelpOps] /\ help \in HelpRows
      BY DEF HelpInv, HelpTyped
    <2>2. helpOp[c] \in HelpOps
      BY <2>1
    <2> QED BY <2>1, <2>2, IdleTyped DEF HelpOps
  <1>1. /\ offers' = offers /\ hour' = hour /\ crossed' = (crossed \/ helpOp[c].early)
        /\ helpOp' = [d \in HelpCalls |->
              IF d = c THEN IdleHelp
              ELSE [helpOp[d] EXCEPT !.early = @ \/ <<helpOp[c].kind, helpOp[d].kind>> \in Crossing]]
        /\ meant' = IF Stored THEN means ELSE meant
        /\ Stored => help' = [f \in DOMAIN help |-> IF want[f] # helpOp[c].seen[f] THEN want[f]
                                                    ELSE help[f]]
        /\ ~Stored => help' = help
    BY DEF HelpWrites
  <1>2. /\ help' \in HelpRows
        /\ Stored => /\ help'.status = IF want.status # helpOp[c].seen.status THEN want.status
                                       ELSE help.status
                     /\ help'.expires = IF want.expires # helpOp[c].seen.expires THEN want.expires
                                        ELSE help.expires
    BY <1>0, <1>1, ColumnsSet
  <1>3. Stored => Stored'
    BY <1>2 DEF Stored
  <1>4. \A d \in HelpCalls \ {c} :
          /\ helpOp'[d] \in HelpOps
          /\ helpOp'[d].kind = helpOp[d].kind /\ helpOp'[d].seen = helpOp[d].seen
          /\ helpOp'[d].to = helpOp[d].to
          /\ helpOp'[d].early = (helpOp[d].early \/ <<helpOp[c].kind, helpOp[d].kind>> \in Crossing)
    BY <1>0, <1>1 DEF HelpOps
  <1>5. helpOp'[c] = IdleHelp
    BY <1>1
  <1>6. helpOp' \in [HelpCalls -> HelpOps]
    BY <1>0, <1>1, <1>4, <1>5
  <1>7. HelpTyped'
    BY <1>1, <1>2, <1>6 DEF HelpInv, HelpTyped
  <1>8. help'.status = "NONE" => \A d \in HelpCalls : helpOp'[d].kind = "none"
    BY <1>1, <1>3 DEF HelpInv, Stored, HelpStatuses
  <1>9. \A d \in HelpCalls : HelpRead(helpOp'[d])
    <2>1. HelpRead(IdleHelp)
      BY DEF HelpRead, IdleHelp, Edits
    <2>2. ASSUME NEW d \in HelpCalls \ {c} PROVE HelpRead(helpOp'[d])
      BY <1>4, <2>2 DEF HelpInv, HelpRead
    <2> QED BY <1>5, <2>1, <2>2
  <1>10. ASSUME ~crossed' PROVE HelpKept' /\ AllInTime'
    <2>1. ~crossed /\ ~helpOp[c].early /\ HelpKept /\ AllInTime
      BY <1>1, <1>10 DEF HelpInv
    <2>2. CASE ~Stored
      BY <1>1, <2>1, <2>2 DEF HelpKept, AllInTime, Stored
    <2>3. CASE Stored
      <3>1. InTime(helpOp[c])
        BY <2>1, <2>3 DEF AllInTime
      <3>2. /\ HelpKept'
            /\ \A o \in HelpOps : InTime(o) /\ <<helpOp[c].kind, o.kind>> \notin Crossing => InTime(o)'
        BY <1>1, <1>2, <1>3, <2>1, <2>3, <3>1
      <3>3. ASSUME NEW d \in HelpCalls, d # c, ~helpOp'[d].early PROVE InTime(helpOp[d])'
        <4>1. InTime(helpOp[d]) /\ <<helpOp[c].kind, helpOp[d].kind>> \notin Crossing
          BY <1>4, <2>1, <2>3, <3>3 DEF AllInTime
        <4>2. /\ helpOp'[d] \in HelpOps /\ helpOp'[d].kind = helpOp[d].kind
              /\ helpOp'[d].seen = helpOp[d].seen
          BY <1>4, <3>3
        <4>3. InTime(helpOp'[d]) /\ <<helpOp[c].kind, helpOp'[d].kind>> \notin Crossing
          BY <4>1, <4>2 DEF InTime
        <4> QED BY <3>2, <4>2, <4>3 DEF InTime
      <3>4. InTime(helpOp[c])'
        BY <1>5 DEF InTime, IdleHelp, Edits, Offering, Extensions
      <3>5. AllInTime'
        BY <3>3, <3>4 DEF AllInTime
      <3> QED BY <3>2, <3>5
    <2> QED BY <2>2, <2>3
  <1> QED BY <1>7, <1>8, <1>9, <1>10 DEF HelpInv

\* The row c has read, and the new end of an extension.
LEMMA HelpOpTyped ==
    ASSUME HelpInv, NEW c \in HelpCalls
    PROVE  /\ helpOp[c] \in HelpOps /\ helpOp[c].seen \in HelpRows /\ hour \in 0 .. LastHour
           /\ help \in HelpRows /\ meant \in [open : BOOLEAN, until : 0 .. Horizon]
           /\ Extended(helpOp[c].seen) \in Nat
           /\ Extended(helpOp[c].seen) # helpOp[c].seen.expires
  <1>1. /\ helpOp \in [HelpCalls -> HelpOps] /\ hour \in 0 .. LastHour
        /\ help \in HelpRows /\ meant \in [open : BOOLEAN, until : 0 .. Horizon]
    BY DEF HelpInv, HelpTyped
  <1>2. helpOp[c] \in HelpOps
    BY <1>1
  <1>3. helpOp[c].seen \in HelpRows
    BY <1>2 DEF HelpOps
  <1> DEFINE e == helpOp[c].seen.expires
  <1>4. e \in 0 .. Horizon
    BY <1>3 DEF HelpRows
  <1>5. e \in Nat /\ hour \in Nat /\ ActiveHours \in Nat \ {0}
    BY <1>1, <1>4, HelpAssumption DEF Horizon
  <1>6. Extended(helpOp[c].seen) = (IF e > hour THEN e ELSE hour) + ActiveHours
    BY DEF Extended
  <1> HIDE DEF e
  <1>7. Extended(helpOp[c].seen) \in Nat /\ Extended(helpOp[c].seen) # e
    BY <1>5, <1>6
  <1> QED BY <1>1, <1>2, <1>3, <1>7 DEF e

LEMMA ExtensionSteps ==
    ASSUME HelpInv, NEW c \in HelpCalls, ExtendWrites(c) \/ AdminExtendWrites(c)
    PROVE  HelpInv'
  <1> DEFINE seen == helpOp[c].seen
             e == Extended(seen)
  <1>0. /\ seen \in HelpRows /\ hour \in 0 .. LastHour /\ help \in HelpRows
        /\ meant \in [open : BOOLEAN, until : 0 .. Horizon]
        /\ e \in Nat /\ e # seen.expires
    BY HelpOpTyped
  <1>a. e <= Horizon
    BY DEF ExtendWrites, AdminExtendWrites
  <1>b. e \in 0 .. Horizon
    BY <1>0, <1>a, HelpAssumption DEF Horizon
  <1>c. seen.status \in HelpStatuses
    BY DEF HelpInv, HelpRead, ExtendWrites, AdminExtendWrites
  <1>1. CASE ExtendWrites(c)
    <2> DEFINE n == seen.extended + 1
               want == [seen EXCEPT !.expires = e, !.extended = n, !.reminder = "null"]
               means == [meant EXCEPT !.until = e]
    <2>1. helpOp[c].kind = "extend" /\ HelpWrites(c, want, means)
      BY <1>1 DEF ExtendWrites
    <2>2. ActivelyOpen(seen.status)
      BY <2>1 DEF HelpInv, HelpRead
    <2> HIDE DEF e
    <2>3. want \in HelpRows /\ want.status = seen.status /\ want.expires = e
      <3>1. n \in Nat
        BY <1>0 DEF HelpRows
      <3> HIDE DEF n
      <3> QED BY <1>0, <1>b, <3>1 DEF HelpRows
    <2>4. means \in [open : BOOLEAN, until : 0 .. Horizon] /\ means.open = meant.open /\ means.until = e
      BY <1>0, <1>b
    <2> HIDE DEF want, means
    <2>5. ASSUME Stored, HelpKept, InTime(helpOp[c]), hour' = hour, meant' = means, Stored',
                 help'.status = IF want.status # seen.status THEN want.status ELSE help.status,
                 help'.expires = IF want.expires # seen.expires THEN want.expires ELSE help.expires
          PROVE  /\ HelpKept'
                 /\ \A o \in HelpOps : InTime(o) /\ <<helpOp[c].kind, o.kind>> \notin Crossing
                                           => InTime(o)'
      <3>1. /\ help'.status = help.status /\ help'.expires = e
            /\ meant'.open = meant.open /\ meant'.until = e
        BY <1>0, <2>3, <2>4, <2>5
      <3>2. ~(help.status = "EXPIRED" /\ meant.open)
        BY <2>1, <2>2, <2>5 DEF InTime, Extensions, ActivelyOpen
      <3>3. HelpKept'
        BY <2>5, <3>1, <3>2 DEF HelpKept, ActivelyOpen
      <3>4. ASSUME NEW o \in HelpOps, InTime(o), <<helpOp[c].kind, o.kind>> \notin Crossing
            PROVE  InTime(o)'
        <4>1. o.kind \notin Edits /\ o.kind # "sweep"
          BY <2>1, <3>4, CrossingPairs DEF Extensions
        <4> QED BY <3>1, <3>4, <4>1 DEF InTime
      <3> QED BY <3>3, <3>4
    <2>6. want.status \in HelpStatuses /\ helpOp[c].kind # "none"
      BY <1>c, <2>1, <2>3
    <2> QED BY <2>1, <2>3, <2>4, <2>5, <2>6, HelpWriteKept
  <1>2. CASE AdminExtendWrites(c)
    <2> DEFINE reopens == seen.status \in {"EXPIRED", "CANCELLED"}
               to == IF reopens THEN "OPEN" ELSE seen.status
               n == seen.extended + 1
               want == [seen EXCEPT !.status = to, !.expires = e, !.extended = n,
                                    !.reminder = "null"]
               means == [open |-> meant.open \/ reopens, until |-> e]
    <2>1. helpOp[c].kind = "adminExtend" /\ HelpWrites(c, want, means)
      BY <1>2 DEF AdminExtendWrites
    <2>2. to \in HelpStatuses
      BY <1>c DEF HelpStatuses
    <2> HIDE DEF e
    <2>3. want \in HelpRows /\ want.status = to /\ want.expires = e
      <3>1. n \in Nat
        BY <1>0 DEF HelpRows
      <3> HIDE DEF n, to
      <3> QED BY <1>0, <1>b, <2>2, <3>1 DEF HelpRows
    <2>4. /\ means \in [open : BOOLEAN, until : 0 .. Horizon]
          /\ means.open = (meant.open \/ reopens) /\ means.until = e
      BY <1>0, <1>b
    <2> HIDE DEF want, means
    <2>5. ASSUME Stored, HelpKept, InTime(helpOp[c]), hour' = hour, meant' = means, Stored',
                 help'.status = IF want.status # seen.status THEN want.status ELSE help.status,
                 help'.expires = IF want.expires # seen.expires THEN want.expires ELSE help.expires
          PROVE  /\ HelpKept'
                 /\ \A o \in HelpOps : InTime(o) /\ <<helpOp[c].kind, o.kind>> \notin Crossing
                                           => InTime(o)'
      <3>1. /\ help'.expires = e /\ meant'.until = e /\ meant'.open = (meant.open \/ reopens)
            /\ help'.status = IF reopens THEN "OPEN" ELSE help.status
        BY <1>0, <2>3, <2>4, <2>5
      <3>2. reopens \/ ~(help.status = "EXPIRED" /\ meant.open)
        BY <2>1, <2>5 DEF InTime, Extensions
      <3>3. HelpKept'
        BY <1>0, <2>5, <3>1, <3>2 DEF HelpKept, ActivelyOpen
      <3>4. ASSUME NEW o \in HelpOps, InTime(o), <<helpOp[c].kind, o.kind>> \notin Crossing
            PROVE  InTime(o)'
        <4>1. o.kind \notin Edits /\ o.kind # "sweep"
          BY <2>1, <3>4, CrossingPairs DEF Extensions
        <4> QED BY <3>1, <3>2, <3>4, <4>1 DEF InTime
      <3> QED BY <3>3, <3>4
    <2>6. want.status \in HelpStatuses /\ helpOp[c].kind # "none"
      BY <2>1, <2>2, <2>3
    <2> QED BY <2>1, <2>3, <2>4, <2>5, <2>6, HelpWriteKept
  <1> QED BY <1>1, <1>2

\* The other updates leave the end of the request as it is, or set it with its status.
LEMMA StatusSteps ==
    ASSUME HelpInv, NEW c \in HelpCalls,
           CompleteWrites(c) \/ EditWrites(c) \/ OfferWrites(c) \/ ExpiryWrites(c) \/ RemindWrites(c)
    PROVE  HelpInv'
  <1> DEFINE seen == helpOp[c].seen
  <1>0. /\ seen \in HelpRows /\ help \in HelpRows
        /\ meant \in [open : BOOLEAN, until : 0 .. Horizon]
        /\ helpOp[c].kind # "none" => seen.status \in HelpStatuses
    BY HelpOpTyped DEF HelpInv, HelpRead
  <1>1. CASE CompleteWrites(c)
    <2> DEFINE want == [seen EXCEPT !.status = "COMPLETED"]
               means == [meant EXCEPT !.open = FALSE]
    <2>1. helpOp[c].kind = "complete" /\ HelpWrites(c, want, means)
      BY <1>1 DEF CompleteWrites, Edits
    <2>2. seen.status # "COMPLETED" /\ "COMPLETED" \in HelpStatuses
      BY <2>1 DEF HelpInv, HelpRead, HelpStatuses
    <2>3. want \in HelpRows /\ want.status = "COMPLETED" /\ want.expires = seen.expires
      BY <1>0, <2>2 DEF HelpRows
    <2>4. /\ means \in [open : BOOLEAN, until : 0 .. Horizon]
          /\ means.open = FALSE /\ means.until = meant.until
      BY <1>0
    <2> HIDE DEF want, means
    <2>5. ASSUME Stored, HelpKept, InTime(helpOp[c]), hour' = hour, meant' = means, Stored',
                 help'.status = IF want.status # seen.status THEN want.status ELSE help.status,
                 help'.expires = IF want.expires # seen.expires THEN want.expires ELSE help.expires
          PROVE  /\ HelpKept'
                 /\ \A o \in HelpOps : InTime(o) /\ <<helpOp[c].kind, o.kind>> \notin Crossing
                                           => InTime(o)'
      <3>1. /\ help'.expires = help.expires /\ meant'.until = meant.until
            /\ help'.status = "COMPLETED" /\ meant'.open = FALSE
        BY <1>0, <2>1, <2>2, <2>3, <2>4, <2>5 DEF InTime, Offering, Edits, ActivelyOpen
      <3>3. HelpKept'
        BY <2>1, <2>2, <2>5, <3>1 DEF HelpKept, ActivelyOpen, InTime, Offering
      <3>4. ASSUME NEW o \in HelpOps, InTime(o), <<helpOp[c].kind, o.kind>> \notin Crossing
            PROVE  InTime(o)'
        <4>1. o.kind \notin Edits /\ o.kind \notin Offering
          BY <2>1, <3>4, CrossingPairs
        <4> QED BY <2>5, <3>1, <3>4, <4>1 DEF InTime, ActivelyOpen
      <3> QED BY <3>3, <3>4
    <2>6. want.status \in HelpStatuses /\ helpOp[c].kind # "none"
      BY <1>0, <2>1, <2>2, <2>3 DEF HelpStatuses, Edits
    <2> QED BY <2>1, <2>3, <2>4, <2>5, <2>6, HelpWriteKept
  <1>2. CASE EditWrites(c)
    <2> DEFINE to == helpOp[c].to
               want == [seen EXCEPT !.status = to]
               means == [meant EXCEPT !.open = ActivelyOpen(to)]
    <2>1. helpOp[c].kind \in Edits /\ HelpWrites(c, want, means)
      BY <1>2 DEF EditWrites, Edits
    <2>2. to \in HelpStatuses /\ to \notin {"NONE", "GONE"}
      BY <2>1 DEF HelpInv, HelpRead, HelpStatuses
    <2> HIDE DEF to
    <2>3. want \in HelpRows /\ want.status = to /\ want.expires = seen.expires
      BY <1>0, <2>2 DEF HelpRows
    <2>4. /\ means \in [open : BOOLEAN, until : 0 .. Horizon]
          /\ means.open = ActivelyOpen(to) /\ means.until = meant.until
      <3> DEFINE open0 == ActivelyOpen(to)
      <3>1. open0 \in BOOLEAN
        BY DEF ActivelyOpen
      <3> HIDE DEF open0
      <3>2. /\ [meant EXCEPT !.open = open0] \in [open : BOOLEAN, until : 0 .. Horizon]
            /\ [meant EXCEPT !.open = open0].open = open0
            /\ [meant EXCEPT !.open = open0].until = meant.until
        BY <1>0, <3>1
      <3> QED BY <3>2 DEF open0
    <2> HIDE DEF want, means
    <2>5. ASSUME Stored, HelpKept, InTime(helpOp[c]), hour' = hour, meant' = means, Stored',
                 help'.status = IF want.status # seen.status THEN want.status ELSE help.status,
                 help'.expires = IF want.expires # seen.expires THEN want.expires ELSE help.expires
          PROVE  /\ HelpKept'
                 /\ \A o \in HelpOps : InTime(o) /\ <<helpOp[c].kind, o.kind>> \notin Crossing
                                           => InTime(o)'
      <3>1. /\ help'.expires = help.expires /\ meant'.until = meant.until
            /\ help'.status = to /\ meant'.open = ActivelyOpen(to)
        BY <1>0, <2>1, <2>2, <2>3, <2>4, <2>5 DEF InTime, Offering, Edits, ActivelyOpen
      <3>3. HelpKept'
        BY <2>1, <2>2, <2>5, <3>1 DEF HelpKept, ActivelyOpen, InTime, Offering
      <3>4. ASSUME NEW o \in HelpOps, InTime(o), <<helpOp[c].kind, o.kind>> \notin Crossing
            PROVE  InTime(o)'
        <4>1. o.kind \notin Edits /\ o.kind \notin Offering /\ o.kind # "sweep"
          BY <2>1, <3>4, CrossingPairs
        <4> QED BY <2>5, <3>1, <3>4, <4>1 DEF InTime, ActivelyOpen
      <3> QED BY <3>3, <3>4
    <2>6. want.status \in HelpStatuses /\ helpOp[c].kind # "none"
      BY <1>0, <2>1, <2>2, <2>3 DEF HelpStatuses, Edits
    <2> QED BY <2>1, <2>3, <2>4, <2>5, <2>6, HelpWriteKept
  <1>3. CASE OfferWrites(c)
    <2> DEFINE want == [seen EXCEPT !.status = "IN_PROGRESS"]
               means == meant
    <2>1. helpOp[c].kind = "offered" /\ HelpWrites(c, want, means)
      BY <1>3 DEF OfferWrites, Edits
    <2>2. seen.status = "OPEN" /\ "IN_PROGRESS" \in HelpStatuses
      BY <2>1 DEF HelpInv, HelpRead, HelpStatuses
    <2>3. want \in HelpRows /\ want.status = "IN_PROGRESS" /\ want.expires = seen.expires
      BY <1>0, <2>2 DEF HelpRows
    <2>4. /\ means \in [open : BOOLEAN, until : 0 .. Horizon]
          /\ means.open = meant.open /\ means.until = meant.until
      BY <1>0
    <2> HIDE DEF want, means
    <2>5. ASSUME Stored, HelpKept, InTime(helpOp[c]), hour' = hour, meant' = means, Stored',
                 help'.status = IF want.status # seen.status THEN want.status ELSE help.status,
                 help'.expires = IF want.expires # seen.expires THEN want.expires ELSE help.expires
          PROVE  /\ HelpKept'
                 /\ \A o \in HelpOps : InTime(o) /\ <<helpOp[c].kind, o.kind>> \notin Crossing
                                           => InTime(o)'
      <3>1. /\ help'.expires = help.expires /\ meant'.until = meant.until
            /\ help'.status = "IN_PROGRESS" /\ meant'.open = meant.open /\ meant.open
        BY <1>0, <2>1, <2>2, <2>3, <2>4, <2>5 DEF InTime, Offering, Edits, ActivelyOpen
      <3>3. HelpKept'
        BY <2>1, <2>2, <2>5, <3>1 DEF HelpKept, ActivelyOpen, InTime, Offering
      <3>4. ASSUME NEW o \in HelpOps, InTime(o), <<helpOp[c].kind, o.kind>> \notin Crossing
            PROVE  InTime(o)'
        <4>1. o.kind \notin Edits
          BY <2>1, <3>4, CrossingPairs DEF Offering
        <4> QED BY <2>5, <3>1, <3>4, <4>1 DEF InTime, ActivelyOpen
      <3> QED BY <3>3, <3>4
    <2>6. want.status \in HelpStatuses /\ helpOp[c].kind # "none"
      BY <1>0, <2>1, <2>2, <2>3 DEF HelpStatuses, Edits
    <2> QED BY <2>1, <2>3, <2>4, <2>5, <2>6, HelpWriteKept
  <1>4. CASE ExpiryWrites(c)
    <2> DEFINE want == [seen EXCEPT !.status = "EXPIRED", !.reminder = "EXPIRED"]
               means == meant
    <2>1. helpOp[c].kind = "sweep" /\ HelpWrites(c, want, means)
      BY <1>4 DEF ExpiryWrites, Edits
    <2>2. ActivelyOpen(seen.status) /\ seen.status # "EXPIRED" /\ "EXPIRED" \in HelpStatuses
      BY <2>1 DEF HelpInv, HelpRead, ActivelyOpen, HelpStatuses
    <2>3. want \in HelpRows /\ want.status = "EXPIRED" /\ want.expires = seen.expires
      BY <1>0, <2>2 DEF HelpRows
    <2>4. /\ means \in [open : BOOLEAN, until : 0 .. Horizon]
          /\ means.open = meant.open /\ means.until = meant.until
      BY <1>0
    <2> HIDE DEF want, means
    <2>5. ASSUME Stored, HelpKept, InTime(helpOp[c]), hour' = hour, meant' = means, Stored',
                 help'.status = IF want.status # seen.status THEN want.status ELSE help.status,
                 help'.expires = IF want.expires # seen.expires THEN want.expires ELSE help.expires
          PROVE  /\ HelpKept'
                 /\ \A o \in HelpOps : InTime(o) /\ <<helpOp[c].kind, o.kind>> \notin Crossing
                                           => InTime(o)'
      <3>1. /\ help'.expires = help.expires /\ meant'.until = meant.until
            /\ help'.status = "EXPIRED" /\ meant'.open = meant.open /\ help.expires <= hour
        BY <1>0, <2>1, <2>2, <2>3, <2>4, <2>5 DEF InTime, Offering, Edits, ActivelyOpen
      <3>3. HelpKept'
        BY <2>1, <2>2, <2>5, <3>1 DEF HelpKept, ActivelyOpen, InTime, Offering
      <3>4. ASSUME NEW o \in HelpOps, InTime(o), <<helpOp[c].kind, o.kind>> \notin Crossing
            PROVE  InTime(o)'
        <4>1. o.kind \notin Edits /\ o.kind \notin Offering /\ o.kind \notin Extensions
          BY <2>1, <3>4, CrossingPairs
        <4> QED BY <2>5, <3>1, <3>4, <4>1 DEF InTime, ActivelyOpen
      <3> QED BY <3>3, <3>4
    <2>6. want.status \in HelpStatuses /\ helpOp[c].kind # "none"
      BY <1>0, <2>1, <2>2, <2>3 DEF HelpStatuses, Edits
    <2> QED BY <2>1, <2>3, <2>4, <2>5, <2>6, HelpWriteKept
  <1>5. CASE RemindWrites(c)
    <2> DEFINE want == [seen EXCEPT !.reminder = "H1"]
               means == meant
    <2>1. helpOp[c].kind = "remind" /\ HelpWrites(c, want, means)
      BY <1>5 DEF RemindWrites, Edits
    <2>2. "H1" \in {"null", "H1", "EXPIRED"}
      OBVIOUS
    <2>3. want \in HelpRows /\ want.status = seen.status /\ want.expires = seen.expires
      BY <1>0, <2>2 DEF HelpRows
    <2>4. /\ means \in [open : BOOLEAN, until : 0 .. Horizon]
          /\ means.open = meant.open /\ means.until = meant.until
      BY <1>0
    <2> HIDE DEF want, means
    <2>5. ASSUME Stored, HelpKept, InTime(helpOp[c]), hour' = hour, meant' = means, Stored',
                 help'.status = IF want.status # seen.status THEN want.status ELSE help.status,
                 help'.expires = IF want.expires # seen.expires THEN want.expires ELSE help.expires
          PROVE  /\ HelpKept'
                 /\ \A o \in HelpOps : InTime(o) /\ <<helpOp[c].kind, o.kind>> \notin Crossing
                                           => InTime(o)'
      <3>1. /\ help'.expires = help.expires /\ meant'.until = meant.until
            /\ help'.status = help.status /\ meant'.open = meant.open
        BY <1>0, <2>1, <2>2, <2>3, <2>4, <2>5 DEF InTime, Offering, Edits, ActivelyOpen
      <3>3. HelpKept'
        BY <2>1, <2>2, <2>5, <3>1 DEF HelpKept, ActivelyOpen, InTime, Offering
      <3>4. ASSUME NEW o \in HelpOps, InTime(o), <<helpOp[c].kind, o.kind>> \notin Crossing
            PROVE  InTime(o)'
        <4>1. TRUE
          BY <2>1, <3>4, CrossingPairs
        <4> QED BY <2>5, <3>1, <3>4, <4>1 DEF InTime, ActivelyOpen
      <3> QED BY <3>3, <3>4
    <2>6. want.status \in HelpStatuses /\ helpOp[c].kind # "none"
      BY <1>0, <2>1, <2>2, <2>3 DEF HelpStatuses, Edits
    <2> QED BY <2>1, <2>3, <2>4, <2>5, <2>6, HelpWriteKept
  <1> QED BY <1>1, <1>2, <1>3, <1>4, <1>5

LEMMA SetStep ==
    ASSUME HelpInv, NEW c \in HelpCalls, SetWrites(c)
    PROVE  HelpInv'
  <1> DEFINE seen == helpOp[c].seen
             to == helpOp[c].to
             anew == to = "OPEN" /\ ~ActivelyOpen(seen.status)
             until == IF anew THEN hour + ActiveHours ELSE seen.expires
             told == IF anew THEN "null" ELSE IF to = "EXPIRED" THEN to ELSE seen.reminder
             open0 == ActivelyOpen(to)
             end == IF anew THEN until ELSE meant.until
             want == [seen EXCEPT !.status = to, !.expires = until, !.reminder = told]
             means == [open |-> open0, until |-> end]
  <1>0. /\ seen \in HelpRows /\ hour \in 0 .. LastHour /\ help \in HelpRows
        /\ meant \in [open : BOOLEAN, until : 0 .. Horizon]
    BY HelpOpTyped
  <1>1. helpOp[c].kind = "set" /\ HelpWrites(c, want, means)
    BY DEF SetWrites
  <1>2. to \in HelpStatuses /\ to \notin {"NONE", "GONE"}
    BY <1>1 DEF HelpInv, HelpRead, HelpStatuses, Edits
  <1>3. /\ until \in 0 .. Horizon /\ told \in {"null", "H1", "EXPIRED"} /\ open0 \in BOOLEAN
        /\ end \in 0 .. Horizon
    <2>1. hour + ActiveHours \in 0 .. Horizon
      BY <1>0, HelpAssumption DEF Horizon
    <2>2. seen.expires \in 0 .. Horizon /\ seen.reminder \in {"null", "H1", "EXPIRED"}
      BY <1>0 DEF HelpRows
    <2>3. until \in 0 .. Horizon
      BY <2>1, <2>2
    <2> HIDE DEF until
    <2> QED BY <1>0, <2>2, <2>3 DEF ActivelyOpen
  <1>4. anew => to = "OPEN" /\ to # seen.status /\ end = until
    BY DEF ActivelyOpen
  <1>5. ~anew => until = seen.expires /\ end = meant.until
    OBVIOUS
  <1>6. open0 = ActivelyOpen(to)
    OBVIOUS
  <1> HIDE DEF anew, until, told, open0, end
  <1>7. want \in HelpRows /\ want.status = to /\ want.expires = until
    BY <1>0, <1>2, <1>3 DEF HelpRows
  <1>8. means \in [open : BOOLEAN, until : 0 .. Horizon] /\ means.open = open0 /\ means.until = end
    BY <1>3
  <1> HIDE DEF want, means
  <1>9. ASSUME Stored, HelpKept, InTime(helpOp[c]), hour' = hour, meant' = means, Stored',
               help'.status = IF want.status # seen.status THEN want.status ELSE help.status,
               help'.expires = IF want.expires # seen.expires THEN want.expires ELSE help.expires
        PROVE  /\ HelpKept'
               /\ \A o \in HelpOps : InTime(o) /\ <<helpOp[c].kind, o.kind>> \notin Crossing
                                         => InTime(o)'
    <2>1. help'.status = to /\ help'.expires = until
      BY <1>1, <1>7, <1>9 DEF InTime, Edits
    <2>2. meant'.open = open0 /\ meant'.until = until
      BY <1>1, <1>4, <1>5, <1>8, <1>9 DEF InTime, Edits, HelpKept
    <2>3. HelpKept'
      BY <1>6, <1>9, <2>1, <2>2 DEF HelpKept
    <2>4. ASSUME NEW o \in HelpOps, InTime(o), <<helpOp[c].kind, o.kind>> \notin Crossing
          PROVE  InTime(o)'
      <3>1. o.kind \notin Edits /\ o.kind \notin Offering /\ o.kind # "sweep"
        BY <1>1, <2>4, CrossingPairs DEF Edits
      <3>2. ~(help'.status = "EXPIRED" /\ meant'.open)
        <4>1. to = "EXPIRED" => ~open0
          BY <1>6 DEF ActivelyOpen
        <4> QED BY <2>1, <2>2, <4>1
      <3> HIDE DEF to
      <3> QED BY <3>1, <3>2 DEF InTime
    <2> QED BY <2>3, <2>4
  <1>10. want.status \in HelpStatuses /\ helpOp[c].kind # "none"
    BY <1>1, <1>2, <1>7
  <1> QED BY <1>1, <1>7, <1>8, <1>9, <1>10, HelpWriteKept

\* A read starts an operation that is in time.
LEMMA HelpStartKept ==
    ASSUME HelpInv, NEW c \in HelpCalls, NEW o \in HelpOps,
           helpOp' = [helpOp EXCEPT ![c] = o],
           UNCHANGED <<help, hour, meant, crossed>>, offers' \subseteq Helpers,
           HelpRead(o), help.status = "NONE" => o.kind = "none",
           ~crossed /\ Stored /\ HelpKept /\ (helpOp[c].early \/ InTime(helpOp[c]))
             => o.early \/ InTime(o)
    PROVE  HelpInv'
  <1>0. helpOp \in [HelpCalls -> HelpOps]
    BY DEF HelpInv, HelpTyped
  <1>1. helpOp' \in [HelpCalls -> HelpOps] /\ helpOp'[c] = o /\ \A d \in HelpCalls \ {c} : helpOp'[d] = helpOp[d]
    BY <1>0
  <1>2. HelpTyped'
    BY <1>1 DEF HelpInv, HelpTyped
  <1>3. help'.status = "NONE" => \A d \in HelpCalls : helpOp'[d].kind = "none"
    BY <1>1 DEF HelpInv
  <1>4. \A d \in HelpCalls : HelpRead(helpOp'[d])
    BY <1>1 DEF HelpInv
  <1>5. ASSUME ~crossed' PROVE HelpKept' /\ AllInTime'
    <2>1. HelpKept /\ AllInTime
      BY <1>5 DEF HelpInv
    <2>2. HelpKept'
      BY <2>1 DEF HelpKept, Stored
    <2>3. ASSUME Stored', NEW d \in HelpCalls PROVE helpOp'[d].early \/ InTime(helpOp[d])'
      <3>1. Stored
        BY <2>3 DEF Stored
      <3>2. helpOp'[d].early \/ InTime(helpOp'[d])
        BY <1>1, <1>5, <2>1, <3>1 DEF AllInTime
      <3> QED BY <3>2 DEF InTime
    <2> QED BY <2>2, <2>3 DEF AllInTime
  <1> QED BY <1>2, <1>3, <1>4, <1>5 DEF HelpInv

LEMMA HelpReadStep ==
    ASSUME HelpInv, NEW c \in HelpCalls, NEW kind, NEW to, HelpReads(c, kind, to),
           kind \in {"remind", "complete", "sweep"} \cup Extensions \cup Edits,
           to \in HelpStatuses \cup {"NONE", ""}, kind \in Edits => to \in HelpStatuses,
           kind \in {"extend", "sweep"} => ActivelyOpen(help.status),
           kind = "sweep" => help.expires <= hour,
           kind = "complete" => help.status # "COMPLETED"
    PROVE  HelpInv'
  <1> DEFINE o == [IdleHelp EXCEPT !.seen = help, !.kind = kind, !.to = to]
  <1>1. /\ Stored /\ helpOp' = [helpOp EXCEPT ![c] = o]
        /\ UNCHANGED <<help, offers, hour, meant, crossed>>
    BY DEF HelpReads
  <1>2. help \in HelpRows /\ offers \subseteq Helpers
    BY DEF HelpInv, HelpTyped
  <1>3. o \in HelpOps /\ o.seen = help /\ o.kind = kind /\ o.to = to /\ o.early = FALSE
    BY <1>2, IdleTyped DEF IdleHelp, HelpOps
  <1> HIDE DEF o
  <1>4. HelpRead(o)
    BY <1>1, <1>3 DEF HelpRead, Stored, Extensions, Edits
  <1>5. HelpKept => InTime(o)
    BY <1>1, <1>3 DEF InTime, HelpKept, Extensions, Offering, Edits
  <1>6. help.status # "NONE"
    BY <1>1 DEF Stored, HelpStatuses
  <1> QED BY <1>1, <1>2, <1>3, <1>4, <1>5, <1>6, HelpStartKept

LEMMA HelpBegins ==
    ASSUME HelpInv, HelpBegin
    PROVE  HelpInv'
  <1>1. ASSUME NEW c \in HelpCalls,
               \/ ExtendReads(c) \/ CompleteReads(c) \/ ExpiryReads(c) \/ RemindReads(c)
               \/ HelpReads(c, "adminExtend", "")
        PROVE  HelpInv'
    <2>1. CASE ExtendReads(c)
      BY <2>1, HelpReadStep DEF ExtendReads, Extensions, Edits
    <2>2. CASE CompleteReads(c)
      BY <2>2, HelpReadStep DEF CompleteReads, Extensions, Edits, HelpStatuses
    <2>3. CASE ExpiryReads(c)
      BY <2>3, HelpReadStep DEF ExpiryReads, Extensions, Edits
    <2>4. CASE RemindReads(c)
      BY <2>4, HelpReadStep DEF RemindReads, Extensions, Edits
    <2>5. CASE HelpReads(c, "adminExtend", "")
      BY <2>5, HelpReadStep DEF Extensions, Edits
    <2> QED BY <1>1, <2>1, <2>2, <2>3, <2>4, <2>5
  <1>2. ASSUME NEW c \in HelpCalls, NEW kind \in {"edit", "set"}, NEW to \in HelpStatuses,
               HelpReads(c, kind, to)
        PROVE  HelpInv'
    BY <1>2, HelpReadStep DEF Edits
  <1>3. ASSUME NEW c \in HelpCalls, NEW h \in Helpers, OfferReads(c, h)
        PROVE  HelpInv'
    <2> DEFINE o == [IdleHelp EXCEPT !.seen = help, !.kind = "offer", !.by = {h}]
    <2>1. /\ ActivelyOpen(help.status) /\ helpOp' = [helpOp EXCEPT ![c] = o]
          /\ UNCHANGED <<help, offers, hour, meant, crossed>>
      BY <1>3 DEF OfferReads
    <2>2. help \in HelpRows /\ offers \subseteq Helpers
      BY DEF HelpInv, HelpTyped
    <2>3. o \in HelpOps /\ o.seen = help /\ o.kind = "offer" /\ o.early = FALSE
      BY <2>2, IdleTyped DEF IdleHelp, HelpOps, Offering
    <2> HIDE DEF o
    <2>4. HelpRead(o) /\ help.status # "NONE"
      BY <2>1, <2>3 DEF HelpRead, ActivelyOpen, HelpStatuses, Edits
    <2>5. HelpKept => InTime(o)
      BY <2>1, <2>3 DEF InTime, HelpKept, Extensions, Offering, Edits
    <2> QED BY <2>1, <2>2, <2>3, <2>4, <2>5, HelpStartKept
  <1> QED BY <1>1, <1>2, <1>3 DEF HelpBegin

LEMMA HelpOtherSteps ==
    ASSUME HelpInv, HourPasses \/ PublishHelp \/ DeleteHelp
    PROVE  HelpInv'
  <1>0. /\ help \in HelpRows /\ hour \in 0 .. LastHour /\ helpOp \in [HelpCalls -> HelpOps]
        /\ meant \in [open : BOOLEAN, until : 0 .. Horizon] /\ helpOp' = helpOp
    BY DEF HelpInv, HelpTyped, HourPasses, PublishHelp, DeleteHelp
  <1>1. CASE HourPasses
    <2>1. /\ hour' = hour + 1 /\ hour' \in 0 .. LastHour
          /\ UNCHANGED <<help, offers, helpOp, meant, crossed>>
      BY <1>0, <1>1, HelpAssumption DEF HourPasses
    <2>2. HelpTyped'
      BY <2>1 DEF HelpInv, HelpTyped
    <2>3. \A t \in 0 .. Horizon : t <= hour => t <= hour'
      BY <1>0, <2>1, HelpAssumption DEF Horizon
    <2>4. help.expires \in 0 .. Horizon
      BY <1>0 DEF HelpRows
    <2>5. ASSUME ~crossed' PROVE HelpKept' /\ AllInTime'
      <3>1. HelpKept /\ AllInTime
        BY <2>1, <2>5 DEF HelpInv
      <3>2. HelpKept'
        BY <2>1, <2>3, <2>4, <3>1 DEF HelpKept, Stored
      <3>3. ASSUME Stored', NEW c \in HelpCalls PROVE helpOp'[c].early \/ InTime(helpOp[c])'
        <4>1. helpOp[c].early \/ InTime(helpOp[c])
          BY <2>1, <3>1, <3>3 DEF AllInTime, Stored
        <4> QED BY <2>1, <2>3, <2>4, <4>1 DEF InTime
      <3> QED BY <3>2, <3>3 DEF AllInTime
    <2> QED BY <2>1, <2>2, <2>5 DEF HelpInv, HelpRead
  <1>2. CASE PublishHelp
    <2> DEFINE e == hour + ActiveHours
    <2>1. /\ help.status = "NONE"
          /\ help' = [help EXCEPT !.status = "OPEN", !.expires = e]
          /\ meant' = [open |-> TRUE, until |-> e]
          /\ UNCHANGED <<offers, helpOp, hour, crossed>>
      BY <1>2 DEF PublishHelp
    <2>2. e \in 0 .. Horizon
      BY <1>0, HelpAssumption DEF Horizon
    <2> HIDE DEF e
    <2>3. /\ help' \in HelpRows /\ help'.status = "OPEN" /\ help'.expires = e
          /\ meant' \in [open : BOOLEAN, until : 0 .. Horizon] /\ meant'.open /\ meant'.until = e
      BY <1>0, <2>1, <2>2 DEF HelpRows, HelpStatuses
    <2>4. HelpTyped'
      BY <2>1, <2>3 DEF HelpInv, HelpTyped
    <2>5. \A c \in HelpCalls : helpOp'[c].kind = "none"
      BY <2>1 DEF HelpInv
    <2>6. HelpKept'
      BY <2>3 DEF HelpKept, Stored, ActivelyOpen, HelpStatuses
    <2>7. AllInTime'
      BY <2>5 DEF AllInTime, InTime, Edits, Offering, Extensions
    <2> QED BY <2>1, <2>4, <2>5, <2>6, <2>7 DEF HelpInv, HelpRead
  <1>3. CASE DeleteHelp
    <2>1. /\ Stored /\ help' = [help EXCEPT !.status = "GONE"]
          /\ offers' = {} /\ meant' = [meant EXCEPT !.open = FALSE]
          /\ UNCHANGED <<helpOp, hour, crossed>>
      BY <1>3 DEF DeleteHelp
    <2>2. /\ help' \in HelpRows /\ help'.status = "GONE"
          /\ meant' \in [open : BOOLEAN, until : 0 .. Horizon] /\ meant'.open = FALSE
      BY <1>0, <2>1 DEF HelpRows
    <2>3. HelpTyped'
      BY <2>1, <2>2 DEF HelpInv, HelpTyped
    <2>4. HelpKept' /\ AllInTime'
      BY <2>2 DEF HelpKept, AllInTime, Stored, ActivelyOpen, HelpStatuses
    <2>5. help'.status # "NONE"
      BY <2>2
    <2> QED BY <2>1, <2>3, <2>4, <2>5 DEF HelpInv, HelpRead
  <1> QED BY <1>1, <1>2, <1>3

LEMMA OfferStep ==
    ASSUME HelpInv, NEW c \in HelpCalls, Offer(c) \/ HelpOpDies(c)
    PROVE  HelpInv'
  <1>0. helpOp[c] \in HelpOps /\ offers \subseteq Helpers
    BY DEF HelpInv, HelpTyped
  <1>1. HelpRead(IdleHelp) /\ InTime(IdleHelp) /\ IdleHelp.kind = "none" /\ IdleHelp \in HelpOps
    BY IdleTyped DEF HelpRead, InTime, IdleHelp, Edits, Offering, Extensions
  <1>2. CASE HelpOpDies(c)
    BY <1>0, <1>1, <1>2, HelpStartKept DEF HelpOpDies
  <1>3. CASE Offer(c)
    <2> DEFINE o == [helpOp[c] EXCEPT !.kind = "offered"]
               new == IF helpOp[c].seen.status = "OPEN" THEN o ELSE IdleHelp
    <2>1. /\ helpOp[c].kind = "offer" /\ Stored /\ offers' = offers \cup helpOp[c].by
          /\ helpOp' = [helpOp EXCEPT ![c] = new]
          /\ UNCHANGED <<help, hour, meant, crossed>>
      BY <1>3 DEF Offer
    <2>2. /\ o \in HelpOps /\ o.kind = "offered" /\ o.seen = helpOp[c].seen
          /\ o.early = helpOp[c].early
      BY <1>0 DEF HelpOps, Offering
    <2>3. offers' \subseteq Helpers
      BY <1>0, <2>1 DEF HelpOps
    <2> HIDE DEF o
    <2>4. helpOp[c].seen.status = "OPEN" => HelpRead(o)
      BY <2>1, <2>2 DEF HelpInv, HelpRead, Edits
    <2>5. helpOp[c].early \/ InTime(helpOp[c]) => o.early \/ InTime(o)
      BY <2>1, <2>2 DEF InTime, Edits, Offering, Extensions
    <2>6. new \in HelpOps /\ HelpRead(new)
      BY <1>1, <2>2, <2>4
    <2>7. helpOp[c].early \/ InTime(helpOp[c]) => new.early \/ InTime(new)
      BY <1>1, <2>5
    <2>8. help.status # "NONE"
      BY <2>1 DEF Stored, HelpStatuses
    <2> HIDE DEF new
    <2> QED BY <2>1, <2>3, <2>6, <2>7, <2>8, HelpStartKept
  <1> QED BY <1>2, <1>3

\* The invariant of a request for help: until one of its operations has crossed another
\* (HelpWrites), the row is as it was meant, and each operation under way has seen what matters
\* to it (InTime).
THEOREM HelpInvariant == HelpSpec => []HelpInv
  <1>1. HelpInit => HelpInv
    <2> SUFFICES ASSUME HelpInit PROVE HelpInv
      OBVIOUS
    <2>1. 0 \in 0 .. LastHour /\ 0 \in 0 .. Horizon
      BY HelpAssumption DEF Horizon
    <2>2. HelpTyped
      BY <2>1, IdleTyped DEF HelpInit, HelpTyped
    <2>3. HelpKept /\ AllInTime
      BY DEF HelpInit, HelpKept, AllInTime, Stored, NoHelp, ActivelyOpen, HelpStatuses
    <2> QED BY <2>2, <2>3 DEF HelpInit, HelpInv, HelpRead, IdleHelp, Edits
  <1>2. HelpInv /\ [HelpNext]_helpVars => HelpInv'
    <2> SUFFICES ASSUME HelpInv, [HelpNext]_helpVars PROVE HelpInv'
      OBVIOUS
    <2>1. CASE UNCHANGED helpVars
      BY <2>1 DEF helpVars, HelpInv, HelpTyped, HelpRead, HelpKept, AllInTime, InTime, Stored
    <2>2. CASE HelpGoesOn
      BY <2>2, ExtensionSteps, StatusSteps, SetStep, HelpOtherSteps, OfferStep DEF HelpGoesOn
    <2> QED BY <2>1, <2>2, HelpBegins DEF HelpNext
  <1> QED BY <1>1, <1>2, PTL DEF HelpSpec

\* Type correctness of a request for help.
THEOREM HelpTypes == HelpSpec => []HelpTypeOK
  <1>1. HelpInv => HelpTypeOK
    BY DEF HelpInv, HelpTyped, HelpTypeOK, HelpRows
  <1> QED BY <1>1, HelpInvariant, PTL

\* A request is shown as its author and the administrators left it, until the hour the last of
\* them set, unless one updated it without having seen another's update: an offer, an expiry or
\* a reminder never opens or closes it (offerHelp, expireDueHelpRequests).
THEOREM HelpShownAsMeant == HelpSpec => []ShownAsMeant
  <1>1. HelpInv => ShownAsMeant
    <2> SUFFICES ASSUME HelpInv, ~crossed PROVE Shown <=> meant.open /\ hour < meant.until
      BY DEF ShownAsMeant
    <2>1. HelpKept
      BY DEF HelpInv
    <2>2. hour \in Nat /\ help.expires \in Nat /\ meant.until \in Nat
      BY HelpAssumption DEF HelpInv, HelpTyped, HelpRows, Horizon
    <2>3. ActivelyOpen(help.status) => Stored
      BY DEF ActivelyOpen, Stored, HelpStatuses
    <2> QED BY <2>1, <2>2, <2>3 DEF HelpKept, Shown
  <1> QED BY <1>1, HelpInvariant, PTL


-----------------------------------------------------------------------------
(***************************************************************************)
(* LegalDocuments                                                          *)
(***************************************************************************)
DocRows == [status : {"NONE", "DRAFT", "PUBLISHED", "ARCHIVED"}, inForce : BOOLEAN,
            version : Nat \X Nat, suffix : BOOLEAN, number : Nat \X Nat, text : 0 .. MaxTexts]
LegalOps == [kind : {"none", "absent", "edit", "draft", "publish"}, doc : 0 .. MaxDocs,
             seen : DocRows, current : 0 .. MaxDocs, to : Nat \X Nat, early : BOOLEAN]

LegalTyped ==
    /\ docs \in [Docs -> DocRows]
    /\ acceptances \subseteq [version : Nat \X Nat, text : 1 .. MaxTexts]
    /\ legalOp \in [LegalCalls -> LegalOps]
    /\ texts \in 1 .. MaxTexts
    /\ everInForce \in BOOLEAN /\ overlapped \in BOOLEAN

\* Rows are published when they are in force and have a text when they are rows.
RowsKnown ==
    /\ \A d \in Docs : /\ docs[d].inForce => docs[d].status = "PUBLISHED"
                       /\ docs[d].status # "NONE" => docs[d].text # 0
    /\ everInForce <=> InForce # {}

\* The rows an operation will write by id exist.
RowsOf(o) ==
    /\ o.kind \in {"edit", "draft", "publish"} => o.doc \in Docs /\ docs[o.doc].status # "NONE"
    /\ o.kind = "publish" /\ o.current # 0 => o.current \in Docs /\ docs[o.current].status # "NONE"

\* What was accepted under a number is the text of the row that has, or had, that number.
AcceptedOnce ==
    /\ \A d, e \in InForce : d = e
    /\ \A d \in InForce : ~docs[d].suffix
    /\ \A a \in acceptances : \E d \in Docs : /\ docs[d].status \in {"PUBLISHED", "ARCHIVED"}
                                              /\ docs[d].version = a.version /\ ~docs[d].suffix
    /\ AcceptedStands

\* An operation that no publication has overtaken writes a draft, and knows what is in force.
Undisturbed(o) ==
    /\ o.kind \in {"edit", "draft", "publish"} => docs[o.doc].status = "DRAFT"
    /\ o.kind \in {"draft", "publish"} => /\ o.seen.version = docs[o.doc].version
                                          /\ o.seen.suffix = docs[o.doc].suffix
    /\ o.kind = "publish" => InForce = IF o.current = 0 THEN {} ELSE {o.current}

LegalInv ==
    /\ LegalTyped /\ RowsKnown
    /\ \A c \in LegalCalls : RowsOf(legalOp[c])
    /\ ~overlapped => AcceptedOnce /\ \A c \in LegalCalls : legalOp[c].early \/ Undisturbed(legalOp[c])

LEMMA NoDocTyped == NoDoc \in DocRows /\ NoLegalOp \in LegalOps
  <1>1. 0 \in 0 .. MaxTexts /\ 0 \in 0 .. MaxDocs /\ <<0, 0>> \in Nat \X Nat
    BY LegalAssumption
  <1>2. NoDoc \in DocRows
    BY <1>1 DEF NoDoc, DocRows
  <1> QED BY <1>1, <1>2 DEF NoLegalOp, LegalOps

LEMMA NoOpKnown ==
    NoLegalOp.kind = "none" /\ RowsOf(NoLegalOp) /\ Undisturbed(NoLegalOp)
  BY DEF NoLegalOp, RowsOf, Undisturbed

\* A step that changes the operation of one request only.
LEMMA LegalOpKept ==
    ASSUME LegalInv, NEW c \in LegalCalls, NEW o \in LegalOps,
           legalOp' = [legalOp EXCEPT ![c] = o],
           UNCHANGED <<docs, acceptances, texts, everInForce, overlapped>>,
           RowsOf(o),
           ~overlapped /\ AcceptedOnce /\ (legalOp[c].early \/ Undisturbed(legalOp[c]))
             => o.early \/ Undisturbed(o)
    PROVE  LegalInv'
  <1>1. /\ legalOp' \in [LegalCalls -> LegalOps] /\ legalOp'[c] = o
        /\ \A d \in LegalCalls \ {c} : legalOp'[d] = legalOp[d]
    BY DEF LegalInv, LegalTyped
  <1>2. InForce' = InForce
    BY DEF InForce
  <1>3. LegalTyped' /\ RowsKnown'
    BY <1>1, <1>2 DEF LegalInv, LegalTyped, RowsKnown
  <1>4. \A d \in LegalCalls : RowsOf(legalOp'[d])
    BY <1>1 DEF LegalInv
  <1>5. ASSUME ~overlapped'
        PROVE  AcceptedOnce' /\ \A d \in LegalCalls : legalOp'[d].early \/ Undisturbed(legalOp'[d])
    BY <1>1, <1>2, <1>5 DEF LegalInv, AcceptedOnce, AcceptedStands
  <1> QED BY <1>2, <1>3, <1>4, <1>5 DEF LegalInv, RowsOf, Undisturbed

LEMMA LegalStartSteps ==
    ASSUME LegalInv, NEW c \in LegalCalls,
           NoDraftYet(c) \/ TextReads(c) \/ PublishReads(c) \/ LegalOpEnds(c) \/ PublishChecks(c)
    PROVE  LegalInv'
  <1>0. docs \in [Docs -> DocRows] /\ legalOp[c] \in LegalOps /\ \A d \in Docs : d \in 0 .. MaxDocs
    BY LegalAssumption DEF LegalInv, LegalTyped, Docs
  <1>1. CASE NoDraftYet(c)
    <2> DEFINE o == [NoLegalOp EXCEPT !.kind = "absent"]
    <2>1. o \in LegalOps /\ o.kind = "absent"
      BY NoDocTyped DEF LegalOps, NoLegalOp
    <2>2. /\ legalOp' = [legalOp EXCEPT ![c] = o]
          /\ UNCHANGED <<docs, acceptances, texts, everInForce, overlapped>>
      BY <1>1 DEF NoDraftYet, LegalStarts
    <2> HIDE DEF o
    <2>3. RowsOf(o) /\ Undisturbed(o)
      BY <2>1 DEF RowsOf, Undisturbed
    <2> QED BY <2>1, <2>2, <2>3, LegalOpKept
  <1>2. CASE TextReads(c)
    <2>1. PICK d \in Drafts : LegalStarts(c, [NoLegalOp EXCEPT !.kind = "edit", !.doc = d])
      BY <1>2 DEF TextReads
    <2> DEFINE o == [NoLegalOp EXCEPT !.kind = "edit", !.doc = d]
    <2>2. d \in Docs /\ docs[d].status = "DRAFT" /\ d \in 0 .. MaxDocs
      BY <1>0 DEF Drafts
    <2>3. o \in LegalOps /\ o.kind = "edit" /\ o.doc = d
      BY <2>2, NoDocTyped DEF LegalOps, NoLegalOp
    <2>4. /\ legalOp' = [legalOp EXCEPT ![c] = o]
          /\ UNCHANGED <<docs, acceptances, texts, everInForce, overlapped>>
      BY <2>1 DEF LegalStarts
    <2> HIDE DEF o
    <2>5. RowsOf(o) /\ Undisturbed(o)
      BY <2>2, <2>3 DEF RowsOf, Undisturbed
    <2> QED BY <2>3, <2>4, <2>5, LegalOpKept
  <1>3. CASE PublishReads(c)
    <2>1. PICK d \in Drafts :
              LegalStarts(c, [NoLegalOp EXCEPT !.kind = "draft", !.doc = d, !.seen = docs[d]])
      BY <1>3 DEF PublishReads
    <2> DEFINE o == [NoLegalOp EXCEPT !.kind = "draft", !.doc = d, !.seen = docs[d]]
    <2>2. d \in Docs /\ docs[d].status = "DRAFT" /\ d \in 0 .. MaxDocs /\ docs[d] \in DocRows
      BY <1>0 DEF Drafts
    <2>3. o \in LegalOps /\ o.kind = "draft" /\ o.doc = d /\ o.seen = docs[d]
      BY <2>2, NoDocTyped DEF LegalOps, NoLegalOp
    <2>4. /\ legalOp' = [legalOp EXCEPT ![c] = o]
          /\ UNCHANGED <<docs, acceptances, texts, everInForce, overlapped>>
      BY <2>1 DEF LegalStarts
    <2> HIDE DEF o
    <2>5. RowsOf(o) /\ Undisturbed(o)
      BY <2>2, <2>3 DEF RowsOf, Undisturbed
    <2> QED BY <2>3, <2>4, <2>5, LegalOpKept
  <1>4. CASE LegalOpEnds(c)
    BY <1>4, LegalOpKept, NoDocTyped, NoOpKnown DEF LegalOpEnds
  <1>5. CASE PublishChecks(c)
    <2>1. legalOp[c].kind = "draft" /\ UNCHANGED <<docs, acceptances, texts, everInForce, overlapped>>
      BY <1>5 DEF PublishChecks
    <2>2. PICK current \in IF InForce = {} THEN {0} ELSE InForce :
              \E to \in NextVersions(current) :
                  legalOp' = [legalOp EXCEPT ![c] =
                                 [@ EXCEPT !.kind = "publish", !.current = current, !.to = to]]
      BY <1>5 DEF PublishChecks
    <2>b. PICK to \in NextVersions(current) :
              legalOp' = [legalOp EXCEPT ![c] =
                             [@ EXCEPT !.kind = "publish", !.current = current, !.to = to]]
      BY <2>2
    <2> DEFINE o == [legalOp[c] EXCEPT !.kind = "publish", !.current = current, !.to = to]
    <2>3. /\ current = 0 => InForce = {}
          /\ current # 0 => current \in InForce /\ current \in Docs
          /\ current \in 0 .. MaxDocs
      BY <1>0, LegalAssumption DEF InForce, Docs
    <2>4. to \in Nat \X Nat
      <3>1. CASE current = 0
        BY <3>1 DEF NextVersions
      <3>2. CASE current # 0
        <4> DEFINE v == docs[current].number
        <4>1. v \in Nat \X Nat
          BY <1>0, <2>3, <3>2 DEF DocRows
        <4>2. v[1] \in Nat /\ v[2] \in Nat
          BY <4>1
        <4>3. to = <<v[1] + 1, 0>> \/ to = <<v[1], v[2] + 1>>
          BY <3>2 DEF NextVersions
        <4> QED BY <4>2, <4>3
      <3> QED BY <3>1, <3>2
    <2>5. /\ o \in LegalOps /\ o.kind = "publish" /\ o.current = current /\ o.doc = legalOp[c].doc
          /\ o.seen = legalOp[c].seen /\ o.early = legalOp[c].early
      BY <1>0, <2>3, <2>4 DEF LegalOps
    <2>6. legalOp' = [legalOp EXCEPT ![c] = o]
      BY <2>b
    <2> HIDE DEF o
    <2>7. current # 0 => docs[current].status # "NONE"
      BY <2>3 DEF LegalInv, RowsKnown, InForce
    <2>8. RowsOf(o)
      BY <2>1, <2>3, <2>5, <2>7 DEF LegalInv, RowsOf
    <2>9. AcceptedOnce => InForce = IF current = 0 THEN {} ELSE {current}
      BY <2>3 DEF AcceptedOnce
    <2>10. AcceptedOnce /\ Undisturbed(legalOp[c]) => Undisturbed(o)
      BY <2>1, <2>5, <2>9 DEF Undisturbed
    <2> QED BY <2>1, <2>5, <2>6, <2>8, <2>10, LegalOpKept
  <1> QED BY <1>1, <1>2, <1>3, <1>4, <1>5

LEMMA TextSteps ==
    ASSUME LegalInv, NEW c \in LegalCalls, DraftCreated(c) \/ TextWrites(c)
    PROVE  LegalInv'
  <1>0. /\ docs \in [Docs -> DocRows] /\ legalOp \in [LegalCalls -> LegalOps] /\ texts \in 1 .. MaxTexts
        /\ legalOp' = [legalOp EXCEPT ![c] = NoLegalOp] /\ texts < MaxTexts /\ texts' = texts + 1
        /\ acceptances' = acceptances /\ everInForce' = everInForce
    BY DEF LegalInv, LegalTyped, DraftCreated, TextWrites
  <1> DEFINE t == texts + 1
  <1>1. t \in 1 .. MaxTexts /\ t \in 0 .. MaxTexts /\ t # 0 /\ texts' = t
    BY <1>0, LegalAssumption
  <1> HIDE DEF t
  <1>2. /\ legalOp' \in [LegalCalls -> LegalOps] /\ legalOp'[c] = NoLegalOp
        /\ \A e \in LegalCalls \ {c} : legalOp'[e] = legalOp[e]
    BY <1>0, NoDocTyped
  <1>3. ASSUME NEW d \in Docs, NEW r \in DocRows, docs' = [docs EXCEPT ![d] = r],
               r.inForce = docs[d].inForce, r.text # 0,
               r.inForce => r.status = "PUBLISHED",
               r.status # "NONE", overlapped' \in BOOLEAN,
               ~overlapped' => /\ ~overlapped /\ r.status = "DRAFT" /\ docs[d].status \in {"NONE", "DRAFT"}
                               /\ docs[d].status = "DRAFT" => r.version = docs[d].version /\ r.suffix = docs[d].suffix
        PROVE  LegalInv'
    <2>1. /\ docs' \in [Docs -> DocRows] /\ docs'[d] = r
          /\ \A e \in Docs \ {d} : docs'[e] = docs[e]
      BY <1>0, <1>3
    <2>2. InForce' = InForce
      BY <1>3, <2>1 DEF InForce
    <2>3. LegalTyped'
      BY <1>0, <1>1, <1>2, <1>3, <2>1 DEF LegalInv, LegalTyped
    <2>4. RowsKnown'
      BY <1>0, <1>3, <2>1, <2>2 DEF LegalInv, RowsKnown
    <2>5. \A e \in Docs : docs[e].status # "NONE" => docs'[e].status # "NONE"
      BY <1>3, <2>1
    <2>6. \A e \in LegalCalls : RowsOf(legalOp[e])'
      BY <1>2, <2>5, NoOpKnown DEF LegalInv, RowsOf
    <2>7. ASSUME ~overlapped'
          PROVE  AcceptedOnce' /\ \A e \in LegalCalls : legalOp'[e].early \/ Undisturbed(legalOp[e])'
      <3>1. /\ AcceptedOnce /\ \A e \in LegalCalls : legalOp[e].early \/ Undisturbed(legalOp[e])
            /\ r.status = "DRAFT" /\ docs[d].status \in {"NONE", "DRAFT"}
            /\ docs[d].status = "DRAFT" => r.version = docs[d].version /\ r.suffix = docs[d].suffix
        BY <1>3, <2>7 DEF LegalInv
      <3>2. d \notin InForce
        BY <3>1 DEF LegalInv, RowsKnown, InForce
      <3>3. \A e \in InForce : e \in Docs \ {d}
        BY <3>2 DEF InForce
      <3>4. AcceptedOnce'
        <4>1. \A a \in acceptances' : \E e \in Docs :
                  /\ docs'[e].status \in {"PUBLISHED", "ARCHIVED"}
                  /\ docs'[e].version = a.version /\ ~docs'[e].suffix
          <5> SUFFICES ASSUME NEW a \in acceptances
                       PROVE  \E e \in Docs : /\ docs'[e].status \in {"PUBLISHED", "ARCHIVED"}
                                              /\ docs'[e].version = a.version /\ ~docs'[e].suffix
            BY <1>0
          <5>1. PICK e \in Docs : /\ docs[e].status \in {"PUBLISHED", "ARCHIVED"}
                                  /\ docs[e].version = a.version /\ ~docs[e].suffix
            BY <3>1 DEF AcceptedOnce
          <5>2. e # d
            BY <3>1, <5>1
          <5> QED BY <2>1, <5>1, <5>2
        <4>2. \A e \in InForce : docs'[e] = docs[e]
          BY <2>1, <3>3
        <4> QED BY <1>0, <2>2, <3>1, <4>1, <4>2 DEF AcceptedOnce, AcceptedStands
      <3>5. ASSUME NEW e \in LegalCalls \ {c}, Undisturbed(legalOp[e]) PROVE Undisturbed(legalOp[e])'
        <4>1. RowsOf(legalOp[e]) /\ legalOp'[e] = legalOp[e]
          BY <1>2 DEF LegalInv
        <4>2. legalOp[e].kind \in {"edit", "draft", "publish"} /\ legalOp[e].doc = d
                => docs[d].status = "DRAFT"
          BY <3>5 DEF Undisturbed
        <4> QED BY <2>1, <2>2, <3>1, <3>5, <4>1, <4>2 DEF Undisturbed, RowsOf
      <3>6. Undisturbed(legalOp[c])'
        BY <1>2, NoOpKnown DEF Undisturbed
      <3> QED BY <1>2, <3>1, <3>4, <3>5, <3>6
    <2> QED BY <2>3, <2>4, <2>6, <2>7 DEF LegalInv
  <1>4. CASE DraftCreated(c)
    <2>1. PICK d \in {e \in Docs : docs[e].status = "NONE"} :
              \E version \in IF InForce = {} THEN {<<1, 0>>} ELSE {docs[e].number : e \in InForce} :
              \E number \in {version} \cup {docs[e].number : e \in {f \in Docs : docs[f].status # "NONE"}} :
                  docs' = [docs EXCEPT ![d] = NewDraft(version, TRUE, number, texts + 1)]
      BY <1>4 DEF DraftCreated
    <2>2. PICK version \in IF InForce = {} THEN {<<1, 0>>} ELSE {docs[e].number : e \in InForce} :
              \E number \in {version} \cup {docs[e].number : e \in {f \in Docs : docs[f].status # "NONE"}} :
                  docs' = [docs EXCEPT ![d] = NewDraft(version, TRUE, number, t)]
      BY <2>1 DEF t
    <2>n. PICK number \in {version} \cup {docs[e].number : e \in {f \in Docs : docs[f].status # "NONE"}} :
              docs' = [docs EXCEPT ![d] = NewDraft(version, TRUE, number, t)]
      BY <2>2
    <2>3. version \in Nat \X Nat /\ number \in Nat \X Nat
      <3>1. \A e \in Docs : docs[e].number \in Nat \X Nat
        BY <1>0 DEF DocRows
      <3> QED BY <2>2, <2>n, <3>1 DEF InForce
    <2> DEFINE r == NewDraft(version, TRUE, number, t)
    <2>4. /\ r \in DocRows /\ r.inForce = FALSE /\ r.status = "DRAFT" /\ r.text = t
      BY <1>1, <2>3, NoDocTyped DEF NewDraft, NoDoc, DocRows
    <2> HIDE DEF r
    <2>5. d \in Docs /\ docs[d].status = "NONE" /\ docs[d].inForce = FALSE /\ overlapped' = overlapped
      BY <1>0, <1>4 DEF DraftCreated, LegalInv, RowsKnown, DocRows
    <2>6. overlapped \in BOOLEAN
      BY DEF LegalInv, LegalTyped
    <2> QED BY <1>1, <1>3, <2>n, <2>4, <2>5, <2>6 DEF r
  <1>5. CASE TextWrites(c)
    <2> DEFINE d == legalOp[c].doc
               r == [docs[d] EXCEPT !.text = t]
    <2>1. /\ legalOp[c].kind = "edit" /\ docs' = [docs EXCEPT ![d] = r]
          /\ overlapped' = (overlapped \/ legalOp[c].early)
      BY <1>5 DEF TextWrites, t
    <2>2. d \in Docs /\ docs[d].status # "NONE" /\ docs[d] \in DocRows
      BY <1>0, <2>1 DEF LegalInv, RowsOf
    <2>3. /\ r \in DocRows /\ r.inForce = docs[d].inForce /\ r.status = docs[d].status /\ r.text = t
          /\ r.version = docs[d].version /\ r.suffix = docs[d].suffix
      <3> HIDE DEF d
      <3> QED BY <1>1, <2>2 DEF DocRows
    <2>4. ~overlapped' => ~overlapped /\ docs[d].status = "DRAFT"
      BY <2>1 DEF LegalInv, Undisturbed
    <2>5. overlapped' \in BOOLEAN
      BY <1>0, <2>1 DEF LegalInv, LegalTyped, LegalOps
    <2>6. r.inForce => r.status = "PUBLISHED"
      BY <2>2, <2>3 DEF LegalInv, RowsKnown
    <2> HIDE DEF r, d
    <2> QED BY <1>1, <1>3, <2>1, <2>2, <2>3, <2>4, <2>5, <2>6
  <1> QED BY <1>4, <1>5

\* What a publication leaves in a row.
LEMMA PublishedInv ==
    ASSUME NEW rows \in [Docs -> DocRows], NEW d \in Docs, NEW seen \in DocRows,
           NEW to \in Nat \X Nat, NEW new, new = PutInForce(rows, d, seen, to)
    PROVE  /\ new \in [Docs -> DocRows]
           /\ \A e \in Docs \ {d} : new[e] = rows[e]
           /\ new[d].inForce /\ new[d].status = "PUBLISHED" /\ new[d].text = rows[d].text
           /\ seen.version = rows[d].version /\ seen.suffix = rows[d].suffix
                => new[d].version = to /\ ~new[d].suffix
  <1> DEFINE renamed == to # seen.version \/ seen.suffix
             v == IF renamed THEN to ELSE rows[d].version
             x == ~renamed /\ rows[d].suffix
             n == [i \in 1 .. 2 |-> IF to[i] # seen.number[i] THEN to[i] ELSE rows[d].number[i]]
             r == [rows[d] EXCEPT !.inForce = TRUE, !.status = "PUBLISHED", !.version = v,
                                  !.suffix = x, !.number = n]
  <1>1. rows[d] \in DocRows
    OBVIOUS
  <1>2. v \in Nat \X Nat /\ x \in BOOLEAN
    BY <1>1 DEF DocRows
  <1>3. n \in Nat \X Nat
    <2>1. seen.number \in Nat \X Nat /\ rows[d].number \in Nat \X Nat
      BY <1>1 DEF DocRows
    <2> QED BY <2>1
  <1>4. seen.version = rows[d].version /\ seen.suffix = rows[d].suffix => v = to /\ ~x
    OBVIOUS
  <1>5. new = [rows EXCEPT ![d] = r]
    BY DEF PutInForce
  <1>6. /\ r \in DocRows /\ r.inForce = TRUE /\ r.status = "PUBLISHED" /\ r.text = rows[d].text
        /\ r.version = v /\ r.suffix = x
    <2> HIDE DEF v, x, n
    <2> QED BY <1>1, <1>2, <1>3 DEF DocRows
  <1> HIDE DEF r, v, x, n
  <1> QED BY <1>4, <1>5, <1>6

LEMMA PublishStep ==
    ASSUME LegalInv, NEW c \in LegalCalls, PublishCommits(c)
    PROVE  LegalInv'
  <1> DEFINE o == legalOp[c]
             d == o.doc
             cur == o.current
             rows == Archive(docs, cur)
  <1>1. /\ o.kind = "publish" /\ ~VersionTaken(d, o.to, FALSE)
        /\ docs' = PutInForce(rows, d, o.seen, o.to)
        /\ everInForce' = TRUE /\ overlapped' = (overlapped \/ o.early)
        /\ legalOp' = [e \in LegalCalls |-> IF e = c \/ legalOp[e].kind = "none" THEN NoLegalOp
                                            ELSE [legalOp[e] EXCEPT !.early = TRUE]]
        /\ UNCHANGED <<acceptances, texts>>
    BY DEF PublishCommits, Publication
  <1>2. /\ docs \in [Docs -> DocRows] /\ legalOp \in [LegalCalls -> LegalOps] /\ o \in LegalOps
        /\ o.seen \in DocRows /\ o.to \in Nat \X Nat /\ o.early \in BOOLEAN /\ overlapped \in BOOLEAN
    BY DEF LegalInv, LegalTyped, LegalOps
  <1>3. /\ d \in Docs /\ docs[d].status # "NONE"
        /\ cur # 0 => cur \in Docs /\ docs[cur].status # "NONE"
    BY <1>1 DEF LegalInv, RowsOf
  <1>4. /\ rows \in [Docs -> DocRows]
        /\ \A e \in Docs :
              /\ e # cur => rows[e] = docs[e]
              /\ e = cur => rows[e].status = "ARCHIVED" /\ rows[e].inForce = FALSE
              /\ rows[e].version = docs[e].version /\ rows[e].suffix = docs[e].suffix
              /\ rows[e].text = docs[e].text
    <2>1. CASE cur = 0
      BY <1>2, <2>1 DEF Archive, Docs
    <2>2. CASE cur # 0
      <3> DEFINE r == [docs[cur] EXCEPT !.inForce = FALSE, !.status = "ARCHIVED"]
      <3> HIDE DEF cur
      <3>1. /\ r \in DocRows /\ r.status = "ARCHIVED" /\ r.inForce = FALSE
            /\ r.version = docs[cur].version /\ r.suffix = docs[cur].suffix /\ r.text = docs[cur].text
        BY <1>2, <1>3, <2>2 DEF DocRows
      <3>2. rows = [docs EXCEPT ![cur] = r]
        BY <1>2, <1>3, <2>2 DEF Archive
      <3> HIDE DEF r, rows
      <3> QED BY <1>2, <1>3, <2>2, <3>1, <3>2
    <2> QED BY <2>1, <2>2
  <1> HIDE DEF rows
  <1>5. /\ docs' \in [Docs -> DocRows]
        /\ \A e \in Docs \ {d} : docs'[e] = rows[e]
        /\ docs'[d].inForce /\ docs'[d].status = "PUBLISHED" /\ docs'[d].text = docs[d].text
        /\ o.seen.version = docs[d].version /\ o.seen.suffix = docs[d].suffix
             => docs'[d].version = o.to /\ ~docs'[d].suffix
    <2>1. rows[d].version = docs[d].version /\ rows[d].suffix = docs[d].suffix /\ rows[d].text = docs[d].text
      BY <1>3, <1>4
    <2> DEFINE seen == o.seen
               to == o.to
    <2>2. seen \in DocRows /\ to \in Nat \X Nat /\ docs' = PutInForce(rows, d, seen, to)
      BY <1>1, <1>2
    <2>3. d \in Docs /\ rows \in [Docs -> DocRows]
      BY <1>3, <1>4
    <2> HIDE DEF seen, to, d
    <2>4. /\ docs' \in [Docs -> DocRows]
          /\ \A e \in Docs \ {d} : docs'[e] = rows[e]
          /\ docs'[d].inForce /\ docs'[d].status = "PUBLISHED" /\ docs'[d].text = rows[d].text
          /\ seen.version = rows[d].version /\ seen.suffix = rows[d].suffix
               => docs'[d].version = to /\ ~docs'[d].suffix
      BY <2>2, <2>3, PublishedInv
    <2> QED BY <2>1, <2>4 DEF seen, to
  <1>6. \A e \in LegalCalls :
          \/ legalOp'[e] = NoLegalOp
          \/ /\ legalOp'[e] = [legalOp[e] EXCEPT !.early = TRUE]
             /\ legalOp'[e] \in LegalOps /\ legalOp'[e].early = TRUE
             /\ legalOp'[e].kind = legalOp[e].kind /\ legalOp'[e].doc = legalOp[e].doc
             /\ legalOp'[e].current = legalOp[e].current
    BY <1>1, <1>2 DEF LegalOps
  <1>7. LegalTyped'
    <2>1. legalOp' \in [LegalCalls -> LegalOps]
      BY <1>1, <1>2, <1>6, NoDocTyped
    <2> QED BY <1>1, <1>2, <1>5, <2>1 DEF LegalInv, LegalTyped
  <1>8. \A e \in Docs : /\ docs[e].status # "NONE" => docs'[e].status # "NONE"
                        /\ docs'[e].status # "NONE" => docs'[e].text # 0
                        /\ docs'[e].inForce => docs'[e].status = "PUBLISHED"
    <2>1. ASSUME NEW e \in Docs, e # d
          PROVE  /\ docs[e].status # "NONE" => docs'[e].status # "NONE"
                 /\ docs'[e].status # "NONE" => docs'[e].text # 0
                 /\ docs'[e].inForce => docs'[e].status = "PUBLISHED"
      <3>1. docs'[e] = rows[e] /\ e # 0
        BY <1>5, <2>1 DEF Docs
      <3>2. /\ docs[e].status # "NONE" => docs[e].text # 0
            /\ docs[e].inForce => docs[e].status = "PUBLISHED"
        BY DEF LegalInv, RowsKnown
      <3> HIDE DEF cur, d
      <3>3. CASE e = cur
        BY <1>3, <1>4, <3>1, <3>2, <3>3
      <3>4. CASE e # cur
        BY <1>4, <3>1, <3>2, <3>4
      <3> QED BY <3>3, <3>4
    <2> QED BY <1>3, <1>5, <2>1 DEF LegalInv, RowsKnown
  <1>9. RowsKnown'
    BY <1>1, <1>3, <1>5, <1>8 DEF RowsKnown, InForce
  <1>10. \A e \in LegalCalls : RowsOf(legalOp[e])'
    <2> SUFFICES ASSUME NEW e \in LegalCalls PROVE RowsOf(legalOp[e])'
      OBVIOUS
    <2>1. CASE legalOp'[e] = NoLegalOp
      BY <2>1, NoOpKnown DEF RowsOf
    <2>2. CASE legalOp'[e] # NoLegalOp
      <3>1. /\ legalOp'[e].kind = legalOp[e].kind /\ legalOp'[e].doc = legalOp[e].doc
            /\ legalOp'[e].current = legalOp[e].current
        BY <1>6, <2>2
      <3>2. RowsOf(legalOp[e])
        BY DEF LegalInv
      <3> QED BY <1>8, <3>1, <3>2 DEF RowsOf
    <2> QED BY <2>1, <2>2
  <1>11. ASSUME ~overlapped' PROVE AcceptedOnce'
    <2>1. ~overlapped /\ AcceptedOnce /\ Undisturbed(o)
      BY <1>1, <1>11 DEF LegalInv
    <2>2. /\ docs[d].status = "DRAFT" /\ InForce = IF cur = 0 THEN {} ELSE {cur}
          /\ o.seen.version = docs[d].version /\ o.seen.suffix = docs[d].suffix
      BY <1>1, <2>1 DEF Undisturbed
    <2>3. d \notin InForce
      BY <2>2 DEF LegalInv, RowsKnown, InForce
    <2>4. \A e \in Docs \ {d} : ~docs'[e].inForce
      BY <1>2, <1>4, <1>5, <2>2 DEF InForce, DocRows
    <2>5. InForce' = {d}
      BY <1>3, <1>5, <2>4 DEF InForce
    <2>6. docs'[d].version = o.to /\ ~docs'[d].suffix
      BY <1>5, <2>2
    <2>7. \A a \in acceptances : \E e \in Docs \ {d} :
              /\ docs[e].status \in {"PUBLISHED", "ARCHIVED"}
              /\ docs[e].version = a.version /\ ~docs[e].suffix
      <3> SUFFICES ASSUME NEW a \in acceptances
                   PROVE  \E e \in Docs \ {d} : /\ docs[e].status \in {"PUBLISHED", "ARCHIVED"}
                                                /\ docs[e].version = a.version /\ ~docs[e].suffix
        OBVIOUS
      <3>1. PICK e \in Docs : /\ docs[e].status \in {"PUBLISHED", "ARCHIVED"}
                              /\ docs[e].version = a.version /\ ~docs[e].suffix
        BY <2>1 DEF AcceptedOnce
      <3> QED BY <2>2, <3>1
    <2>8. \A a \in acceptances : a.version # o.to
      <3> SUFFICES ASSUME NEW a \in acceptances, a.version = o.to PROVE FALSE
        OBVIOUS
      <3>1. PICK e \in Docs \ {d} : /\ docs[e].status \in {"PUBLISHED", "ARCHIVED"}
                                    /\ docs[e].version = a.version /\ ~docs[e].suffix
        BY <2>7
      <3>2. docs[e].status # "NONE" /\ docs[e].suffix = FALSE
        BY <1>2, <3>1 DEF DocRows
      <3> QED BY <1>1, <3>1, <3>2 DEF VersionTaken
    <2>9. \A a \in acceptances : \E e \in Docs :
              /\ docs'[e].status \in {"PUBLISHED", "ARCHIVED"}
              /\ docs'[e].version = a.version /\ ~docs'[e].suffix
      <3> SUFFICES ASSUME NEW a \in acceptances
                   PROVE  \E e \in Docs : /\ docs'[e].status \in {"PUBLISHED", "ARCHIVED"}
                                          /\ docs'[e].version = a.version /\ ~docs'[e].suffix
        OBVIOUS
      <3>1. PICK e \in Docs \ {d} : /\ docs[e].status \in {"PUBLISHED", "ARCHIVED"}
                                    /\ docs[e].version = a.version /\ ~docs[e].suffix
        BY <2>7
      <3> QED BY <1>4, <1>5, <3>1
    <2> QED BY <1>1, <2>5, <2>6, <2>8, <2>9 DEF AcceptedOnce, AcceptedStands
  <1>12. \A e \in LegalCalls : legalOp'[e].early \/ Undisturbed(legalOp[e])'
    BY <1>6, NoOpKnown DEF Undisturbed
  <1> QED BY <1>7, <1>9, <1>10, <1>11, <1>12 DEF LegalInv

LEMMA AcceptStep ==
    ASSUME LegalInv, AcceptDocument
    PROVE  LegalInv'
  <1>1. PICK d \in InForce :
            acceptances' = acceptances \cup {[version |-> docs[d].version, text |-> docs[d].text]}
    BY DEF AcceptDocument
  <1>2. UNCHANGED <<docs, legalOp, texts, everInForce, overlapped>> /\ InForce' = InForce
    BY DEF AcceptDocument, InForce
  <1>3. d \in Docs /\ docs[d] \in DocRows /\ docs[d].status = "PUBLISHED" /\ docs[d].text # 0
    BY DEF LegalInv, LegalTyped, RowsKnown, InForce
  <1>4. docs[d].text \in 1 .. MaxTexts /\ docs[d].version \in Nat \X Nat
    BY <1>3, LegalAssumption DEF DocRows
  <1>5. LegalTyped'
    BY <1>1, <1>2, <1>4 DEF LegalInv, LegalTyped
  <1>6. AcceptedOnce => AcceptedOnce'
    BY <1>1, <1>2, <1>3 DEF AcceptedOnce, AcceptedStands
  <1> QED BY <1>2, <1>5, <1>6 DEF LegalInv, RowsKnown, RowsOf, Undisturbed

\* The invariant of a legal document: an operation that no publication has overtaken writes a
\* draft and knows the version in force (Undisturbed), so that while nothing has overlapped a
\* number belongs to one text.
THEOREM LegalInvariant == LegalSpec => []LegalInv
  <1>1. LegalInit => LegalInv
    <2> SUFFICES ASSUME LegalInit PROVE LegalInv
      OBVIOUS
    <2> DEFINE r == NewDraft(<<1, 0>>, FALSE, <<1, 0>>, 1)
    <2>1. r \in DocRows /\ r.inForce = FALSE /\ r.text = 1
      <3>1. 1 \in 0 .. MaxTexts /\ <<1, 0>> \in Nat \X Nat
        BY LegalAssumption
      <3> QED BY <3>1, NoDocTyped DEF NewDraft, NoDoc, DocRows
    <2>2. NoDoc.inForce = FALSE /\ NoDoc.status = "NONE"
      BY DEF NoDoc
    <2> HIDE DEF r
    <2>3. \A d \in Docs : docs[d] = IF d = 1 THEN r ELSE NoDoc
      BY DEF LegalInit, r
    <2>4. InForce = {}
      BY <2>1, <2>2, <2>3 DEF InForce
    <2>5. LegalTyped
      <3>1. docs \in [Docs -> DocRows]
        BY <2>1, <2>3, NoDocTyped DEF LegalInit
      <3>2. 1 \in 1 .. MaxTexts
        BY LegalAssumption
      <3> QED BY <3>1, <3>2, NoDocTyped DEF LegalInit, LegalTyped
    <2>6. RowsKnown
      <3>1. everInForce = FALSE
        BY DEF LegalInit
      <3>2. \A d \in Docs : docs[d].inForce = FALSE /\ (docs[d].status # "NONE" => docs[d].text = 1)
        BY <2>1, <2>2, <2>3
      <3> QED BY <2>4, <3>1, <3>2 DEF RowsKnown
    <2>7. AcceptedOnce
      BY <2>4 DEF LegalInit, AcceptedOnce, AcceptedStands
    <2> QED BY <2>5, <2>6, <2>7, NoOpKnown DEF LegalInit, LegalInv
  <1>2. LegalInv /\ [LegalNext]_legalVars => LegalInv'
    <2> SUFFICES ASSUME LegalInv, [LegalNext]_legalVars PROVE LegalInv'
      OBVIOUS
    <2>1. CASE UNCHANGED legalVars
      BY <2>1 DEF legalVars, LegalInv, LegalTyped, RowsKnown, RowsOf, Undisturbed, AcceptedOnce,
                  AcceptedStands, InForce
    <2> QED BY <2>1, LegalStartSteps, TextSteps, PublishStep, AcceptStep
            DEF LegalNext, LegalBegin, LegalGoesOn
  <1> QED BY <1>1, <1>2, PTL DEF LegalSpec

\* Type correctness of the rows, the acceptances and the histories of a legal document.
THEOREM LegalTypes == LegalSpec => []LegalTypeOK
  <1>1. LegalInv => LegalTypeOK
    BY DEF LegalInv, LegalTyped, LegalTypeOK, DocRows
  <1> QED BY <1>1, LegalInvariant, PTL

-----------------------------------------------------------------------------
Final(r) == r.status \in {"PUBLISHED", "ARCHIVED"}

\* An operation knows the number of its draft and has chosen one next to the version in force.
NumbersOf(o) ==
    /\ o.kind \in {"draft", "publish"} => o.seen.number = docs[o.doc].number
    /\ o.kind = "publish" => o.to \in NextVersions(o.current)

\* While nothing has overlapped: what has been published has the number of its version, and the
\* one in force is above all before it.
NumbersKnown ==
    ~overlapped =>
        /\ \A d \in Docs : Final(docs[d]) => docs[d].number = docs[d].version
        /\ \A c \in LegalCalls : legalOp[c].early \/ NumbersOf(legalOp[c])
        /\ InForce = {} => \A d \in Docs : docs[d].status # "ARCHIVED"
        /\ NewestInForce

\* A published version keeps its text, its version and its number, and an archived one stays so.
RowStays(d) ==
    /\ docs'[d].version = docs[d].version /\ docs'[d].suffix = docs[d].suffix
    /\ docs'[d].number = docs[d].number /\ docs'[d].text = docs[d].text
    /\ Final(docs'[d])
    /\ docs[d].status = "ARCHIVED" => docs'[d].status = "ARCHIVED"

VersionsStay == ~overlapped' => \A d \in Docs : Final(docs[d]) => RowStays(d)

\* A new draft or text, when nothing has overlapped, changes no row but a draft, and not its number.
LEMMA TextKeepsRows ==
    ASSUME LegalInv, NEW c \in LegalCalls, DraftCreated(c) \/ TextWrites(c), ~overlapped'
    PROVE  /\ ~overlapped /\ docs' \in [Docs -> DocRows] /\ InForce' = InForce
           /\ legalOp' = [legalOp EXCEPT ![c] = NoLegalOp]
           /\ \A d \in Docs :
                \/ docs'[d] = docs[d]
                \/ docs[d].status = "NONE" /\ docs'[d].status = "DRAFT"
                \/ /\ docs[d].status = "DRAFT" /\ docs'[d].status = "DRAFT"
                   /\ docs'[d].number = docs[d].number
  <1>1. docs' \in [Docs -> DocRows] /\ docs \in [Docs -> DocRows]
    BY TextSteps DEF LegalInv, LegalTyped
  <1>2. CASE DraftCreated(c)
    <2>1. ~overlapped /\ legalOp' = [legalOp EXCEPT ![c] = NoLegalOp]
      BY <1>2 DEF DraftCreated
    <2>2. PICK d \in {e \in Docs : docs[e].status = "NONE"} : \E version, number :
              docs' = [docs EXCEPT ![d] = NewDraft(version, TRUE, number, texts + 1)]
      BY <1>2 DEF DraftCreated
    <2>3. docs'[d].status = "DRAFT" /\ docs'[d].inForce = FALSE
      BY <1>1, <2>2 DEF NewDraft, NoDoc
    <2>4. \A e \in Docs \ {d} : docs'[e] = docs[e]
      BY <1>1, <2>2
    <2>5. ~docs[d].inForce
      BY <2>2 DEF LegalInv, RowsKnown
    <2> QED BY <1>1, <2>1, <2>2, <2>3, <2>4, <2>5 DEF InForce
  <1>3. CASE TextWrites(c)
    <2> DEFINE d == legalOp[c].doc
    <2>1. /\ legalOp[c].kind = "edit" /\ ~overlapped /\ ~legalOp[c].early
          /\ docs' = [docs EXCEPT ![d].text = texts + 1]
          /\ legalOp' = [legalOp EXCEPT ![c] = NoLegalOp]
      BY <1>3 DEF TextWrites
    <2>2. d \in Docs /\ docs[d].status = "DRAFT"
      BY <2>1 DEF LegalInv, RowsOf, Undisturbed
    <2> HIDE DEF d
    <2>3. /\ docs'[d].status = docs[d].status /\ docs'[d].number = docs[d].number
          /\ docs'[d].inForce = docs[d].inForce
      BY <1>1, <2>1, <2>2 DEF DocRows
    <2>4. \A e \in Docs \ {d} : docs'[e] = docs[e]
      BY <1>1, <2>1
    <2> QED BY <1>1, <2>1, <2>2, <2>3, <2>4 DEF InForce
  <1> QED BY <1>2, <1>3

\* The columns of the row that a publication puts in force.
LEMMA PutNumbers ==
    ASSUME NEW rows \in [Docs -> DocRows], NEW d \in Docs, NEW seen \in DocRows,
           NEW to \in Nat \X Nat, seen.number = rows[d].number
    PROVE  PutInForce(rows, d, seen, to)[d].number = to
  <1> DEFINE n == [i \in 1 .. 2 |-> IF to[i] # seen.number[i] THEN to[i] ELSE rows[d].number[i]]
  <1>1. rows[d] \in DocRows
    OBVIOUS
  <1>2. n = [i \in 1 .. 2 |-> to[i]]
    OBVIOUS
  <1>3. to = [i \in 1 .. 2 |-> to[i]]
    OBVIOUS
  <1>4. PutInForce(rows, d, seen, to)[d].number = n
    <2> HIDE DEF n
    <2> QED BY <1>1 DEF PutInForce, DocRows, n
  <1> QED BY <1>2, <1>3, <1>4

Replaces(c, d, cur) == d = legalOp[c].doc /\ cur = legalOp[c].current

\* A publication, when nothing has overlapped, archives the version in force and gives the draft
\* the number it has chosen.
LEMMA PublishKeepsRows ==
    ASSUME LegalInv, NumbersKnown, NEW c \in LegalCalls, PublishCommits(c), ~overlapped',
           NEW d, NEW cur, Replaces(c, d, cur)
    PROVE  /\ ~overlapped /\ docs' \in [Docs -> DocRows]
           /\ d \in Docs /\ docs[d].status = "DRAFT" /\ docs'[d].status = "PUBLISHED"
           /\ docs'[d].version = legalOp[c].to /\ docs'[d].number = legalOp[c].to
           /\ legalOp[c].to \in NextVersions(cur)
           /\ InForce = (IF cur = 0 THEN {} ELSE {cur}) /\ InForce' = {d}
           /\ \A e \in Docs \ {d, cur} : docs'[e] = docs[e]
           /\ cur # 0 => /\ cur \in Docs \ {d} /\ docs[cur].status = "PUBLISHED"
                         /\ docs'[cur].status = "ARCHIVED"
                         /\ docs'[cur].version = docs[cur].version
                         /\ docs'[cur].number = docs[cur].number
                         /\ docs'[cur].suffix = docs[cur].suffix
                         /\ docs'[cur].text = docs[cur].text
  <1> DEFINE o == legalOp[c]
             rows == Archive(docs, cur)
  <1>1. /\ o.kind = "publish" /\ ~overlapped /\ ~o.early
        /\ docs' = PutInForce(rows, d, o.seen, o.to)
    BY DEF PublishCommits, Publication, Replaces
  <1>2. /\ docs \in [Docs -> DocRows] /\ o.seen \in DocRows /\ o.to \in Nat \X Nat
        /\ docs' \in [Docs -> DocRows]
    BY PublishStep DEF LegalInv, LegalTyped, LegalOps
  <1>3. /\ d \in Docs /\ docs[d].status = "DRAFT" /\ InForce = (IF cur = 0 THEN {} ELSE {cur})
        /\ o.seen.version = docs[d].version /\ o.seen.suffix = docs[d].suffix
        /\ o.seen.number = docs[d].number /\ o.to \in NextVersions(cur)
    BY <1>1 DEF LegalInv, RowsOf, Undisturbed, NumbersKnown, NumbersOf, Replaces
  <1>4. cur # 0 => cur \in Docs \ {d} /\ docs[cur].status = "PUBLISHED"
    BY <1>3 DEF LegalInv, RowsKnown, InForce
  <1>5. /\ rows \in [Docs -> DocRows]
        /\ \A e \in Docs \ {cur} : rows[e] = docs[e]
        /\ cur # 0 => /\ rows[cur].status = "ARCHIVED" /\ rows[cur].inForce = FALSE
                      /\ rows[cur].version = docs[cur].version
                      /\ rows[cur].number = docs[cur].number
                      /\ rows[cur].suffix = docs[cur].suffix
                      /\ rows[cur].text = docs[cur].text
    <2>1. CASE cur = 0
      BY <1>2, <2>1 DEF Archive, Docs
    <2>2. CASE cur # 0
      <3> DEFINE r == [docs[cur] EXCEPT !.inForce = FALSE, !.status = "ARCHIVED"]
      <3>1. /\ r \in DocRows /\ r.status = "ARCHIVED" /\ r.inForce = FALSE
            /\ r.version = docs[cur].version /\ r.number = docs[cur].number
            /\ r.suffix = docs[cur].suffix /\ r.text = docs[cur].text
        BY <1>2, <1>4, <2>2 DEF DocRows
      <3>2. rows = [docs EXCEPT ![cur] = r]
        BY <1>2, <1>4, <2>2 DEF Archive
      <3> HIDE DEF r, rows
      <3> QED BY <1>2, <1>4, <2>2, <3>1, <3>2
    <2> QED BY <2>1, <2>2
  <1> HIDE DEF rows
  <1>6. rows[d] = docs[d]
    BY <1>3, <1>4, <1>5 DEF Docs
  <1>7. /\ \A e \in Docs \ {d} : docs'[e] = rows[e]
        /\ docs'[d].inForce /\ docs'[d].status = "PUBLISHED"
        /\ docs'[d].version = o.to /\ docs'[d].number = o.to
    <2> DEFINE seen == o.seen
               to == o.to
    <2>1. /\ seen \in DocRows /\ to \in Nat \X Nat /\ docs' = PutInForce(rows, d, seen, to)
          /\ seen.version = rows[d].version /\ seen.suffix = rows[d].suffix
          /\ seen.number = rows[d].number /\ rows \in [Docs -> DocRows] /\ d \in Docs
      BY <1>1, <1>2, <1>3, <1>5, <1>6
    <2> HIDE DEF seen, to
    <2>a. seen \in DocRows /\ to \in Nat \X Nat /\ docs' = PutInForce(rows, d, seen, to)
      BY <2>1
    <2>b. d \in Docs /\ rows \in [Docs -> DocRows]
      BY <2>1
    <2>2. /\ docs' \in [Docs -> DocRows]
          /\ \A e \in Docs \ {d} : docs'[e] = rows[e]
          /\ docs'[d].inForce /\ docs'[d].status = "PUBLISHED" /\ docs'[d].text = rows[d].text
          /\ seen.version = rows[d].version /\ seen.suffix = rows[d].suffix
               => docs'[d].version = to /\ ~docs'[d].suffix
      BY <2>a, <2>b, PublishedInv
    <2>3. docs'[d].number = to
      BY <2>1, PutNumbers
    <2> QED BY <2>1, <2>2, <2>3 DEF to
  <1>8. InForce' = {d}
    <2> SUFFICES ASSUME NEW e \in Docs, e # d PROVE ~docs'[e].inForce
      BY <1>3, <1>7 DEF InForce
    <2>1. e # 0 /\ docs'[e] = rows[e]
      BY <1>7 DEF Docs
    <2>2. CASE e = cur
      BY <1>5, <2>1, <2>2
    <2>3. CASE e # cur
      BY <1>3, <1>5, <2>1, <2>3 DEF InForce
    <2> QED BY <2>2, <2>3
  <1> QED BY <1>1, <1>2, <1>3, <1>4, <1>5, <1>7, <1>8
LEMMA AboveNext ==
    ASSUME NEW v \in Nat \X Nat, NEW to, to = <<v[1] + 1, 0>> \/ to = <<v[1], v[2] + 1>>
    PROVE  to \in Nat \X Nat /\ Above(to, v)
  BY DEF Above

LEMMA AboveAll ==
    ASSUME NEW u \in Nat \X Nat, NEW v \in Nat \X Nat, NEW w \in Nat \X Nat,
           Above(u, v), Above(v, w)
    PROVE  Above(u, w)
  BY DEF Above

\* A step that writes no row.
LEMMA NumbersKept ==
    ASSUME LegalInv, NumbersKnown, docs' = docs, overlapped' = overlapped,
           NEW c \in LegalCalls, NEW o, legalOp' = [legalOp EXCEPT ![c] = o],
           ~overlapped /\ (legalOp[c].early \/ NumbersOf(legalOp[c])) => o.early \/ NumbersOf(o)
    PROVE  NumbersKnown' /\ VersionsStay
  <1>1. InForce' = InForce /\ \A n \in Docs \cup {0} : NextVersions(n)' = NextVersions(n)
    BY DEF InForce, NextVersions
  <1>2. NewestInForce => NewestInForce'
    BY <1>1 DEF NewestInForce
  <1>3. legalOp'[c] = o /\ \A e \in LegalCalls \ {c} : legalOp'[e] = legalOp[e]
    BY DEF LegalInv, LegalTyped
  <1>4. ASSUME NEW e \in LegalCalls, ~overlapped PROVE (legalOp[e].early \/ NumbersOf(legalOp[e]))'
    <2>1. legalOp[e].early \/ NumbersOf(legalOp[e])
      BY <1>4 DEF NumbersKnown
    <2>2. (legalOp[c].early \/ NumbersOf(legalOp[c])) => o.early \/ NumbersOf(o)
      BY <1>4
    <2>3. legalOp[e]' = IF e = c THEN o ELSE legalOp[e]
      BY <1>3
    <2>4. legalOp[e]'.early \/ NumbersOf(legalOp[e]')
      BY <2>1, <2>2, <2>3
    <2> QED BY <2>4 DEF NumbersOf, NextVersions
  <1> QED BY <1>1, <1>2, <1>4 DEF NumbersKnown, VersionsStay, RowStays

LEMMA NumbersStarts ==
    ASSUME LegalInv, NumbersKnown, NEW c \in LegalCalls,
           NoDraftYet(c) \/ TextReads(c) \/ PublishReads(c) \/ LegalOpEnds(c) \/ PublishChecks(c)
    PROVE  NumbersKnown' /\ VersionsStay
  <1>0. legalOp \in [LegalCalls -> LegalOps] /\ docs \in [Docs -> DocRows]
    BY DEF LegalInv, LegalTyped
  <1>1. docs' = docs /\ overlapped' = overlapped
    BY DEF NoDraftYet, TextReads, PublishReads, LegalOpEnds, PublishChecks, LegalStarts
  <1>2. CASE NoDraftYet(c)
    <2> DEFINE o == [NoLegalOp EXCEPT !.kind = "absent"]
    <2>1. legalOp' = [legalOp EXCEPT ![c] = o] /\ o.kind = "absent"
      BY <1>2 DEF NoDraftYet, LegalStarts, NoLegalOp
    <2> HIDE DEF o
    <2> QED BY <1>1, <2>1, NumbersKept DEF NumbersOf
  <1>3. CASE TextReads(c)
    <2>1. PICK d \in Drafts : legalOp' = [legalOp EXCEPT ![c] = [NoLegalOp EXCEPT !.kind = "edit", !.doc = d]]
      BY <1>3 DEF TextReads, LegalStarts
    <2> DEFINE o == [NoLegalOp EXCEPT !.kind = "edit", !.doc = d]
    <2>2. legalOp' = [legalOp EXCEPT ![c] = o] /\ o.kind = "edit"
      BY <2>1 DEF NoLegalOp
    <2> HIDE DEF o
    <2> QED BY <1>1, <2>2, NumbersKept DEF NumbersOf
  <1>4. CASE LegalOpEnds(c)
    <2>1. legalOp' = [legalOp EXCEPT ![c] = NoLegalOp] /\ NoLegalOp.kind = "none"
      BY <1>4 DEF LegalOpEnds, NoLegalOp
    <2> QED BY <1>1, <2>1, NumbersKept DEF NumbersOf
  <1>5. CASE PublishReads(c)
    <2>1. PICK d \in Drafts : legalOp' = [legalOp EXCEPT ![c] =
              [NoLegalOp EXCEPT !.kind = "draft", !.doc = d, !.seen = docs[d]]]
      BY <1>5 DEF PublishReads, LegalStarts
    <2> DEFINE o == [NoLegalOp EXCEPT !.kind = "draft", !.doc = d, !.seen = docs[d]]
    <2>2. legalOp' = [legalOp EXCEPT ![c] = o] /\ o.kind = "draft" /\ o.seen = docs[o.doc]
      BY <2>1 DEF NoLegalOp
    <2> HIDE DEF o
    <2> QED BY <1>1, <2>2, NumbersKept DEF NumbersOf
  <1>6. CASE PublishChecks(c)
    <2>1. PICK current \in IF InForce = {} THEN {0} ELSE InForce :
              \E to \in NextVersions(current) :
                  legalOp' = [legalOp EXCEPT ![c] =
                                 [@ EXCEPT !.kind = "publish", !.current = current, !.to = to]]
      BY <1>6 DEF PublishChecks
    <2>2. PICK to \in NextVersions(current) :
              legalOp' = [legalOp EXCEPT ![c] =
                             [@ EXCEPT !.kind = "publish", !.current = current, !.to = to]]
      BY <2>1
    <2> DEFINE o == [legalOp[c] EXCEPT !.kind = "publish", !.current = current, !.to = to]
    <2>3. legalOp' = [legalOp EXCEPT ![c] = o]
      BY <2>2
    <2>4. /\ legalOp[c].kind = "draft" /\ o.kind = "publish"
          /\ o.early = legalOp[c].early /\ o.doc = legalOp[c].doc
          /\ o.seen = legalOp[c].seen /\ o.to = to /\ o.current = current
      BY <1>0, <1>6 DEF PublishChecks, LegalOps
    <2> HIDE DEF o
    <2>5. legalOp[c].early \/ NumbersOf(legalOp[c]) => o.early \/ NumbersOf(o)
      BY <2>2, <2>4 DEF NumbersOf
    <2> QED BY <1>1, <2>3, <2>5, NumbersKept
  <1> QED BY <1>2, <1>3, <1>4, <1>5, <1>6

LEMMA NumbersText ==
    ASSUME LegalInv, NumbersKnown, NEW c \in LegalCalls, DraftCreated(c) \/ TextWrites(c)
    PROVE  NumbersKnown' /\ VersionsStay
  <1> SUFFICES ASSUME ~overlapped' PROVE NumbersKnown' /\ VersionsStay
    BY DEF NumbersKnown, VersionsStay
  <1>1. /\ ~overlapped /\ InForce' = InForce /\ legalOp' = [legalOp EXCEPT ![c] = NoLegalOp]
        /\ \A d \in Docs :
                \/ docs'[d] = docs[d]
                \/ docs[d].status = "NONE" /\ docs'[d].status = "DRAFT"
                \/ /\ docs[d].status = "DRAFT" /\ docs'[d].status = "DRAFT"
                   /\ docs'[d].number = docs[d].number
    BY TextKeepsRows
  <1>2. \A d \in Docs : /\ Final(docs[d]) \/ Final(docs'[d]) => docs'[d] = docs[d]
                        /\ docs[d].status # "NONE" => docs'[d].number = docs[d].number
    BY <1>1 DEF Final
  <1>3. legalOp'[c] = NoLegalOp /\ \A e \in LegalCalls \ {c} : legalOp'[e] = legalOp[e]
    BY <1>1 DEF LegalInv, LegalTyped
  <1>4. \A e \in InForce : e \in Docs /\ Final(docs[e])
    BY DEF InForce, LegalInv, RowsKnown, Final
  <1>5. ASSUME NEW e \in LegalCalls PROVE (legalOp[e].early \/ NumbersOf(legalOp[e]))'
    <2> DEFINE o == legalOp[e]
    <2>1. CASE e = c
      BY <1>3, <2>1 DEF NoLegalOp, NumbersOf
    <2>2. CASE e # c /\ o.early
      BY <1>3, <2>2
    <2>3. CASE e # c /\ ~o.early
      <3>1. legalOp'[e] = o /\ NumbersOf(o) /\ RowsOf(o)
        BY <1>1, <1>3, <2>3 DEF NumbersKnown, LegalInv
      <3>2. o.kind \in {"draft", "publish"} => docs'[o.doc].number = docs[o.doc].number
        BY <1>2, <3>1 DEF RowsOf
      <3>3. o.kind = "publish" /\ o.current # 0 => docs'[o.current].number = docs[o.current].number
        BY <1>2, <3>1 DEF RowsOf
      <3> QED BY <3>1, <3>2, <3>3 DEF NumbersOf, NextVersions
    <2> QED BY <2>1, <2>2, <2>3
  <1>6. NewestInForce'
    <2>1. NewestInForce
      BY <1>1 DEF NumbersKnown
    <2> QED BY <1>1, <1>2, <1>4, <2>1 DEF NewestInForce, Final
  <1> QED BY <1>1, <1>2, <1>5, <1>6 DEF NumbersKnown, VersionsStay, RowStays, Final

LEMMA NumbersPublish ==
    ASSUME LegalInv, NumbersKnown, NEW c \in LegalCalls, PublishCommits(c)
    PROVE  NumbersKnown' /\ VersionsStay
  <1> SUFFICES ASSUME ~overlapped' PROVE NumbersKnown' /\ VersionsStay
    BY DEF NumbersKnown, VersionsStay
  <1> DEFINE to == legalOp[c].to
  <1>1. PICK d, cur : Replaces(c, d, cur)
    BY DEF Replaces
  <1>2. /\ ~overlapped /\ docs' \in [Docs -> DocRows]
        /\ d \in Docs /\ docs[d].status = "DRAFT" /\ docs'[d].status = "PUBLISHED"
        /\ docs'[d].version = to /\ docs'[d].number = to
        /\ to \in NextVersions(cur)
        /\ InForce = (IF cur = 0 THEN {} ELSE {cur}) /\ InForce' = {d}
        /\ \A e \in Docs \ {d, cur} : docs'[e] = docs[e]
        /\ cur # 0 => /\ cur \in Docs \ {d} /\ docs[cur].status = "PUBLISHED"
                      /\ docs'[cur].status = "ARCHIVED"
                      /\ docs'[cur].version = docs[cur].version
                      /\ docs'[cur].number = docs[cur].number
                      /\ docs'[cur].suffix = docs[cur].suffix
                      /\ docs'[cur].text = docs[cur].text
    BY <1>1, PublishKeepsRows
  <1> HIDE DEF to
  <1>3. /\ \A e \in Docs : Final(docs[e]) => docs[e].number = docs[e].version
        /\ InForce = {} => \A e \in Docs : docs[e].status # "ARCHIVED"
        /\ NewestInForce
    BY <1>2 DEF NumbersKnown
  <1>4. \A e \in Docs : Final(docs'[e]) => docs'[e].number = docs'[e].version
    <2> SUFFICES ASSUME NEW e \in Docs, Final(docs'[e]) PROVE docs'[e].number = docs'[e].version
      OBVIOUS
    <2>1. CASE e = d
      BY <1>2, <2>1
    <2>2. CASE e = cur
      BY <1>2, <1>3, <2>2 DEF Final, Docs
    <2>3. CASE e \notin {d, cur}
      BY <1>2, <1>3, <2>3
    <2> QED BY <2>1, <2>2, <2>3
  <1>5. \A e \in LegalCalls : legalOp'[e].early \/ legalOp'[e].kind = "none"
    BY DEF PublishCommits, NoLegalOp, LegalInv, LegalTyped, LegalOps
  <1>6. NewestInForce'
    <2> SUFFICES ASSUME NEW e \in Docs, docs'[e].status = "ARCHIVED" PROVE Above(to, docs'[e].version)
      BY <1>2 DEF NewestInForce
    <2>1. CASE cur = 0
      <3>1. e # d /\ docs'[e] = docs[e]
        BY <1>2, <2>1 DEF Docs
      <3> QED BY <1>2, <1>3, <2>1, <3>1
    <2>2. CASE cur # 0
      <3> DEFINE v == docs[cur].version
      <3>1. /\ v \in Nat \X Nat /\ docs[cur].number = v
            /\ to = <<v[1] + 1, 0>> \/ to = <<v[1], v[2] + 1>>
        <4>1. docs[cur].version \in Nat \X Nat
          BY <1>2, <2>2 DEF LegalInv, LegalTyped, DocRows
        <4>2. docs[cur].number = v
          BY <1>2, <1>3, <2>2 DEF Final
        <4>3. to = <<v[1] + 1, 0>> \/ to = <<v[1], v[2] + 1>>
          BY <1>2, <2>2, <4>2 DEF NextVersions
        <4> QED BY <4>1, <4>2, <4>3
      <3>2. docs'[cur].version = v
        BY <1>2, <2>2
      <3> HIDE DEF v
      <3>3. Above(to, v) /\ to \in Nat \X Nat
        BY <3>1, AboveNext
      <3>4. CASE e = cur
        BY <3>2, <3>3, <3>4
      <3>5. CASE e # cur
        <4>1. e # d /\ docs'[e] = docs[e]
          BY <1>2, <3>5
        <4>2. Above(v, docs[e].version)
          BY <1>2, <1>3, <2>2, <4>1 DEF NewestInForce, v
        <4>3. docs[e].version \in Nat \X Nat
          BY DEF LegalInv, LegalTyped, DocRows
        <4> QED BY <3>1, <3>3, <4>1, <4>2, <4>3, AboveAll
      <3> QED BY <3>4, <3>5
    <2> QED BY <2>1, <2>2
  <1>7. VersionsStay
    <2> SUFFICES ASSUME NEW e \in Docs, Final(docs[e]) PROVE RowStays(e)
      BY DEF VersionsStay
    <2>1. e # d
      BY <1>2 DEF Final
    <2>2. CASE e = cur
      BY <1>2, <2>2 DEF RowStays, Final, Docs
    <2>3. CASE e # cur
      BY <1>2, <2>1, <2>3 DEF RowStays, Final
    <2> QED BY <2>2, <2>3
  <1>8. \A e \in LegalCalls : (legalOp[e].early \/ NumbersOf(legalOp[e]))'
    BY <1>5 DEF NumbersOf
  <1> QED BY <1>2, <1>4, <1>6, <1>7, <1>8 DEF NumbersKnown

LEMMA NumbersNext ==
    ASSUME LegalInv, NumbersKnown, [LegalNext]_legalVars
    PROVE  NumbersKnown' /\ [VersionsStay]_legalVars
  <1>1. CASE UNCHANGED legalVars \/ AcceptDocument
    <2>1. UNCHANGED <<docs, legalOp, overlapped>>
      BY <1>1 DEF legalVars, AcceptDocument
    <2> QED BY <2>1 DEF NumbersKnown, NumbersOf, NextVersions, NewestInForce, InForce, VersionsStay,
                        RowStays
  <1> QED BY <1>1, NumbersStarts, NumbersText, NumbersPublish
          DEF LegalNext, LegalBegin, LegalGoesOn

LEMMA NumbersInvariant == LegalSpec => []NumbersKnown
  <1>1. LegalInit => NumbersKnown
    <2> SUFFICES ASSUME LegalInit PROVE NumbersKnown
      OBVIOUS
    <2>1. \A d \in Docs : docs[d].status \in {"NONE", "DRAFT"} /\ docs[d].inForce = FALSE
      BY DEF LegalInit, NewDraft, NoDoc
    <2>2. InForce = {}
      BY <2>1 DEF InForce
    <2>3. \A c \in LegalCalls : legalOp[c].kind = "none"
      BY DEF LegalInit, NoLegalOp
    <2> QED BY <2>1, <2>2, <2>3 DEF NumbersKnown, NumbersOf, NewestInForce, Final
  <1> QED BY <1>1, NumbersNext, LegalInvariant, PTL DEF LegalSpec

\* A version that was published is final: while no publication or edit has overlapped another,
\* no step changes its text, version or number, or takes it out of the archive (updateDraft and
\* publishDocument write by id what they found to be a draft).
THEOREM LegalVersionsStay == LegalSpec => [][VersionsStay]_legalVars
  BY NumbersNext, NumbersInvariant, LegalInvariant, PTL DEF LegalSpec

\* Once a version is in force there always is one (publishDocument archives and publishes in one
\* transaction); it is the only one, is above all before it (nextVersion), and has the text its
\* members accepted under its number, unless one publication or edit has overlapped another.
THEOREM LegalAlwaysInForce == LegalSpec => []AlwaysInForce
  <1>1. LegalInv /\ NumbersKnown => AlwaysInForce
    <2> SUFFICES ASSUME LegalInv, NumbersKnown, everInForce
                 PROVE  InForce # {} /\ (~overlapped => OneInForce /\ NewestInForce /\ AcceptedStands)
      BY DEF AlwaysInForce
    <2>1. InForce # {}
      BY DEF LegalInv, RowsKnown
    <2>2. ASSUME ~overlapped PROVE OneInForce /\ NewestInForce /\ AcceptedStands
      <3>1. AcceptedOnce
        BY <2>2 DEF LegalInv
      <3>2. PICK d \in InForce : TRUE
        BY <2>1
      <3>3. InForce = {d}
        BY <3>1, <3>2 DEF AcceptedOnce
      <3>4. NewestInForce
        BY <2>2 DEF NumbersKnown
      <3> QED BY <3>1, <3>3, <3>4, FS_Singleton DEF OneInForce, AcceptedOnce
    <2> QED BY <2>1, <2>2
  <1> QED BY <1>1, LegalInvariant, NumbersInvariant, PTL

-----------------------------------------------------------------------------
(***************************************************************************)
(* The composition that TLC runs: a step of one part is a step of its      *)
(* component and leaves the other components alone.                        *)
(***************************************************************************)
LEMMA PlatformBegins ==
    PlatformInit => /\ Init /\ PresenceInit /\ ChatInit /\ ProfilesInit /\ HelpInit /\ LegalInit
                    /\ AccountsInit
  BY DEF PlatformInit

LEMMA PlatformMoves ==
    ASSUME [PlatformNext]_platformVars
    PROVE  /\ [Next]_vars /\ [PresenceNext]_presenceVars /\ [ChatNext]_chatVars
           /\ [ProfilesNext]_profileVars /\ [HelpNext]_helpVars /\ [LegalNext]_legalVars
           /\ [AccountsNext]_accountsVars
  BY DEF PlatformNext, platformVars, Spends, Free, ProfilesNext, HelpNext, LegalNext, AccountsNext

\* The run platform, with its budgets, its one fault at a time and one part that moves, shows
\* behaviours of the components, so their theorems hold of it.
THEOREM PlatformRunsItsParts ==
    PlatformSpec => /\ Spec /\ PresenceSpec /\ ChatSpec /\ ProfilesSpec /\ HelpSpec /\ LegalSpec
                    /\ AccountsSpec
  BY PlatformBegins, PlatformMoves, PTL
     DEF PlatformSpec, Spec, PresenceSpec, ChatSpec, ProfilesSpec, HelpSpec, LegalSpec, AccountsSpec

\* Every variable of the seven components keeps its type.
THEOREM PlatformTypes == PlatformSpec => []PlatformTypeOK
  <1>1. TypeOK /\ PresenceTypeOK /\ ChatTypeOK /\ ProfilesTypeOK /\ HelpTypeOK /\ LegalTypeOK
          /\ AccountsTypeOK => PlatformTypeOK
    BY DEF PlatformTypeOK
  <1> QED
    BY <1>1, PlatformRunsItsParts, TypeCorrect, PresenceTypes, ChatTypes, ProfilesTypes, HelpTypes,
       LegalTypes, AccountsTypes, PTL


\* What the run platform checks on a small instance holds of it for any constants: no upload, push,
\* reference, profile, request for help, document or token breaks its component's promise.
THEOREM PlatformKeepsPromises ==
    PlatformSpec => /\ [](LiveObjectStored /\ StagingKept /\ RowsAgree) /\ QueueSpec
                    /\ [](NoGhost /\ SparesTheLiving /\ OnlineTold /\ PushSettled)
                    /\ [](SuspendedHidden /\ ShownAsMeant /\ AlwaysInForce)
                    /\ [](TokensStayEnded /\ StatusSoonFollowed)
  <1>1. PlatformSpec => [](LiveObjectStored /\ StagingKept /\ RowsAgree) /\ QueueSpec
    BY PlatformRunsItsParts, Published, SourceKept, SameStory, Implements, PTL
  <1>2. PlatformSpec => [](NoGhost /\ SparesTheLiving /\ OnlineTold /\ PushSettled)
    BY PlatformRunsItsParts, GhostsAreSwept, LivingSpared, OnlineIsTold, PushesSettle, PTL
  <1>3. PlatformSpec => [](SuspendedHidden /\ ShownAsMeant /\ AlwaysInForce)
    BY PlatformRunsItsParts, SuspendedStaysHidden, HelpShownAsMeant, LegalAlwaysInForce, PTL
  <1>4. PlatformSpec => [](TokensStayEnded /\ StatusSoonFollowed)
    BY PlatformRunsItsParts, EndedTokens, ChangesSoonFollowed, PTL
  <1> QED BY <1>1, <1>2, <1>3, <1>4
=============================================================================
