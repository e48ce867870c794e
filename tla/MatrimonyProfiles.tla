------------------------- MODULE MatrimonyProfiles -------------------------
(***************************************************************************)
(* A matrimony profile and the applications it is approved from            *)
(* (matrimony.application.service.ts, matrimony.persistence.service.ts,    *)
(* matrimony.lifecycle.service.ts, MatrimonyAdmin.service.ts; the section  *)
(* editor of Profile.service.ts; approve-update and reject-update of       *)
(* admin.service.ts), of one member.                                       *)
(*                                                                         *)
(* An application is a row whose JSON holds the form and its flags; its    *)
(* review is noted in a second row, and what is public is a third JSON, in *)
(* the member's profile.  Each operation reads a JSON, and writes it as a  *)
(* whole some statements later: nothing locks.                             *)
(*                                                                         *)
(* Forms are complete and have a photo of the candidate.                   *)
(***************************************************************************)
EXTENDS Naturals

CONSTANTS ProfileCalls,     \* requests under way
          MaxApplications,  \* bound: rows of applications
          MaxForms          \* bound: forms the member fills in

ASSUME ProfilesAssumption == MaxApplications \in Nat \ {0} /\ MaxForms \in Nat \ {0}

VARIABLES application,      \* pending_profile_updates, by id
          newer,            \* how many were submitted after it; MaxApplications: it is no row
          review,           \* matrimony_request_meta, by application
          profile,          \* user_profiles.matrimony
          op,               \* requests, between two statements
          forms,            \* forms filled in
          approved,         \* history: forms an administrator's approval has read
          banned            \* history: suspended, and not approved or overtaken since

profileVars == <<application, newer, review, profile, op, forms, approved, banned>>

Applications == 1 .. MaxApplications
\* live: the form says matrimonyProfileActive; submitted and asked: _submittedForReview and
\* _changeRequest.
NoApplication == [status |-> "NONE", form |-> 0, live |-> FALSE, submitted |-> FALSE, asked |-> FALSE]
NoReview == [flow |-> "NONE", changes |-> FALSE]
NoProfile == [form |-> 0, active |-> FALSE, suspended |-> FALSE, life |-> "ACTIVE"]
NoForm == [form |-> 0, live |-> FALSE, submitted |-> FALSE, asked |-> FALSE]
\* early (history): it was under way when the profile was suspended.
NoOp == [kind |-> "none", pc |-> "idle", row |-> 0, seen |-> NoForm, held |-> NoProfile,
         early |-> FALSE]

ProfilesInit ==
    /\ application = [a \in Applications |-> NoApplication] /\ newer = [a \in Applications |-> MaxApplications]
    /\ review = [a \in Applications |-> NoReview]
    /\ profile = NoProfile
    /\ op = [c \in ProfileCalls |-> NoOp]
    /\ forms = 0 /\ approved = {} /\ banned = FALSE

ProfileGoes(c, pc) == op' = [op EXCEPT ![c].pc = pc]
ProfileEnds(c) == op' = [op EXCEPT ![c] = NoOp]

\* A write of the profile's JSON as a whole; lifts: it is an approval's.
WriteProfile(c, json, lifts) ==
    /\ profile' = json
    /\ banned' = (banned /\ ~op[c].early /\ ~lifts)

-----------------------------------------------------------------------------
(***************************************************************************)
(* The member                                                              *)
(***************************************************************************)
Pending == {a \in Applications : application[a].status = "PENDING"}

Data(a) == [form |-> application[a].form, live |-> application[a].live,
            submitted |-> application[a].submitted, asked |-> application[a].asked]

\* findLatestMatrimonyPendingRow
LatestPending == {a \in Pending : \A b \in Pending : newer[a] <= newer[b]}

\* A change request whose row was rejected ...
Rejected == {a \in Applications : application[a].status = "REJECTED"}
ChangesAsked(a) == review[a].flow = "CHANGES_REQUESTED" \/ review[a].changes

\* reopenChangeRequestRow
Reopened(a) ==
    [application EXCEPT ![a].status = "PENDING", ![a].submitted = FALSE, ![a].asked = FALSE]

\* ... is reopened by whoever loads the hub, if it is the latest of all and none is pending.
Reopenable == {a \in Rejected : Pending = {} /\ newer[a] = 0 /\ ChangesAsked(a)}

Reopen ==
    /\ \E a \in Reopenable : application' = Reopened(a)
    /\ UNCHANGED <<newer, review, profile, op, forms, approved, banned>>

\* The hub's status of the active application is PENDING or RESUBMITTED.
UnderReview == \E a \in LatestPending :
    /\ application[a].submitted
    /\ review[a].flow # "CHANGES_REQUESTED"

\* upsertMatrimonyPending looks for a rejected row when it was given none.
SaveAt(kind, a) == IF a = 0 /\ kind # "section" THEN "seek" ELSE "save"

\* The row the form is saved to; none: 0.
Reads(c, kind, rows) ==
    \E a \in IF rows = {} THEN {0} ELSE rows, live \in {kind = "submit", TRUE} :
        op' = [op EXCEPT ![c] = [NoOp EXCEPT !.kind = kind, !.pc = SaveAt(kind, a), !.row = a,
                  !.seen = [form |-> forms + 1, live |-> live, submitted |-> kind # "draft",
                            asked |-> a # 0 /\ kind # "section" /\ application[a].asked]]]

\* saveMatrimonyDraft looks at the hub first and reads the row again.
DraftChecks(c) ==
    /\ op[c].pc = "idle" /\ Reopenable = {} /\ ~UnderReview /\ forms < MaxForms
    /\ op' = [op EXCEPT ![c] = [NoOp EXCEPT !.kind = "draft", !.pc = "checked"]]
    /\ UNCHANGED <<application, newer, review, profile, forms, approved, banned>>

DraftReads(c) ==
    /\ op[c].pc = "checked" /\ Reopenable = {} /\ forms < MaxForms
    /\ Reads(c, "draft", LatestPending)
    /\ forms' = forms + 1
    /\ UNCHANGED <<application, newer, review, profile, approved, banned>>

SubmitReads(c) ==
    /\ op[c].pc = "idle" /\ Reopenable = {} /\ ~UnderReview /\ forms < MaxForms
    /\ Reads(c, "submit", LatestPending)
    /\ forms' = forms + 1
    /\ UNCHANGED <<application, newer, review, profile, approved, banned>>

\* updateProfileSection asks nothing of the review.
SectionReads(c) ==
    /\ op[c].pc = "idle" /\ forms < MaxForms
    /\ Reads(c, "section", Pending)
    /\ forms' = forms + 1
    /\ UNCHANGED <<application, newer, review, profile, approved, banned>>

\* The latest rejected row is reopened if changes were asked of it, whatever is pending by now.
Seek(c) ==
    /\ op[c].pc = "seek"
    /\ LET latest == {a \in Rejected : \A b \in Rejected : newer[a] <= newer[b]}
           asked  == {a \in latest : ChangesAsked(a)}
       IN  \/ \E a \in asked : /\ application' = Reopened(a)
                              /\ op' = [op EXCEPT ![c].pc = "save", ![c].row = a]
           \/ /\ latest \ asked # {} \/ latest = {}
              /\ ProfileGoes(c, "save") /\ UNCHANGED application
    /\ UNCHANGED <<newer, review, profile, forms, approved, banned>>

\* The JSON and submittedAt are written; the status is the one the row has by now.
Filled(a, data) == [application[a] EXCEPT !.form = data.form, !.live = data.live,
                                          !.submitted = data.submitted, !.asked = data.asked]
Submitted(a) == [b \in Applications |-> IF b = a THEN 0
                                        ELSE IF newer[b] < newer[a] THEN newer[b] + 1 ELSE newer[b]]

Save(c) ==
    /\ op[c].pc = "save"
    /\ \E a \in IF op[c].row # 0 THEN {op[c].row}
                ELSE {b \in Applications : application[b].status = "NONE"} :
          /\ application' = [application EXCEPT ![a] =
                [Filled(a, op[c].seen) EXCEPT !.status = IF op[c].row = 0 THEN "PENDING" ELSE @]]
          /\ newer' = Submitted(a)
          /\ \/ /\ op[c].kind = "submit"
                /\ op' = [op EXCEPT ![c].pc = "resave", ![c].row = a]
             \/ op[c].kind # "submit" /\ ProfileEnds(c)
             \/ op[c].kind = "section" /\ ProfileGoes(c, "again")   \* with a new horoscope
    /\ UNCHANGED <<review, profile, forms, approved, banned>>

SaveAgain(c) ==
    /\ op[c].pc = "resave"
    /\ application' = [application EXCEPT ![op[c].row] = Filled(op[c].row, op[c].seen)]
    /\ newer' = Submitted(op[c].row)
    /\ ProfileGoes(c, "noted")
    /\ UNCHANGED <<review, profile, forms, approved, banned>>

\* onUserProfilePhotoUpdated, when the application shows the account's photo.
AccountPhoto(c) ==
    /\ op[c].pc = "idle" /\ Pending # {}
    /\ op' = [op EXCEPT ![c] = [NoOp EXCEPT !.kind = "again", !.pc = "again"]]
    /\ UNCHANGED <<application, newer, review, profile, forms, approved, banned>>

\* queueMatrimonyReReviewIfNeeded: what is public is submitted again, over an unfinished draft.
ReviewAgain(c) ==
    /\ op[c].pc = "again" /\ Reopenable = {}
    /\ \/ /\ profile.active /\ \A a \in LatestPending : ~application[a].submitted
          /\ \E a \in IF Pending = {} THEN {0} ELSE LatestPending :
                op' = [op EXCEPT ![c] = [NoOp EXCEPT !.kind = "again", !.pc = SaveAt("again", a), !.row = a,
                          !.seen = [form |-> profile.form, live |-> TRUE, submitted |-> TRUE,
                                    asked |-> a # 0 /\ application[a].asked]]]
       \/ /\ ~profile.active \/ \E a \in LatestPending : application[a].submitted
          /\ ProfileEnds(c)
    /\ UNCHANGED <<application, newer, review, profile, forms, approved, banned>>

\* transitionMatrimonyLifecycle
LifeReads(c) ==
    /\ op[c].pc = "idle"
    /\ profile.active /\ ~profile.suspended
    /\ \E next \in {"ACTIVE", "PAUSED", "CLOSED"} \ {profile.life} :
          op' = [op EXCEPT ![c] = [NoOp EXCEPT !.kind = "life", !.pc = "life",
                                               !.held = [profile EXCEPT !.life = next]]]
    /\ UNCHANGED <<application, newer, review, profile, forms, approved, banned>>

LifeWrites(c) ==
    /\ op[c].pc = "life"
    /\ WriteProfile(c, op[c].held, FALSE) /\ ProfileEnds(c)
    /\ UNCHANGED <<application, newer, review, forms, approved>>

-----------------------------------------------------------------------------
(***************************************************************************)
(* Administrators                                                          *)
(***************************************************************************)
\* approveMatrimonyRequest and requests on one's photo read the form; only the latter ask that
\* the application is pending.  rejectMatrimonyRequest and requestMatrimonyChanges do, too.
AdminReads(c, a, kind) ==
    /\ op[c].pc = "idle"
    /\ \/ application[a].status = "PENDING"
       \/ application[a].status # "NONE" /\ kind = "approve"
    /\ op' = [op EXCEPT ![c] = [NoOp EXCEPT !.kind = kind, !.row = a, !.pc = kind,
                                            !.seen = Data(a)]]
    /\ approved' = IF kind = "approve" THEN approved \cup {application[a].form} ELSE approved
    /\ UNCHANGED <<application, newer, review, profile, forms, banned>>

\* Only the keys of a form are written back: the flags are gone.
Bare(data) == [data EXCEPT !.submitted = FALSE, !.asked = FALSE]

ApproveSaves(c) ==
    /\ op[c].pc = "approve"
    /\ application' = [application EXCEPT ![op[c].row] = Filled(op[c].row, Bare(op[c].seen))]
    /\ ProfileGoes(c, "recheck")
    /\ UNCHANGED <<newer, review, profile, forms, approved, banned>>

\* approveProfileUpdate, which approve-update calls alone, reads the row again, ...
CopyReads(c) ==
    /\ op[c].pc = "recheck"
    /\ IF application[op[c].row].status = "PENDING"
       THEN op' = [op EXCEPT ![c].pc = "copy", ![c].seen = Data(op[c].row)]
       ELSE ProfileEnds(c)
    /\ UNCHANGED <<application, newer, review, profile, forms, approved, banned>>

UpdateReads(c, a) ==
    /\ op[c].pc = "idle" /\ application[a].status = "PENDING"
    /\ op' = [op EXCEPT ![c] = [NoOp EXCEPT !.kind = "update", !.pc = "copy", !.row = a,
                                            !.seen = Data(a)]]
    /\ approved' = approved \cup {application[a].form}
    /\ UNCHANGED <<application, newer, review, profile, forms, banned>>

\* ... replaces the profile's JSON with the form ...
Copy(c) ==
    /\ op[c].pc = "copy"
    /\ WriteProfile(c, [NoProfile EXCEPT !.form = op[c].seen.form, !.active = op[c].seen.live], TRUE)
    /\ ProfileGoes(c, "close")
    /\ UNCHANGED <<application, newer, review, forms, approved>>

\* ... and closes the row; the profile is then read ...
CloseApplication(c) ==
    /\ op[c].pc = "close"
    /\ application' = [application EXCEPT ![op[c].row].status = "APPROVED"]
    /\ op' = IF op[c].kind = "approve" THEN [op EXCEPT ![c].pc = "activate", ![c].held = profile]
             ELSE [op EXCEPT ![c] = NoOp]
    /\ UNCHANGED <<newer, review, profile, forms, approved, banned>>

\* ... and made active.
Activate(c) ==
    /\ op[c].pc = "activate"
    /\ WriteProfile(c, [op[c].held EXCEPT !.active = TRUE, !.suspended = FALSE, !.life = "ACTIVE"], TRUE)
    /\ ProfileGoes(c, "noted")
    /\ UNCHANGED <<application, newer, review, forms, approved>>

\* updateCandidatePhotoStatus: a photo that is approved takes the form with it.
PhotoSaves(c) ==
    /\ op[c].pc = "photo"
    /\ application' = [application EXCEPT ![op[c].row] = Filled(op[c].row, Bare(op[c].seen))]
    /\ \/ op' = [op EXCEPT ![c].pc = "merge", ![c].held = profile]
       \/ ProfileEnds(c)
    /\ UNCHANGED <<newer, review, profile, forms, approved, banned>>

PhotoMerges(c) ==
    /\ op[c].pc = "merge"
    /\ WriteProfile(c, [op[c].held EXCEPT !.form = op[c].seen.form,
                                          !.active = @ \/ op[c].seen.live], FALSE)
    /\ ProfileEnds(c)
    /\ UNCHANGED <<application, newer, review, forms, approved>>

\* rejectProfileUpdate; reject-update notes nothing in the review.
RejectApplication(c) ==
    /\ op[c].pc = "reject"
    /\ application' = [application EXCEPT ![op[c].row].status = "REJECTED"]
    /\ ProfileGoes(c, "noted") \/ ProfileEnds(c)
    /\ UNCHANGED <<newer, review, profile, forms, approved, banned>>

RequestChanges(c) ==
    /\ op[c].pc = "changes"
    /\ application' = [application EXCEPT ![op[c].row] =
          Filled(op[c].row, [op[c].seen EXCEPT !.submitted = FALSE, !.asked = TRUE])]
    /\ ProfileGoes(c, "noted")
    /\ UNCHANGED <<newer, review, profile, forms, approved, banned>>

\* What each of them notes in the review at last.
Note(c) ==
    LET noted == CASE op[c].kind = "submit"  -> [review[op[c].row] EXCEPT !.flow = "UNDER_REVIEW"]
                   [] op[c].kind = "approve" -> [review[op[c].row] EXCEPT !.flow = "APPROVED"]
                   [] op[c].kind = "reject"  -> [flow |-> "REJECTED", changes |-> FALSE]
                   [] op[c].kind = "changes" -> [flow |-> "CHANGES_REQUESTED", changes |-> TRUE]
    IN
    /\ op[c].pc = "noted"
    /\ review' = [review EXCEPT ![op[c].row] = noted]
    /\ ProfileEnds(c)
    /\ UNCHANGED <<application, newer, profile, forms, approved, banned>>

AssignReviewer(a) ==
    /\ application[a].status # "NONE"
    /\ review' = [review EXCEPT ![a].flow = "UNDER_REVIEW"]
    /\ UNCHANGED <<application, newer, profile, op, forms, approved, banned>>

\* suspendMatrimonyProfile notes first, and reads the profile then.
SuspendReads(c, a) ==
    /\ op[c].pc = "idle" /\ application[a].status # "NONE"
    /\ review' = [review EXCEPT ![a].flow = "SUSPENDED"]
    /\ op' = [op EXCEPT ![c] = [NoOp EXCEPT !.kind = "suspend", !.pc = "suspend", !.held = profile]]
    /\ UNCHANGED <<application, newer, profile, forms, approved, banned>>

\* Faulty variant: the profile is made inactive, and nothing more.
Deactivated(json) == [json EXCEPT !.active = FALSE]

Suspended(json) == [json EXCEPT !.active = FALSE, !.suspended = TRUE]

SuspendWrites(c) ==
    /\ op[c].pc = "suspend"
    /\ profile' = Suspended(op[c].held)
    /\ banned' = TRUE
    /\ op' = [d \in ProfileCalls |-> IF d = c \/ op[d].pc = "idle" THEN NoOp
                                     ELSE [op[d] EXCEPT !.early = TRUE]]
    /\ UNCHANGED <<application, newer, review, forms, approved>>

ProfileOpDies(c) ==
    /\ op[c].pc # "idle"
    /\ ProfileEnds(c)
    /\ UNCHANGED <<application, newer, review, profile, forms, approved, banned>>

\* Somebody begins ...
ProfilesBegin ==
    \/ \E a \in Applications : AssignReviewer(a)
    \/ \E c \in ProfileCalls :
          DraftChecks(c) \/ SubmitReads(c) \/ SectionReads(c) \/ AccountPhoto(c) \/ LifeReads(c)
    \/ \E c \in ProfileCalls, a \in Applications :
          \/ UpdateReads(c, a) \/ SuspendReads(c, a)
          \/ \E kind \in {"approve", "photo", "reject", "changes"} : AdminReads(c, a, kind)

\* ... and goes on.
ProfilesGoOn ==
    \/ Reopen
    \/ \E c \in ProfileCalls :
          \/ DraftReads(c) \/ Seek(c) \/ Save(c) \/ SaveAgain(c) \/ ReviewAgain(c) \/ LifeWrites(c)
          \/ ApproveSaves(c) \/ CopyReads(c) \/ Copy(c) \/ CloseApplication(c) \/ Activate(c)
          \/ PhotoSaves(c) \/ PhotoMerges(c) \/ RejectApplication(c) \/ RequestChanges(c) \/ Note(c)
          \/ SuspendWrites(c) \/ ProfileOpDies(c)

ProfilesNext == ProfilesBegin \/ ProfilesGoOn

ProfilesSpec == ProfilesInit /\ [][ProfilesNext]_profileVars

-----------------------------------------------------------------------------
(***************************************************************************)
(* Properties                                                              *)
(***************************************************************************)
ProfilesTypeOK ==
    /\ \A a \in Applications :
          /\ application[a].status \in {"NONE", "PENDING", "APPROVED", "REJECTED"}
          /\ application[a].form \in 0 .. MaxForms
          /\ review[a].flow \in {"NONE", "UNDER_REVIEW", "APPROVED", "REJECTED",
                                 "CHANGES_REQUESTED", "SUSPENDED"}
    /\ profile \in [form : 0 .. MaxForms, active : BOOLEAN, suspended : BOOLEAN,
                    life : {"ACTIVE", "PAUSED", "CLOSED"}]
    /\ newer \in [Applications -> 0 .. MaxApplications]
    /\ \A a, b \in Applications : newer[a] = newer[b] => a = b \/ newer[a] = MaxApplications
    /\ forms \in 0 .. MaxForms /\ approved \subseteq 0 .. MaxForms

\* isDiscoverableMatrimony
Discoverable == profile.active /\ ~profile.suspended /\ profile.life = "ACTIVE"

\* "Pending data is never shown publicly until approved" (PROFILE_APPROVAL_WORKFLOW.md): the form
\* other members see is one an administrator approved.  Violated: the approval of its photo
\* merges the form that waits into the profile.
PendingNotPublic == Discoverable => profile.form \in approved

\* A suspended profile is not shown, whatever is saved, submitted, paused, resumed or reviewed
\* afterwards, until an approval; only a request under way during the suspension can undo it.
SuspendedHidden == banned => ~Discoverable

=============================================================================
