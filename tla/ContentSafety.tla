--------------------------- MODULE ContentSafety ---------------------------
(***************************************************************************)
(* Moderation of uploads and publication of posts                          *)
(* (contentSafety/ContentSafety.service.ts, quarantine.ts,                 *)
(* initialSafety.ts; post/write.service.ts and the reports and             *)
(* administrators who change a post at the same time).                     *)
(*                                                                         *)
(* An upload's object waits under a quarantine key.  The media worker      *)
(* classifies it once, then goes through the posts that refer to it, as it *)
(* read them: it copies their quarantined objects to public keys, rewrites *)
(* the keys in one transaction, publishes the post in a second one, and    *)
(* deletes the quarantined objects.  Meanwhile its author and an           *)
(* administrator each edit the post in two saves, and it is reported,      *)
(* allowed, rejected and hidden.                                           *)
(*                                                                         *)
(* Every post here has media; title and description are one text.          *)
(* Galleries, profile photos and reposts are left out.                     *)
(***************************************************************************)
EXTENDS Naturals

CONSTANTS Uploads,          \* media files of one member
          Clean,            \* those the classifier can find SAFE
          Posts,            \* posts of that member
          Trades,           \* those of type MARKETPLACE or JOB
          RefSlots,         \* columns of a post that hold a key: mediaUrl, thumbnailUrl
          MaxVersion        \* bound: media edits of a post

ASSUME ContentAssumption ==
    Clean \subseteq Uploads /\ Trades \subseteq Posts /\ MaxVersion \in Nat \ {0}

VARIABLES media,            \* where the media row's key points, and its verdict
          object,           \* <<upload, place>>: objects in the store
          post,             \* rows of posts; version 0: no row
          edit,             \* the author's edit between its saves, by post
          adminEdit,        \* an administrator's edit of the caption, by post
          run,              \* the worker's moderation, by upload
          late,             \* markMediaModerationFailed, by upload
          allow,            \* an administrator's allow, by post
          reporting,        \* posts a severe report has read as SAFE
          cleared,          \* history: uploads found SAFE, or in a post an administrator allowed
          unsaid            \* history: posts where, since the last edit that checks the caption,
                            \* that edit died or came too late, the caption was replaced by an
                            \* edit that checks nothing, or the post was allowed

contentVars == <<media, object, post, edit, adminEdit, run, late, allow, reporting, cleared, unsaid>>

Texts == {"SAFE", "REVIEW", "BLOCK"}    \* moderateText of title and description
Refs == [RefSlots -> [upload : Uploads, at : {"quarantine", "public"}]]
NoEdit == [pc |-> "none", kind |-> "none", seen |-> <<>>]
NoRun == [pc |-> "new", at |-> "quarantine", verdict |-> "NONE", todo |-> {}, now |-> {}, moved |-> {}]
NoAdminEdit == [pc |-> "none", seen |-> <<>>, text |-> "SAFE"]
NoAllow == [pc |-> "none", version |-> 0, moved |-> {}]

NewPost(refs, text) ==
    [version |-> 1, moderated |-> 0, safety |-> "PENDING", refs |-> refs, text |-> text, gone |-> FALSE]

ContentInit ==
    /\ media = [u \in Uploads |-> [at |-> "quarantine", verdict |-> "NONE"]]
    /\ object = Uploads \X {"quarantine"}
    /\ post = [p \in Posts |-> [version |-> 0]]
    /\ edit = [p \in Posts |-> NoEdit] /\ adminEdit = [p \in Posts |-> NoAdminEdit]
    /\ run = [u \in Uploads |-> NoRun]
    /\ late = [u \in Uploads |-> [pc |-> "new", todo |-> {}]]
    /\ allow = [p \in Posts |-> NoAllow]
    /\ reporting = {} /\ cleared = {} /\ unsaid = {}

Exists(p) == post[p].version > 0
Columns(p) == [safety |-> post[p].safety, moderated |-> post[p].moderated,
               version |-> post[p].version, text |-> post[p].text]
Place(u) == {"quarantine", media[u].at}

-----------------------------------------------------------------------------
(***************************************************************************)
(* The author                                                              *)
(***************************************************************************)
\* initialSafetyForCreate refuses a caption to be blocked.  What is known of the uploads is not
\* asked.
CreatePost(p) ==
    /\ ~Exists(p)
    /\ \E refs \in Refs, text \in Texts \ {"BLOCK"} :
          /\ \A k \in RefSlots : refs[k].at \in Place(refs[k].upload)
          /\ post' = [post EXCEPT ![p] = NewPost(refs, text)]
    /\ UNCHANGED <<media, object, edit, adminEdit, run, late, allow, reporting, cleared, unsaid>>

\* updatePost saves caption and keys first ...
EditSaves(p) ==
    /\ Exists(p) /\ edit[p].pc = "none"
    /\ \/ \E text \in Texts :
             /\ post' = [post EXCEPT ![p].text = text]
             /\ edit' = [edit EXCEPT ![p] = [NoEdit EXCEPT !.pc = "saved", !.kind = "caption"]]
       \/ /\ post[p].version < MaxVersion
          /\ \E k \in RefSlots, u \in Uploads : \E at \in Place(u) :
                post' = [post EXCEPT ![p].refs[k] = [upload |-> u, at |-> at]]
          /\ edit' = [edit EXCEPT ![p] = [NoEdit EXCEPT !.pc = "saved", !.kind = "media"]]
    /\ unsaid' = unsaid \ {p}
    /\ UNCHANGED <<media, object, adminEdit, run, late, allow, reporting, cleared>>

\* ... then reloads the row; the same media and a caption that passes need nothing more.
EditReloads(p) ==
    /\ edit[p].pc = "saved"
    /\ IF edit[p].kind = "caption" /\ post[p].text = "SAFE"
       THEN edit' = [edit EXCEPT ![p] = NoEdit]
       ELSE edit' = [edit EXCEPT ![p].pc = "reloaded", ![p].seen = Columns(p)]
    /\ UNCHANGED <<media, object, post, adminEdit, run, late, allow, reporting, cleared, unsaid>>

\* nextSafetyAfterEdit
AfterEdit(seen, kind) ==
    CASE seen.text = "BLOCK" -> [seen EXCEPT !.safety = "HELD", !.moderated = 0]
      [] seen.text # "BLOCK" /\ kind = "media" ->
            [seen EXCEPT !.safety = "PENDING", !.moderated = 0, !.version = @ + 1]
      [] OTHER -> [seen EXCEPT !.safety = "HELD", !.moderated = 0]

\* applyEditSafety writes the columns that differ from the row as it was read.  Decisions of
\* several names are HELD here: held for another reason, the decision is written again.
Updated(row, seen, next, again) ==
    [row EXCEPT !.safety = IF next.safety # seen.safety \/ again THEN next.safety ELSE @,
                !.moderated = IF next.moderated # seen.moderated THEN next.moderated ELSE @,
                !.version = IF next.version # seen.version THEN next.version ELSE @]
Again(seen) == {FALSE, seen.safety = "HELD"}

EditUpdates(p) ==
    LET seen == edit[p].seen IN
    /\ edit[p].pc = "reloaded"
    /\ \E again \in Again(seen) :
          post' = [post EXCEPT ![p] = Updated(@, seen, AfterEdit(seen, edit[p].kind), again)]
    /\ edit' = [edit EXCEPT ![p] = NoEdit]
    /\ UNCHANGED <<media, object, adminEdit, run, late, allow, reporting, cleared, unsaid>>

EditDies(p) ==
    /\ edit[p].pc # "none"
    /\ edit' = [edit EXCEPT ![p] = NoEdit]
    /\ unsaid' = unsaid \cup {p}
    /\ UNCHANGED <<media, object, post, adminEdit, run, late, allow, reporting, cleared>>

-----------------------------------------------------------------------------
(***************************************************************************)
(* The worker: moderateProcessedMedia                                      *)
(***************************************************************************)
RunGoes(u, pc) == run' = [run EXCEPT ![u].pc = pc]

\* Posts whose columns hold the key of the upload's row, as they are now.
Referring(u, at) ==
    {[id |-> p, version |-> post[p].version, refs |-> post[p].refs, text |-> post[p].text] : p \in
        {q \in Posts : Exists(q) /\ \E k \in RefSlots : post[q].refs[k] = [upload |-> u, at |-> at]}}

\* Classified; a download or a classification that fails is a verdict as well.
Verdicts(u) == IF u \in Clean /\ <<u, media[u].at>> \in object THEN {"SAFE", "HELD"} ELSE {"HELD"}

Classify(u) ==
    /\ run[u].pc = "new"
    /\ \E v \in Verdicts(u) :
          /\ run' = [run EXCEPT ![u] = [NoRun EXCEPT !.pc = "list", !.at = media[u].at, !.verdict = v]]
          /\ cleared' = IF v = "SAFE" THEN cleared \cup {u} ELSE cleared
    /\ UNCHANGED <<media, object, post, edit, adminEdit, late, allow, reporting, unsaid>>

ListPosts(u) ==
    /\ run[u].pc = "list"
    /\ run' = [run EXCEPT ![u].pc = "posts", ![u].todo = Referring(u, run[u].at)]
    /\ media' = [media EXCEPT ![u].verdict = run[u].verdict]
    /\ UNCHANGED <<object, post, edit, adminEdit, late, allow, reporting, cleared, unsaid>>

\* Faulty variant: the caption decides alone.
PostVerdictOfText(u, read) == IF read.text = "SAFE" THEN "SAFE" ELSE "HELD"

\* combinePolicyEvaluations
PostVerdict(u, read) == IF run[u].verdict = "SAFE" /\ read.text = "SAFE" THEN "SAFE" ELSE "HELD"

\* One statement: the row is held if its version is the one that was read.
HoldPost(u) ==
    /\ run[u].pc = "posts"
    /\ \E read \in run[u].todo :
          /\ PostVerdict(u, read) # "SAFE"
          /\ post' = IF post[read.id].version = read.version
                     THEN [post EXCEPT ![read.id].safety = "HELD", ![read.id].moderated = 0] ELSE post
          /\ run' = [run EXCEPT ![u].todo = @ \ {read}]
    /\ UNCHANGED <<media, object, edit, adminEdit, late, allow, reporting, cleared, unsaid>>

\* promoteQuarantineKeys: all keys of the post that are quarantined and stored.
Quarantined(refs) == {refs[k].upload : k \in {j \in RefSlots : refs[j].at = "quarantine"}}
Promotable(uploads) == {v \in uploads : <<v, "quarantine">> \in object}

Promote(u) ==
    /\ run[u].pc = "posts"
    /\ \E read \in run[u].todo :
          LET moved == Promotable(Quarantined(read.refs)
                                    \cup (IF run[u].at = "quarantine" THEN {u} ELSE {})) IN
          /\ PostVerdict(u, read) = "SAFE"
          /\ object' = object \cup (moved \X {"public"})
          /\ run' = [run EXCEPT ![u].pc = "rewrite", ![u].todo = @ \ {read},
                                ![u].now = {read}, ![u].moved = moved]
    /\ UNCHANGED <<media, post, edit, adminEdit, late, allow, reporting, cleared, unsaid>>

\* rewritePostMediaKeys
Rewritten(refs, moved) ==
    [k \in RefSlots |-> IF refs[k].upload \in moved THEN [refs[k] EXCEPT !.at = "public"] ELSE refs[k]]

Rewrite(u) ==
    /\ run[u].pc = "rewrite"
    /\ \E read \in run[u].now :
          IF post[read.id].version = read.version
          THEN /\ post' = [post EXCEPT ![read.id].refs = Rewritten(@, run[u].moved)]
               /\ media' = IF u \in run[u].moved THEN [media EXCEPT ![u].at = "public"] ELSE media
               /\ run' = [run EXCEPT ![u].pc = "publish",
                                     ![u].at = IF u \in run[u].moved THEN "public" ELSE @]
          ELSE RunGoes(u, "publish") /\ UNCHANGED <<post, media>>
    /\ UNCHANGED <<object, edit, adminEdit, late, allow, reporting, cleared, unsaid>>

\* Faulty variant: the caption is not moderated again.
MayPublishUnread(p, version) == ~post[p].gone /\ post[p].version = version

\* tryPublishIfEligible, under the row's lock.
MayPublish(p, version) ==
    /\ ~post[p].gone
    /\ post[p].version = version
    /\ post[p].text = "SAFE"

Publish(u) ==
    /\ run[u].pc = "publish"
    /\ \E read \in run[u].now :
          IF MayPublish(read.id, read.version)
          THEN /\ post' = [post EXCEPT ![read.id].safety = "SAFE", ![read.id].moderated = read.version]
               /\ RunGoes(u, "clean")
          ELSE run' = [run EXCEPT ![u].pc = "posts", ![u].now = {}, ![u].moved = {}] /\ UNCHANGED post
    /\ UNCHANGED <<media, object, edit, adminEdit, late, allow, reporting, cleared, unsaid>>

\* deletePromotedQuarantineKeys
CleanUp(u) ==
    /\ run[u].pc = "clean"
    /\ object' = object \ (run[u].moved \X {"quarantine"})
    /\ run' = [run EXCEPT ![u].pc = "posts", ![u].now = {}, ![u].moved = {}]
    /\ UNCHANGED <<media, post, edit, adminEdit, late, allow, reporting, cleared, unsaid>>

\* All posts are through; or the worker dies, and nothing resumes the moderation.
RunEnds(u) ==
    /\ run[u].pc \notin {"new", "done"}
    /\ run' = [run EXCEPT ![u] = [NoRun EXCEPT !.pc = "done"]]
    /\ UNCHANGED <<media, object, post, edit, adminEdit, late, allow, reporting, cleared, unsaid>>

\* markMediaModerationFailed, of a job given up or a moderation that threw: the media row and
\* the posts are read, then each post is held if its version is the one that was read.
MarkFailed(u) ==
    /\ late[u].pc = "new"
    /\ media' = [media EXCEPT ![u].verdict = "HELD"]
    /\ late' = [late EXCEPT ![u] = [pc |-> "posts", todo |-> Referring(u, media[u].at)]]
    /\ UNCHANGED <<object, post, edit, adminEdit, run, allow, reporting, cleared, unsaid>>

MarkPostFailed(u) ==
    /\ late[u].pc = "posts"
    /\ \E read \in late[u].todo :
          /\ post' = IF post[read.id].version = read.version
                     THEN [post EXCEPT ![read.id].safety = "HELD", ![read.id].moderated = 0] ELSE post
          /\ late' = [late EXCEPT ![u].todo = @ \ {read}]
    /\ UNCHANGED <<media, object, edit, adminEdit, run, allow, reporting, cleared, unsaid>>

-----------------------------------------------------------------------------
(***************************************************************************)
(* Administrators and reports                                              *)
(***************************************************************************)
AllowReads(p) ==
    /\ Exists(p) /\ ~post[p].gone /\ allow[p].pc = "none"
    /\ LET moved == Promotable(Quarantined(post[p].refs)) IN
          /\ object' = object \cup (moved \X {"public"})
          /\ allow' = [allow EXCEPT ![p] = [pc |-> "read", version |-> post[p].version, moved |-> moved]]
    /\ UNCHANGED <<media, post, edit, adminEdit, run, late, reporting, cleared, unsaid>>

AllowCommits(p) ==
    /\ allow[p].pc = "read"
    /\ IF post[p].version = allow[p].version /\ ~post[p].gone
       THEN /\ post' = [post EXCEPT ![p].safety = "SAFE", ![p].moderated = allow[p].version,
                                    ![p].refs = Rewritten(@, allow[p].moved)]
            /\ allow' = [allow EXCEPT ![p].pc = "clean"]
            /\ cleared' = cleared \cup allow[p].moved
            /\ unsaid' = unsaid \cup {p}
       ELSE allow' = [allow EXCEPT ![p] = NoAllow] /\ UNCHANGED <<post, cleared, unsaid>>
    /\ UNCHANGED <<media, object, edit, adminEdit, run, late, reporting>>

AllowCleans(p) ==
    /\ allow[p].pc = "clean"
    /\ object' = object \ (allow[p].moved \X {"quarantine"})
    /\ allow' = [allow EXCEPT ![p] = NoAllow]
    /\ UNCHANGED <<media, post, edit, adminEdit, run, late, reporting, cleared, unsaid>>

\* updateAdminPost reads the row, and saves the caption if it is another one than it read ...
AdminEditReads(p) ==
    /\ Exists(p) /\ adminEdit[p].pc = "none"
    /\ adminEdit' = [adminEdit EXCEPT ![p].pc = "read", ![p].seen = Columns(p)]
    /\ UNCHANGED <<media, object, post, edit, run, late, allow, reporting, cleared, unsaid>>

AdminEditSaves(p) ==
    /\ adminEdit[p].pc = "read"
    /\ \E text \in Texts :
          /\ adminEdit' = [adminEdit EXCEPT ![p].pc = "saved", ![p].text = text]
          /\ \/ post' = [post EXCEPT ![p].text = text] /\ unsaid' = unsaid \ {p}
             \/ text = adminEdit[p].seen.text /\ UNCHANGED <<post, unsaid>>
    /\ UNCHANGED <<media, object, edit, run, late, allow, reporting, cleared>>

\* ... then goes by its own caption and, of the other columns, by what it read at first: a row it
\* read as held it does not hold again, published though it may be by now.
AdminEditApplies(p) ==
    LET seen == adminEdit[p].seen
        next == AfterEdit([seen EXCEPT !.text = adminEdit[p].text], "caption")
    IN
    /\ adminEdit[p].pc = "saved"
    /\ IF adminEdit[p].text = "SAFE"
       THEN UNCHANGED <<post, unsaid>>
       ELSE \E again \in Again(seen) :
              /\ post' = [post EXCEPT ![p] = Updated(@, seen, next, again)]
              /\ unsaid' = IF seen.safety = "HELD" /\ ~again /\ post[p].safety # "HELD"
                           THEN unsaid \cup {p} ELSE unsaid
    /\ adminEdit' = [adminEdit EXCEPT ![p] = NoAdminEdit]
    /\ UNCHANGED <<media, object, edit, run, late, allow, reporting, cleared>>

AdminEditDies(p) ==
    /\ adminEdit[p].pc # "none"
    /\ unsaid' = IF adminEdit[p].pc = "saved" THEN unsaid \cup {p} ELSE unsaid
    /\ adminEdit' = [adminEdit EXCEPT ![p] = NoAdminEdit]
    /\ UNCHANGED <<media, object, post, edit, run, late, allow, reporting, cleared>>

\* updateAdminMarketplaceListing and updateAdminJob save title and description, and check nothing.
TradeEditSaves(p) ==
    /\ Exists(p) /\ p \in Trades
    /\ \E text \in Texts : post' = [post EXCEPT ![p].text = text]
    /\ unsaid' = unsaid \cup {p}
    /\ UNCHANGED <<media, object, edit, adminEdit, run, late, allow, reporting, cleared>>

\* adminRejectPost: the version stays.
RejectPost(p) ==
    /\ Exists(p)
    /\ post' = [post EXCEPT ![p].safety = "HELD", ![p].moderated = 0]
    /\ UNCHANGED <<media, object, edit, adminEdit, run, late, allow, reporting, cleared, unsaid>>

\* softDeleteAdminPost and restoreAdminPost
Hide(p) ==
    /\ Exists(p)
    /\ \E gone \in BOOLEAN : post' = [post EXCEPT ![p].gone = gone]
    /\ UNCHANGED <<media, object, edit, adminEdit, run, late, allow, reporting, cleared, unsaid>>

\* reportPost: read here, saved by id later.
ReportReads(p) ==
    /\ Exists(p) /\ post[p].safety = "SAFE"
    /\ reporting' = reporting \cup {p}
    /\ UNCHANGED <<media, object, post, edit, adminEdit, run, late, allow, cleared, unsaid>>

ReportSaves(p) ==
    /\ p \in reporting
    /\ post' = [post EXCEPT ![p].safety = "HELD", ![p].moderated = 0]
    /\ reporting' = reporting \ {p}
    /\ UNCHANGED <<media, object, edit, adminEdit, run, late, allow, cleared, unsaid>>

\* An author, a reporter or an administrator begins, or a job is given up ...
ContentBegins ==
    \/ \E p \in Posts :
          \/ CreatePost(p) \/ EditSaves(p) \/ AllowReads(p) \/ RejectPost(p) \/ Hide(p)
          \/ ReportReads(p) \/ AdminEditReads(p) \/ TradeEditSaves(p)
    \/ \E u \in Uploads : MarkFailed(u)

\* ... what was begun and the worker's moderation go on.
ContentGoesOn ==
    \/ \E p \in Posts :
          \/ EditReloads(p) \/ EditUpdates(p) \/ EditDies(p)
          \/ AdminEditSaves(p) \/ AdminEditApplies(p) \/ AdminEditDies(p)
          \/ AllowCommits(p) \/ AllowCleans(p) \/ ReportSaves(p)
    \/ \E u \in Uploads :
          \/ Classify(u) \/ ListPosts(u) \/ HoldPost(u) \/ Promote(u) \/ Rewrite(u)
          \/ Publish(u) \/ CleanUp(u) \/ RunEnds(u) \/ MarkPostFailed(u)

ContentNext == ContentBegins \/ ContentGoesOn

ContentSpec == ContentInit /\ [][ContentNext]_contentVars

-----------------------------------------------------------------------------
(***************************************************************************)
(* Properties                                                              *)
(***************************************************************************)
ContentTypeOK ==
    /\ media \in [Uploads -> [at : {"quarantine", "public"}, verdict : {"NONE", "SAFE", "HELD"}]]
    /\ object \subseteq Uploads \X {"quarantine", "public"}
    /\ \A p \in Posts : Exists(p) =>
          /\ post[p].version \in 1 .. MaxVersion /\ post[p].moderated \in 0 .. MaxVersion
          /\ post[p].safety \in {"PENDING", "SAFE", "HELD"}
          /\ post[p].refs \in Refs /\ post[p].text \in Texts /\ post[p].gone \in BOOLEAN
    /\ cleared \subseteq Uploads /\ reporting \cup unsaid \subseteq Posts

InPublic(p) == Exists(p) /\ post[p].safety = "SAFE" /\ ~post[p].gone

\* "UNVERIFIED = NOT PUBLIC" (docs/CONTENT_SAFETY.md): the media a published post shows under a
\* public key was found SAFE or allowed by an administrator, whatever edits, runs, failures and
\* allows overlap.  It holds of posts with one upload; it is violated by one with a thumbnail of
\* its own.
UnverifiedNotPublic ==
    \A p \in Posts : InPublic(p) =>
        \A k \in RefSlots : post[p].refs[k].at = "public" => post[p].refs[k].upload \in cleared

\* "Caption BLOCK/REVIEW never stays public" (initialSafety.ts): whatever edits of author and
\* administrator, runs, failures and reports overlap, a post is public with such a caption only
\* while an edit is between its saves, or after (unsaid)
\*   - an edit that died there,
\*   - an administrator's edit of the caption that had read the row as held and applied its
\*     verdict when the row was no longer held,
\*   - an administrator's edit of a listing or a job, which checks no caption,
\*   - an administrator's allow.
\* Each lasts until the author edits the post, or an administrator its caption, again.
CaptionNotPublic ==
    \A p \in Posts : InPublic(p) /\ post[p].text # "SAFE" =>
        edit[p].pc # "none" \/ adminEdit[p].pc = "saved" \/ p \in unsaid

=============================================================================
