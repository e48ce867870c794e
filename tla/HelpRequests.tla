---------------------------- MODULE HelpRequests ----------------------------
(***************************************************************************)
(* A request for help (HelpingHands.service.ts, AdminHelpingHands.service, *)
(* HelpingHandsExpiry.service; the help fields of post/write.service.ts):  *)
(* it is shown while it is open and has not expired, its author and        *)
(* administrators extend, close and reopen it, and a job expires it.       *)
(*                                                                         *)
(* Every operation reads the row and updates it some statements later; an  *)
(* update sets the columns whose new value is not the one that was read.   *)
(*                                                                         *)
(* Not modelled: help_status = null (an edit may clear it), appreciations, *)
(* and urgent, which orders what is shown.                                 *)
(***************************************************************************)
EXTENDS Naturals, FiniteSets

CONSTANTS HelpCalls,      \* requests, and runs of the job, under way
          Helpers,        \* members who offer help
          ActiveHours,    \* resolveHelpActiveHours, in ticks
          AuthorExtends,  \* HELP_MAX_AUTHOR_EXTENDS
          LastHour        \* bound: the clock

ASSUME HelpAssumption == ActiveHours \in Nat \ {0} /\ AuthorExtends \in Nat /\ LastHour \in Nat

VARIABLES help,           \* the post's row: status NONE before it is published, GONE when deleted
          offers,         \* help_offers
          helpOp,         \* between the read and the update
          hour,           \* the clock
          meant,          \* history: whether it was left open, and until when
          crossed         \* history: an update by one who had not seen the last one

helpVars == <<help, offers, helpOp, hour, meant, crossed>>

HelpStatuses == {"OPEN", "IN_PROGRESS", "COMPLETED", "CANCELLED", "EXPIRED"}
Stored == help.status \in HelpStatuses
ActivelyOpen(status) == status \in {"OPEN", "IN_PROGRESS"}

NoHelp == [status |-> "NONE", expires |-> 0, reminder |-> "null", extended |-> 0]
IdleHelp == [kind |-> "none", seen |-> NoHelp, to |-> "NONE", by |-> {}, early |-> FALSE]

HelpInit ==
    /\ help = NoHelp
    /\ offers = {} /\ hour = 0
    /\ helpOp = [c \in HelpCalls |-> IdleHelp]
    /\ meant = [open |-> FALSE, until |-> 0] /\ crossed = FALSE

\* bound: nothing expires later.
Horizon == LastHour + ActiveHours

HourPasses ==
    /\ hour < LastHour /\ hour' = hour + 1
    /\ UNCHANGED <<help, offers, helpOp, meant, crossed>>

PublishHelp ==
    /\ help.status = "NONE"
    /\ help' = [help EXCEPT !.status = "OPEN", !.expires = hour + ActiveHours]
    /\ meant' = [open |-> TRUE, until |-> hour + ActiveHours]
    /\ UNCHANGED <<offers, helpOp, hour, crossed>>

\* deletePost, deleteAdminHelpRequest: the offers go first.
DeleteHelp ==
    /\ Stored
    /\ help' = [help EXCEPT !.status = "GONE"]
    /\ offers' = {}
    /\ meant' = [meant EXCEPT !.open = FALSE]
    /\ UNCHANGED <<helpOp, hour, crossed>>

-----------------------------------------------------------------------------
\* What may go wrong when the second has not seen what the first wrote.
Extensions == {"extend", "adminExtend"}
Offering == {"offer", "offered"}
Edits == {"edit", "set"}
Crossing == {"sweep"} \X (Extensions \cup Offering \cup Edits)
            \cup {"complete"} \X (Offering \cup Edits)
            \cup Edits \X (Offering \cup Edits \cup {"sweep"})
            \cup (Extensions \cup Offering) \X Edits
            \cup Extensions \X {"sweep"}

HelpReads(c, kind, to) ==
    /\ Stored /\ helpOp[c].kind = "none"
    /\ helpOp' = [helpOp EXCEPT ![c] = [IdleHelp EXCEPT !.seen = help, !.kind = kind, !.to = to]]
    /\ UNCHANGED <<help, offers, hour, meant, crossed>>

\* want: the columns as the operation leaves them in the row it has read.
HelpWrites(c, want, means) ==
    /\ help' = IF Stored
               THEN [f \in DOMAIN help |-> IF want[f] # helpOp[c].seen[f] THEN want[f] ELSE help[f]]
               ELSE help
    /\ meant' = IF Stored THEN means ELSE meant
    /\ crossed' = (crossed \/ helpOp[c].early)
    /\ helpOp' = [d \in HelpCalls |->
          IF d = c THEN IdleHelp
          ELSE [helpOp[d] EXCEPT !.early = @ \/ <<helpOp[c].kind, helpOp[d].kind>> \in Crossing]]
    /\ UNCHANGED <<offers, hour>>

Extended(seen) == (IF seen.expires > hour THEN seen.expires ELSE hour) + ActiveHours

\* Faulty variant: whatever the request's status.
ExtendReadsAny(c) == help.extended < AuthorExtends /\ HelpReads(c, "extend", "")

\* extendHelpRequest
ExtendReads(c) == ActivelyOpen(help.status) /\ help.extended < AuthorExtends /\ HelpReads(c, "extend", "")

ExtendWrites(c) ==
    LET seen == helpOp[c].seen IN
    /\ helpOp[c].kind = "extend" /\ Extended(seen) <= Horizon
    /\ HelpWrites(c, [seen EXCEPT !.expires = Extended(seen), !.extended = @ + 1, !.reminder = "null"],
                  [meant EXCEPT !.until = Extended(seen)])

\* extendAdminHelpRequest
AdminExtendWrites(c) ==
    LET seen == helpOp[c].seen
        reopens == seen.status \in {"EXPIRED", "CANCELLED"} IN
    /\ helpOp[c].kind = "adminExtend" /\ Extended(seen) <= Horizon
    /\ HelpWrites(c, [seen EXCEPT !.status = IF reopens THEN "OPEN" ELSE @, !.expires = Extended(seen),
                                  !.extended = @ + 1, !.reminder = "null"],
                  [open |-> meant.open \/ reopens, until |-> Extended(seen)])

\* completeHelpRequest
CompleteReads(c) == help.status # "COMPLETED" /\ HelpReads(c, "complete", "COMPLETED")

CompleteWrites(c) ==
    /\ helpOp[c].kind = "complete"
    /\ HelpWrites(c, [helpOp[c].seen EXCEPT !.status = "COMPLETED"], [meant EXCEPT !.open = FALSE])

\* updatePost: its author may name any status.
EditWrites(c) ==
    /\ helpOp[c].kind = "edit"
    /\ HelpWrites(c, [helpOp[c].seen EXCEPT !.status = helpOp[c].to],
                  [meant EXCEPT !.open = ActivelyOpen(helpOp[c].to)])

\* setAdminHelpStatus
SetWrites(c) ==
    LET seen == helpOp[c].seen
        to == helpOp[c].to
        anew == to = "OPEN" /\ ~ActivelyOpen(seen.status)
        until == IF anew THEN hour + ActiveHours ELSE seen.expires IN
    /\ helpOp[c].kind = "set"
    /\ HelpWrites(c, [seen EXCEPT !.status = to, !.expires = until,
                                  !.reminder = IF anew THEN "null" ELSE IF to = "EXPIRED" THEN to ELSE @],
                  [open |-> ActivelyOpen(to), until |-> IF anew THEN until ELSE meant.until])

\* offerHelp: the offer first, ...
Offer(c) ==
    /\ helpOp[c].kind = "offer" /\ helpOp[c].by \cap offers = {} /\ Stored
    /\ offers' = offers \cup helpOp[c].by
    /\ helpOp' = [helpOp EXCEPT ![c] = IF @.seen.status = "OPEN" THEN [@ EXCEPT !.kind = "offered"]
                                       ELSE IdleHelp]
    /\ UNCHANGED <<help, hour, meant, crossed>>

OfferReads(c, h) ==
    /\ ActivelyOpen(help.status) /\ help.expires > hour /\ helpOp[c].kind = "none"
    /\ helpOp' = [helpOp EXCEPT ![c] = [IdleHelp EXCEPT !.seen = help, !.kind = "offer", !.by = {h}]]
    /\ UNCHANGED <<help, offers, hour, meant, crossed>>

\* ... the status then.
OfferWrites(c) ==
    /\ helpOp[c].kind = "offered"
    /\ HelpWrites(c, [helpOp[c].seen EXCEPT !.status = "IN_PROGRESS"], meant)

\* expireDueHelpRequests: what is due is queried at once and updated one by one.
ExpiryReads(c) ==
    /\ ActivelyOpen(help.status) /\ help.expires <= hour
    /\ HelpReads(c, "sweep", "")

ExpiryWrites(c) ==
    /\ helpOp[c].kind = "sweep"
    /\ HelpWrites(c, [helpOp[c].seen EXCEPT !.status = "EXPIRED", !.reminder = "EXPIRED"], meant)

\* sendHelpExpiryReminders
RemindReads(c) ==
    /\ ActivelyOpen(help.status) /\ help.reminder = "null"
    /\ hour < help.expires /\ help.expires <= hour + 1
    /\ HelpReads(c, "remind", "")

RemindWrites(c) ==
    /\ helpOp[c].kind = "remind"
    /\ HelpWrites(c, [helpOp[c].seen EXCEPT !.reminder = "H1"], meant)

HelpOpDies(c) ==
    /\ helpOp[c].kind # "none"
    /\ helpOp' = [helpOp EXCEPT ![c] = IdleHelp]
    /\ UNCHANGED <<help, offers, hour, meant, crossed>>

HelpBegin ==
    \/ \E c \in HelpCalls :
          \/ ExtendReads(c) \/ CompleteReads(c) \/ ExpiryReads(c) \/ RemindReads(c)
          \/ HelpReads(c, "adminExtend", "")
          \/ \E kind \in {"edit", "set"}, to \in HelpStatuses : HelpReads(c, kind, to)
    \/ \E c \in HelpCalls, h \in Helpers : OfferReads(c, h)

HelpGoesOn ==
    \/ HourPasses \/ PublishHelp \/ DeleteHelp
    \/ \E c \in HelpCalls :
          \/ ExtendWrites(c) \/ AdminExtendWrites(c) \/ CompleteWrites(c) \/ EditWrites(c) \/ SetWrites(c)
          \/ Offer(c) \/ OfferWrites(c) \/ ExpiryWrites(c) \/ RemindWrites(c) \/ HelpOpDies(c)

HelpNext == HelpBegin \/ HelpGoesOn

HelpSpec == HelpInit /\ [][HelpNext]_helpVars

-----------------------------------------------------------------------------
HelpTypeOK ==
    /\ help \in [status : HelpStatuses \cup {"NONE", "GONE"}, expires : 0 .. Horizon,
                 reminder : {"null", "H1", "EXPIRED"}, extended : Nat]
    /\ offers \subseteq Helpers /\ hour \in 0 .. LastHour
    /\ meant \in [open : BOOLEAN, until : 0 .. Horizon] /\ crossed \in BOOLEAN

\* Feed.service, Home.service: what is shown.
Shown == ActivelyOpen(help.status) /\ help.expires > hour

\* A request is shown as its author and the administrators left it, until the hour the last of
\* them set: neither an offer nor the expiry job closes or reopens it, in any order, unless one
\* updates it without having seen what another of them wrote (Crossing says which pairs matter).
ShownAsMeant == ~crossed => (Shown <=> meant.open /\ hour < meant.until)

=============================================================================
