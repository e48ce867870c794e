------------------------ MODULE MarketplaceListings ------------------------
(***************************************************************************)
(* The marketplace listings of one seller (post/write.service.ts,          *)
(* marketplace/adminModeration.service.ts, liveListingGuard.ts,            *)
(* MarketplaceExpiry.service.ts, reports of post/moderation.service.ts).   *)
(*                                                                         *)
(* Every request reads the row, checks its status, awaits, and saves by id *)
(* the columns that differ from the row as it was read.  Content safety is *)
(* modelled in ContentSafety; the featured flag and the reminders are left *)
(* out.                                                                    *)
(***************************************************************************)
EXTENDS Naturals, FiniteSets

CONSTANTS Listings,         \* rows of posts, all of one seller
          Requests,         \* requests and jobs that can be under way at once
          MaxLive           \* max_live_listings

ASSUME ListingsAssumption ==
    MaxLive \in Nat \ {0} /\ IsFiniteSet(Listings) /\ IsFiniteSet(Requests)

VARIABLES listing,          \* the rows
          request           \* the requests under way

listingVars == <<listing, request>>

ListingStatuses == {"NONE", "PENDING_REVIEW", "CHANGES_REQUESTED", "LIVE", "HIDDEN", "REJECTED",
             "SOLD", "EXPIRED", "ARCHIVED"}
NoListing == [status |-> "NONE", expires |-> "none", moderation |-> "ACTIVE"]
NoRequest == [pc |-> "idle", op |-> "none", id |-> "none", read |-> NoListing]

ListingsInit ==
    /\ listing = [l \in Listings |-> NoListing]
    /\ request = [r \in Requests |-> NoRequest]

\* What each request asks of the row it has read.
Past(row) == row.expires = "past"

Accepts(op, row) ==
    CASE op = "edit" -> row.status \in {"LIVE", "PENDING_REVIEW", "CHANGES_REQUESTED"}
      [] op = "sold" -> row.status = "LIVE"
      [] op = "resubmit" -> row.status \in {"CHANGES_REQUESTED", "EXPIRED"}
      [] op = "archive" -> row.status \in {"EXPIRED", "SOLD"}
      [] op = "approve" -> row.status = "PENDING_REVIEW"
      [] op = "reject" -> row.status # "NONE"
      [] op = "changes" -> row.status \in {"PENDING_REVIEW", "LIVE"}
      [] op \in {"hide", "reported"} -> row.status = "LIVE"
      [] op = "unhide" -> row.status = "HIDDEN"
      [] op = "softDelete" -> row.status \notin {"NONE", "ARCHIVED"} /\ row.moderation # "DELETED"
      [] op = "restore" -> row.status = "ARCHIVED" \/ row.moderation = "DELETED"
      [] op = "expire" -> row.status = "LIVE" /\ Past(row)
      [] op = "retire" -> row.status = "SOLD"

Ops == {"edit", "sold", "resubmit", "archive", "approve", "reject", "changes", "hide", "reported",
        "unhide", "softDelete", "restore", "expire", "retire"}
GoesLive == {"approve", "unhide"}

\* Faulty variant: an edit takes the date away and leaves the listing live.
EditedStaysLive(row) ==
    CASE row.status = "LIVE" -> [row EXCEPT !.expires = "none"]
      [] row.status = "CHANGES_REQUESTED" -> [row EXCEPT !.status = "PENDING_REVIEW"]
      [] OTHER -> row

\* ... and the row it wants.  An edit puts a live listing back to review, without a date.
Edited(row) ==
    CASE row.status = "LIVE" -> [row EXCEPT !.status = "PENDING_REVIEW", !.expires = "none"]
      [] row.status = "CHANGES_REQUESTED" -> [row EXCEPT !.status = "PENDING_REVIEW"]
      [] OTHER -> row

Resubmitted(row) ==
    [row EXCEPT !.status = "PENDING_REVIEW", !.expires = IF row.status = "EXPIRED" THEN "none" ELSE @]

Wanted(op, row) ==
    CASE op = "edit" -> Edited(row)
      [] op = "resubmit" -> Resubmitted(row)
      [] op \in GoesLive -> [status |-> "LIVE", expires |-> "ahead", moderation |-> "ACTIVE"]
      [] op = "sold" -> [row EXCEPT !.status = "SOLD"]
      [] op \in {"archive", "retire"} -> [row EXCEPT !.status = "ARCHIVED"]
      [] op = "reject" -> [row EXCEPT !.status = "REJECTED"]
      [] op = "changes" -> [row EXCEPT !.status = "CHANGES_REQUESTED"]
      [] op = "hide" -> [row EXCEPT !.status = "HIDDEN", !.moderation = "HIDDEN"]
      [] op = "reported" -> [row EXCEPT !.status = "HIDDEN"]
      [] op = "softDelete" -> [row EXCEPT !.status = "ARCHIVED", !.moderation = "DELETED"]
      [] op = "restore" -> [row EXCEPT !.status = "PENDING_REVIEW", !.moderation = "ACTIVE"]
      [] op = "expire" -> [row EXCEPT !.status = "EXPIRED"]

-----------------------------------------------------------------------------
CreateListing(l) ==
    /\ listing[l].status = "NONE"
    /\ listing' = [listing EXCEPT ![l] = [NoListing EXCEPT !.status = "PENDING_REVIEW"]]
    /\ UNCHANGED request

BeginRequest(r, op, l) ==
    /\ request[r].pc = "idle"
    /\ listing[l].status # "NONE" /\ Accepts(op, listing[l])
    /\ request' = [request EXCEPT ![r] =
          [pc |-> IF op \in GoesLive THEN "count" ELSE "save", op |-> op, id |-> l, read |-> listing[l]]]
    /\ UNCHANGED listing

EndRequest(r) == request' = [request EXCEPT ![r] = NoRequest]

\* assertCanGoLive
LiveBeside(l) == {k \in Listings \ {l} : listing[k].status = "LIVE"}

\* Faulty variant: off by one.
HasRoomForOneMore(l) == Cardinality(LiveBeside(l)) <= MaxLive

HasRoom(l) == Cardinality(LiveBeside(l)) < MaxLive

CountLive(r) ==
    /\ request[r].pc = "count"
    /\ IF HasRoom(request[r].id) THEN request' = [request EXCEPT ![r].pc = "save"] ELSE EndRequest(r)
    /\ UNCHANGED listing

\* A date that is set is another one than was read.
SaveListing(r) ==
    LET l == request[r].id
        read == request[r].read
        want == Wanted(request[r].op, read)
        new(column) == want[column] # read[column] \/ (column = "expires" /\ request[r].op \in GoesLive)
    IN
    /\ request[r].pc = "save"
    /\ listing' = IF listing[l].status = "NONE" THEN listing
                  ELSE [listing EXCEPT ![l] =
                          [column \in DOMAIN NoListing |->
                              IF new(column) THEN want[column] ELSE listing[l][column]]]
    /\ EndRequest(r)

\* The owner or an administrator deletes the row.
DeleteListing(l) ==
    /\ listing[l].status # "NONE"
    /\ listing' = [listing EXCEPT ![l] = NoListing]
    /\ UNCHANGED request

RequestDies(r) ==
    /\ request[r].pc # "idle"
    /\ EndRequest(r)
    /\ UNCHANGED listing

TimePasses(l) ==
    /\ listing[l].expires = "ahead"
    /\ listing' = [listing EXCEPT ![l].expires = "past"]
    /\ UNCHANGED request

ListingsNext ==
    \/ \E l \in Listings : CreateListing(l) \/ DeleteListing(l) \/ TimePasses(l)
    \/ \E r \in Requests :
          \/ \E op \in Ops, l \in Listings : BeginRequest(r, op, l)
          \/ CountLive(r) \/ SaveListing(r) \/ RequestDies(r)

ListingsSpec == ListingsInit /\ [][ListingsNext]_listingVars

-----------------------------------------------------------------------------
(***************************************************************************)
(* Properties                                                              *)
(***************************************************************************)
ListingsTypeOK ==
    /\ listing \in [Listings -> [status : ListingStatuses, expires : {"none", "ahead", "past"},
                                 moderation : {"ACTIVE", "HIDDEN", "DELETED"}]]
    /\ \A r \in Requests : request[r].pc \in {"idle", "count", "save"} /\ request[r].op \in Ops \cup {"none"}

\* A live listing has a date, or the expiry job would never find it: whatever approvals, edits,
\* renewals, hidings and the job itself save over each other.
LiveExpires == \A l \in Listings : listing[l].status = "LIVE" => listing[l].expires # "none"

\* assertCanGoLive counts before the listing goes live, without a lock: the limit is exceeded by
\* no more listings than are approved at the same time, less one.
LiveLimit ==
    Cardinality({l \in Listings : listing[l].status = "LIVE"}) < MaxLive + Cardinality(Requests)

=============================================================================
