----------------------------- MODULE MCServices -----------------------------
(***************************************************************************)
(* The services that share no state but the database, one instance: Init   *)
(* chooses which part of which component moves, the others keep their      *)
(* initial state.  k1, k2 and t1, t2 stand for whatever is interchangeable *)
(* in the part that moves.                                                 *)
(***************************************************************************)
EXTENDS Connections, MatrimonyBilling, MatrimonyMatches, ContentSafety, SchedulerJobs,
        MarketplaceListings, TLC

CONSTANTS k1, k2, t1, t2, l3,
          ContentBudget     \* bound: how much begins around one post and two uploads

VARIABLES part, spent

Parts == {"connections", "orders", "plans", "matches", "content", "jobs", "listing", "limit"}

Symmetry == Permutations({k1, k2}) \cup Permutations({t1, t2})

servicesVars == <<connVars, billVars, matchVars, contentVars, jobVars, listingVars, part, spent>>

Init ==
    /\ ConnectionsInit /\ BillingInit /\ MatchesInit /\ ContentInit /\ SchedulerInit
    /\ ListingsInit
    /\ part \in Parts
    /\ spent = 0

\* One order, for a plan, which does not fail: what fails orders is in the other part.
OneOrder ==
    /\ Cardinality({o \in Purchases : purchase'[o] # "NONE"}) <= 1
    /\ failing' = {} /\ superseding'.rows = {} /\ superseding'.wants # Contact
    /\ \A o \in Purchases : <<o, "payment.failed">> \notin posted'

\* One member blocks, the other does not.
OneBlocks(now) == Cardinality(now) <= 1

\* All operations on one listing, or the ones that count the live ones on all.
OneListing == \A l \in Listings : listing'[l].status # "NONE" => l = l3
Counting == \A r \in Requests : request'[r].op \in {"none", "approve", "sold"}

\* bound: how much begins.
Spends(steps, n) == steps /\ spent < n /\ spent' = spent + 1
Free(steps) == steps /\ UNCHANGED spent

Moves(p) == part = p /\ UNCHANGED part

Next ==
    \/ /\ Moves("connections") /\ ConnectionsNext /\ OneBlocks(blocks')
       /\ UNCHANGED <<billVars, matchVars, contentVars, jobVars, listingVars, spent>>
    \/ /\ \/ Moves("orders") /\ OrderSteps
          \/ Moves("plans") /\ BillingNext /\ OneOrder
       /\ UNCHANGED <<connVars, matchVars, contentVars, jobVars, listingVars, spent>>
    \/ /\ Moves("matches") /\ MatchesNext /\ OneBlocks(shunned')
       /\ UNCHANGED <<connVars, billVars, contentVars, jobVars, listingVars, spent>>
    \/ /\ Moves("content")
       /\ Spends(ContentBegins, ContentBudget) \/ Free(ContentGoesOn)
       /\ UNCHANGED <<connVars, billVars, matchVars, jobVars, listingVars>>
    \/ /\ Moves("jobs") /\ SchedulerNext
       /\ UNCHANGED <<connVars, billVars, matchVars, contentVars, listingVars, spent>>
    \/ /\ \/ Moves("listing") /\ ListingsNext /\ OneListing
          \/ Moves("limit") /\ ListingsNext /\ Counting
       /\ UNCHANGED <<connVars, billVars, matchVars, contentVars, jobVars, spent>>

Spec == Init /\ [][Next]_servicesVars

ServicesTypeOK ==
    /\ ConnectionsTypeOK /\ BillingTypeOK /\ MatchesTypeOK /\ ContentTypeOK /\ SchedulerTypeOK
    /\ ListingsTypeOK
=============================================================================
