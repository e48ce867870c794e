-------------------------- MODULE MatrimonyMatches --------------------------
(***************************************************************************)
(* Interests and the match of two matrimony members                        *)
(* (MatrimonyDiscover.service.ts, the blocks of MatrimonySafety.service.ts *)
(* with them).                                                             *)
(*                                                                         *)
(* Each member may send an interest to the other; when both are accepted   *)
(* the members are matched and may chat and buy each other's contact.      *)
(* Rows are read, and saved by id later; only the update of both interests *)
(* by removeMatch, the reads of an acceptance and the statements of an     *)
(* unblock are transactions.  Whether a profile may be browsed, is paused  *)
(* or closed, or has paid for a contact decides who may call; it is left   *)
(* open here, since it may change between any two calls.                   *)
(***************************************************************************)
EXTENDS Naturals, FiniteSets

CONSTANTS Mates,            \* two members
          MatchCalls        \* requests that can be under way at once

ASSUME MatchesAssumption == IsFiniteSet(Mates) /\ Cardinality(Mates) = 2

VARIABLES interest,         \* matrimony_interests, by <<from, to>>; status NONE: no row
          match,            \* the row of the pair in matrimony_matches
          shunned,          \* matrimony_blocks: <<a, b>>: a blocks b
          step,             \* the requests under way
          accepted,         \* history: interests that were accepted at some time
          upset             \* history: a request died half-way, or closed the match of two
                            \* accepted interests, since the match was last made

matchVars == <<interest, match, shunned, step, accepted, upset>>

Sides == {d \in Mates \X Mates : d[1] # d[2]}
Back(d) == <<d[2], d[1]>>
NoStep == [pc |-> "idle", op |-> "none", side |-> <<>>, seen |-> "NONE"]

MatchesInit ==
    /\ interest = [d \in Sides |-> [status |-> "NONE", cooled |-> FALSE]]
    /\ match = [status |-> "NONE", chat |-> FALSE, contact |-> FALSE]
    /\ shunned = {}
    /\ step = [c \in MatchCalls |-> NoStep]
    /\ accepted = {} /\ upset = FALSE

Apart == Sides \cap shunned = {}
Matched == match.status = "ACTIVE"
Accepted(d) == interest[d].status = "ACCEPTED"

\* Faulty variant: one acceptance is enough.
MutualEither == \E d \in Sides : Accepted(d)

Mutual == \A d \in Sides : Accepted(d)

At(c, pc) == step[c].pc = pc
To(c, pc) == step' = [step EXCEPT ![c].pc = pc]
Done(c) == step' = [step EXCEPT ![c] = NoStep]
Starts(c, op, d, pc) ==
    step' = [step EXCEPT ![c] = [pc |-> pc, op |-> op, side |-> d, seen |-> interest[d].status]]
StartsOnPair(c, op, pc) == step' = [step EXCEPT ![c] = [NoStep EXCEPT !.pc = pc, !.op = op]]
Only(changed) == UNCHANGED shunned /\ UNCHANGED changed

Marks(d, status) ==
    interest' = [interest EXCEPT ![d] = [status |-> status, cooled |-> FALSE]]

-----------------------------------------------------------------------------
(***************************************************************************)
(* sendInterest                                                            *)
(***************************************************************************)
\* assertEligibleMatrimonyCandidate: nobody blocks, and there is no match.
Eligible == Apart /\ ~Matched

MaySendInterest(d) ==
    /\ interest[d].status \in {"NONE", "WITHDRAWN", "DECLINED"}
    /\ interest[d].status = "DECLINED" => interest[d].cooled

SendBegins(c, d) ==
    /\ At(c, "idle")
    /\ Eligible /\ MaySendInterest(d)
    /\ Starts(c, "send", d, "send")
    /\ Only(<<interest, match, accepted, upset>>)

\* A row is created once; a row that was read is saved whatever it is by now.
SendSaves(c) ==
    LET d == step[c].side IN
    /\ At(c, "send")
    /\ IF step[c].seen = "NONE" /\ interest[d].status # "NONE"
       THEN Done(c) /\ UNCHANGED interest
       ELSE To(c, "mutual1") /\ Marks(d, "PENDING")
    /\ Only(<<match, accepted, upset>>)

-----------------------------------------------------------------------------
(***************************************************************************)
(* tryCreateMutualMatch: two reads, in one snapshot after an acceptance    *)
(***************************************************************************)
MutualReads(c) ==
    LET d == step[c].side IN
    /\ \/ At(c, "mutual1") /\ IF Accepted(d) THEN To(c, "mutual2") ELSE Done(c)
       \/ At(c, "mutual2") /\ IF Accepted(Back(d)) THEN To(c, "create") ELSE Done(c)
       \/ At(c, "mutual") /\ IF Mutual THEN To(c, "create") ELSE Done(c)
    /\ Only(<<interest, match, accepted, upset>>)

\* findOrCreate
MatchCreates(c) ==
    /\ At(c, "create")
    /\ IF match.status = "NONE"
       THEN /\ match' = [status |-> "ACTIVE", chat |-> TRUE, contact |-> FALSE]
            /\ upset' = FALSE
       ELSE UNCHANGED <<match, upset>>
    /\ IF match.status = "UNMATCHED" THEN To(c, "again") ELSE Done(c)
    /\ Only(<<interest, accepted>>)

\* An earlier match is opened again; chatEnabled stays what it was.
MatchReopens(c) ==
    /\ At(c, "again")
    /\ match' = [match EXCEPT !.status = "ACTIVE"]
    /\ upset' = FALSE
    /\ Done(c)
    /\ Only(<<interest, accepted>>)

-----------------------------------------------------------------------------
(***************************************************************************)
(* respondToInterest, withdrawInterest, removeMatch                        *)
(***************************************************************************)
AnswerBegins(c, d, op) ==
    /\ At(c, "idle")
    /\ interest[d].status = "PENDING"
    /\ Starts(c, op, d, "answer")
    /\ Only(<<interest, match, accepted, upset>>)

\* Faulty variant: an acceptance does not look for the other one.
AnswerSavesOnly(c) ==
    LET d == step[c].side IN
    /\ At(c, "answer")
    /\ IF step[c].op = "accept"
       THEN Marks(d, "ACCEPTED") /\ accepted' = accepted \cup {d} /\ Done(c)
       ELSE Marks(d, "DECLINED") /\ To(c, "close") /\ UNCHANGED accepted
    /\ Only(<<match, upset>>)

AnswerSaves(c) ==
    LET d == step[c].side IN
    /\ At(c, "answer")
    /\ IF step[c].op = "accept"
       THEN Marks(d, "ACCEPTED") /\ accepted' = accepted \cup {d} /\ To(c, "mutual")
       ELSE Marks(d, "DECLINED") /\ To(c, "close") /\ UNCHANGED accepted
    /\ Only(<<match, upset>>)

WithdrawBegins(c, d) ==
    /\ At(c, "idle")
    /\ interest[d].status \in {"PENDING", "ACCEPTED"}
    /\ Starts(c, "withdraw", d, "withdraw")
    /\ Only(<<interest, match, accepted, upset>>)

WithdrawSaves(c) ==
    /\ At(c, "withdraw")
    /\ Marks(step[c].side, "WITHDRAWN")
    /\ IF step[c].seen = "ACCEPTED" THEN To(c, "close") ELSE Done(c)
    /\ Only(<<match, accepted, upset>>)

RemoveBegins(c) ==
    /\ At(c, "idle")
    /\ Matched
    /\ StartsOnPair(c, "remove", "close")
    /\ Only(<<interest, match, accepted, upset>>)

\* closeMatrimonyMatchBetween, and what follows it.
AfterClosing(c) ==
    CASE step[c].op = "withdraw" -> To(c, "reverse")
      [] step[c].op = "remove" -> To(c, "both")
      [] OTHER -> Done(c)

CloseReads(c) ==
    /\ At(c, "close")
    /\ IF Matched THEN To(c, "unmatch") ELSE AfterClosing(c)
    /\ Only(<<interest, match, accepted, upset>>)

CloseSaves(c) ==
    /\ At(c, "unmatch")
    /\ match' = [match EXCEPT !.status = "UNMATCHED", !.chat = FALSE]
    /\ upset' = (upset \/ Mutual)
    /\ AfterClosing(c)
    /\ Only(<<interest, accepted>>)

\* The other interest is withdrawn as well; read and saved.
ReverseReads(c) ==
    /\ At(c, "reverse")
    /\ IF Accepted(Back(step[c].side)) THEN To(c, "reverseSave") ELSE Done(c)
    /\ Only(<<interest, match, accepted, upset>>)

ReverseSaves(c) ==
    /\ At(c, "reverseSave")
    /\ Marks(Back(step[c].side), "WITHDRAWN")
    /\ Done(c)
    /\ Only(<<match, accepted, upset>>)

\* removeMatch: one UPDATE of the accepted interests.
RemoveWithdraws(c) ==
    /\ At(c, "both")
    /\ interest' = [d \in Sides |-> IF Accepted(d) THEN [status |-> "WITHDRAWN", cooled |-> FALSE]
                                    ELSE interest[d]]
    /\ Done(c)
    /\ Only(<<match, accepted, upset>>)

MatchCallDies(c) ==
    /\ ~At(c, "idle")
    /\ Done(c)
    /\ upset' = TRUE
    /\ Only(<<interest, match, accepted>>)

-----------------------------------------------------------------------------
(***************************************************************************)
(* Contact, blocks, time                                                   *)
(***************************************************************************)
\* revealContactIfMatched
RevealBegins(c) ==
    /\ At(c, "idle")
    /\ Matched /\ ~match.contact
    /\ StartsOnPair(c, "reveal", "reveal")
    /\ Only(<<interest, match, accepted, upset>>)

RevealSaves(c) ==
    /\ At(c, "reveal")
    /\ match' = [match EXCEPT !.contact = TRUE]
    /\ Done(c)
    /\ Only(<<interest, accepted, upset>>)

Shun(d) ==
    /\ shunned' = shunned \cup {d}
    /\ UNCHANGED <<interest, match, step, accepted, upset>>

\* unblockUser restores a match that is closed, whoever closed it.
Restored(m) ==
    IF m.status = "UNMATCHED" THEN [m EXCEPT !.status = "ACTIVE", !.chat = TRUE] ELSE m

Unshun(d) ==
    /\ shunned' = shunned \ {d}
    /\ match' = Restored(match)
    /\ upset' = IF match' # match THEN FALSE ELSE upset
    /\ UNCHANGED <<interest, step, accepted>>

\* 60 days pass; no request takes that long.
DeclineCools(d) ==
    /\ interest[d].status = "DECLINED" /\ ~interest[d].cooled
    /\ \A c \in MatchCalls : At(c, "idle")
    /\ interest' = [interest EXCEPT ![d].cooled = TRUE]
    /\ UNCHANGED <<match, shunned, step, accepted, upset>>

MatchesNext ==
    \/ \E c \in MatchCalls :
          \/ \E d \in Sides :
                \/ SendBegins(c, d) \/ WithdrawBegins(c, d)
                \/ AnswerBegins(c, d, "accept") \/ AnswerBegins(c, d, "decline")
          \/ RemoveBegins(c) \/ RevealBegins(c)
          \/ SendSaves(c) \/ MutualReads(c) \/ MatchCreates(c) \/ MatchReopens(c)
          \/ AnswerSaves(c) \/ WithdrawSaves(c)
          \/ CloseReads(c) \/ CloseSaves(c) \/ ReverseReads(c) \/ ReverseSaves(c)
          \/ RemoveWithdraws(c) \/ RevealSaves(c) \/ MatchCallDies(c)
    \/ \E d \in Sides : Shun(d) \/ Unshun(d) \/ DeclineCools(d)

MatchesSpec == MatchesInit /\ [][MatchesNext]_matchVars

-----------------------------------------------------------------------------
(***************************************************************************)
(* Properties                                                              *)
(***************************************************************************)
MatchesTypeOK ==
    /\ interest \in [Sides -> [status : {"NONE", "PENDING", "ACCEPTED", "DECLINED", "WITHDRAWN"},
                               cooled : BOOLEAN]]
    /\ match \in [status : {"NONE", "ACTIVE", "UNMATCHED"}, chat : BOOLEAN, contact : BOOLEAN]
    /\ shunned \cup accepted \subseteq Sides
    /\ match.chat => Matched

\* Whatever requests cross, members are matched, chat or see a contact only if each has accepted
\* the other at some time (tryCreateMutualMatch, and the saves by id around it).
MatchedByBoth ==
    match.status # "NONE" \/ match.contact => accepted = Sides

\* Two acceptances that cross do make the match: when nobody is at work and both interests are
\* accepted the members are matched, unless a request died or a late one closed the match.
AcceptedIsMatched ==
    Mutual /\ (\A c \in MatchCalls : At(c, "idle")) => Matched \/ upset
=============================================================================
