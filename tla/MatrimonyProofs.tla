-------------------------- MODULE MatrimonyProofs --------------------------
(***************************************************************************)
(* Proofs about the matrimony services: matches, billing.                  *)
(*                                                                         *)
(* Each part has an inductive invariant of its own.  MatchInv says what a  *)
(* request that has read an interest or the match may still rely on when   *)
(* it saves; OrderInv, that an order is fulfilled while it is PAID or was  *)
(* overwritten; PlanInv, that newer subscriptions rank after older ones.   *)
(***************************************************************************)
EXTENDS MatrimonyMatches, MatrimonyBilling, FiniteSetTheorems, TLAPS

-----------------------------------------------------------------------------
(***************************************************************************)
(* Matches                                                                 *)
(***************************************************************************)
InterestRow ==
    [status : {"NONE", "PENDING", "ACCEPTED", "DECLINED", "WITHDRAWN"}, cooled : BOOLEAN]
MatchRow == [status : {"NONE", "ACTIVE", "UNMATCHED"}, chat : BOOLEAN, contact : BOOLEAN]

SideOps == {"send", "accept", "decline", "withdraw"}
SidePcs == {"send", "mutual1", "mutual2", "mutual", "answer", "withdraw", "reverse", "reverseSave"}
MatchPcs == SidePcs \cup {"idle", "create", "again", "close", "unmatch", "both", "reveal"}
StepRecord ==
    [pc : MatchPcs, op : SideOps \cup {"none", "remove", "reveal"}, side : Sides \cup {<<>>},
     seen : {"NONE", "PENDING", "ACCEPTED", "DECLINED", "WITHDRAWN"}]

MatchTyped ==
    /\ interest \in [Sides -> InterestRow]
    /\ match \in MatchRow
    /\ shunned \subseteq Sides /\ accepted \subseteq Sides
    /\ step \in [MatchCalls -> StepRecord]
    /\ upset \in BOOLEAN

\* What a request relies on: its side, that both have accepted before it makes the match, that
\* there is a match which it opens again, closes or reveals.
StepsKnown ==
    \A c \in MatchCalls :
        /\ step[c].pc \in SidePcs => step[c].op \in SideOps
        /\ step[c].op \in SideOps => step[c].side \in Sides
        /\ step[c].pc = "mutual2" => step[c].side \in accepted
        /\ step[c].pc = "create" => accepted = Sides
        /\ step[c].pc \in {"again", "unmatch", "reveal"} => match.status # "NONE"

MadeByBoth ==
    /\ \A d \in Sides : Accepted(d) => d \in accepted
    /\ match.status # "NONE" => accepted = Sides
    /\ match.contact => match.status # "NONE"
    /\ match.chat => Matched

\* When both are accepted and there is no match a request is about to make it.
Making == {"mutual", "create", "again"}
MatchAwaited == Mutual => Matched \/ upset \/ \E c \in MatchCalls : step[c].pc \in Making

MatchInv == MatchTyped /\ StepsKnown /\ MadeByBoth /\ MatchAwaited

\* There are two interests at most, one each way.
LEMMA TwoSides ==
  ASSUME NEW d \in Sides
  PROVE  Back(d) \in Sides /\ Sides = {d, Back(d)}
<1>1. PICK a, b \in Mates : d = <<a, b>> /\ a # b
  BY DEF Sides
<1>2. Mates = {a, b}
  <2>1. IsFiniteSet(Mates \ {a}) /\ Cardinality(Mates \ {a}) = 1
    BY MatchesAssumption, FS_RemoveElement
  <2>2. PICK x : Mates \ {a} = {x}
    BY <2>1, FS_Singleton
  <2>3. QED
    BY <1>1, <2>2
<1>3. Back(d) = <<b, a>>
  BY <1>1 DEF Back
<1>4. Back(d) \in Sides
  BY <1>1, <1>3 DEF Sides
<1>5. ASSUME NEW e \in Sides PROVE e = d \/ e = Back(d)
  <2>1. PICK x, y \in Mates : e = <<x, y>> /\ x # y
    BY DEF Sides
  <2>2. QED
    BY <1>1, <1>2, <1>3, <2>1
<1>6. QED
  BY <1>4, <1>5

\* How a request moves on, ends or begins.
LEMMA NoStepTyped == NoStep \in StepRecord /\ NoStep.pc = "idle" /\ NoStep.op = "none"
BY DEF NoStep, StepRecord, MatchPcs, SidePcs, SideOps

LEMMA StepGoes ==
  ASSUME MatchTyped, NEW c \in MatchCalls, NEW pc \in MatchPcs, To(c, pc)
  PROVE  /\ step' \in [MatchCalls -> StepRecord]
         /\ step'[c].pc = pc /\ step'[c].op = step[c].op /\ step'[c].side = step[c].side
         /\ \A b \in MatchCalls : b # c => step'[b] = step[b]
BY DEF MatchTyped, StepRecord, To

LEMMA StepDone ==
  ASSUME MatchTyped, NEW c \in MatchCalls, Done(c)
  PROVE  /\ step' \in [MatchCalls -> StepRecord]
         /\ step'[c].pc = "idle" /\ step'[c].op = "none"
         /\ \A b \in MatchCalls : b # c => step'[b] = step[b]
BY NoStepTyped DEF MatchTyped, Done

LEMMA StepStarts ==
  ASSUME MatchTyped, NEW c \in MatchCalls, NEW op \in SideOps, NEW d \in Sides,
         NEW pc \in MatchPcs, Starts(c, op, d, pc)
  PROVE  /\ step' \in [MatchCalls -> StepRecord]
         /\ step'[c].pc = pc /\ step'[c].op = op /\ step'[c].side = d
         /\ \A b \in MatchCalls : b # c => step'[b] = step[b]
<1> DEFINE s == [pc |-> pc, op |-> op, side |-> d, seen |-> interest[d].status]
<1>1. s \in StepRecord /\ s.pc = pc /\ s.op = op /\ s.side = d
  BY DEF MatchTyped, StepRecord, InterestRow
<1>2. step' = [step EXCEPT ![c] = s]
  BY DEF Starts
<1> HIDE DEF s
<1>3. QED
  BY <1>1, <1>2 DEF MatchTyped

LEMMA StepStartsOnPair ==
  ASSUME MatchTyped, NEW c \in MatchCalls, NEW op \in {"remove", "reveal"},
         NEW pc \in MatchPcs, StartsOnPair(c, op, pc)
  PROVE  /\ step' \in [MatchCalls -> StepRecord]
         /\ step'[c].pc = pc /\ step'[c].op = op
         /\ \A b \in MatchCalls : b # c => step'[b] = step[b]
<1> DEFINE s == [NoStep EXCEPT !.pc = pc, !.op = op]
<1>1. s \in StepRecord
  BY NoStepTyped DEF StepRecord
<1>2. s.pc = pc /\ s.op = op
  BY DEF NoStep
<1>3. step' = [step EXCEPT ![c] = s]
  BY DEF StartsOnPair
<1> HIDE DEF s
<1>4. QED
  BY <1>1, <1>2, <1>3 DEF MatchTyped

LEMMA Marked ==
  ASSUME MatchTyped, NEW d \in Sides,
         NEW status \in {"NONE", "PENDING", "ACCEPTED", "DECLINED", "WITHDRAWN"}, Marks(d, status)
  PROVE  /\ interest' \in [Sides -> InterestRow]
         /\ interest'[d].status = status
         /\ \A e \in Sides : e # d => interest'[e] = interest[e]
<1>1. [status |-> status, cooled |-> FALSE] \in InterestRow
  BY DEF InterestRow
<1>2. QED
  BY <1>1 DEF MatchTyped, Marks

LEMMA MatchInitInv == MatchesInit => MatchInv
<1> SUFFICES ASSUME MatchesInit PROVE MatchInv
  OBVIOUS
<1>1. MatchTyped
  BY NoStepTyped DEF MatchesInit, MatchTyped, InterestRow, MatchRow
<1>2. StepsKnown
  BY NoStepTyped DEF MatchesInit, StepsKnown, SidePcs, SideOps
<1>3. MadeByBoth
  BY DEF MatchesInit, MadeByBoth, Accepted, Matched
<1>4. MatchAwaited
  <2>1. Sides # {}
    <3>1. PICK a \in Mates : TRUE
      BY MatchesAssumption, FS_EmptySet
    <3>2. IsFiniteSet(Mates \ {a}) /\ Cardinality(Mates \ {a}) = 1
      BY MatchesAssumption, FS_RemoveElement
    <3>3. PICK b : Mates \ {a} = {b}
      BY <3>2, FS_Singleton
    <3>4. <<a, b>> \in Sides
      BY <3>3 DEF Sides
    <3>5. QED
      BY <3>4
  <2>2. \A d \in Sides : ~Accepted(d)
    BY DEF MatchesInit, Accepted
  <2>3. QED
    BY <2>1, <2>2 DEF MatchAwaited, Mutual
<1>5. QED
  BY <1>1, <1>2, <1>3, <1>4 DEF MatchInv

\* A step that only moves a request preserves the invariant if what the request relies on next is
\* so, and if it was not making the match, or goes on with it, or has no need to.
LEMMA MovesInv ==
  ASSUME MatchInv, NEW c \in MatchCalls, UNCHANGED <<interest, match, accepted, shunned>>,
         upset' \in BOOLEAN, upset => upset',
         step' \in [MatchCalls -> StepRecord],
         \A b \in MatchCalls : b # c => step'[b] = step[b],
         /\ step'[c].pc \in SidePcs => step'[c].op \in SideOps
         /\ step'[c].op \in SideOps => step'[c].side \in Sides
         /\ step'[c].pc = "mutual2" => step'[c].side \in accepted
         /\ step'[c].pc = "create" => accepted = Sides
         /\ step'[c].pc \in {"again", "unmatch", "reveal"} => match.status # "NONE",
         step[c].pc \in Making => upset' \/ step'[c].pc \in Making \/ ~Mutual \/ Matched
  PROVE  MatchInv'
<1>1. MatchTyped'
  BY DEF MatchInv, MatchTyped
<1>2. StepsKnown'
  BY DEF MatchInv, StepsKnown
<1>3. MadeByBoth'
  BY DEF MatchInv, MadeByBoth, Accepted, Matched
<1>4. MatchAwaited'
  <2>1. (Mutual' <=> Mutual) /\ (Matched' <=> Matched)
    BY DEF Mutual, Matched, Accepted
  <2>2. CASE \E b \in MatchCalls \ {c} : step[b].pc \in Making
    BY <2>2 DEF MatchAwaited
  <2>3. CASE ~ \E b \in MatchCalls \ {c} : step[b].pc \in Making
    BY <2>1, <2>3 DEF MatchInv, MatchAwaited
  <2>4. QED
    BY <2>2, <2>3
<1>5. QED
  BY <1>1, <1>2, <1>3, <1>4 DEF MatchInv

\* Requests that begin.
LEMMA BeginsMatchInv ==
  ASSUME MatchInv, NEW c \in MatchCalls,
         \/ \E d \in Sides : \/ SendBegins(c, d) \/ WithdrawBegins(c, d)
                             \/ AnswerBegins(c, d, "accept") \/ AnswerBegins(c, d, "decline")
         \/ RemoveBegins(c) \/ RevealBegins(c)
  PROVE  MatchInv'
<1>1. UNCHANGED <<interest, match, accepted, shunned, upset>> /\ step[c].pc = "idle"
  BY DEF SendBegins, WithdrawBegins, AnswerBegins, RemoveBegins, RevealBegins, Only, At
<1>2. ASSUME NEW d \in Sides, NEW op \in SideOps, NEW pc \in {"send", "answer", "withdraw"},
             Starts(c, op, d, pc)
      PROVE  MatchInv'
  <2>1. pc \in MatchPcs /\ MatchTyped /\ upset \in BOOLEAN
    BY DEF MatchPcs, SidePcs, MatchInv, MatchTyped
  <2>2. /\ step' \in [MatchCalls -> StepRecord]
        /\ step'[c].pc = pc /\ step'[c].op = op /\ step'[c].side = d
        /\ \A b \in MatchCalls : b # c => step'[b] = step[b]
    BY <1>2, <2>1, StepStarts
  <2>3. QED
    BY <1>1, <2>1, <2>2, MovesInv DEF Making
<1>3. ASSUME NEW op \in {"remove", "reveal"}, NEW pc \in {"close", "reveal"}, Matched,
             StartsOnPair(c, op, pc)
      PROVE  MatchInv'
  <2>1. pc \in MatchPcs /\ MatchTyped /\ upset \in BOOLEAN
    BY DEF MatchPcs, SidePcs, MatchInv, MatchTyped
  <2>2. /\ step' \in [MatchCalls -> StepRecord]
        /\ step'[c].pc = pc /\ step'[c].op = op
        /\ \A b \in MatchCalls : b # c => step'[b] = step[b]
    BY <1>3, <2>1, StepStartsOnPair
  <2>3. match.status # "NONE"
    BY <1>3 DEF Matched
  <2>4. QED
    BY <1>1, <2>1, <2>2, <2>3, MovesInv DEF Making, SidePcs, SideOps
<1>4. CASE \E d \in Sides : \/ SendBegins(c, d) \/ WithdrawBegins(c, d)
                            \/ AnswerBegins(c, d, "accept") \/ AnswerBegins(c, d, "decline")
  BY <1>2, <1>4 DEF SendBegins, WithdrawBegins, AnswerBegins, SideOps
<1>5. CASE RemoveBegins(c) \/ RevealBegins(c)
  BY <1>3, <1>5 DEF RemoveBegins, RevealBegins
<1>6. QED
  BY <1>4, <1>5

\* A request that is done, or dies.
LEMMA DoneInv ==
  ASSUME MatchInv, NEW c \in MatchCalls, Done(c), UNCHANGED <<interest, match, accepted, shunned>>,
         upset' \in BOOLEAN, upset => upset', step[c].pc \in Making => upset' \/ ~Mutual \/ Matched
  PROVE  MatchInv'
<1>1. /\ step' \in [MatchCalls -> StepRecord]
      /\ step'[c].pc = "idle" /\ step'[c].op = "none"
      /\ \A b \in MatchCalls : b # c => step'[b] = step[b]
  BY StepDone DEF MatchInv
<1>2. QED
  BY <1>1, MovesInv DEF SidePcs, SideOps

\* A request that goes on to where it relies on nothing it does not know.
LEMMA GoesInv ==
  ASSUME MatchInv, NEW c \in MatchCalls, NEW pc \in MatchPcs, To(c, pc),
         UNCHANGED <<interest, match, accepted, shunned, upset>>,
         pc \in SidePcs => step[c].op \in SideOps,
         pc = "mutual2" => step[c].side \in accepted,
         pc = "create" => accepted = Sides,
         pc \in {"again", "unmatch", "reveal"} => match.status # "NONE",
         step[c].pc \in Making => pc \in Making \/ ~Mutual \/ Matched
  PROVE  MatchInv'
<1>1. /\ step' \in [MatchCalls -> StepRecord]
      /\ step'[c].pc = pc /\ step'[c].op = step[c].op /\ step'[c].side = step[c].side
      /\ \A b \in MatchCalls : b # c => step'[b] = step[b]
  BY StepGoes DEF MatchInv
<1>2. step[c].op \in SideOps => step[c].side \in Sides
  BY DEF MatchInv, StepsKnown
<1>3. upset' = upset /\ upset \in BOOLEAN
  BY DEF MatchInv, MatchTyped
<1>4. QED
  BY <1>1, <1>2, <1>3, MovesInv

\* Two reads say that both have accepted only if both have, each at some time.
LEMMA MutualReadsInv ==
  ASSUME MatchInv, NEW c \in MatchCalls, MutualReads(c)
  PROVE  MatchInv'
<1> DEFINE d == step[c].side
<1>1. UNCHANGED <<interest, match, accepted, shunned, upset>> /\ upset \in BOOLEAN
  BY DEF MutualReads, Only, MatchInv, MatchTyped
<1>2. d \in Sides /\ step[c].op \in SideOps
  BY DEF MutualReads, At, MatchInv, StepsKnown, SidePcs
<1>3. Back(d) \in Sides /\ Sides = {d, Back(d)}
  BY <1>2, TwoSides
<1>4. /\ Accepted(d) => d \in accepted
      /\ Accepted(Back(d)) => Back(d) \in accepted
      /\ accepted \subseteq Sides
  BY <1>2, <1>3 DEF MatchInv, MadeByBoth, MatchTyped
<1>5. CASE At(c, "mutual1") /\ Accepted(d) /\ To(c, "mutual2")
  BY <1>1, <1>2, <1>4, <1>5, GoesInv DEF At, Making, MatchPcs, SidePcs
<1>6. CASE At(c, "mutual2") /\ Accepted(Back(d)) /\ To(c, "create")
  <2>1. d \in accepted
    BY <1>6 DEF At, MatchInv, StepsKnown
  <2>2. accepted = Sides
    BY <1>3, <1>4, <1>6, <2>1
  <2>3. QED
    BY <1>1, <1>6, <2>2, GoesInv DEF At, Making, MatchPcs, SidePcs
<1>7. CASE At(c, "mutual") /\ Mutual /\ To(c, "create")
  <2>1. accepted = Sides
    BY <1>3, <1>4, <1>7 DEF Mutual
  <2>2. QED
    BY <1>1, <1>7, <2>1, GoesInv DEF At, Making, MatchPcs, SidePcs
<1>8. CASE Done(c) /\ (At(c, "mutual1") \/ At(c, "mutual2") \/ (At(c, "mutual") /\ ~Mutual))
  BY <1>1, <1>8, DoneInv DEF At, Making
<1>9. QED
  BY <1>5, <1>6, <1>7, <1>8 DEF MutualReads

\* What follows the closing of a match.
LEMMA AfterClosingGoes ==
  ASSUME MatchInv, NEW c \in MatchCalls, AfterClosing(c)
  PROVE  /\ step' \in [MatchCalls -> StepRecord]
         /\ \A b \in MatchCalls : b # c => step'[b] = step[b]
         /\ step'[c].pc \in {"idle", "both", "reverse"}
         /\ step'[c].pc = "reverse" => step'[c].op \in SideOps
         /\ step'[c].op \in SideOps => step'[c].side \in Sides
<1>1. step[c].op \in SideOps => step[c].side \in Sides
  BY DEF MatchInv, StepsKnown
<1>2. CASE step[c].op = "withdraw" /\ To(c, "reverse")
  BY <1>1, <1>2, StepGoes DEF MatchInv, MatchPcs, SidePcs, SideOps
<1>3. CASE step[c].op = "remove" /\ To(c, "both")
  BY <1>1, <1>3, StepGoes DEF MatchInv, MatchPcs, SidePcs
<1>4. CASE Done(c)
  BY <1>4, StepDone DEF MatchInv, SideOps
<1>5. QED
  BY <1>2, <1>3, <1>4 DEF AfterClosing

LEMMA ClosesMatchInv ==
  ASSUME MatchInv, NEW c \in MatchCalls, CloseReads(c) \/ CloseSaves(c)
  PROVE  MatchInv'
<1>1. CASE CloseReads(c)
  <2>1. UNCHANGED <<interest, match, accepted, shunned, upset>> /\ step[c].pc = "close" /\ upset \in BOOLEAN
    BY <1>1 DEF CloseReads, Only, At, MatchInv, MatchTyped
  <2>2. CASE Matched /\ To(c, "unmatch")
    <3>1. match.status # "NONE"
      BY <2>2 DEF Matched
    <3>2. QED
      BY <2>1, <2>2, <3>1, GoesInv DEF Making, MatchPcs, SidePcs
  <2>3. CASE AfterClosing(c)
    BY <2>1, <2>3, AfterClosingGoes, MovesInv DEF Making, SidePcs
  <2>4. QED
    BY <1>1, <2>2, <2>3 DEF CloseReads
<1>2. CASE CloseSaves(c)
  <2>1. /\ step[c].pc = "unmatch" /\ UNCHANGED <<interest, accepted, shunned>>
        /\ match' = [match EXCEPT !.status = "UNMATCHED", !.chat = FALSE]
        /\ upset' = (upset \/ Mutual)
    BY <1>2 DEF CloseSaves, Only, At
  <2>2. match.status # "NONE"
    BY <2>1 DEF MatchInv, StepsKnown
  <2>3. /\ match' \in MatchRow /\ match'.status = "UNMATCHED" /\ match'.chat = FALSE
    BY <2>1 DEF MatchInv, MatchTyped, MatchRow
  <2>4. MatchTyped'
    BY <1>2, <2>1, <2>3, AfterClosingGoes DEF CloseSaves, MatchInv, MatchTyped
  <2>5. StepsKnown'
    BY <1>2, <2>1, <2>2, <2>3, AfterClosingGoes DEF CloseSaves, MatchInv, StepsKnown, SidePcs
  <2>6. MadeByBoth'
    BY <2>1, <2>2, <2>3 DEF MatchInv, MadeByBoth, Accepted
  <2>7. MatchAwaited'
    BY <2>1 DEF MatchAwaited, Mutual, Accepted
  <2>8. QED
    BY <2>4, <2>5, <2>6, <2>7 DEF MatchInv
<1>3. QED
  BY <1>1, <1>2

\* The match is made, or opened again, for two who have accepted.
LEMMA MakesMatchInv ==
  ASSUME MatchInv, NEW c \in MatchCalls, MatchCreates(c) \/ MatchReopens(c)
  PROVE  MatchInv'
<1>1. ASSUME Done(c), UNCHANGED <<interest, accepted, shunned>>, accepted = Sides,
             upset' = FALSE, match' \in MatchRow, match'.status = "ACTIVE"
      PROVE  MatchInv'
  <2>1. /\ step' \in [MatchCalls -> StepRecord]
        /\ step'[c].pc = "idle" /\ step'[c].op = "none"
        /\ \A b \in MatchCalls : b # c => step'[b] = step[b]
    BY <1>1, StepDone DEF MatchInv
  <2>2. MatchTyped'
    BY <1>1, <2>1 DEF MatchInv, MatchTyped
  <2>3. StepsKnown'
    BY <1>1, <2>1 DEF MatchInv, StepsKnown, SidePcs, SideOps
  <2>4. MadeByBoth' /\ MatchAwaited'
    BY <1>1 DEF MatchInv, MadeByBoth, MatchAwaited, Accepted, Matched
  <2>5. QED
    BY <2>2, <2>3, <2>4 DEF MatchInv
<1>2. CASE MatchReopens(c)
  <2>1. match.status # "NONE" /\ accepted = Sides
    BY <1>2 DEF MatchReopens, At, MatchInv, StepsKnown, MadeByBoth
  <2>2. match' \in MatchRow /\ match'.status = "ACTIVE"
    BY <1>2 DEF MatchReopens, MatchInv, MatchTyped, MatchRow
  <2>3. QED
    BY <1>1, <1>2, <2>1, <2>2 DEF MatchReopens, Only
<1>3. CASE MatchCreates(c)
  <2>1. step[c].pc = "create" /\ accepted = Sides /\ UNCHANGED <<interest, accepted, shunned>>
    BY <1>3 DEF MatchCreates, Only, At, MatchInv, StepsKnown
  <2>2. CASE match.status = "NONE"
    <3>1. match' \in MatchRow /\ match'.status = "ACTIVE" /\ upset' = FALSE /\ Done(c)
      <4>1. match' = [status |-> "ACTIVE", chat |-> TRUE, contact |-> FALSE]
            /\ upset' = FALSE /\ Done(c)
        BY <1>3, <2>2 DEF MatchCreates
      <4>2. QED
        BY <4>1 DEF MatchRow
    <3>2. QED
      BY <1>1, <2>1, <3>1
  <2>3. CASE match.status = "UNMATCHED"
    BY <1>3, <2>1, <2>3, GoesInv DEF MatchCreates, Making, MatchPcs, SidePcs
  <2>4. CASE match.status = "ACTIVE"
    <3>1. Done(c) /\ UNCHANGED <<match, upset>> /\ Matched /\ upset \in BOOLEAN
      BY <1>3, <2>4 DEF MatchCreates, Matched, MatchInv, MatchTyped
    <3>2. QED
      BY <2>1, <3>1, DoneInv
  <2>5. QED
    BY <2>2, <2>3, <2>4 DEF MatchInv, MatchTyped, MatchRow
<1>4. QED
  BY <1>2, <1>3

\* An acceptance is one of its recipient, and looks for the other one; every other save of an
\* interest leaves at most the other one accepted.
LEMMA AnswerSavesInv ==
  ASSUME MatchInv, NEW c \in MatchCalls, AnswerSaves(c)
  PROVE  MatchInv'
<1> DEFINE d == step[c].side
<1>1. /\ step[c].pc = "answer" /\ step[c].op \in SideOps /\ d \in Sides
      /\ UNCHANGED <<match, upset, shunned>>
  BY DEF AnswerSaves, Only, At, MatchInv, StepsKnown, SidePcs
<1>2. CASE Marks(d, "ACCEPTED") /\ accepted' = accepted \cup {d} /\ To(c, "mutual")
  <2>1. /\ step' \in [MatchCalls -> StepRecord]
        /\ step'[c].pc = "mutual" /\ step'[c].op = step[c].op /\ step'[c].side = d
        /\ \A b \in MatchCalls : b # c => step'[b] = step[b]
    BY <1>2, StepGoes DEF MatchInv, MatchPcs, SidePcs
  <2>2. /\ interest' \in [Sides -> InterestRow]
        /\ \A e \in Sides : e # d => interest'[e] = interest[e]
    BY <1>1, <1>2, Marked DEF MatchInv
  <2>3. MatchTyped'
    BY <1>1, <1>2, <2>1, <2>2 DEF MatchInv, MatchTyped
  <2>4. accepted \subseteq accepted' /\ accepted' \subseteq Sides
    BY <1>1, <1>2 DEF MatchInv, MatchTyped
  <2>5. StepsKnown'
    BY <1>1, <2>1, <2>4 DEF MatchInv, StepsKnown
  <2>6. MadeByBoth'
    BY <1>1, <1>2, <2>2, <2>4 DEF MatchInv, MadeByBoth, Accepted, Matched
  <2>7. MatchAwaited'
    BY <2>1 DEF MatchAwaited, Making
  <2>8. QED
    BY <2>3, <2>5, <2>6, <2>7 DEF MatchInv
<1>3. CASE Marks(d, "DECLINED") /\ To(c, "close") /\ UNCHANGED accepted
  <2>1. /\ step' \in [MatchCalls -> StepRecord]
        /\ step'[c].pc = "close" /\ step'[c].op = step[c].op /\ step'[c].side = d
        /\ \A b \in MatchCalls : b # c => step'[b] = step[b]
    BY <1>3, StepGoes DEF MatchInv, MatchPcs
  <2>2. /\ interest' \in [Sides -> InterestRow] /\ interest'[d].status = "DECLINED"
        /\ \A e \in Sides : e # d => interest'[e] = interest[e]
    BY <1>1, <1>3, Marked DEF MatchInv
  <2>3. MatchTyped' /\ StepsKnown' /\ MadeByBoth'
    BY <1>1, <1>3, <2>1, <2>2 DEF MatchInv, MatchTyped, StepsKnown, MadeByBoth, Accepted, Matched
  <2>4. MatchAwaited'
    BY <1>1, <2>2 DEF MatchAwaited, Mutual, Accepted
  <2>5. QED
    BY <2>3, <2>4 DEF MatchInv
<1>4. QED
  BY <1>2, <1>3 DEF AnswerSaves

\* An interest that is pending or withdrawn leaves no two accepted.
LEMMA UnacceptsInv ==
  ASSUME MatchInv, NEW c \in MatchCalls, NEW d \in Sides, NEW status \in {"PENDING", "WITHDRAWN"},
         Marks(d, status), UNCHANGED <<match, accepted, upset, shunned>>,
         \/ Done(c)
         \/ \E pc \in {"mutual1", "close"} : To(c, pc) /\ step[c].op \in SideOps
  PROVE  MatchInv'
<1>1. /\ step' \in [MatchCalls -> StepRecord]
      /\ step'[c].pc \in {"idle", "mutual1", "close"}
      /\ step'[c].pc \in SidePcs => step'[c].op \in SideOps
      /\ step'[c].op \in SideOps => step'[c].side \in Sides
      /\ \A b \in MatchCalls : b # c => step'[b] = step[b]
  <2>1. CASE Done(c)
    BY <2>1, StepDone DEF MatchInv, SidePcs, SideOps
  <2>2. ASSUME NEW pc \in {"mutual1", "close"}, To(c, pc), step[c].op \in SideOps
        PROVE  /\ step' \in [MatchCalls -> StepRecord]
               /\ step'[c].pc \in {"idle", "mutual1", "close"}
               /\ step'[c].op \in SideOps /\ step'[c].side \in Sides
               /\ \A b \in MatchCalls : b # c => step'[b] = step[b]
    BY <2>2, StepGoes DEF MatchInv, StepsKnown, MatchPcs, SidePcs
  <2>3. QED
    BY <2>1, <2>2
<1>2. /\ interest' \in [Sides -> InterestRow] /\ interest'[d].status # "ACCEPTED"
      /\ \A e \in Sides : e # d => interest'[e] = interest[e]
  BY Marked DEF MatchInv
<1>3. MatchTyped'
  BY <1>1, <1>2 DEF MatchInv, MatchTyped
<1>4. StepsKnown'
  BY <1>1 DEF MatchInv, StepsKnown
<1>5. MadeByBoth'
  BY <1>2 DEF MatchInv, MadeByBoth, Accepted, Matched
<1>6. MatchAwaited'
  BY <1>2 DEF MatchAwaited, Mutual, Accepted
<1>7. QED
  BY <1>3, <1>4, <1>5, <1>6 DEF MatchInv

LEMMA SavesInv ==
  ASSUME MatchInv, NEW c \in MatchCalls,
         SendSaves(c) \/ WithdrawSaves(c) \/ ReverseReads(c) \/ ReverseSaves(c)
  PROVE  MatchInv'
<1> DEFINE d == step[c].side
<1>1. /\ step[c].pc \in {"send", "withdraw", "reverse", "reverseSave"}
      /\ step[c].op \in SideOps /\ d \in Sides /\ Back(d) \in Sides
      /\ UNCHANGED <<match, accepted, upset, shunned>> /\ upset \in BOOLEAN
  <2>1. /\ step[c].pc \in {"send", "withdraw", "reverse", "reverseSave"}
        /\ UNCHANGED <<match, accepted, upset, shunned>>
    BY DEF SendSaves, WithdrawSaves, ReverseReads, ReverseSaves, Only, At
  <2>2. step[c].op \in SideOps /\ d \in Sides /\ upset \in BOOLEAN
    BY <2>1 DEF MatchInv, MatchTyped, StepsKnown, SidePcs
  <2>3. QED
    BY <2>1, <2>2, TwoSides
<1>2. CASE Done(c) /\ UNCHANGED interest
  BY <1>1, <1>2, DoneInv DEF Making
<1>3. CASE Marks(d, "PENDING") /\ To(c, "mutual1")
  BY <1>1, <1>3, UnacceptsInv
<1>4. CASE Marks(d, "WITHDRAWN") /\ (To(c, "close") \/ Done(c))
  BY <1>1, <1>4, UnacceptsInv
<1>5. CASE Marks(Back(d), "WITHDRAWN") /\ Done(c)
  BY <1>1, <1>5, UnacceptsInv
<1>6. CASE To(c, "reverseSave") /\ UNCHANGED interest
  BY <1>1, <1>6, GoesInv DEF Making, MatchPcs, SidePcs
<1>7. QED
  BY <1>2, <1>3, <1>4, <1>5, <1>6 DEF SendSaves, WithdrawSaves, ReverseReads, ReverseSaves, Only

LEMMA RemoveWithdrawsInv ==
  ASSUME MatchInv, NEW c \in MatchCalls, RemoveWithdraws(c)
  PROVE  MatchInv'
<1>1. UNCHANGED <<match, accepted, upset, shunned>> /\ Done(c) /\ step[c].pc = "both"
  BY DEF RemoveWithdraws, Only, At
<1>2. /\ step' \in [MatchCalls -> StepRecord]
      /\ step'[c].pc = "idle" /\ step'[c].op = "none"
      /\ \A b \in MatchCalls : b # c => step'[b] = step[b]
  BY <1>1, StepDone DEF MatchInv
<1>3. /\ interest' \in [Sides -> InterestRow]
      /\ \A d \in Sides : interest'[d].status # "ACCEPTED"
  <2>1. [status |-> "WITHDRAWN", cooled |-> FALSE] \in InterestRow
    BY DEF InterestRow
  <2>2. QED
    BY <2>1 DEF RemoveWithdraws, MatchInv, MatchTyped, Accepted
<1>4. MatchTyped' /\ StepsKnown'
  BY <1>1, <1>2, <1>3 DEF MatchInv, MatchTyped, StepsKnown, SidePcs, SideOps
<1>5. MadeByBoth'
  BY <1>1, <1>3 DEF MatchInv, MadeByBoth, Accepted, Matched
<1>6. MatchAwaited'
  <2>1. Mutual' => Mutual
    BY <1>3 DEF Mutual, Accepted
  <2>2. \A b \in MatchCalls : step[b].pc \in Making => step'[b].pc \in Making
    BY <1>1, <1>2 DEF Making
  <2>3. QED
    BY <1>1, <2>1, <2>2 DEF MatchInv, MatchAwaited, Matched
<1>7. QED
  BY <1>4, <1>5, <1>6 DEF MatchInv

\* A contact is revealed of a match that exists, which blocks, their end and time do not undo.
LEMMA RevealSavesInv ==
  ASSUME MatchInv, NEW c \in MatchCalls, RevealSaves(c)
  PROVE  MatchInv'
<1>1. /\ step[c].pc = "reveal" /\ UNCHANGED <<interest, accepted, upset, shunned>> /\ Done(c)
      /\ match' = [match EXCEPT !.contact = TRUE]
  BY DEF RevealSaves, Only, At
<1>2. match.status # "NONE"
  BY <1>1 DEF MatchInv, StepsKnown
<1>3. /\ step' \in [MatchCalls -> StepRecord]
      /\ step'[c].pc = "idle" /\ step'[c].op = "none"
      /\ \A b \in MatchCalls : b # c => step'[b] = step[b]
  BY <1>1, StepDone DEF MatchInv
<1>4. match' \in MatchRow /\ match'.status = match.status /\ match'.chat = match.chat
  BY <1>1 DEF MatchInv, MatchTyped, MatchRow
<1>5. MatchTyped' /\ StepsKnown'
  BY <1>1, <1>3, <1>4 DEF MatchInv, MatchTyped, StepsKnown, SidePcs, SideOps
<1>6. MadeByBoth'
  BY <1>1, <1>2, <1>4 DEF MatchInv, MadeByBoth, Accepted, Matched
<1>7. MatchAwaited'
  <2>1. \A b \in MatchCalls : step[b].pc \in Making => step'[b].pc \in Making
    BY <1>1, <1>3 DEF Making
  <2>2. QED
    BY <1>1, <1>4, <2>1 DEF MatchInv, MatchAwaited, Mutual, Accepted, Matched
<1>8. QED
  BY <1>5, <1>6, <1>7 DEF MatchInv

LEMMA BesideInv ==
  ASSUME MatchInv, NEW d \in Sides, Shun(d) \/ Unshun(d) \/ DeclineCools(d)
  PROVE  MatchInv'
<1>1. step' = step /\ accepted' = accepted /\ shunned' \subseteq Sides
  <2>1. shunned \subseteq Sides
    BY DEF MatchInv, MatchTyped
  <2>2. QED
    BY <2>1 DEF Shun, Unshun, DeclineCools
<1>2. /\ interest' \in [Sides -> InterestRow]
      /\ \A e \in Sides : interest'[e].status = interest[e].status
  <2>1. CASE Shun(d) \/ Unshun(d)
    BY <2>1 DEF Shun, Unshun, MatchInv, MatchTyped
  <2>2. CASE DeclineCools(d)
    <3>1. interest' = [interest EXCEPT ![d].cooled = TRUE]
      BY <2>2 DEF DeclineCools
    <3>2. QED
      BY <3>1 DEF MatchInv, MatchTyped, InterestRow
  <2>3. QED
    BY <2>1, <2>2
<1>3. /\ match' \in MatchRow
      /\ match.status # "NONE" => match'.status # "NONE"
      /\ match'.status # "NONE" => match.status # "NONE"
      /\ match'.contact = match.contact
      /\ upset' \in BOOLEAN
      /\ match'.status = "ACTIVE" \/ (match' = match /\ upset' = upset)
  <2>1. CASE Shun(d) \/ DeclineCools(d)
    BY <2>1 DEF Shun, DeclineCools, MatchInv, MatchTyped
  <2>2. CASE Unshun(d)
    <3>1. CASE match.status = "UNMATCHED"
      <4>1. match' = [match EXCEPT !.status = "ACTIVE", !.chat = TRUE]
        BY <2>2, <3>1 DEF Unshun, Restored
      <4>2. /\ match' \in MatchRow /\ match'.status = "ACTIVE" /\ match'.contact = match.contact
        BY <4>1 DEF MatchInv, MatchTyped, MatchRow
      <4>3. match' # match
        BY <3>1, <4>2
      <4>4. QED
        BY <2>2, <3>1, <4>2, <4>3 DEF Unshun
    <3>2. CASE match.status # "UNMATCHED"
      <4>1. match' = match
        BY <2>2, <3>2 DEF Unshun, Restored
      <4>2. upset' = upset
        BY <2>2, <4>1 DEF Unshun
      <4>3. QED
        BY <4>1, <4>2 DEF MatchInv, MatchTyped
    <3>3. QED
      BY <3>1, <3>2
  <2>3. QED
    BY <2>1, <2>2
<1>4. MatchTyped' /\ StepsKnown'
  BY <1>1, <1>2, <1>3 DEF MatchInv, MatchTyped, StepsKnown
<1>5. MadeByBoth'
  BY <1>1, <1>2, <1>3 DEF MatchInv, MadeByBoth, Accepted, Matched
<1>6. MatchAwaited'
  BY <1>1, <1>2, <1>3 DEF MatchInv, MatchAwaited, Mutual, Accepted, Matched
<1>7. QED
  BY <1>4, <1>5, <1>6 DEF MatchInv

LEMMA MatchNextInv == MatchInv /\ [MatchesNext]_matchVars => MatchInv'
<1> SUFFICES ASSUME MatchInv, [MatchesNext]_matchVars PROVE MatchInv'
  OBVIOUS
<1>1. ASSUME NEW c \in MatchCalls, MatchCallDies(c) PROVE MatchInv'
  BY <1>1, DoneInv DEF MatchCallDies, Only
<1>2. ASSUME NEW c \in MatchCalls,
             \/ \E d \in Sides :
                   \/ SendBegins(c, d) \/ WithdrawBegins(c, d)
                   \/ AnswerBegins(c, d, "accept") \/ AnswerBegins(c, d, "decline")
             \/ RemoveBegins(c) \/ RevealBegins(c)
             \/ SendSaves(c) \/ MutualReads(c) \/ MatchCreates(c) \/ MatchReopens(c)
             \/ AnswerSaves(c) \/ WithdrawSaves(c)
             \/ CloseReads(c) \/ CloseSaves(c) \/ ReverseReads(c) \/ ReverseSaves(c)
             \/ RemoveWithdraws(c) \/ RevealSaves(c) \/ MatchCallDies(c)
      PROVE  MatchInv'
  BY <1>1, <1>2, BeginsMatchInv, MutualReadsInv, ClosesMatchInv, MakesMatchInv, AnswerSavesInv,
     SavesInv, RemoveWithdrawsInv, RevealSavesInv
<1>3. CASE UNCHANGED matchVars
  BY <1>3 DEF matchVars, MatchInv, MatchTyped, StepsKnown, MadeByBoth, MatchAwaited, Mutual, Accepted, Matched
<1>4. QED
  BY <1>2, <1>3, BesideInv DEF MatchesNext

THEOREM MatchesInvariant == MatchesSpec => []MatchInv
BY MatchInitInv, MatchNextInv, PTL DEF MatchesSpec

\* Every variable keeps its type, and chat is open in a match only.
THEOREM MatchesTypes == MatchesSpec => []MatchesTypeOK
<1>1. MatchInv => MatchesTypeOK
  BY DEF MatchInv, MatchTyped, InterestRow, MatchRow, MadeByBoth, MatchesTypeOK
<1>2. QED
  BY <1>1, MatchesInvariant, PTL

\* Members are matched, chat or see a contact only if each has accepted the other, whatever number
\* of requests cross.
THEOREM MatchNeedsBoth == MatchesSpec => []MatchedByBoth
<1>1. MatchInv => MatchedByBoth
  BY DEF MatchInv, MadeByBoth, MatchedByBoth
<1>2. QED
  BY <1>1, MatchesInvariant, PTL

\* Two acceptances that cross do make the match.
THEOREM CrossingAcceptancesMatch == MatchesSpec => []AcceptedIsMatched
<1>1. MatchInv => AcceptedIsMatched
  BY DEF MatchInv, MatchAwaited, Making, AcceptedIsMatched, At
<1>2. QED
  BY <1>1, MatchesInvariant, PTL

-----------------------------------------------------------------------------
(***************************************************************************)
(* Billing: orders                                                         *)
(***************************************************************************)
OrdersTyped ==
    /\ purchase \in [Purchases -> {"NONE", "CREATED", "FAILED", "PAID"}]
    /\ purpose \in [Purchases -> Purposes \cup {Unset}]
    /\ captured \subseteq Purchases /\ stale \subseteq Purchases
    /\ failing \subseteq Purchases /\ unsubscribing \subseteq Purchases
    /\ grants \in [Purchases -> 0 .. MaxGrants]
    /\ superseding \in [wants : Purposes \cup {Unset}, rows : SUBSET Purchases]

\* An order that is to be saved FAILED exists.
OrdersKnown ==
    /\ \A o \in Purchases : purpose[o] = Unset <=> purchase[o] = "NONE"
    /\ \A o \in superseding.rows \cup failing : purchase[o] # "NONE"

\* What was fulfilled is PAID, or was overwritten.
FulfilledIsPaid == \A o \in Purchases : grants[o] > 0 => purchase[o] = "PAID" \/ o \in stale

OrderInv == OrdersTyped /\ OrdersKnown /\ FulfilledIsPaid /\ GrantedOnceUnlessStale

LEMMA OrderInitInv == BillingInit => OrderInv
<1> SUFFICES ASSUME BillingInit PROVE OrderInv
  OBVIOUS
<1>1. NoCheckout \in [wants : Purposes \cup {Unset}, rows : SUBSET Purchases] /\ NoCheckout.rows = {}
  BY DEF NoCheckout
<1>2. OrdersTyped
  BY <1>1, BillingAssumption DEF BillingInit, OrdersTyped
<1>3. OrdersKnown /\ FulfilledIsPaid /\ GrantedOnceUnlessStale
  BY <1>1 DEF BillingInit, OrdersKnown, FulfilledIsPaid, GrantedOnceUnlessStale
<1>4. QED
  BY <1>2, <1>3 DEF OrderInv

\* What saves no order, opens none and fulfils none.
LEMMA OrdersKept ==
  ASSUME OrderInv, UNCHANGED <<purchase, purpose, grants, stale>>,
         captured' \subseteq Purchases, unsubscribing' \subseteq Purchases,
         failing' \subseteq Purchases,
         superseding' \in [wants : Purposes \cup {Unset}, rows : SUBSET Purchases],
         \A o \in superseding'.rows \cup failing' : purchase[o] # "NONE"
  PROVE  OrderInv'
<1>1. OrdersTyped'
  BY DEF OrderInv, OrdersTyped
<1>2. OrdersKnown' /\ FulfilledIsPaid' /\ GrantedOnceUnlessStale'
  BY DEF OrderInv, OrdersKnown, FulfilledIsPaid, GrantedOnceUnlessStale
<1>3. QED
  BY <1>1, <1>2 DEF OrderInv

\* An order that is saved FAILED over PAID is remembered.
LEMMA SavesFailedInv ==
  ASSUME OrderInv, NEW o \in superseding.rows \cup failing, SavesFailed(o),
         UNCHANGED <<purpose, captured, grants, unsubscribing>>,
         failing' \subseteq failing,
         superseding' \in [wants : Purposes \cup {Unset}, rows : SUBSET Purchases],
         superseding'.rows \subseteq superseding.rows
  PROVE  OrderInv'
<1>1. o \in Purchases /\ purchase[o] # "NONE"
  BY DEF OrderInv, OrdersTyped, OrdersKnown
<1>2. /\ purchase' \in [Purchases -> {"NONE", "CREATED", "FAILED", "PAID"}]
      /\ purchase'[o] = "FAILED"
      /\ \A p \in Purchases : p # o => purchase'[p] = purchase[p]
      /\ stale' \subseteq Purchases /\ stale \subseteq stale'
      /\ purchase[o] = "PAID" => o \in stale'
  BY <1>1 DEF OrderInv, OrdersTyped, SavesFailed
<1>3. OrdersTyped'
  BY <1>2 DEF OrderInv, OrdersTyped
<1>4. OrdersKnown'
  <2>1. \A p \in superseding'.rows \cup failing' : p \in Purchases /\ purchase[p] # "NONE"
    BY DEF OrderInv, OrdersTyped, OrdersKnown
  <2>2. \A p \in Purchases : purchase'[p] = "NONE" <=> purchase[p] = "NONE"
    BY <1>1, <1>2
  <2>3. QED
    BY <2>1, <2>2 DEF OrderInv, OrdersKnown
<1>5. FulfilledIsPaid' /\ GrantedOnceUnlessStale'
  BY <1>1, <1>2 DEF OrderInv, FulfilledIsPaid, GrantedOnceUnlessStale
<1>6. QED
  BY <1>3, <1>4, <1>5 DEF OrderInv

LEMMA OpenPurchaseInv ==
  ASSUME OrderInv, OpenPurchase
  PROVE  OrderInv'
<1> PICK o \in Purchases :
        /\ purchase[o] = "NONE"
        /\ purchase' = [purchase EXCEPT ![o] = "CREATED"]
        /\ purpose' = [purpose EXCEPT ![o] = superseding.wants]
  BY DEF OpenPurchase
<1>1. /\ superseding.wants # Unset /\ superseding.wants \in Purposes \cup {Unset}
      /\ UNCHANGED <<captured, grants, stale, failing, unsubscribing>>
      /\ superseding' = NoCheckout
  BY DEF OpenPurchase, handVars, OrderInv, OrdersTyped
<1>2. NoCheckout \in [wants : Purposes \cup {Unset}, rows : SUBSET Purchases] /\ NoCheckout.rows = {}
  BY DEF NoCheckout
<1>3. OrdersTyped'
  BY <1>1, <1>2 DEF OrderInv, OrdersTyped
<1>4. OrdersKnown'
  BY <1>1, <1>2 DEF OrderInv, OrdersTyped, OrdersKnown
<1>5. FulfilledIsPaid' /\ GrantedOnceUnlessStale'
  BY <1>1 DEF OrderInv, OrdersTyped, FulfilledIsPaid, GrantedOnceUnlessStale
<1>6. QED
  BY <1>3, <1>4, <1>5 DEF OrderInv

\* Only an order that is not PAID is fulfilled: the first time, or again after it was overwritten.
LEMMA FulfilInv ==
  ASSUME OrderInv, NEW o \in Purchases, Fulfil(o)
  PROVE  OrderInv'
<1>1. /\ purchase[o] # "PAID" /\ purchase[o] # "NONE" /\ grants[o] < MaxGrants
      /\ purchase' = [purchase EXCEPT ![o] = "PAID"]
      /\ grants' = [grants EXCEPT ![o] = @ + 1]
      /\ UNCHANGED <<purpose, captured, stale, superseding, failing, unsubscribing>>
  BY DEF Fulfil, PaidBefore, handVars
<1>2. MaxGrants \in Nat /\ grants[o] \in Nat
  BY BillingAssumption DEF OrderInv, OrdersTyped
<1>3. OrdersTyped'
  BY <1>1, <1>2 DEF OrderInv, OrdersTyped
<1>4. OrdersKnown'
  BY <1>1 DEF OrderInv, OrdersTyped, OrdersKnown
<1>5. FulfilledIsPaid'
  BY <1>1 DEF OrderInv, OrdersTyped, FulfilledIsPaid
<1>6. GrantedOnceUnlessStale'
  <2>1. grants[o] > 0 => o \in stale
    BY <1>1 DEF OrderInv, FulfilledIsPaid
  <2>2. grants'[o] = grants[o] + 1 /\ \A p \in Purchases : p # o => grants'[p] = grants[p]
    BY <1>1 DEF OrderInv, OrdersTyped
  <2>3. QED
    BY <1>1, <1>2, <2>1, <2>2 DEF OrderInv, GrantedOnceUnlessStale
<1>7. QED
  BY <1>3, <1>4, <1>5, <1>6 DEF OrderInv

LEMMA OrderStepsInv ==
  ASSUME OrderInv, OrderSteps
  PROVE  OrderInv'
<1>1. ASSUME NEW k \in Purposes, CheckoutReads(k) PROVE OrderInv'
  <2>1. superseding' = [wants |-> k, rows |-> {o \in Purchases : purchase[o] = "CREATED" /\ purpose[o] = k}]
        /\ UNCHANGED <<purchase, purpose, captured, grants, stale, failing, unsubscribing>>
    BY <1>1 DEF CheckoutReads, orderVars
  <2>2. QED
    BY <2>1, OrdersKept DEF OrderInv, OrdersTyped, OrdersKnown
<1>2. CASE Supersede
  <2> PICK o \in superseding.rows :
          SavesFailed(o) /\ superseding' = [superseding EXCEPT !.rows = @ \ {o}]
    BY <1>2 DEF Supersede
  <2>1. UNCHANGED <<purpose, captured, grants, failing, unsubscribing>>
    BY <1>2 DEF Supersede
  <2>2. /\ superseding' \in [wants : Purposes \cup {Unset}, rows : SUBSET Purchases]
        /\ superseding'.rows \subseteq superseding.rows
    BY DEF OrderInv, OrdersTyped
  <2>3. QED
    BY <2>1, <2>2, SavesFailedInv
<1>3. CASE OpenPurchase
  BY <1>3, OpenPurchaseInv
<1>4. CASE CheckoutDies
  <2>1. /\ superseding' = NoCheckout
        /\ UNCHANGED <<purchase, purpose, captured, grants, stale, failing, unsubscribing>>
    BY <1>4 DEF CheckoutDies, orderVars
  <2>2. NoCheckout \in [wants : Purposes \cup {Unset}, rows : SUBSET Purchases] /\ NoCheckout.rows = {}
    BY DEF NoCheckout
  <2>3. QED
    BY <2>1, <2>2, OrdersKept DEF OrderInv, OrdersTyped, OrdersKnown
<1>5. ASSUME NEW o \in Purchases,
             \/ GatewayCaptures(o) \/ GatewayFails(o) \/ FailedEvent(o) \/ FailDies(o) \/ FulfilAgain(o)
      PROVE  OrderInv'
  <2>1. /\ UNCHANGED <<purchase, purpose, grants, stale, superseding, unsubscribing>>
        /\ captured' \in {captured, captured \cup {o}}
        /\ failing' \subseteq failing \/ (purchase[o] = "CREATED" /\ failing' = failing \cup {o})
    BY <1>5 DEF GatewayCaptures, GatewayFails, FailedEvent, FailDies, FulfilAgain, orderVars, handVars
  <2>2. QED
    BY <2>1, OrdersKept DEF OrderInv, OrdersTyped, OrdersKnown
<1>6. ASSUME NEW o \in Purchases, FailSaves(o) PROVE OrderInv'
  <2>1. /\ SavesFailed(o) /\ o \in failing /\ failing' = failing \ {o}
        /\ UNCHANGED <<purpose, captured, grants, superseding, unsubscribing>>
    BY <1>6 DEF FailSaves
  <2>2. superseding \in [wants : Purposes \cup {Unset}, rows : SUBSET Purchases]
    BY DEF OrderInv, OrdersTyped
  <2>3. QED
    BY <2>1, <2>2, SavesFailedInv
<1>7. ASSUME NEW o \in Purchases, Fulfil(o) PROVE OrderInv'
  BY <1>7, FulfilInv
<1>8. QED
  BY <1>1, <1>2, <1>3, <1>4, <1>5, <1>6, <1>7 DEF OrderSteps

\* Administrators, time and the job save no order.
LEMMA PlanStepsKeepOrders ==
  ASSUME OrderInv, PlanSteps
  PROVE  OrderInv' /\ UNCHANGED <<purchase, captured, grants>>
<1>1. /\ UNCHANGED <<purchase, purpose, captured, grants, stale, superseding, failing>>
      /\ unsubscribing' \subseteq unsubscribing \/ \E o \in Purchases : unsubscribing' = unsubscribing \cup {o}
  BY DEF PlanSteps, orderVars, handVars, RefundNoted, RefundCancels, AdminGrantEnds, AdminGrantCreates,
         AdminExtendSaves, AdminExtendDies, AdminExtendReads, AdminCancels, Lapses, JobExpires,
         JobQueries, JobAborts
<1>2. QED
  BY <1>1, OrdersKept DEF OrderInv, OrdersTyped, OrdersKnown

LEMMA OrderNextInv == OrderInv /\ [BillingNext]_billVars => OrderInv'
<1> SUFFICES ASSUME OrderInv, [BillingNext]_billVars PROVE OrderInv'
  OBVIOUS
<1>1. CASE UNCHANGED billVars
  <2>1. UNCHANGED <<purchase, purpose, captured, grants, stale, superseding, failing, unsubscribing>>
    BY <1>1 DEF billVars, orderVars, handVars
  <2>2. QED
    BY <2>1, OrdersKept DEF OrderInv, OrdersTyped, OrdersKnown
<1>2. QED
  BY <1>1, OrderStepsInv, PlanStepsKeepOrders DEF BillingNext

THEOREM OrdersInvariant == BillingSpec => []OrderInv
BY OrderInitInv, OrderNextInv, PTL DEF BillingSpec

\* What was paid for is given once, however often it is announced, unless a failure or a checkout
\* that read the order before it was paid saved FAILED over PAID.
THEOREM GrantedOnce == BillingSpec => []GrantedOnceUnlessStale
<1>1. OrderInv => GrantedOnceUnlessStale
  BY DEF OrderInv
<1>2. QED
  BY <1>1, OrdersInvariant, PTL

-----------------------------------------------------------------------------
(***************************************************************************)
(* Billing implements PaymentAccounting                                    *)
(***************************************************************************)
Money == [o \in Purchases |-> IF o \in captured THEN "captured" ELSE "none"]
Booked == {o \in Purchases : grants[o] > 0}

LEMMA BillingAccountingStep ==
  ASSUME OrderInv, [BillingNext]_billVars
  PROVE  [Accounting!Next]_(Accounting!vars)
<1>1. ASSUME UNCHANGED <<captured, grants>> PROVE UNCHANGED Accounting!vars
  BY <1>1 DEF Accounting!vars
<1>2. ASSUME NEW o \in Purchases, GatewayCaptures(o) PROVE Accounting!Capture(o)
  BY <1>2 DEF GatewayCaptures, Accounting!Capture
<1>3. ASSUME NEW o \in Purchases, Fulfil(o)
      PROVE  Accounting!Book(o) \/ UNCHANGED Accounting!vars
  <2>1. /\ grants' = [grants EXCEPT ![o] = @ + 1] /\ captured' = captured /\ o \in captured
        /\ grants[o] \in Nat
    BY <1>3 DEF Fulfil, MoneyIsThere, OrderInv, OrdersTyped
  <2>2. Money[o] = "captured" /\ Money' = Money
    BY <2>1 DEF Money
  <2>3. Booked' = Booked \cup {o}
    BY <2>1 DEF Booked, OrderInv, OrdersTyped
  <2>4. CASE o \in Booked
    BY <2>2, <2>3, <2>4 DEF Accounting!vars, Money, Booked
  <2>5. CASE o \notin Booked
    BY <2>2, <2>3, <2>5 DEF Accounting!Book, Money, Booked
  <2>6. QED
    BY <2>4, <2>5
<1>4. CASE PlanSteps
  BY <1>1, <1>4, PlanStepsKeepOrders
<1>5. CASE OrderSteps
  <2>1. ASSUME NEW o \in Purchases, GatewayFails(o) \/ FailedEvent(o) \/ FailSaves(o) \/ FailDies(o) \/ FulfilAgain(o)
        PROVE  UNCHANGED <<captured, grants>>
    BY <2>1 DEF GatewayFails, FailedEvent, FailSaves, FailDies, FulfilAgain, orderVars
  <2>2. ASSUME \/ \E k \in Purposes : CheckoutReads(k)
               \/ Supersede \/ OpenPurchase \/ CheckoutDies
        PROVE  UNCHANGED <<captured, grants>>
    BY <2>2 DEF CheckoutReads, Supersede, OpenPurchase, CheckoutDies, orderVars
  <2>3. QED
    BY <1>1, <1>2, <1>3, <1>5, <2>1, <2>2 DEF OrderSteps, Accounting!Next
<1>6. CASE UNCHANGED billVars
  BY <1>1, <1>6 DEF billVars, orderVars
<1>7. QED
  BY <1>4, <1>5, <1>6 DEF BillingNext

\* The older ledger keeps the promise of the central one: only captured money is booked, and what
\* is booked stays booked.
THEOREM BillingImplementsAccounting == BillingSpec => BillingAccounting
<1>1. BillingInit => Accounting!Init
  BY DEF BillingInit, Accounting!Init
<1>2. QED
  BY <1>1, OrdersInvariant, BillingAccountingStep, PTL DEF BillingSpec, BillingAccounting, Accounting!Spec

-----------------------------------------------------------------------------
(***************************************************************************)
(* Billing: subscriptions                                                  *)
(***************************************************************************)
SubStatuses == {"NONE", "ACTIVE", "EXPIRED", "CANCELLED"}
SubRow == [status : SubStatuses, order : Purchases \cup {Unset}, due : BOOLEAN, rank : Nat]

PlansTyped ==
    /\ subs \in [Subs -> SubRow]
    /\ granting \in BOOLEAN
    /\ expiring \subseteq Subs /\ overtaken \subseteq Subs
    /\ extending = {} \/ \E s \in Subs, status \in SubStatuses : extending = {<<s, status>>}

\* Rows are ranked in the order they were made; the next one ranks after all of them.  What is not
\* made is of no order.
Made == {s \in Subs : subs[s].status # "NONE"}
Ranked ==
    \A s \in Subs : /\ subs[s].rank <= Cardinality(Made)
                    /\ subs[s].status = "NONE" => subs[s].rank = 0 /\ subs[s].order = Unset

\* A row an administrator extends exists; one the job has in hand is due, or was extended since.
HandsKnown ==
    /\ \A x \in extending : subs[x[1]].status # "NONE"
    /\ \A s \in expiring : subs[s].status # "NONE" /\ (subs[s].due \/ s \in overtaken)

PlanInv == PlansTyped /\ Ranked /\ HandsKnown /\ LiveUnlessReplaced

LEMMA MadeFinite == IsFiniteSet(Made) /\ Cardinality(Made) \in Nat
<1>1. Made \in SUBSET Subs /\ IsFiniteSet(Subs)
  BY BillingAssumption DEF Made
<1>2. QED
  BY <1>1, FS_Subset, FS_CardinalityType

LEMMA NoSubTyped ==
  NoSub \in SubRow /\ NoSub.status = "NONE" /\ NoSub.rank = 0 /\ NoSub.order = Unset
BY DEF NoSub, SubRow, SubStatuses

LEMMA PlanInitInv == BillingInit => PlanInv
<1> SUFFICES ASSUME BillingInit PROVE PlanInv
  OBVIOUS
<1>1. PlansTyped
  BY NoSubTyped DEF BillingInit, PlansTyped
<1>2. Ranked
  BY NoSubTyped, MadeFinite DEF BillingInit, Ranked
<1>3. HandsKnown /\ LiveUnlessReplaced
  BY NoSubTyped DEF BillingInit, HandsKnown, LiveUnlessReplaced
<1>4. QED
  BY <1>1, <1>2, <1>3 DEF PlanInv

\* Rows are neither made nor given a rank: what is left to show is who is due and who is in hand.
LEMMA RowsKeptInv ==
  ASSUME PlanInv, subs' \in [Subs -> SubRow],
         \A s \in Subs : /\ subs'[s].rank = subs[s].rank /\ subs'[s].order = subs[s].order
                         /\ subs'[s].status = "NONE" <=> subs[s].status = "NONE"
                         /\ subs'[s].status = "EXPIRED" /\ ~subs'[s].due =>
                               \/ subs[s].status = "EXPIRED" /\ ~subs[s].due /\ (granting => granting')
                                  /\ (s \in overtaken => s \in overtaken')
                               \/ s \in overtaken' \/ granting',
         granting' \in BOOLEAN, expiring' \subseteq Subs, overtaken' \subseteq Subs,
         extending' = extending \/ extending' = {}
            \/ \E s \in Made : extending' = {<<s, subs[s].status>>},
         \A s \in expiring' : subs'[s].status # "NONE" /\ (subs'[s].due \/ s \in overtaken')
  PROVE  PlanInv'
<1>1. PlansTyped'
  <2>1. \A s \in Made : s \in Subs /\ subs[s].status \in SubStatuses
    BY DEF Made, PlanInv, PlansTyped, SubRow
  <2>2. QED
    BY <2>1 DEF PlanInv, PlansTyped
<1>2. Made' = Made
  BY DEF Made
<1>3. Ranked'
  BY <1>2 DEF PlanInv, Ranked
<1>4. HandsKnown'
  <2>1. \A x \in extending' : x[1] \in Subs /\ subs[x[1]].status # "NONE"
    BY DEF PlanInv, PlansTyped, HandsKnown, Made
  <2>2. QED
    BY <2>1 DEF HandsKnown
<1>5. LiveUnlessReplaced'
  BY DEF PlanInv, LiveUnlessReplaced
<1>6. QED
  BY <1>1, <1>3, <1>4, <1>5 DEF PlanInv

\* A new row ranks after all others, so whatever it replaces may end.
LEMMA MadeInv ==
  ASSUME PlanInv, NEW s \in Subs, subs[s].status = "NONE", subs' \in [Subs -> SubRow],
         subs'[s].status = "ACTIVE", subs'[s].rank = Cardinality(Made) + 1,
         \A t \in Subs : t # s => /\ subs'[t].rank = subs[t].rank
                                  /\ subs'[t].order = subs[t].order /\ subs'[t].due = subs[t].due
                                  /\ subs'[t].status = "NONE" <=> subs[t].status = "NONE",
         granting' \in BOOLEAN, UNCHANGED <<extending, expiring, overtaken>>
  PROVE  PlanInv'
<1>1. PlansTyped'
  BY DEF PlanInv, PlansTyped
<1>2. Made' = Made \cup {s} /\ s \notin Made
  BY DEF Made
<1>3. Cardinality(Made') = Cardinality(Made) + 1 /\ Cardinality(Made) \in Nat
  BY <1>2, MadeFinite, FS_AddElement
<1>4. \A t \in Subs : subs[t].rank \in Nat /\ subs[t].rank <= Cardinality(Made)
  BY DEF PlanInv, PlansTyped, SubRow, Ranked
<1>5. Ranked'
  <2> SUFFICES ASSUME NEW t \in Subs
               PROVE  /\ subs'[t].rank <= Cardinality(Made')
                      /\ subs'[t].status = "NONE" => subs'[t].rank = 0 /\ subs'[t].order = Unset
    BY DEF Ranked
  <2>1. CASE t = s
    BY <1>3, <2>1
  <2>2. CASE t # s
    BY <1>3, <1>4, <2>2 DEF PlanInv, Ranked
  <2>3. QED
    BY <2>1, <2>2
<1>6. HandsKnown'
  <2>1. \A x \in extending : x[1] \in Subs /\ x[1] # s
    BY DEF PlanInv, PlansTyped, HandsKnown
  <2>2. \A t \in expiring : t \in Subs /\ t # s
    BY DEF PlanInv, PlansTyped, HandsKnown
  <2>3. QED
    BY <2>1, <2>2 DEF PlanInv, HandsKnown
<1>7. LiveUnlessReplaced'
  <2>1. \A t \in Subs : subs'[t].status = "EXPIRED" => subs'[s].rank > subs'[t].rank
    BY <1>3, <1>4
  <2>2. QED
    BY <2>1 DEF LiveUnlessReplaced
<1>8. QED
  BY <1>1, <1>5, <1>6, <1>7 DEF PlanInv

LEMMA EndsActive ==
  ASSUME PlansTyped, NEW t \in Subs
  PROVE  /\ [subs[t] EXCEPT !.status = "EXPIRED"] \in SubRow
         /\ [subs[t] EXCEPT !.status = "EXPIRED"].status = "EXPIRED"
         /\ [subs[t] EXCEPT !.status = "EXPIRED"].rank = subs[t].rank
         /\ [subs[t] EXCEPT !.status = "EXPIRED"].order = subs[t].order
         /\ [subs[t] EXCEPT !.status = "EXPIRED"].due = subs[t].due
BY DEF PlansTyped, SubRow, SubStatuses

LEMMA NewSubInv ==
  ASSUME PlanInv, NEW s \in Subs, NEW o \in Purchases, NewSub(s, o),
         UNCHANGED <<granting, extending, expiring, overtaken>>
  PROVE  PlanInv'
<1> DEFINE new == [status |-> "ACTIVE", order |-> o, due |-> FALSE, rank |-> Cardinality(Made) + 1]
<1>1. new \in SubRow /\ new.status = "ACTIVE" /\ new.rank = Cardinality(Made) + 1
  BY MadeFinite DEF SubRow, SubStatuses
<1>2. subs[s].status = "NONE" /\ ActiveSubs = {t \in Subs : subs[t].status = "ACTIVE"}
  BY DEF NewSub, ActiveSubs
<1>3. subs' = [t \in Subs |->
          IF t = s THEN new
          ELSE IF t \in ActiveSubs THEN [subs[t] EXCEPT !.status = "EXPIRED"]
          ELSE subs[t]]
  BY DEF NewSub, Made
<1> HIDE DEF new
<1>4. ASSUME NEW t \in Subs, t # s
      PROVE  /\ subs'[t] \in SubRow /\ subs'[t].rank = subs[t].rank
             /\ subs'[t].order = subs[t].order /\ subs'[t].due = subs[t].due
             /\ subs'[t].status = "NONE" <=> subs[t].status = "NONE"
  <2>1. CASE t \in ActiveSubs
    BY <1>2, <1>3, <1>4, <2>1, EndsActive DEF PlanInv
  <2>2. CASE t \notin ActiveSubs
    BY <1>3, <1>4, <2>2 DEF PlanInv, PlansTyped
  <2>3. QED
    BY <2>1, <2>2
<1>5. subs'[s] = new /\ subs' \in [Subs -> SubRow]
  BY <1>1, <1>3, <1>4
<1>6. granting' \in BOOLEAN
  BY DEF PlanInv, PlansTyped
<1>7. QED
  BY <1>1, <1>2, <1>4, <1>5, <1>6, MadeInv

\* A subscription row as it is stays typed.
LEMMA SubsTyped ==
  ASSUME PlanInv
  PROVE  /\ subs \in [Subs -> SubRow] /\ granting \in BOOLEAN
         /\ expiring \subseteq Subs /\ overtaken \subseteq Subs
BY DEF PlanInv, PlansTyped

\* A plan ends for the one that is about to take its place.
LEMMA AdminGrantInv ==
  ASSUME PlanInv, AdminGrantEnds \/ AdminGrantCreates
  PROVE  PlanInv'
<1>1. CASE AdminGrantEnds
  <2>1. /\ granting' = TRUE /\ UNCHANGED <<extending, expiring, overtaken>>
        /\ subs' = [t \in Subs |-> IF t \in ActiveSubs THEN [subs[t] EXCEPT !.status = "EXPIRED"] ELSE subs[t]]
    BY <1>1 DEF AdminGrantEnds
  <2>2. ASSUME NEW t \in Subs
        PROVE  /\ subs'[t] \in SubRow /\ subs'[t].rank = subs[t].rank
               /\ subs'[t].order = subs[t].order /\ subs'[t].due = subs[t].due
               /\ subs'[t].status = "NONE" <=> subs[t].status = "NONE"
    <3>1. CASE t \in ActiveSubs
      BY <2>1, <3>1, EndsActive DEF PlanInv, ActiveSubs
    <3>2. CASE t \notin ActiveSubs
      BY <2>1, <3>2, SubsTyped
    <3>3. QED
      BY <3>1, <3>2
  <2>3. subs' \in [Subs -> SubRow]
    BY <2>1, <2>2
  <2>4. QED
    BY <2>1, <2>2, <2>3, SubsTyped, RowsKeptInv DEF PlanInv, HandsKnown
<1>2. CASE AdminGrantCreates
  <2> PICK s \in Subs :
          /\ subs[s].status = "NONE"
          /\ subs' = [subs EXCEPT ![s] = [status |-> "ACTIVE", order |-> Unset, due |-> FALSE,
                         rank |-> Cardinality({u \in Subs : subs[u].status # "NONE"}) + 1]]
    BY <1>2 DEF AdminGrantCreates
  <2> DEFINE new == [status |-> "ACTIVE", order |-> Unset, due |-> FALSE, rank |-> Cardinality(Made) + 1]
  <2>1. new \in SubRow /\ new.status = "ACTIVE" /\ new.rank = Cardinality(Made) + 1
    BY MadeFinite DEF SubRow, SubStatuses
  <2>2. subs' = [subs EXCEPT ![s] = new]
    BY DEF Made
  <2> HIDE DEF new
  <2>3. granting' = FALSE /\ UNCHANGED <<extending, expiring, overtaken>>
    BY <1>2 DEF AdminGrantCreates
  <2>4. /\ subs' \in [Subs -> SubRow] /\ subs'[s] = new
        /\ \A t \in Subs : t # s => subs'[t] = subs[t]
    BY <2>1, <2>2, SubsTyped
  <2>5. QED
    BY <2>1, <2>3, <2>4, MadeInv
<1>3. QED
  BY <1>1, <1>2

\* Time is given back to a row: if it has ended, or is about to, the job took it.
LEMMA AdminExtendInv ==
  ASSUME PlanInv, AdminExtendSaves \/ AdminExtendDies \/ \E s \in Subs : AdminExtendReads(s)
  PROVE  PlanInv'
<1>1. CASE AdminExtendSaves
  <2> PICK x \in extending :
          /\ subs' = [subs EXCEPT ![x[1]].due = FALSE,
                                  ![x[1]].status = IF x[2] = "ACTIVE" THEN @ ELSE "ACTIVE"]
          /\ overtaken' = IF x[1] \in expiring \/ subs'[x[1]].status = "EXPIRED"
                          THEN overtaken \cup {x[1]} ELSE overtaken
    BY <1>1 DEF AdminExtendSaves
  <2> DEFINE s == x[1]
             status == IF x[2] = "ACTIVE" THEN subs[s].status ELSE "ACTIVE"
             row == [subs[s] EXCEPT !.due = FALSE, !.status = status]
  <2>1. s \in Subs /\ subs[s].status # "NONE" /\ subs[s] \in SubRow
    BY DEF PlanInv, PlansTyped, HandsKnown
  <2>2. /\ row \in SubRow /\ row.status = status /\ row.due = FALSE /\ row.rank = subs[s].rank
        /\ row.order = subs[s].order
    BY <2>1 DEF SubRow, SubStatuses
  <2>3. subs' = [subs EXCEPT ![s] = row]
    BY <2>1, SubsTyped
  <2>4. status # "NONE"
    BY <2>1
  <2> HIDE DEF row, status
  <2>5. /\ subs' \in [Subs -> SubRow] /\ subs'[s] = row
        /\ \A t \in Subs : t # s => subs'[t] = subs[t]
    BY <2>1, <2>2, <2>3, SubsTyped
  <2>6. /\ extending' = {} /\ UNCHANGED <<granting, expiring>>
        /\ overtaken \subseteq overtaken' /\ overtaken' \subseteq Subs
        /\ s \in expiring \/ row.status = "EXPIRED" => s \in overtaken'
    BY <1>1, <2>1, <2>5, SubsTyped DEF AdminExtendSaves
  <2>7. \A t \in expiring : subs'[t].status # "NONE" /\ (subs'[t].due \/ t \in overtaken')
    BY <2>2, <2>4, <2>5, <2>6, SubsTyped DEF PlanInv, HandsKnown
  <2>8. ASSUME NEW t \in Subs
        PROVE  /\ subs'[t].rank = subs[t].rank /\ subs'[t].order = subs[t].order
               /\ subs'[t].status = "NONE" <=> subs[t].status = "NONE"
               /\ subs'[t].status = "EXPIRED" /\ ~subs'[t].due =>
                     (subs[t].status = "EXPIRED" /\ ~subs[t].due) \/ t \in overtaken'
    BY <2>1, <2>2, <2>4, <2>5, <2>6
  <2>9. QED
    BY <2>5, <2>6, <2>7, <2>8, SubsTyped, RowsKeptInv
<1>2. CASE AdminExtendDies \/ \E s \in Subs : AdminExtendReads(s)
  <2>1. /\ UNCHANGED <<subs, granting, expiring, overtaken>>
        /\ extending' = {} \/ \E s \in Made : extending' = {<<s, subs[s].status>>}
    BY <1>2 DEF AdminExtendDies, AdminExtendReads, Made
  <2>2. QED
    BY <2>1, SubsTyped, RowsKeptInv DEF PlanInv, HandsKnown
<1>3. QED
  BY <1>1, <1>2

\* A row is cancelled, or its time is over.
LEMMA EndsInv ==
  ASSUME PlanInv, NEW s \in Subs, AdminCancels(s) \/ Lapses(s) \/ (\E o \in Purchases : RefundCancels(o))
  PROVE  PlanInv'
<1>1. UNCHANGED <<granting, extending, expiring, overtaken>>
  BY DEF AdminCancels, Lapses, RefundCancels
<1>2. PICK t \in Subs :
         /\ subs' \in [Subs -> SubRow]
         /\ \A u \in Subs : u # t => subs'[u] = subs[u]
         /\ subs[t].status # "NONE" /\ subs'[t].status # "NONE" /\ subs'[t].rank = subs[t].rank
         /\ subs'[t].order = subs[t].order
         /\ subs[t].due => subs'[t].due
         /\ subs'[t].due \/ subs'[t].status = "CANCELLED"
  <2>1. CASE AdminCancels(s)
    <3>1. subs[s].status # "NONE" /\ subs' = [subs EXCEPT ![s].status = "CANCELLED", ![s].due = TRUE]
      BY <2>1 DEF AdminCancels
    <3> DEFINE row == [subs[s] EXCEPT !.status = "CANCELLED", !.due = TRUE]
    <3>2. subs' = [subs EXCEPT ![s] = row]
      BY <3>1, SubsTyped
    <3>3. /\ row \in SubRow /\ row.status = "CANCELLED" /\ row.due = TRUE /\ row.rank = subs[s].rank
          /\ row.order = subs[s].order
      BY SubsTyped DEF SubRow, SubStatuses
    <3> HIDE DEF row
    <3>4. subs' \in [Subs -> SubRow] /\ subs'[s] = row /\ \A u \in Subs : u # s => subs'[u] = subs[u]
      BY <3>2, <3>3, SubsTyped
    <3>5. QED
      BY <3>1, <3>3, <3>4
  <2>2. CASE Lapses(s)
    <3>1. subs[s].status = "ACTIVE" /\ subs' = [subs EXCEPT ![s].due = TRUE]
      BY <2>2 DEF Lapses
    <3>2. QED
      BY <3>1, SubsTyped DEF SubRow
  <2>3. CASE \E o \in Purchases : RefundCancels(o)
    <3> PICK o \in Purchases, t \in Subs :
            subs[t].order = o /\ subs' = [subs EXCEPT ![t].status = "CANCELLED"]
      BY <2>3 DEF RefundCancels
    <3>1. subs[t].status # "NONE"
      BY BillingAssumption DEF PlanInv, Ranked
    <3>2. QED
      BY <3>1, SubsTyped DEF SubRow, SubStatuses
  <2>4. QED
    BY <2>1, <2>2, <2>3
<1>3. \A u \in expiring : subs'[u].status # "NONE" /\ (subs'[u].due \/ u \in overtaken')
  BY <1>1, <1>2, SubsTyped DEF PlanInv, HandsKnown
<1>4. ASSUME NEW u \in Subs
      PROVE  /\ subs'[u].rank = subs[u].rank /\ subs'[u].order = subs[u].order
             /\ subs'[u].status = "NONE" <=> subs[u].status = "NONE"
             /\ subs'[u].status = "EXPIRED" /\ ~subs'[u].due => subs[u].status = "EXPIRED" /\ ~subs[u].due
  BY <1>2
<1>5. QED
  BY <1>1, <1>2, <1>3, <1>4, SubsTyped, RowsKeptInv

LEMMA ExpiryJobInv ==
  ASSUME PlanInv, JobQueries \/ JobAborts \/ \E s \in Subs : JobExpires(s)
  PROVE  PlanInv'
<1>1. UNCHANGED <<granting, extending>>
  BY DEF JobQueries, JobAborts, JobExpires
<1>2. CASE JobQueries
  <2>1. PICK hand \in SUBSET Overdue :
           expiring' = hand /\ overtaken' = overtaken \ hand /\ UNCHANGED subs
    BY <1>2 DEF JobQueries
  <2>2. /\ expiring' \subseteq Subs /\ overtaken' \subseteq Subs
        /\ \A s \in expiring' : subs'[s].status = "ACTIVE" /\ subs'[s].due
    BY <2>1, SubsTyped DEF Overdue, ActiveSubs
  <2>3. \A s \in Subs : subs'[s].status = "EXPIRED" /\ s \in overtaken => s \in overtaken'
    BY <2>1, <2>2
  <2>4. QED
    BY <1>1, <2>1, <2>2, <2>3, SubsTyped, RowsKeptInv
<1>3. CASE JobAborts
  <2>1. expiring' = {} /\ UNCHANGED <<subs, overtaken>>
    BY <1>3 DEF JobAborts
  <2>2. QED
    BY <1>1, <2>1, SubsTyped, RowsKeptInv
<1>4. ASSUME NEW s \in Subs, JobExpires(s) PROVE PlanInv'
  <2>1. /\ s \in expiring /\ expiring' = expiring \ {s} /\ UNCHANGED overtaken
        /\ subs' = [subs EXCEPT ![s].status = "EXPIRED"]
    BY <1>4 DEF JobExpires
  <2>2. subs[s].status # "NONE" /\ (subs[s].due \/ s \in overtaken)
    BY <2>1 DEF PlanInv, HandsKnown
  <2>3. /\ subs' \in [Subs -> SubRow]
        /\ \A t \in Subs : t # s => subs'[t] = subs[t]
        /\ subs'[s].status = "EXPIRED" /\ subs'[s].due = subs[s].due
        /\ subs'[s].rank = subs[s].rank /\ subs'[s].order = subs[s].order
    BY <2>1, SubsTyped DEF SubRow, SubStatuses
  <2>4. \A t \in expiring' : subs'[t].status # "NONE" /\ (subs'[t].due \/ t \in overtaken')
    BY <2>1, <2>3, SubsTyped DEF PlanInv, HandsKnown
  <2>5. ASSUME NEW t \in Subs
        PROVE  /\ subs'[t].rank = subs[t].rank /\ subs'[t].order = subs[t].order
               /\ subs'[t].status = "NONE" <=> subs[t].status = "NONE"
               /\ subs'[t].status = "EXPIRED" /\ ~subs'[t].due =>
                     (subs[t].status = "EXPIRED" /\ ~subs[t].due) \/ t \in overtaken'
    BY <2>1, <2>2, <2>3
  <2>6. QED
    BY <1>1, <2>1, <2>3, <2>4, <2>5, SubsTyped, RowsKeptInv
<1>5. QED
  BY <1>2, <1>3, <1>4

LEMMA PlanStepsInv ==
  ASSUME PlanInv, PlanSteps
  PROVE  PlanInv'
<1>1. ASSUME NEW o \in Purchases, RefundNoted(o) PROVE PlanInv'
  BY <1>1, SubsTyped, RowsKeptInv DEF RefundNoted, planVars, PlanInv, HandsKnown
<1>2. CASE \E o \in Purchases : RefundCancels(o)
  <2>1. PICK s \in Subs : TRUE
    BY <1>2 DEF RefundCancels
  <2>2. QED
    BY <1>2, <2>1, EndsInv
<1>3. QED
  BY <1>1, <1>2, AdminGrantInv, AdminExtendInv, EndsInv, ExpiryJobInv DEF PlanSteps

\* An order changes the plans only when it is fulfilled.
LEMMA OrderStepsKeepPlans ==
  ASSUME PlanInv, OrderSteps
  PROVE  PlanInv'
<1>1. ASSUME UNCHANGED <<subs, granting, extending, expiring, overtaken>> PROVE PlanInv'
  BY <1>1, SubsTyped, RowsKeptInv DEF PlanInv, HandsKnown
<1>2. ASSUME NEW o \in Purchases, Fulfil(o) PROVE PlanInv'
  <2>1. UNCHANGED <<granting, extending, expiring, overtaken>>
    BY <1>2 DEF Fulfil
  <2>2. UNCHANGED subs \/ \E s \in Subs : NewSub(s, o)
    BY <1>2 DEF Fulfil
  <2>3. QED
    BY <1>1, <2>1, <2>2, NewSubInv
<1>3. ASSUME NEW o \in Purchases,
             \/ GatewayCaptures(o) \/ GatewayFails(o)
             \/ FailedEvent(o) \/ FailSaves(o) \/ FailDies(o) \/ FulfilAgain(o)
      PROVE  UNCHANGED <<subs, granting, extending, expiring, overtaken>>
  BY <1>3 DEF GatewayCaptures, GatewayFails, FailedEvent, FailSaves, FailDies, FulfilAgain, planVars
<1>4. ASSUME (\E k \in Purposes : CheckoutReads(k)) \/ Supersede \/ OpenPurchase \/ CheckoutDies
      PROVE  UNCHANGED <<subs, granting, extending, expiring, overtaken>>
  BY <1>4 DEF CheckoutReads, Supersede, OpenPurchase, CheckoutDies, planVars
<1>5. QED
  BY <1>1, <1>2, <1>3, <1>4 DEF OrderSteps

LEMMA PlanNextInv == PlanInv /\ [BillingNext]_billVars => PlanInv'
<1> SUFFICES ASSUME PlanInv, [BillingNext]_billVars PROVE PlanInv'
  OBVIOUS
<1>1. CASE UNCHANGED billVars
  BY <1>1, SubsTyped, RowsKeptInv DEF billVars, planVars, PlanInv, HandsKnown
<1>2. QED
  BY <1>1, PlanStepsInv, OrderStepsKeepPlans DEF BillingNext

THEOREM PlansInvariant == BillingSpec => []PlanInv
BY PlanInitInv, PlanNextInv, PTL DEF BillingSpec

\* A plan that has time left ends only for a newer one, one that an administrator is about to make,
\* or because the expiry job and an administrator saved over each other.
THEOREM PlansEndForNewer == BillingSpec => []LiveUnlessReplaced
<1>1. PlanInv => LiveUnlessReplaced
  BY DEF PlanInv
<1>2. QED
  BY <1>1, PlansInvariant, PTL

\* Every variable of the billing keeps its type.
THEOREM BillingTypes == BillingSpec => []BillingTypeOK
<1>1. PlansTyped => Cardinality(extending) <= 1
  <2>1. Cardinality({}) = 0 /\ \A x : Cardinality({x}) = 1
    BY FS_EmptySet, FS_Singleton
  <2>2. PlansTyped => Cardinality(extending) \in {0, 1}
    BY <2>1 DEF PlansTyped
  <2>3. QED
    BY <2>2
<1>2. OrderInv /\ PlanInv => BillingTypeOK
  BY <1>1 DEF OrderInv, OrdersTyped, OrdersKnown, PlanInv, PlansTyped, SubRow, SubStatuses, BillingTypeOK
<1>3. QED
  BY <1>2, OrdersInvariant, PlansInvariant, PTL
=============================================================================
