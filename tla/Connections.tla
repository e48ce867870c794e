---------------------------- MODULE Connections ----------------------------
(***************************************************************************)
(* Connections between members (Connection.service.ts) and the blocks that *)
(* stop and restore them (MatrimonySafety.service.ts).                     *)
(*                                                                         *)
(* A pair of members has two directed rows, one for the requests of each.  *)
(* No handler uses a transaction or a lock: a call checks that the members *)
(* are eligible, reads the rows of the pair, and then writes by row id     *)
(* what it decided, whatever the rows have become.                         *)
(***************************************************************************)
EXTENDS Naturals

CONSTANTS Members,          \* member ids
          ConnCalls,        \* requests that can be under way at once
          MaxAttempts       \* MAX_REQUEST_ATTEMPTS

ASSUME ConnectionsAssumption == MaxAttempts \in Nat \ {0}

VARIABLES conn,             \* directed rows; status NONE: no row
          blocks,           \* <<a, b>>: a blocks b
          call,             \* the requests under way
          consent,          \* history: <<a, b>>: a once asked or accepted b
          loose             \* history: pairs written by an unblock or a call that died half-way

connVars == <<conn, blocks, call, consent, loose>>

Pairs == {p \in Members \X Members : p[1] # p[2]}
Rev(p) == <<p[2], p[1]>>
Both(p) == {p, Rev(p)}

Row == [status: {"NONE", "PENDING", "ACCEPTED", "REJECTED", "CANCELLED"},
        attempts: 0 .. MaxAttempts,
        cooled: BOOLEAN]    \* 30 days since the rejection

NoCall == [pc |-> "idle", op |-> "none", pair |-> <<>>, by |-> {}, kind |-> "none", rows |-> {},
           seen |-> 0]

Blocked(p) == Both(p) \cap blocks # {}

ConnectionsInit ==
    /\ conn = [p \in Pairs |-> [status |-> "NONE", attempts |-> 0, cooled |-> FALSE]]
    /\ blocks = {}
    /\ call = [c \in ConnCalls |-> NoCall]
    /\ consent = {}
    /\ loose = {}

(***************************************************************************)
(* A call.  pair is the directed row it is about.                          *)
(***************************************************************************)
Checked == {"send", "accept", "reject"}

\* Faulty variant: either member may answer.
EntitledToEither(op, p, who) == who \in {p[1], p[2]}

\* The member who calls: the rows are looked up with the caller as their requester, or as the
\* recipient of what is accepted or rejected.
Entitled(op, p, who) == who = IF op \in {"accept", "reject"} THEN p[2] ELSE p[1]

\* assertEligibleUsers passes, or the call does without it.
Begin(c, op, p) ==
    /\ call[c].pc = "idle"
    /\ op \in Checked => ~Blocked(p)
    /\ \E who \in {p[1], p[2]} :
          /\ Entitled(op, p, who)
          /\ call' = [call EXCEPT ![c] = [NoCall EXCEPT !.pc = "read", !.op = op, !.pair = p,
                                                       !.by = {who}]]
    /\ UNCHANGED <<conn, blocks, consent, loose>>

End(c) == call' = [call EXCEPT ![c] = NoCall]

Plan(c, kind, rows, seen) ==
    /\ call' = [call EXCEPT ![c].pc = "write", ![c].kind = kind, ![c].rows = rows, ![c].seen = seen]
    /\ UNCHANGED <<conn, blocks, consent, loose>>

Reading(c, op) == call[c].pc = "read" /\ call[c].op = op

\* Neither connected nor waiting for an answer.
MaySend(p) ==
    /\ "ACCEPTED" \notin {conn[q].status : q \in Both(p)}
    /\ conn[p].status # "PENDING"

\* The other member has asked: the request accepts instead.
SendAccepts(c) ==
    LET p == call[c].pair IN
    /\ Reading(c, "send") /\ MaySend(p)
    /\ conn[Rev(p)].status = "PENDING"
    /\ Plan(c, "accept", {Rev(p)}, 0)

SendFresh(c) ==
    LET p == call[c].pair IN
    /\ Reading(c, "send") /\ MaySend(p)
    /\ conn[Rev(p)].status # "PENDING"
    /\ \/ conn[p].status = "NONE" /\ Plan(c, "create", {p}, 0)
       \/ conn[p].status = "CANCELLED" /\ Plan(c, "reopen", {p}, conn[p].attempts)

\* Faulty variant: the number of attempts is not asked.
AttemptsUnlimited(p) == TRUE

AttemptsLeft(p) == conn[p].attempts < MaxAttempts

\* After a rejection: once more, and not before 30 days have passed.
SendAgain(c) ==
    LET p == call[c].pair IN
    /\ Reading(c, "send") /\ MaySend(p)
    /\ conn[Rev(p)].status # "PENDING"
    /\ conn[p].status = "REJECTED"
    /\ AttemptsLeft(p)
    /\ conn[p].cooled
    /\ Plan(c, "resend", {p}, conn[p].attempts)

\* accept, reject and cancel find the pending row.
Answer(c) ==
    LET p == call[c].pair IN
    /\ call[c].pc = "read"
    /\ call[c].op \in {"accept", "reject", "cancel"}
    /\ conn[p].status = "PENDING"
    /\ Plan(c, call[c].op, {p}, 0)

Disconnect(c) ==
    LET live == {q \in Both(call[c].pair) : conn[q].status \in {"ACCEPTED", "PENDING"}} IN
    /\ Reading(c, "disconnect")
    /\ \E q \in live : conn[q].status = "ACCEPTED"
    /\ Plan(c, "cancel", live, 0)

\* The rows do not allow what was asked for, or the process dies.
Refused(c) ==
    /\ call[c].pc = "read"
    /\ End(c)
    /\ UNCHANGED <<conn, blocks, consent, loose>>

-----------------------------------------------------------------------------
Sets(q, status) == conn' = [conn EXCEPT ![q].status = status]

\* Only columns that differ from the row as it was read are written.
WriteRequest(c, q) ==
    /\ call[c].kind \in {"reopen", "resend"}
    /\ LET attempts == IF call[c].kind = "resend" THEN call[c].seen + 1
                       ELSE IF call[c].seen = 1 THEN conn[q].attempts ELSE 1
       IN conn' = [conn EXCEPT ![q] = [status |-> "PENDING", attempts |-> attempts, cooled |-> FALSE]]
    /\ consent' = consent \cup {q}
    /\ End(c)
    /\ UNCHANGED <<blocks, loose>>

Create(c, q) ==
    /\ call[c].kind = "create"
    /\ conn[q].status = "NONE"
    /\ conn' = [conn EXCEPT ![q] = [status |-> "PENDING", attempts |-> 1, cooled |-> FALSE]]
    /\ consent' = consent \cup {q}
    /\ End(c)
    /\ UNCHANGED <<blocks, loose>>

\* The row exists meanwhile: a cancelled one is opened again, otherwise the call fails.
CreateFails(c, q) ==
    /\ call[c].kind = "create"
    /\ conn[q].status # "NONE"
    /\ IF conn[q].status = "CANCELLED"
       THEN call' = [call EXCEPT ![c].kind = "reopen", ![c].seen = conn[q].attempts]
       ELSE End(c)
    /\ UNCHANGED <<conn, blocks, consent, loose>>

\* acceptRow; the other row of the pair is cancelled in the next step.
Accept(c, q) ==
    /\ call[c].kind = "accept"
    /\ Sets(q, "ACCEPTED")
    /\ consent' = consent \cup {d \in Both(q) : d[1] \in call[c].by}
    /\ call' = [call EXCEPT ![c].pc = "collapse"]
    /\ UNCHANGED <<blocks, loose>>

Reject(c, q) ==
    /\ call[c].kind = "reject"
    /\ conn' = [conn EXCEPT ![q].status = "REJECTED", ![q].cooled = FALSE]
    /\ End(c)
    /\ UNCHANGED <<blocks, consent, loose>>

\* One row after the other.
Cancel(c, q) ==
    /\ call[c].kind = "cancel"
    /\ Sets(q, "CANCELLED")
    /\ IF call[c].rows = {q} THEN End(c) ELSE call' = [call EXCEPT ![c].rows = @ \ {q}]
    /\ UNCHANGED <<blocks, consent, loose>>

Write(c) ==
    /\ call[c].pc = "write"
    /\ \E q \in call[c].rows :
          WriteRequest(c, q) \/ Create(c, q) \/ CreateFails(c, q)
            \/ Accept(c, q) \/ Reject(c, q) \/ Cancel(c, q)

\* Faulty variant: another accepted row stays.
CollapsedFromPending == {"PENDING"}

\* collapseOtherPairRows: an UPDATE of the live rows of the pair, except the accepted one.
CollapsedFrom == {"PENDING", "ACCEPTED"}

Collapse(c) ==
    /\ call[c].pc = "collapse"
    /\ \E q \in call[c].rows :
          conn' = IF conn[Rev(q)].status \in CollapsedFrom
                  THEN [conn EXCEPT ![Rev(q)].status = "CANCELLED"] ELSE conn
    /\ End(c)
    /\ UNCHANGED <<blocks, consent, loose>>

\* The process dies between two statements.
Dies(c) ==
    /\ call[c].pc \in {"write", "collapse"}
    /\ End(c)
    /\ loose' = IF call[c].pc = "collapse" THEN loose \cup Both(call[c].pair) ELSE loose
    /\ UNCHANGED <<conn, blocks, consent>>

-----------------------------------------------------------------------------
Block(p) ==
    /\ p \notin blocks
    /\ blocks' = blocks \cup {p}
    /\ UNCHANGED <<conn, call, consent, loose>>

\* restoreMessagingAfterUnblock: every cancelled row of the pair is accepted, whether it ever
\* was before; the transaction does not ask whether there was a block.
Unblock(p) ==
    /\ blocks' = blocks \ {p}
    /\ conn' = [q \in Pairs |-> IF q \in Both(p) /\ conn[q].status = "CANCELLED"
                                THEN [conn[q] EXCEPT !.status = "ACCEPTED"] ELSE conn[q]]
    /\ loose' = IF conn' # conn THEN loose \cup Both(p) ELSE loose
    /\ UNCHANGED <<call, consent>>

\* 30 days pass; no call takes that long.
CoolsDown(p) ==
    /\ conn[p].status = "REJECTED" /\ ~conn[p].cooled
    /\ \A c \in ConnCalls : call[c].pc = "idle"
    /\ conn' = [conn EXCEPT ![p].cooled = TRUE]
    /\ UNCHANGED <<blocks, call, consent, loose>>

Calls == {"send", "accept", "reject", "cancel", "disconnect"}

ConnectionsNext ==
    \/ \E c \in ConnCalls :
          \/ \E op \in Calls, p \in Pairs : Begin(c, op, p)
          \/ SendAccepts(c) \/ SendFresh(c) \/ SendAgain(c)
          \/ Answer(c) \/ Disconnect(c) \/ Refused(c)
          \/ Write(c) \/ Collapse(c) \/ Dies(c)
    \/ \E p \in Pairs : Block(p) \/ Unblock(p) \/ CoolsDown(p)

ConnectionsSpec == ConnectionsInit /\ [][ConnectionsNext]_connVars

-----------------------------------------------------------------------------
(***************************************************************************)
(* Properties                                                              *)
(***************************************************************************)
ConnectionsTypeOK ==
    /\ conn \in [Pairs -> Row]
    /\ blocks \subseteq Pairs
    /\ consent \subseteq Pairs
    /\ loose \subseteq Pairs
    /\ \A c \in ConnCalls :
          /\ call[c].pc \in {"idle", "read", "write", "collapse"}
          /\ call[c].rows \subseteq Pairs
          /\ call[c].seen \in 0 .. MaxAttempts

\* Whatever calls cross, who is connected has asked for it or accepted it, both of them,
\* unless an unblock has restored the pair (sendRequest, acceptRequest).
ConnectedByConsent ==
    \A p \in Pairs :
        conn[p].status = "ACCEPTED" => Both(p) \subseteq consent \/ p \in loose

\* Two members are not connected twice once nobody is about to collapse their rows
\* (collapseOtherPairRows): only an unblock, or a death between the two statements, leaves two.
OneAccepted ==
    \A p \in Pairs :
        (\A q \in Both(p) : conn[q].status = "ACCEPTED")
            => \/ p \in loose
               \/ \E c \in ConnCalls : call[c].pc = "collapse" /\ p \in Both(call[c].pair)
=============================================================================
