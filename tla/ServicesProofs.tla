--------------------------- MODULE ServicesProofs ---------------------------
(***************************************************************************)
(* Proofs about members' connections, scheduled jobs, marketplace listings *)
(* and the safety of posts, for any members, processes, rows and requests. *)
(*                                                                         *)
(* Each has an inductive invariant of its own (ConnInv, JobInv, ListInv,   *)
(* ContentInv, VerifiedInv), which adds to the properties what a request   *)
(* may rely on of the rows it has read.  The last section is about the     *)
(* composition: what is proved of a component, here or in MatrimonyProofs, *)
(* holds of the run services.                                              *)
(***************************************************************************)
EXTENDS MCServices, MatrimonyProofs, FiniteSetTheorems, TLAPS

-----------------------------------------------------------------------------
(***************************************************************************)
(* Connections                                                             *)
(***************************************************************************)
CallRecord ==
    [pc : {"idle", "read", "write", "collapse"}, op : Calls \cup {"none"}, pair : Pairs \cup {<<>>},
     by : SUBSET Members, kind : {"none", "create", "reopen", "resend", "accept", "reject", "cancel"},
     rows : SUBSET Pairs, seen : 0 .. MaxAttempts]

ConnTyped ==
    /\ conn \in [Pairs -> Row]
    /\ blocks \subseteq Pairs /\ consent \subseteq Pairs /\ loose \subseteq Pairs
    /\ call \in [ConnCalls -> CallRecord]

\* A row exists once its requester has asked.
RowsAsked == \A p \in Pairs : conn[p].status # "NONE" => p \in consent

\* What a call has planned: rows of its pair, which exist unless it creates one; who accepts is
\* the recipient of the row.
PlansKnown ==
    \A c \in ConnCalls :
        /\ call[c].pc # "idle" => call[c].pair \in Pairs
        /\ call[c].pc \in {"write", "collapse"} =>
              /\ call[c].rows \subseteq Both(call[c].pair)
              /\ call[c].kind # "create" => \A q \in call[c].rows : conn[q].status # "NONE"
              /\ call[c].kind = "create" => call[c].rows = {call[c].pair}
              /\ call[c].kind = "resend" => call[c].seen < MaxAttempts
              /\ call[c].kind = "accept" => \A q \in call[c].rows : q[2] \in call[c].by
              /\ call[c].pc = "collapse" => call[c].kind = "accept"
        /\ call[c].pc = "read" =>
              call[c].by = {IF call[c].op \in {"accept", "reject"} THEN call[c].pair[2]
                            ELSE call[c].pair[1]}

ConnInv == ConnTyped /\ RowsAsked /\ PlansKnown /\ ConnectedByConsent /\ OneAccepted

\* The other row of a pair is a row, and has that one as its other.
LEMMA OtherRow ==
  ASSUME NEW p \in Pairs
  PROVE  /\ Rev(p) \in Pairs /\ Rev(Rev(p)) = p /\ Rev(p) # p
         /\ Both(p) \subseteq Pairs /\ Both(Rev(p)) = Both(p)
         /\ p[1] \in Members /\ p[2] \in Members
         /\ Rev(p)[1] = p[2] /\ Rev(p)[2] = p[1]
<1>1. PICK a, b \in Members : p = <<a, b>> /\ a # b
  BY DEF Pairs
<1>2. Rev(p) = <<b, a>> /\ Rev(p) \in Pairs
  BY <1>1 DEF Pairs, Rev
<1>3. Rev(Rev(p)) = p /\ Rev(p) # p
  BY <1>1, <1>2 DEF Rev
<1>4. QED
  BY <1>1, <1>2, <1>3 DEF Both

LEMMA ConnInitInv == ConnectionsInit => ConnInv
<1> SUFFICES ASSUME ConnectionsInit PROVE ConnInv
  OBVIOUS
<1>1. ConnTyped
  BY ConnectionsAssumption DEF ConnectionsInit, ConnTyped, CallRecord, NoCall, Row
<1>2. RowsAsked /\ PlansKnown
  BY DEF ConnectionsInit, RowsAsked, PlansKnown, NoCall
<1>3. ConnectedByConsent /\ OneAccepted
  BY DEF ConnectionsInit, ConnectedByConsent, OneAccepted, Both
<1>4. QED
  BY <1>1, <1>2, <1>3 DEF ConnInv

-----------------------------------------------------------------------------
(* One lemma per action. *)

\* A call that begins has planned nothing.
LEMMA BeginInv ==
  ASSUME ConnInv, NEW c \in ConnCalls, NEW o \in Calls, NEW p \in Pairs, Begin(c, o, p)
  PROVE  ConnInv'
<1> PICK who \in {p[1], p[2]} :
        /\ who = IF o \in {"accept", "reject"} THEN p[2] ELSE p[1]
        /\ call' = [call EXCEPT ![c] = [NoCall EXCEPT !.pc = "read", !.op = o, !.pair = p, !.by = {who}]]
  BY DEF Begin, Entitled
<1>1. who \in Members
  BY OtherRow
<1>2. ConnTyped'
  <2>1. NoCall \in CallRecord
    BY ConnectionsAssumption DEF NoCall, CallRecord
  <2>2. [NoCall EXCEPT !.pc = "read", !.op = o, !.pair = p, !.by = {who}] \in CallRecord
    BY <1>1, <2>1 DEF CallRecord
  <2>3. call' \in [ConnCalls -> CallRecord]
    BY <2>2 DEF ConnInv, ConnTyped
  <2>4. QED
    BY <2>3 DEF ConnInv, ConnTyped, Begin
<1>3. RowsAsked' /\ ConnectedByConsent'
  BY DEF ConnInv, RowsAsked, ConnectedByConsent, Begin
<1>4. PlansKnown'
  BY DEF ConnInv, ConnTyped, PlansKnown, Begin, NoCall
<1>5. OneAccepted'
  BY DEF ConnInv, ConnTyped, OneAccepted, Begin, NoCall
<1>6. QED
  BY <1>2, <1>3, <1>4, <1>5 DEF ConnInv

\* A plan is made from the rows as they are.
LEMMA ConnPlanInv ==
  ASSUME ConnInv, NEW c \in ConnCalls, call[c].pc = "read",
         NEW kind \in {"create", "reopen", "resend", "accept", "reject", "cancel"},
         NEW rows \in SUBSET Both(call[c].pair), NEW seen \in 0 .. MaxAttempts,
         kind # "create" => \A q \in rows : conn[q].status # "NONE",
         kind = "create" => rows = {call[c].pair},
         kind = "resend" => seen < MaxAttempts,
         kind = "accept" => \A q \in rows : q[2] \in call[c].by,
         Plan(c, kind, rows, seen)
  PROVE  ConnInv'
<1>1. call[c].pair \in Pairs /\ Both(call[c].pair) \subseteq Pairs
  BY OtherRow DEF ConnInv, PlansKnown
<1>2. ConnTyped'
  <2> DEFINE r == [call[c] EXCEPT !.pc = "write", !.kind = kind, !.rows = rows, !.seen = seen]
  <2>1. call' = [call EXCEPT ![c] = r]
    BY DEF ConnInv, ConnTyped, Plan
  <2>2. r \in CallRecord
    BY <1>1 DEF ConnInv, ConnTyped, CallRecord
  <2> HIDE DEF r
  <2>3. call' \in [ConnCalls -> CallRecord]
    BY <2>1, <2>2 DEF ConnInv, ConnTyped
  <2>4. QED
    BY <2>3 DEF ConnInv, ConnTyped, Plan
<1>3. RowsAsked' /\ ConnectedByConsent'
  BY DEF ConnInv, RowsAsked, ConnectedByConsent, Plan
<1>4. PlansKnown'
  BY <1>1 DEF ConnInv, ConnTyped, PlansKnown, Plan, CallRecord
<1>5. OneAccepted'
  BY DEF ConnInv, ConnTyped, OneAccepted, Plan, CallRecord
<1>6. QED
  BY <1>2, <1>3, <1>4, <1>5 DEF ConnInv

\* Every plan a call makes is one of those.
LEMMA ReadsInv ==
  ASSUME ConnInv, NEW c \in ConnCalls,
         SendAccepts(c) \/ SendFresh(c) \/ SendAgain(c) \/ Answer(c) \/ Disconnect(c)
  PROVE  ConnInv'
<1> DEFINE p == call[c].pair
<1>1. /\ call[c].pc = "read" /\ p \in Pairs /\ Rev(p) \in Pairs /\ p \in Both(p) /\ Rev(p) \in Both(p)
      /\ call[c].by = {IF call[c].op \in {"accept", "reject"} THEN p[2] ELSE p[1]}
      /\ Rev(p)[2] = p[1]
      /\ conn[p].attempts \in 0 .. MaxAttempts /\ 0 \in 0 .. MaxAttempts
  <2>1. call[c].pc = "read"
    BY DEF SendAccepts, SendFresh, SendAgain, Answer, Disconnect, Reading
  <2>2. /\ p \in Pairs
        /\ call[c].by = {IF call[c].op \in {"accept", "reject"} THEN p[2] ELSE p[1]}
    BY <2>1 DEF ConnInv, PlansKnown
  <2>3. conn[p].attempts \in 0 .. MaxAttempts /\ 0 \in 0 .. MaxAttempts
    BY <2>2, ConnectionsAssumption DEF ConnInv, ConnTyped, Row
  <2>4. QED
    BY <2>1, <2>2, <2>3, OtherRow DEF Both
<1>2. CASE SendAccepts(c)
  <2>1. call[c].op = "send" /\ conn[Rev(p)].status = "PENDING" /\ Plan(c, "accept", {Rev(p)}, 0)
    BY <1>2 DEF SendAccepts, Reading
  <2>2. QED
    BY <1>1, <2>1, ConnPlanInv
<1>3. CASE SendFresh(c)
  <2>1. CASE conn[p].status = "NONE" /\ Plan(c, "create", {p}, 0)
    BY <1>1, <2>1, ConnPlanInv
  <2>2. CASE conn[p].status = "CANCELLED" /\ Plan(c, "reopen", {p}, conn[p].attempts)
    BY <1>1, <2>2, ConnPlanInv
  <2>3. QED
    BY <1>3, <2>1, <2>2 DEF SendFresh
<1>4. CASE SendAgain(c)
  <2>1. /\ conn[p].status = "REJECTED" /\ conn[p].attempts < MaxAttempts
        /\ Plan(c, "resend", {p}, conn[p].attempts)
    BY <1>4 DEF SendAgain, AttemptsLeft
  <2>2. QED
    BY <1>1, <2>1, ConnPlanInv
<1>5. CASE Answer(c)
  <2>1. /\ call[c].op \in {"accept", "reject", "cancel"} /\ conn[p].status = "PENDING"
        /\ Plan(c, call[c].op, {p}, 0)
    BY <1>5 DEF Answer
  <2>2. QED
    BY <1>1, <2>1, ConnPlanInv
<1>6. CASE Disconnect(c)
  <2> DEFINE live == {q \in Both(p) : conn[q].status \in {"ACCEPTED", "PENDING"}}
  <2>1. Plan(c, "cancel", live, 0)
    BY <1>6 DEF Disconnect
  <2>2. live \in SUBSET Both(p) /\ \A q \in live : conn[q].status # "NONE"
    OBVIOUS
  <2> HIDE DEF live
  <2>3. QED
    BY <1>1, <2>1, <2>2, ConnPlanInv
<1>7. QED
  BY <1>2, <1>3, <1>4, <1>5, <1>6

\* A call that is idle has planned nothing.
LEMMA NoCallTyped == NoCall \in CallRecord /\ NoCall.pc = "idle"
BY ConnectionsAssumption DEF NoCall, CallRecord

\* A call that ends without a write, or dies before one, disturbs nothing.
LEMMA ConnEndsInv ==
  ASSUME ConnInv, NEW c \in ConnCalls, call[c].pc \in {"read", "write"}, End(c),
         UNCHANGED <<conn, blocks, consent, loose>>
  PROVE  ConnInv'
<1>1. ConnTyped'
  BY NoCallTyped DEF ConnInv, ConnTyped, End
<1>2. RowsAsked' /\ ConnectedByConsent'
  BY DEF ConnInv, RowsAsked, ConnectedByConsent
<1>3. PlansKnown'
  BY NoCallTyped DEF ConnInv, ConnTyped, PlansKnown, End
<1>4. OneAccepted'
  BY NoCallTyped DEF ConnInv, ConnTyped, OneAccepted, End
<1>5. QED
  BY <1>1, <1>2, <1>3, <1>4 DEF ConnInv

\* A row that was rejected or cancelled is asked for again.
LEMMA WriteRequestInv ==
  ASSUME ConnInv, NEW c \in ConnCalls, call[c].pc = "write", NEW q \in call[c].rows,
         WriteRequest(c, q)
  PROVE  ConnInv'
<1> DEFINE attempts == IF call[c].kind = "resend" THEN call[c].seen + 1
                       ELSE IF call[c].seen = 1 THEN conn[q].attempts ELSE 1
           row == [status |-> "PENDING", attempts |-> attempts, cooled |-> FALSE]
<1>1. q \in Pairs /\ q \in Both(call[c].pair)
  BY DEF ConnInv, ConnTyped, PlansKnown, CallRecord
<1>2. row \in Row
  <2>1. attempts \in 0 .. MaxAttempts
    BY <1>1, ConnectionsAssumption DEF ConnInv, ConnTyped, PlansKnown, CallRecord, Row
  <2> HIDE DEF attempts
  <2>2. QED
    BY <2>1 DEF Row
<1>3. conn' = [conn EXCEPT ![q] = row] /\ row.status = "PENDING"
  BY DEF WriteRequest
<1> HIDE DEF row
<1>4. ConnTyped'
  BY <1>1, <1>2, <1>3, NoCallTyped DEF ConnInv, ConnTyped, WriteRequest, End
<1>5. RowsAsked' /\ ConnectedByConsent'
  BY <1>1, <1>3 DEF ConnInv, ConnTyped, RowsAsked, ConnectedByConsent, WriteRequest
<1>6. PlansKnown'
  BY <1>1, <1>3, NoCallTyped DEF ConnInv, ConnTyped, PlansKnown, WriteRequest, End
<1>7. OneAccepted'
  BY <1>1, <1>3, NoCallTyped DEF ConnInv, ConnTyped, OneAccepted, WriteRequest, End
<1>8. QED
  BY <1>4, <1>5, <1>6, <1>7 DEF ConnInv

\* A row is created by its requester.
LEMMA CreateInv ==
  ASSUME ConnInv, NEW c \in ConnCalls, call[c].pc = "write", NEW q \in call[c].rows,
         Create(c, q)
  PROVE  ConnInv'
<1> DEFINE row == [status |-> "PENDING", attempts |-> 1, cooled |-> FALSE]
<1>1. q \in Pairs
  BY DEF ConnInv, ConnTyped, CallRecord
<1>2. row \in Row /\ row.status = "PENDING"
  BY ConnectionsAssumption DEF Row
<1>3. conn' = [conn EXCEPT ![q] = row]
  BY DEF Create
<1> HIDE DEF row
<1>4. ConnTyped'
  BY <1>1, <1>2, <1>3, NoCallTyped DEF ConnInv, ConnTyped, Create, End
<1>5. RowsAsked' /\ ConnectedByConsent'
  BY <1>1, <1>2, <1>3 DEF ConnInv, ConnTyped, RowsAsked, ConnectedByConsent, Create
<1>6. PlansKnown'
  BY <1>1, <1>2, <1>3, NoCallTyped DEF ConnInv, ConnTyped, PlansKnown, Create, End
<1>7. OneAccepted'
  BY <1>1, <1>2, <1>3, NoCallTyped DEF ConnInv, ConnTyped, OneAccepted, Create, End
<1>8. QED
  BY <1>4, <1>5, <1>6, <1>7 DEF ConnInv

\* What could not be created is opened again: the row exists.
LEMMA CreateFailsInv ==
  ASSUME ConnInv, NEW c \in ConnCalls, call[c].pc = "write", NEW q \in call[c].rows,
         CreateFails(c, q)
  PROVE  ConnInv'
<1>1. CASE conn[q].status # "CANCELLED"
  BY <1>1, ConnEndsInv DEF CreateFails
<1>2. CASE conn[q].status = "CANCELLED"
  <2>1. q \in Pairs /\ conn[q].attempts \in 0 .. MaxAttempts
    BY DEF ConnInv, ConnTyped, CallRecord, Row
  <2>2. call' = [call EXCEPT ![c].kind = "reopen", ![c].seen = conn[q].attempts]
    BY <1>2 DEF CreateFails
  <2>3. call' \in [ConnCalls -> CallRecord]
    <3> DEFINE r == [call[c] EXCEPT !.kind = "reopen", !.seen = conn[q].attempts]
    <3>1. call' = [call EXCEPT ![c] = r]
      BY <2>2 DEF ConnInv, ConnTyped
    <3>2. r \in CallRecord
      BY <2>1 DEF ConnInv, ConnTyped, CallRecord
    <3> HIDE DEF r
    <3>3. QED
      BY <3>1, <3>2 DEF ConnInv, ConnTyped
  <2>4. ConnTyped'
    BY <2>3 DEF ConnInv, ConnTyped, CreateFails
  <2>5. RowsAsked' /\ ConnectedByConsent'
    BY DEF ConnInv, RowsAsked, ConnectedByConsent, CreateFails
  <2>6. PlansKnown'
    <3>1. \A p \in call[c].rows : conn[p].status # "NONE"
      <4>1. call[c].rows = {q}
        BY DEF ConnInv, PlansKnown, CreateFails
      <4>2. QED
        BY <1>2, <4>1
    <3>2. QED
      BY <2>2, <3>1 DEF ConnInv, ConnTyped, CallRecord, PlansKnown, CreateFails
  <2>7. OneAccepted'
    BY <2>2 DEF ConnInv, ConnTyped, CallRecord, OneAccepted, CreateFails
  <2>8. QED
    BY <2>4, <2>5, <2>6, <2>7 DEF ConnInv
<1>3. QED
  BY <1>1, <1>2

\* The row that is accepted was asked for by its requester and is accepted by its recipient; until
\* the other row is cancelled the call is about to do so.
LEMMA AcceptInv ==
  ASSUME ConnInv, NEW c \in ConnCalls, call[c].pc = "write", NEW q \in call[c].rows,
         Accept(c, q)
  PROVE  ConnInv'
<1>1. /\ q \in Pairs /\ Rev(q) \in Pairs /\ Both(q) \subseteq Pairs /\ q[2] = Rev(q)[1]
      /\ q \in Both(call[c].pair) /\ call[c].pair \in Pairs
      /\ q \in consent /\ q[2] \in call[c].by
  BY OtherRow DEF ConnInv, ConnTyped, RowsAsked, PlansKnown, CallRecord, Accept
<1>2. conn' = [conn EXCEPT ![q].status = "ACCEPTED"] /\ call' = [call EXCEPT ![c].pc = "collapse"]
  BY DEF Accept, Sets
<1>3. ConnTyped'
  <2>1. conn' \in [Pairs -> Row]
    BY <1>1, <1>2 DEF ConnInv, ConnTyped, Row
  <2>2. call' \in [ConnCalls -> CallRecord]
    <3> DEFINE r == [call[c] EXCEPT !.pc = "collapse"]
    <3>1. call' = [call EXCEPT ![c] = r]
      BY <1>2 DEF ConnInv, ConnTyped
    <3>2. r \in CallRecord
      BY DEF ConnInv, ConnTyped, CallRecord
    <3> HIDE DEF r
    <3>3. QED
      BY <3>1, <3>2 DEF ConnInv, ConnTyped
  <2>3. QED
    BY <1>1, <2>1, <2>2 DEF ConnInv, ConnTyped, Accept
<1>4. Both(q) \subseteq consent'
  BY <1>1 DEF Accept, Both
<1>5. RowsAsked' /\ ConnectedByConsent'
  BY <1>1, <1>2, <1>4 DEF ConnInv, ConnTyped, Row, RowsAsked, ConnectedByConsent, Accept
<1>6. PlansKnown'
  BY <1>1, <1>2 DEF ConnInv, ConnTyped, Row, CallRecord, PlansKnown, Accept
<1>7. OneAccepted'
  <2> SUFFICES ASSUME NEW p \in Pairs, \A d \in Both(p) : conn'[d].status = "ACCEPTED"
               PROVE  \/ p \in loose
                      \/ \E d \in ConnCalls : call'[d].pc = "collapse" /\ p \in Both(call'[d].pair)
    BY DEF OneAccepted, Accept
  <2>1. CASE q \in Both(p)
    <3>1. p \in Both(call[c].pair)
      BY <1>1, <2>1, OtherRow DEF Both
    <3>2. call'[c].pc = "collapse" /\ call'[c].pair = call[c].pair
      BY <1>2 DEF ConnInv, ConnTyped, CallRecord
    <3>3. QED
      BY <3>1, <3>2
  <2>2. CASE q \notin Both(p)
    <3>1. \A d \in Both(p) : conn[d].status = "ACCEPTED"
      BY <1>2, <2>2, OtherRow DEF ConnInv, ConnTyped
    <3>2. QED
      BY <1>2, <3>1 DEF ConnInv, ConnTyped, CallRecord, OneAccepted
  <2>3. QED
    BY <2>1, <2>2
<1>8. QED
  BY <1>3, <1>5, <1>6, <1>7 DEF ConnInv

\* A row that is rejected or cancelled connects nobody.
LEMMA ClosesInv ==
  ASSUME ConnInv, NEW c \in ConnCalls, call[c].pc = "write", NEW q \in call[c].rows,
         Reject(c, q) \/ Cancel(c, q)
  PROVE  ConnInv'
<1>1. q \in Pairs /\ q \in consent
  BY DEF ConnInv, ConnTyped, CallRecord, RowsAsked, PlansKnown, Reject, Cancel
<1>2. /\ conn' \in [Pairs -> Row] /\ conn'[q].status \in {"REJECTED", "CANCELLED"}
      /\ \A p \in Pairs : p # q => conn'[p] = conn[p]
      /\ UNCHANGED <<blocks, consent, loose>>
  <2>1. CASE Reject(c, q)
    BY <1>1, <2>1 DEF ConnInv, ConnTyped, Row, Reject
  <2>2. CASE Cancel(c, q)
    BY <1>1, <2>2 DEF ConnInv, ConnTyped, Row, Cancel, Sets
  <2>3. QED
    BY <2>1, <2>2
<1>3. /\ call' \in [ConnCalls -> CallRecord]
      /\ \A d \in ConnCalls : d # c => call'[d] = call[d]
      /\ \/ call'[c].pc = "idle"
         \/ /\ call'[c].pc = "write" /\ call'[c].kind = "cancel" /\ call'[c].pair = call[c].pair
            /\ call'[c].rows \subseteq call[c].rows
  <2>1. CASE End(c)
    BY <2>1, NoCallTyped DEF ConnInv, ConnTyped, End
  <2>2. CASE call[c].kind = "cancel" /\ call' = [call EXCEPT ![c].rows = @ \ {q}]
    BY <2>2 DEF ConnInv, ConnTyped, CallRecord
  <2>3. QED
    BY <2>1, <2>2 DEF Reject, Cancel
<1>4. ConnTyped' /\ RowsAsked' /\ ConnectedByConsent'
  BY <1>1, <1>2, <1>3 DEF ConnInv, ConnTyped, RowsAsked, ConnectedByConsent
<1>5. PlansKnown'
  <2>1. \A p \in Pairs : conn[p].status # "NONE" => conn'[p].status # "NONE"
    BY <1>2
  <2>2. \A d \in ConnCalls : call[d].rows \subseteq Pairs
    BY DEF ConnInv, ConnTyped, CallRecord
  <2>3. /\ call[c].pair \in Pairs /\ call[c].rows \subseteq Both(call[c].pair)
        /\ \A p \in call[c].rows : call[c].kind # "create" => conn[p].status # "NONE"
        /\ call[c].kind # "create"
    BY DEF ConnInv, PlansKnown, Reject, Cancel
  <2>4. QED
    BY <1>3, <2>1, <2>2, <2>3 DEF ConnInv, PlansKnown
<1>6. OneAccepted'
  <2> SUFFICES ASSUME NEW p \in Pairs, \A d \in Both(p) : conn'[d].status = "ACCEPTED"
               PROVE  \/ p \in loose
                      \/ \E d \in ConnCalls : call'[d].pc = "collapse" /\ p \in Both(call'[d].pair)
    BY <1>2 DEF OneAccepted
  <2>1. \A d \in Both(p) : conn[d].status = "ACCEPTED"
    BY <1>2, OtherRow
  <2>2. \A d \in ConnCalls : call[d].pc = "collapse" => call'[d] = call[d]
    BY <1>3
  <2>3. QED
    BY <2>1, <2>2 DEF ConnInv, OneAccepted
<1>7. QED
  BY <1>4, <1>5, <1>6 DEF ConnInv

\* Once the other row is cancelled the pair is not connected twice.
LEMMA CollapseInv ==
  ASSUME ConnInv, NEW c \in ConnCalls, Collapse(c)
  PROVE  ConnInv'
<1> PICK q \in call[c].rows :
        conn' = IF conn[Rev(q)].status \in CollapsedFrom
                THEN [conn EXCEPT ![Rev(q)].status = "CANCELLED"] ELSE conn
  BY DEF Collapse
<1>1. /\ q \in Pairs /\ Rev(q) \in Pairs /\ Rev(q) # q
      /\ Both(call[c].pair) = Both(q) /\ Both(q) = {q, Rev(q)}
  <2>1. q \in Both(call[c].pair) /\ call[c].pair \in Pairs
    BY DEF ConnInv, PlansKnown, Collapse
  <2>2. QED
    BY <2>1, OtherRow DEF Both
<1>2. /\ conn' \in [Pairs -> Row] /\ conn'[Rev(q)].status # "ACCEPTED"
      /\ \A p \in Pairs : \/ conn'[p] = conn[p]
                          \/ conn'[p].status = "CANCELLED" /\ conn[p].status # "NONE"
  BY <1>1 DEF ConnInv, ConnTyped, Row, CollapsedFrom
<1>3. ConnTyped'
  BY <1>2, NoCallTyped DEF ConnInv, ConnTyped, Collapse, End
<1>4. RowsAsked' /\ ConnectedByConsent'
  BY <1>2 DEF ConnInv, RowsAsked, ConnectedByConsent, Collapse
<1>5. PlansKnown'
  <2>1. \A d \in ConnCalls : call'[d] = IF d = c THEN NoCall ELSE call[d]
    BY DEF ConnInv, ConnTyped, Collapse, End
  <2>2. \A d \in ConnCalls : call[d].rows \subseteq Pairs
    BY DEF ConnInv, ConnTyped, CallRecord
  <2>3. \A p \in Pairs : conn[p].status # "NONE" => conn'[p].status # "NONE"
    BY <1>2
  <2>4. QED
    BY <2>1, <2>2, <2>3, NoCallTyped DEF ConnInv, PlansKnown
<1>6. OneAccepted'
  <2> SUFFICES ASSUME NEW p \in Pairs, \A d \in Both(p) : conn'[d].status = "ACCEPTED"
               PROVE  \/ p \in loose
                      \/ \E d \in ConnCalls : call'[d].pc = "collapse" /\ p \in Both(call'[d].pair)
    BY DEF OneAccepted, Collapse
  <2>1. p \notin Both(q)
    BY <1>1, <1>2, OtherRow DEF Both
  <2>2. \A d \in Both(p) : conn[d].status = "ACCEPTED"
    BY <1>2, OtherRow
  <2>3. \A d \in ConnCalls : d # c => call'[d] = call[d]
    BY DEF ConnInv, ConnTyped, Collapse, End
  <2>4. QED
    BY <1>1, <2>1, <2>2, <2>3 DEF ConnInv, OneAccepted
<1>7. QED
  BY <1>3, <1>4, <1>5, <1>6 DEF ConnInv

\* Between its two statements a call leaves the pair loose.
LEMMA DiesInv ==
  ASSUME ConnInv, NEW c \in ConnCalls, Dies(c)
  PROVE  ConnInv'
<1>1. CASE call[c].pc = "write"
  BY <1>1, ConnEndsInv DEF Dies
<1>2. CASE call[c].pc = "collapse"
  <2>1. call[c].pair \in Pairs /\ Both(call[c].pair) \subseteq Pairs
    BY <1>2, OtherRow DEF ConnInv, PlansKnown
  <2>2. loose' = loose \cup Both(call[c].pair)
    BY <1>2 DEF Dies
  <2>3. ConnTyped'
    BY <2>1, <2>2, NoCallTyped DEF ConnInv, ConnTyped, Dies, End
  <2>4. RowsAsked' /\ ConnectedByConsent'
    BY <2>2 DEF ConnInv, RowsAsked, ConnectedByConsent, Dies
  <2>5. PlansKnown'
    BY NoCallTyped DEF ConnInv, ConnTyped, PlansKnown, Dies, End
  <2>6. OneAccepted'
    BY <2>2 DEF ConnInv, ConnTyped, OneAccepted, Dies, End
  <2>7. QED
    BY <2>3, <2>4, <2>5, <2>6 DEF ConnInv
<1>3. QED
  BY <1>1, <1>2 DEF Dies

\* What an unblock restores is loose, as is what was.
LEMMA UnblockInv ==
  ASSUME ConnInv, NEW b \in Pairs, Unblock(b)
  PROVE  ConnInv'
<1>1. Both(b) \subseteq Pairs
  BY OtherRow
<1>2. /\ conn' \in [Pairs -> Row]
      /\ \A p \in Pairs : \/ conn'[p] = conn[p]
                          \/ p \in Both(b) /\ p \in loose' /\ conn[p].status = "CANCELLED"
                             /\ conn'[p].status = "ACCEPTED"
  <2>1. conn' \in [Pairs -> Row]
    BY DEF ConnInv, ConnTyped, Row, Unblock
  <2>2. ASSUME NEW p \in Pairs, conn'[p] # conn[p]
        PROVE  p \in Both(b) /\ conn[p].status = "CANCELLED" /\ conn'[p].status = "ACCEPTED"
    BY <2>2 DEF ConnInv, ConnTyped, Row, Unblock
  <2>3. ASSUME NEW p \in Pairs, conn'[p] # conn[p]
        PROVE  loose' = loose \cup Both(b)
    BY <2>3 DEF Unblock
  <2>4. QED
    BY <2>1, <2>2, <2>3
<1>3. loose \subseteq loose' /\ loose' \subseteq loose \cup Both(b)
  BY DEF Unblock
<1>4. ConnTyped'
  BY <1>1, <1>2, <1>3 DEF ConnInv, ConnTyped, Unblock
<1>5. RowsAsked' /\ ConnectedByConsent'
  BY <1>2, <1>3 DEF ConnInv, RowsAsked, ConnectedByConsent, Unblock
<1>6. PlansKnown'
  <2>1. \A d \in ConnCalls : call[d].rows \subseteq Pairs
    BY DEF ConnInv, ConnTyped, CallRecord
  <2>2. \A p \in Pairs : conn[p].status # "NONE" => conn'[p].status # "NONE"
    BY <1>2
  <2>3. QED
    BY <2>1, <2>2 DEF ConnInv, PlansKnown, Unblock
<1>7. OneAccepted'
  <2> SUFFICES ASSUME NEW p \in Pairs, \A d \in Both(p) : conn'[d].status = "ACCEPTED"
               PROVE  \/ p \in loose'
                      \/ \E d \in ConnCalls : call[d].pc = "collapse" /\ p \in Both(call[d].pair)
    BY DEF OneAccepted, Unblock
  <2>1. CASE \A d \in Both(p) : conn'[d] = conn[d]
    BY <1>3, <2>1 DEF ConnInv, OneAccepted
  <2>2. ASSUME NEW d \in Both(p), conn'[d] # conn[d]
        PROVE  p \in loose'
    <3>1. d \in Pairs /\ d \in Both(b) /\ loose' = loose \cup Both(b)
      <4>1. d \in Pairs /\ d \in Both(b)
        BY <1>2, <2>2, OtherRow
      <4>2. QED
        BY <2>2, <4>1 DEF Unblock
    <3>2. p \in Both(b)
      BY <3>1, OtherRow DEF Both
    <3>3. QED
      BY <3>1, <3>2
  <2>3. QED
    BY <2>1, <2>2
<1>8. QED
  BY <1>4, <1>5, <1>6, <1>7 DEF ConnInv

\* Blocks and the passing of time connect nobody.
LEMMA BlockCoolsInv ==
  ASSUME ConnInv, NEW b \in Pairs, Block(b) \/ CoolsDown(b)
  PROVE  ConnInv'
<1>1. /\ conn' \in [Pairs -> Row] /\ blocks' \subseteq Pairs
      /\ \A p \in Pairs : conn'[p].status = conn[p].status
      /\ UNCHANGED <<call, consent, loose>>
  <2>1. CASE Block(b)
    BY <2>1 DEF ConnInv, ConnTyped, Block
  <2>2. CASE CoolsDown(b)
    BY <2>2 DEF ConnInv, ConnTyped, Row, CoolsDown
  <2>3. QED
    BY <2>1, <2>2
<1>2. ConnTyped' /\ RowsAsked' /\ ConnectedByConsent'
  BY <1>1 DEF ConnInv, ConnTyped, RowsAsked, ConnectedByConsent
<1>3. PlansKnown'
  <2>1. \A d \in ConnCalls : call[d].rows \subseteq Pairs
    BY DEF ConnInv, ConnTyped, CallRecord
  <2>2. QED
    BY <1>1, <2>1 DEF ConnInv, PlansKnown
<1>4. OneAccepted'
  <2>1. \A p \in Pairs : Both(p) \subseteq Pairs
    BY OtherRow
  <2>2. QED
    BY <1>1, <2>1 DEF ConnInv, OneAccepted
<1>5. QED
  BY <1>2, <1>3, <1>4 DEF ConnInv

LEMMA ConnNextInv == ConnInv /\ [ConnectionsNext]_connVars => ConnInv'
<1> SUFFICES ASSUME ConnInv, [ConnectionsNext]_connVars PROVE ConnInv'
  OBVIOUS
<1>1. ASSUME NEW c \in ConnCalls, NEW o \in Calls, NEW p \in Pairs, Begin(c, o, p) PROVE ConnInv'
  BY <1>1, BeginInv
<1>2. ASSUME NEW c \in ConnCalls,
             SendAccepts(c) \/ SendFresh(c) \/ SendAgain(c) \/ Answer(c) \/ Disconnect(c)
      PROVE ConnInv'
  BY <1>2, ReadsInv
<1>3. ASSUME NEW c \in ConnCalls, Refused(c) PROVE ConnInv'
  BY <1>3, ConnEndsInv DEF Refused
<1>4. ASSUME NEW c \in ConnCalls, Write(c) PROVE ConnInv'
  BY <1>4, WriteRequestInv, CreateInv, CreateFailsInv, AcceptInv, ClosesInv DEF Write
<1>5. ASSUME NEW c \in ConnCalls, Collapse(c) \/ Dies(c) PROVE ConnInv'
  BY <1>5, CollapseInv, DiesInv
<1>6. ASSUME NEW p \in Pairs, Block(p) \/ Unblock(p) \/ CoolsDown(p) PROVE ConnInv'
  BY <1>6, BlockCoolsInv, UnblockInv
<1>7. CASE UNCHANGED connVars
  BY <1>7 DEF ConnInv, connVars, ConnTyped, RowsAsked, PlansKnown, ConnectedByConsent, OneAccepted
<1>8. QED
  BY <1>1, <1>2, <1>3, <1>4, <1>5, <1>6, <1>7 DEF ConnectionsNext

THEOREM ConnectionsInvariant == ConnectionsSpec => []ConnInv
BY ConnInitInv, ConnNextInv, PTL DEF ConnectionsSpec

\* Every variable keeps its type.
THEOREM ConnectionsTypes == ConnectionsSpec => []ConnectionsTypeOK
<1>1. ConnInv => ConnectionsTypeOK
  BY DEF ConnInv, ConnTyped, CallRecord, ConnectionsTypeOK
<1>2. QED
  BY <1>1, ConnectionsInvariant, PTL

\* Who is connected has asked for it or accepted it, both of them, unless an unblock restored the
\* pair, for any members, requests under way and deaths between their statements.
THEOREM ConsentedConnections == ConnectionsSpec => []ConnectedByConsent
<1>1. ConnInv => ConnectedByConsent
  BY DEF ConnInv
<1>2. QED
  BY <1>1, ConnectionsInvariant, PTL

\* Nobody is connected twice to the same member, except while a call is about to cancel the second
\* row, or after it died there or an unblock restored both.
THEOREM SingleConnection == ConnectionsSpec => []OneAccepted
<1>1. ConnInv => OneAccepted
  BY DEF ConnInv
<1>2. QED
  BY <1>1, ConnectionsInvariant, PTL

-----------------------------------------------------------------------------
(***************************************************************************)
(* Scheduled jobs                                                          *)
(***************************************************************************)
JobRecord ==
    [pc : {"idle", "lock", "open", "work", "close", "count", "save", "release"}, manual : BOOLEAN,
     row : SUBSET RunIds, result : {"none", "SUCCESS", "FAILURE", "quiet"}, seen : Nat]

JobTyped ==
    /\ switch \in {"unset", "on", "off"}
    /\ copy \in [Hosts -> {"unset", "on", "off", "unloaded"}]
    /\ lock \subseteq Hosts
    /\ job \in [Hosts -> JobRecord]
    /\ runRow \in [RunIds -> {"NONE", "RUNNING", "SUCCESS", "FAILURE"}]
    /\ counted \in Nat
    /\ broken \in BOOLEAN

\* One session at most holds the lock, and who works holds it, until one was lost.
WorksUnderLock ==
    /\ \A g, h \in lock : g = h
    /\ ~broken => \A h \in Hosts : Working(h) => h \in lock

\* The rows of two runs at work are not the same, and still say RUNNING.
RowsOwned ==
    /\ \A h \in Hosts : job[h].pc \in {"work", "close"} => \A r \in job[h].row : runRow[r] = "RUNNING"
    /\ \A g, h \in Hosts : g # h /\ {job[g].pc, job[h].pc} \subseteq {"work", "close"}
                              => job[g].row \cap job[h].row = {}
    /\ \A h \in Hosts : /\ job[h].pc = "close" => \E r \in RunIds : job[h].row = {r}
                        /\ job[h].pc \in {"idle", "lock", "open"} => job[h].row = {}
                        /\ job[h].pc = "work" => job[h].row = {} \/ \E r \in RunIds : job[h].row = {r}
                        /\ job[h].pc = "close" => job[h].result # "none"

\* Runs that are closed and not yet counted.
Uncounted == {h \in Hosts : job[h].pc \in {"count", "save"}}

\* The count is never ahead of the rows, whatever runs count at the same time from a count they
\* have read before.
CountBehind ==
    /\ counted + Cardinality(Uncounted) <= Cardinality(Closed)
    /\ \A h \in Hosts : job[h].pc = "save" => job[h].seen + Cardinality(Uncounted) <= Cardinality(Closed)

\* Until something is lost it is not behind either, and every row that says RUNNING is of a run at
\* work.
CountExact ==
    ~broken =>
        /\ counted + Cardinality(Uncounted) = Cardinality(Closed)
        /\ \A h \in Hosts : job[h].pc = "save" => job[h].seen = counted
        /\ \A r \in RunIds : runRow[r] = "RUNNING" =>
              \E h \in Hosts : job[h].pc \in {"work", "close"} /\ r \in job[h].row
        /\ \A h \in Hosts : job[h].pc = "work" => job[h].row # {}

JobInv == JobTyped /\ WorksUnderLock /\ RowsOwned /\ CountBehind /\ CountExact

\* The sets that are counted are finite.
LEMMA CountsFinite ==
  /\ IsFiniteSet(Closed) /\ Cardinality(Closed) \in Nat
  /\ Cardinality(Closed) <= Cardinality(RunIds) /\ Cardinality(RunIds) \in Nat
  /\ IsFiniteSet(Uncounted) /\ Cardinality(Uncounted) \in Nat
<1>1. Closed \in SUBSET RunIds /\ Uncounted \in SUBSET Hosts
  BY DEF Closed, Uncounted
<1>2. IsFiniteSet(RunIds) /\ IsFiniteSet(Hosts)
  BY SchedulerAssumption
<1>3. IsFiniteSet(Closed) /\ Cardinality(Closed) <= Cardinality(RunIds)
  BY <1>1, <1>2, FS_Subset
<1>4. IsFiniteSet(Uncounted)
  BY <1>1, <1>2, FS_Subset
<1>5. QED
  BY <1>2, <1>3, <1>4, FS_CardinalityType

\* As long as nothing was lost one run is at work.
LEMMA OneWorks ==
  ASSUME JobInv, ~broken, NEW g \in Hosts, NEW h \in Hosts, Working(g), Working(h)
  PROVE  g = h
BY DEF JobInv, WorksUnderLock

LEMMA IdleTyped == Idle \in JobRecord /\ Idle.pc = "idle" /\ Idle.row = {}
BY DEF Idle, JobRecord

LEMMA JobInitInv == SchedulerInit => JobInv
<1> SUFFICES ASSUME SchedulerInit PROVE JobInv
  OBVIOUS
<1>1. JobTyped
  BY IdleTyped DEF SchedulerInit, JobTyped
<1>2. WorksUnderLock /\ RowsOwned
  BY IdleTyped DEF SchedulerInit, WorksUnderLock, RowsOwned, Working
<1>3. Uncounted = {} /\ Closed = {}
  BY IdleTyped DEF SchedulerInit, Uncounted, Closed
<1>4. CountBehind /\ CountExact
  BY <1>3, FS_EmptySet, IdleTyped DEF SchedulerInit, CountBehind, CountExact
<1>5. QED
  BY <1>1, <1>2, <1>4 DEF JobInv

\* What changes neither the rows nor who is to be counted leaves the counts as they are.
LEMMA CountsKept ==
  ASSUME CountBehind, CountExact, UNCHANGED <<runRow, counted>>, Uncounted' = Uncounted,
         broken => broken',
         \A h \in Hosts : job'[h].pc = "save" => job[h].pc = "save" /\ job'[h].seen = job[h].seen,
         \A h \in Hosts : ~broken' /\ job[h].pc \in {"work", "close"} =>
             job'[h].pc \in {"work", "close"} /\ job'[h].row = job[h].row,
         \A h \in Hosts : ~broken' /\ job'[h].pc = "work" => job'[h].row # {}
  PROVE  CountBehind' /\ CountExact'
<1>1. Closed' = Closed
  BY DEF Closed
<1>2. CountBehind'
  BY <1>1 DEF CountBehind
<1>3. CountExact'
  BY <1>1 DEF CountExact
<1>4. QED
  BY <1>2, <1>3

\* The switch.
LEMMA SetJobEnabledInv ==
  ASSUME JobInv, NEW h \in Hosts, SetJobEnabled(h)
  PROVE  JobInv'
<1>1. JobTyped'
  BY DEF JobInv, JobTyped, SetJobEnabled
<1>2. WorksUnderLock' /\ RowsOwned'
  BY DEF JobInv, WorksUnderLock, RowsOwned, Working, SetJobEnabled
<1>3. CountBehind' /\ CountExact'
  BY DEF JobInv, CountBehind, CountExact, Closed, Uncounted, SetJobEnabled
<1>4. QED
  BY <1>1, <1>2, <1>3 DEF JobInv

\* A run that begins has done nothing yet.
LEMMA BeginsInv ==
  ASSUME JobInv, NEW h \in Hosts, Tick(h) \/ RunNow(h)
  PROVE  JobInv'
<1>1. /\ job[h].pc = "idle" /\ UNCHANGED <<switch, lock, runRow, counted, broken>>
      /\ copy' \in [Hosts -> {"unset", "on", "off", "unloaded"}]
  BY DEF JobInv, JobTyped, Tick, RunNow, Word
<1>2. \/ job' = job
      \/ /\ job' \in [Hosts -> JobRecord]
         /\ job'[h].pc = "lock" /\ job'[h].row = {}
         /\ \A g \in Hosts : g # h => job'[g] = job[g]
  <2>1. CASE Tick(h)
    BY <1>1, <2>1 DEF JobInv, JobTyped, JobRecord, RowsOwned, Tick, Goes
  <2>2. CASE RunNow(h)
    <3>1. [Idle EXCEPT !.pc = "lock", !.manual = TRUE] \in JobRecord
      BY IdleTyped DEF JobRecord
    <3>2. [Idle EXCEPT !.pc = "lock", !.manual = TRUE].pc = "lock" /\ [Idle EXCEPT !.pc = "lock", !.manual = TRUE].row = {}
      BY DEF Idle
    <3>3. QED
      BY <2>2, <3>1, <3>2 DEF JobInv, JobTyped, RunNow
  <2>3. QED
    BY <2>1, <2>2
<1>3. JobTyped'
  BY <1>1, <1>2 DEF JobInv, JobTyped
<1>4. WorksUnderLock' /\ RowsOwned'
  BY <1>1, <1>2 DEF JobInv, WorksUnderLock, RowsOwned, Working
<1>5. Uncounted' = Uncounted
  BY <1>1, <1>2 DEF Uncounted
<1>6. CountBehind' /\ CountExact'
  <2>1. /\ \A g \in Hosts : job'[g].pc = "save" => job[g].pc = "save" /\ job'[g].seen = job[g].seen
        /\ \A g \in Hosts : job[g].pc \in {"work", "close"} =>
               job'[g].pc \in {"work", "close"} /\ job'[g].row = job[g].row
    BY <1>1, <1>2
  <2>2. \A g \in Hosts : ~broken /\ job'[g].pc = "work" => job'[g].row # {}
    BY <1>1, <1>2 DEF JobInv, CountExact
  <2>3. QED
    BY <1>1, <1>5, <2>1, <2>2, CountsKept DEF JobInv
<1>7. QED
  BY <1>3, <1>4, <1>6 DEF JobInv

\* The lock is taken when nobody holds it.
LEMMA TakeLockInv ==
  ASSUME JobInv, NEW h \in Hosts, TakeLock(h)
  PROVE  JobInv'
<1>1. job[h].pc = "lock" /\ UNCHANGED <<switch, copy, runRow, counted, broken>>
  BY DEF TakeLock
<1>2. /\ job' \in [Hosts -> JobRecord] /\ lock' \subseteq Hosts
      /\ \A g \in Hosts : g # h => job'[g] = job[g]
      /\ job'[h].pc \in {"open", "idle"} /\ job'[h].row = {}
      /\ \/ lock = {} /\ lock' = {h}
         \/ lock' = lock /\ job'[h].pc = "idle"
  <2>1. CASE Acquires(h)
    <3>1. job[h].row = {}
      BY <1>1 DEF JobInv, RowsOwned
    <3>2. lock = {} /\ lock' = {h} /\ job' = [job EXCEPT ![h].pc = "open"]
      BY <2>1 DEF TakeLock, Acquires, Goes
    <3>3. QED
      BY <3>1, <3>2 DEF JobInv, JobTyped, JobRecord
  <2>2. CASE ~Acquires(h)
    BY <1>1, <2>2, IdleTyped DEF JobInv, JobTyped, TakeLock, Stops
  <2>3. QED
    BY <2>1, <2>2
<1>3. JobTyped'
  BY <1>1, <1>2 DEF JobInv, JobTyped
<1>4. WorksUnderLock' /\ RowsOwned'
  BY <1>1, <1>2 DEF JobInv, WorksUnderLock, RowsOwned, Working
<1>5. Uncounted' = Uncounted
  BY <1>1, <1>2 DEF Uncounted
<1>6. CountBehind' /\ CountExact'
  <2>1. /\ \A g \in Hosts : job'[g].pc = "save" => job[g].pc = "save" /\ job'[g].seen = job[g].seen
        /\ \A g \in Hosts : job[g].pc \in {"work", "close"} =>
               job'[g].pc \in {"work", "close"} /\ job'[g].row = job[g].row
    BY <1>1, <1>2
  <2>2. \A g \in Hosts : ~broken /\ job'[g].pc = "work" => job'[g].row # {}
    BY <1>1, <1>2 DEF JobInv, CountExact
  <2>3. QED
    BY <1>1, <1>5, <2>1, <2>2, CountsKept DEF JobInv
<1>7. QED
  BY <1>3, <1>4, <1>6 DEF JobInv

\* A row is opened from none, so it is no other run's.
LEMMA OpenRunInv ==
  ASSUME JobInv, NEW h \in Hosts, OpenRun(h)
  PROVE  JobInv'
<1>1. job[h].pc = "open" /\ job[h].row = {} /\ UNCHANGED <<switch, copy, lock, counted>>
  BY DEF JobInv, RowsOwned, OpenRun
<1>2. CASE \E r \in RunIds :
             /\ runRow[r] = "NONE"
             /\ runRow' = [runRow EXCEPT ![r] = "RUNNING"]
             /\ job' = [job EXCEPT ![h].pc = "work", ![h].row = {r}]
             /\ UNCHANGED broken
  <2> PICK r \in RunIds : /\ runRow[r] = "NONE"
                          /\ runRow' = [runRow EXCEPT ![r] = "RUNNING"]
                          /\ job' = [job EXCEPT ![h].pc = "work", ![h].row = {r}]
                          /\ UNCHANGED broken
    BY <1>2
  <2>1. /\ job' \in [Hosts -> JobRecord]
        /\ \A g \in Hosts : g # h => job'[g] = job[g]
        /\ job'[h].pc = "work" /\ job'[h].row = {r}
    <3> DEFINE done == [job[h] EXCEPT !.pc = "work", !.row = {r}]
    <3>1. job' = [job EXCEPT ![h] = done]
      BY DEF JobInv, JobTyped
    <3>2. done \in JobRecord /\ done.pc = "work" /\ done.row = {r}
      BY DEF JobInv, JobTyped, JobRecord
    <3> HIDE DEF done
    <3>3. QED
      BY <3>1, <3>2 DEF JobInv, JobTyped
  <2>2. /\ runRow' \in [RunIds -> {"NONE", "RUNNING", "SUCCESS", "FAILURE"}]
        /\ runRow'[r] = "RUNNING" /\ \A q \in RunIds : q # r => runRow'[q] = runRow[q]
    BY DEF JobInv, JobTyped
  <2>3. JobTyped'
    BY <1>1, <2>1, <2>2 DEF JobInv, JobTyped
  <2>4. WorksUnderLock'
    BY <1>1, <2>1 DEF JobInv, WorksUnderLock, Working
  <2>5. RowsOwned'
    <3>1. \A g \in Hosts : job[g].row \subseteq RunIds
      BY DEF JobInv, JobTyped, JobRecord
    <3>2. \A g \in Hosts : job[g].pc \in {"work", "close"} => r \notin job[g].row
      BY DEF JobInv, RowsOwned
    <3>3. QED
      BY <2>1, <2>2, <3>1, <3>2 DEF JobInv, RowsOwned
  <2>6. Uncounted' = Uncounted /\ Closed' = Closed
    BY <1>1, <2>1, <2>2 DEF Uncounted, Closed
  <2>7. CountBehind'
    BY <1>1, <2>1, <2>6 DEF JobInv, CountBehind
  <2>8. CountExact'
    BY <1>1, <2>1, <2>2, <2>6 DEF JobInv, CountExact
  <2>9. QED
    BY <2>3, <2>4, <2>5, <2>7, <2>8 DEF JobInv
<1>3. CASE Goes(h, "work") /\ broken' = TRUE /\ UNCHANGED runRow
  <2>1. /\ job' \in [Hosts -> JobRecord]
        /\ \A g \in Hosts : g # h => job'[g] = job[g]
        /\ job'[h].pc = "work" /\ job'[h].row = {}
    BY <1>1, <1>3 DEF JobInv, JobTyped, JobRecord, Goes
  <2>2. JobTyped'
    BY <1>1, <1>3, <2>1 DEF JobInv, JobTyped
  <2>3. WorksUnderLock' /\ RowsOwned'
    BY <1>1, <1>3, <2>1 DEF JobInv, WorksUnderLock, RowsOwned
  <2>4. Uncounted' = Uncounted /\ Closed' = Closed
    BY <1>1, <1>3, <2>1 DEF Uncounted, Closed
  <2>5. CountBehind' /\ CountExact'
    BY <1>1, <1>3, <2>1, <2>4 DEF JobInv, CountBehind, CountExact
  <2>6. QED
    BY <2>2, <2>3, <2>5 DEF JobInv
<1>4. QED
  BY <1>2, <1>3 DEF OpenRun

\* The row stays what it is while the run works.
LEMMA WorkInv ==
  ASSUME JobInv, NEW h \in Hosts, Work(h)
  PROVE  JobInv'
<1>1. job[h].pc = "work" /\ UNCHANGED <<switch, copy, lock, runRow, counted, broken>>
  BY DEF Work
<1>2. /\ job' \in [Hosts -> JobRecord]
      /\ \A g \in Hosts : g # h => job'[g] = job[g]
      /\ job'[h].pc = IF job[h].row = {} THEN "release" ELSE "close"
      /\ job'[h].row = job[h].row /\ job'[h].result # "none"
  <2> PICK result \in {"SUCCESS", "FAILURE", "quiet"} :
          job' = [job EXCEPT ![h].pc = IF job[h].row = {} THEN "release" ELSE "close",
                             ![h].result = result]
    BY DEF Work
  <2> DEFINE pc == IF job[h].row = {} THEN "release" ELSE "close"
             done == [job[h] EXCEPT !.pc = pc, !.result = result]
  <2>1. job' = [job EXCEPT ![h] = done]
    BY DEF JobInv, JobTyped
  <2>2. done \in JobRecord /\ done.pc = pc /\ done.row = job[h].row /\ done.result # "none"
    BY DEF JobInv, JobTyped, JobRecord
  <2> HIDE DEF done
  <2>3. QED
    BY <2>1, <2>2 DEF JobInv, JobTyped
<1>3. JobTyped'
  BY <1>1, <1>2 DEF JobInv, JobTyped
<1>4. WorksUnderLock' /\ RowsOwned'
  BY <1>1, <1>2 DEF JobInv, WorksUnderLock, RowsOwned, Working
<1>5. Uncounted' = Uncounted
  BY <1>1, <1>2 DEF Uncounted
<1>6. CountBehind' /\ CountExact'
  <2>1. \A g \in Hosts : job'[g].pc = "save" => job[g].pc = "save" /\ job'[g].seen = job[g].seen
    BY <1>1, <1>2
  <2>2. \A g \in Hosts : ~broken /\ job[g].pc = "work" => job[g].row # {}
    BY DEF JobInv, CountExact
  <2>3. \A g \in Hosts : /\ ~broken /\ job[g].pc \in {"work", "close"} =>
                             job'[g].pc \in {"work", "close"} /\ job'[g].row = job[g].row
                         /\ ~broken /\ job'[g].pc = "work" => job'[g].row # {}
    BY <1>1, <1>2, <2>2
  <2>4. QED
    <3>1. CountBehind /\ CountExact /\ (broken => broken') /\ (~broken' => ~broken)
      BY <1>1 DEF JobInv
    <3>2. UNCHANGED <<runRow, counted>>
      BY <1>1
    <3>3. /\ \A g \in Hosts : ~broken' /\ job[g].pc \in {"work", "close"} =>
                job'[g].pc \in {"work", "close"} /\ job'[g].row = job[g].row
          /\ \A g \in Hosts : ~broken' /\ job'[g].pc = "work" => job'[g].row # {}
      BY <2>3, <3>1
    <3>4. QED
      BY <1>5, <2>1, <3>1, <3>2, <3>3, CountsKept
<1>7. QED
  BY <1>3, <1>4, <1>6 DEF JobInv

\* A closed row adds a run that is closed and one that is to be counted; a row that is dropped was
\* not closed.
LEMMA CloseRunInv ==
  ASSUME JobInv, NEW h \in Hosts, CloseRun(h)
  PROVE  JobInv'
<1>1. job[h].pc = "close" /\ UNCHANGED <<switch, copy, lock, counted, broken>>
  BY DEF CloseRun
<1> PICK r \in RunIds : job[h].row = {r}
  BY <1>1 DEF JobInv, RowsOwned
<1>2. job[h].result \in {"SUCCESS", "FAILURE", "quiet"} /\ runRow[r] = "RUNNING"
  BY <1>1 DEF JobInv, JobTyped, JobRecord, RowsOwned
<1>3. /\ runRow' \in [RunIds -> {"NONE", "RUNNING", "SUCCESS", "FAILURE"}]
      /\ runRow'[r] = (IF job[h].result = "quiet" THEN "NONE" ELSE job[h].result)
      /\ \A q \in RunIds : q # r => runRow'[q] = runRow[q]
  BY <1>2 DEF JobInv, JobTyped, CloseRun
<1>4. /\ job' \in [Hosts -> JobRecord]
      /\ \A g \in Hosts : g # h => job'[g] = job[g]
      /\ job'[h].pc = (IF job[h].result = "quiet" THEN "release" ELSE "count")
      /\ job'[h].row = {r}
  BY <1>1 DEF JobInv, JobTyped, JobRecord, CloseRun, Goes
<1>5. JobTyped'
  BY <1>1, <1>3, <1>4 DEF JobInv, JobTyped
<1>6. WorksUnderLock'
  BY <1>1, <1>4 DEF JobInv, WorksUnderLock, Working
<1>7. RowsOwned'
  <2>1. \A g \in Hosts : job[g].row \subseteq RunIds
    BY DEF JobInv, JobTyped, JobRecord
  <2>2. \A g \in Hosts : g # h /\ job[g].pc \in {"work", "close"} => r \notin job[g].row
    BY <1>1 DEF JobInv, RowsOwned
  <2>3. QED
    BY <1>1, <1>3, <1>4, <2>1, <2>2 DEF JobInv, RowsOwned
<1>8. CountBehind' /\ CountExact'
  <2>1. \A q \in RunIds : runRow'[q] = "RUNNING" /\ ~broken =>
           \E g \in Hosts : job'[g].pc \in {"work", "close"} /\ q \in job'[g].row
    <3> SUFFICES ASSUME NEW q \in RunIds, runRow'[q] = "RUNNING", ~broken
                 PROVE  \E g \in Hosts : job'[g].pc \in {"work", "close"} /\ q \in job'[g].row
      OBVIOUS
    <3>1. q # r /\ runRow[q] = "RUNNING"
      BY <1>2, <1>3
    <3>2. PICK g \in Hosts : job[g].pc \in {"work", "close"} /\ q \in job[g].row
      BY <3>1 DEF JobInv, CountExact
    <3>3. g # h
      BY <3>1, <3>2
    <3>4. QED
      BY <1>4, <3>2, <3>3
  <2>2. CASE job[h].result = "quiet"
    <3>1. Uncounted' = Uncounted /\ Closed' = Closed
      BY <1>1, <1>2, <1>3, <1>4, <2>2 DEF Uncounted, Closed
    <3>2. CountBehind'
      BY <1>1, <1>4, <2>2, <3>1 DEF JobInv, CountBehind
    <3>3. CountExact'
      BY <1>1, <1>4, <2>1, <2>2, <3>1 DEF JobInv, CountExact
    <3>4. QED
      BY <3>2, <3>3
  <2>3. CASE job[h].result # "quiet"
    <3>1. Uncounted' = Uncounted \cup {h} /\ h \notin Uncounted
      BY <1>1, <1>4, <2>3 DEF Uncounted
    <3>2. Closed' = Closed \cup {r} /\ r \notin Closed
      BY <1>2, <1>3, <2>3 DEF Closed
    <3>3. /\ Cardinality(Uncounted') = Cardinality(Uncounted) + 1
          /\ Cardinality(Closed') = Cardinality(Closed) + 1
      BY <3>1, <3>2, CountsFinite, FS_AddElement
    <3>4. /\ Cardinality(Uncounted) \in Nat /\ Cardinality(Closed) \in Nat
          /\ counted \in Nat /\ \A g \in Hosts : job[g].seen \in Nat
      BY CountsFinite DEF JobInv, JobTyped, JobRecord
    <3>5. \A g \in Hosts : /\ job'[g].pc = "save" => job[g].pc = "save" /\ job'[g].seen = job[g].seen
                           /\ job'[g].pc = "work" => job[g].pc = "work" /\ job'[g].row = job[g].row
      BY <1>1, <1>4, <2>3
    <3>6. counted' = counted /\ (~broken' => ~broken)
      BY <1>1
    <3>7. CountBehind'
      <4>1. counted' + Cardinality(Uncounted') <= Cardinality(Closed')
        BY <3>3, <3>4, <3>6 DEF JobInv, CountBehind
      <4>2. \A g \in Hosts : job'[g].pc = "save" => job'[g].seen + Cardinality(Uncounted') <= Cardinality(Closed')
        <5> SUFFICES ASSUME NEW g \in Hosts, job'[g].pc = "save"
                     PROVE  job'[g].seen + Cardinality(Uncounted') <= Cardinality(Closed')
          OBVIOUS
        <5>1. job'[g].seen = job[g].seen /\ job[g].seen \in Nat
          BY <3>4, <3>5
        <5>2. job[g].seen + Cardinality(Uncounted) <= Cardinality(Closed)
          BY <3>5 DEF JobInv, CountBehind
        <5>3. QED
          BY <3>3, <3>4, <5>1, <5>2
      <4>3. QED
        BY <4>1, <4>2 DEF CountBehind
    <3>8. CountExact'
      <4>1. ~broken => counted' + Cardinality(Uncounted') = Cardinality(Closed')
        BY <3>3, <3>4, <3>6 DEF JobInv, CountExact
      <4>2. ~broken => \A g \in Hosts : /\ job'[g].pc = "save" => job'[g].seen = counted'
                                        /\ job'[g].pc = "work" => job'[g].row # {}
        BY <3>5, <3>6 DEF JobInv, CountExact
      <4>3. QED
        BY <2>1, <3>6, <4>1, <4>2 DEF CountExact
    <3>9. QED
      BY <3>7, <3>8
  <2>4. QED
    BY <2>2, <2>3
<1>9. QED
  BY <1>5, <1>6, <1>7, <1>8 DEF JobInv

\* The count is read: as long as nothing was lost nobody else is about to write it.
LEMMA CountReadsInv ==
  ASSUME JobInv, NEW h \in Hosts, CountReads(h)
  PROVE  JobInv'
<1>1. job[h].pc = "count" /\ UNCHANGED <<switch, copy, lock, runRow, counted, broken>>
  BY DEF CountReads
<1>2. /\ job' \in [Hosts -> JobRecord]
      /\ \A g \in Hosts : g # h => job'[g] = job[g]
      /\ job'[h].pc = "save" /\ job'[h].seen = counted
  <2> DEFINE done == [job[h] EXCEPT !.pc = "save", !.seen = counted]
  <2>1. job' = [job EXCEPT ![h] = done]
    BY DEF JobInv, JobTyped, CountReads
  <2>2. done \in JobRecord /\ done.pc = "save" /\ done.seen = counted
    BY DEF JobInv, JobTyped, JobRecord
  <2> HIDE DEF done
  <2>3. QED
    BY <2>1, <2>2 DEF JobInv, JobTyped
<1>3. JobTyped'
  BY <1>1, <1>2 DEF JobInv, JobTyped
<1>4. WorksUnderLock' /\ RowsOwned'
  BY <1>1, <1>2 DEF JobInv, WorksUnderLock, RowsOwned, Working
<1>5. Uncounted' = Uncounted /\ Closed' = Closed
  BY <1>1, <1>2 DEF Uncounted, Closed
<1>6. CountBehind'
  BY <1>1, <1>2, <1>5 DEF JobInv, CountBehind
<1>7. CountExact'
  BY <1>1, <1>2, <1>5 DEF JobInv, CountExact
<1>8. QED
  BY <1>3, <1>4, <1>6, <1>7 DEF JobInv

\* The count that is written is one more than a count that was not ahead when it was read.
LEMMA CountSavesInv ==
  ASSUME JobInv, NEW h \in Hosts, CountSaves(h)
  PROVE  JobInv'
<1>1. /\ job[h].pc = "save" /\ counted' = job[h].seen + 1
      /\ UNCHANGED <<switch, copy, lock, runRow, broken>>
  BY DEF CountSaves
<1>2. /\ job' \in [Hosts -> JobRecord]
      /\ \A g \in Hosts : g # h => job'[g] = job[g]
      /\ job'[h].pc = "release"
  BY DEF JobInv, JobTyped, JobRecord, CountSaves, Goes
<1>3. job[h].seen \in Nat /\ counted \in Nat
  BY DEF JobInv, JobTyped, JobRecord
<1>4. JobTyped'
  BY <1>1, <1>2, <1>3 DEF JobInv, JobTyped
<1>5. WorksUnderLock' /\ RowsOwned'
  BY <1>1, <1>2 DEF JobInv, WorksUnderLock, RowsOwned, Working
<1>6. Uncounted' = Uncounted \ {h} /\ h \in Uncounted /\ Closed' = Closed
  BY <1>1, <1>2 DEF Uncounted, Closed
<1>7. /\ Cardinality(Uncounted') = Cardinality(Uncounted) - 1
      /\ Cardinality(Uncounted) \in Nat /\ Cardinality(Closed) \in Nat
  BY <1>6, CountsFinite, FS_RemoveElement
<1>8. CountBehind'
  <2>1. counted' + Cardinality(Uncounted') <= Cardinality(Closed')
    BY <1>1, <1>3, <1>6, <1>7 DEF JobInv, CountBehind
  <2>2. ASSUME NEW g \in Hosts, job'[g].pc = "save"
        PROVE  job'[g].seen + Cardinality(Uncounted') <= Cardinality(Closed')
    <3>1. g # h /\ job[g].pc = "save" /\ job'[g].seen = job[g].seen
      BY <1>2, <2>2
    <3>2. job[g].seen \in Nat /\ job[g].seen + Cardinality(Uncounted) <= Cardinality(Closed)
      BY <3>1 DEF JobInv, JobTyped, JobRecord, CountBehind
    <3>3. QED
      BY <1>6, <1>7, <3>1, <3>2
  <2>3. QED
    BY <2>1, <2>2 DEF CountBehind
<1>9. CountExact'
  <2> SUFFICES ASSUME ~broken PROVE CountExact'
    BY <1>1 DEF CountExact
  <2>1. counted' + Cardinality(Uncounted') = Cardinality(Closed')
    BY <1>1, <1>3, <1>6, <1>7 DEF JobInv, CountExact
  <2>2. \A g \in Hosts : job'[g].pc # "save"
    BY <1>1, <1>2, OneWorks DEF Working
  <2>3. QED
    BY <1>1, <1>2, <2>1, <2>2 DEF JobInv, CountExact
<1>10. QED
  BY <1>4, <1>5, <1>8, <1>9 DEF JobInv

\* A run that is at an end, or dies, and is not waited for by the count: who was to be counted
\* may be forgotten, which the count, never ahead, survives.
LEMMA ForgetsInv ==
  ASSUME JobInv, NEW h \in Hosts, job' \in [Hosts -> JobRecord],
         \A g \in Hosts : g # h => job'[g] = job[g],
         job'[h].pc \in {"idle", "release"},
         job'[h].pc = "idle" => job'[h].row = {},
         UNCHANGED <<switch, runRow, counted>>, copy' \in [Hosts -> {"unset", "on", "off", "unloaded"}],
         lock' = lock \/ lock' = lock \ {h},
         job'[h].pc = "release" => lock' = lock /\ Working(h),
         broken' \in BOOLEAN, broken => broken',
         broken' \/ job[h].pc \in {"idle", "lock", "release"}
  PROVE  JobInv'
<1>1. JobTyped'
  BY DEF JobInv, JobTyped
<1>2. WorksUnderLock'
  BY DEF JobInv, WorksUnderLock, Working
<1>3. RowsOwned'
  BY DEF JobInv, RowsOwned
<1>4. Closed' = Closed
  BY DEF Closed
<1>5. /\ Uncounted' \subseteq Uncounted
      /\ broken' \/ Uncounted' = Uncounted
  BY DEF Uncounted
<1>6. Cardinality(Uncounted') <= Cardinality(Uncounted) /\ Cardinality(Uncounted') \in Nat
  BY <1>5, CountsFinite, FS_Subset, FS_CardinalityType
<1>7. CountBehind'
  <2>1. counted \in Nat /\ counted' = counted
    BY DEF JobInv, JobTyped
  <2>2. counted' + Cardinality(Uncounted') <= Cardinality(Closed')
    BY <1>4, <1>6, <2>1, CountsFinite DEF JobInv, CountBehind
  <2>3. ASSUME NEW g \in Hosts, job'[g].pc = "save"
        PROVE  job'[g].seen + Cardinality(Uncounted') <= Cardinality(Closed')
    <3>1. g # h /\ job[g].pc = "save" /\ job'[g].seen = job[g].seen
      BY <2>3
    <3>2. job[g].seen \in Nat /\ job[g].seen + Cardinality(Uncounted) <= Cardinality(Closed)
      BY <3>1 DEF JobInv, JobTyped, JobRecord, CountBehind
    <3>3. QED
      BY <1>4, <1>6, <3>1, <3>2, CountsFinite
  <2>4. QED
    BY <2>2, <2>3 DEF CountBehind
<1>8. CountExact'
  <2>1. CASE broken'
    BY <2>1 DEF CountExact
  <2>2. CASE ~broken'
    <3>1. ~broken /\ Uncounted' = Uncounted
      BY <1>5, <2>2
    <3>2. job[h].pc \notin {"work", "close", "save"}
      BY <2>2
    <3>3. QED
      BY <1>4, <3>1, <3>2 DEF JobInv, CountExact
  <2>3. QED
    BY <2>1, <2>2
<1>9. QED
  BY <1>1, <1>2, <1>3, <1>7, <1>8 DEF JobInv

LEMMA LeavesInv ==
  ASSUME JobInv, NEW h \in Hosts, TrackingFails(h) \/ ReleaseLock(h) \/ Restart(h)
  PROVE  JobInv'
<1>1. CASE TrackingFails(h)
  <2>1. /\ job' \in [Hosts -> JobRecord] /\ job'[h].pc = "release"
        /\ \A g \in Hosts : g # h => job'[g] = job[g]
    BY <1>1 DEF JobInv, JobTyped, JobRecord, TrackingFails, Goes
  <2>2. /\ Working(h) /\ broken' = TRUE /\ UNCHANGED <<switch, copy, lock, runRow, counted>>
        /\ copy' \in [Hosts -> {"unset", "on", "off", "unloaded"}]
    BY <1>1 DEF JobInv, JobTyped, TrackingFails, Working
  <2>3. QED
    BY <2>1, <2>2, ForgetsInv
<1>2. CASE ReleaseLock(h)
  <2>1. /\ job' \in [Hosts -> JobRecord] /\ job'[h].pc = "idle" /\ job'[h].row = {}
        /\ \A g \in Hosts : g # h => job'[g] = job[g]
    BY <1>2, IdleTyped DEF JobInv, JobTyped, ReleaseLock, Stops
  <2>2. /\ job[h].pc = "release" /\ lock' = lock \ {h}
        /\ UNCHANGED <<switch, copy, runRow, counted, broken>>
        /\ copy' \in [Hosts -> {"unset", "on", "off", "unloaded"}]
        /\ broken' \in BOOLEAN /\ (broken => broken')
    BY <1>2 DEF JobInv, JobTyped, ReleaseLock
  <2>3. QED
    BY <2>1, <2>2, ForgetsInv
<1>3. CASE Restart(h)
  <2>1. /\ job' \in [Hosts -> JobRecord] /\ job'[h].pc = "idle" /\ job'[h].row = {}
        /\ \A g \in Hosts : g # h => job'[g] = job[g]
    BY <1>3, IdleTyped DEF JobInv, JobTyped, Restart, Stops
  <2>2. /\ lock' = lock \ {h} /\ UNCHANGED <<switch, runRow, counted>>
        /\ copy' \in [Hosts -> {"unset", "on", "off", "unloaded"}]
    BY <1>3 DEF JobInv, JobTyped, Restart
  <2>3. /\ broken' \in BOOLEAN /\ (broken => broken')
        /\ broken' \/ job[h].pc \in {"idle", "lock", "release"}
    BY <1>3 DEF JobInv, JobTyped, Restart
  <2>4. QED
    BY <2>1, <2>2, <2>3, ForgetsInv
<1>4. QED
  BY <1>1, <1>2, <1>3

\* The lock is lost while the work goes on.
LEMMA ConnectionLostInv ==
  ASSUME JobInv, NEW h \in Hosts, ConnectionLost(h)
  PROVE  JobInv'
<1>1. JobTyped'
  BY DEF JobInv, JobTyped, ConnectionLost
<1>2. WorksUnderLock' /\ RowsOwned'
  BY DEF JobInv, WorksUnderLock, RowsOwned, ConnectionLost
<1>3. Uncounted' = Uncounted /\ Closed' = Closed
  BY DEF Uncounted, Closed, ConnectionLost
<1>4. CountBehind' /\ CountExact'
  BY <1>3 DEF JobInv, CountBehind, CountExact, ConnectionLost
<1>5. QED
  BY <1>1, <1>2, <1>4 DEF JobInv

LEMMA JobNextInv == JobInv /\ [SchedulerNext]_jobVars => JobInv'
<1> SUFFICES ASSUME JobInv, [SchedulerNext]_jobVars PROVE JobInv'
  OBVIOUS
<1>1. ASSUME NEW h \in Hosts,
             \/ SetJobEnabled(h) \/ Tick(h) \/ RunNow(h)
             \/ TakeLock(h) \/ OpenRun(h) \/ Work(h) \/ CloseRun(h) \/ CountReads(h) \/ CountSaves(h)
             \/ TrackingFails(h) \/ ReleaseLock(h)
             \/ ConnectionLost(h) \/ Restart(h)
      PROVE  JobInv'
  BY <1>1, SetJobEnabledInv, BeginsInv, TakeLockInv, OpenRunInv, WorkInv, CloseRunInv,
     CountReadsInv, CountSavesInv, LeavesInv, ConnectionLostInv
<1>2. CASE UNCHANGED jobVars
  <2>1. Uncounted' = Uncounted /\ Closed' = Closed
    BY <1>2 DEF jobVars, Uncounted, Closed
  <2>2. JobTyped' /\ WorksUnderLock' /\ RowsOwned'
    BY <1>2 DEF jobVars, JobInv, JobTyped, WorksUnderLock, RowsOwned, Working
  <2>3. CountBehind' /\ CountExact'
    BY <1>2, <2>1 DEF jobVars, JobInv, CountBehind, CountExact
  <2>4. QED
    BY <2>2, <2>3 DEF JobInv
<1>3. QED
  BY <1>1, <1>2 DEF SchedulerNext

THEOREM SchedulerInvariant == SchedulerSpec => []JobInv
BY JobInitInv, JobNextInv, PTL DEF SchedulerSpec

\* Every variable keeps its type, and the job's counter never counts more runs than were closed.
THEOREM SchedulerTypes == SchedulerSpec => []SchedulerTypeOK
<1>1. JobInv => SchedulerTypeOK
  <2> SUFFICES ASSUME JobInv PROVE SchedulerTypeOK
    OBVIOUS
  <2>1. counted \in 0 .. Cardinality(RunIds)
    BY CountsFinite DEF JobInv, JobTyped, CountBehind
  <2>2. QED
    BY <2>1 DEF JobInv, JobTyped, JobRecord, SchedulerTypeOK
<1>2. QED
  BY <1>1, SchedulerInvariant, PTL

\* "Only one holder runs the job body", for any processes, until a session was lost, a process died
\* at work or a write of the tracking failed.
THEOREM OneHolderAlways == SchedulerSpec => []OneHolder
<1>1. JobInv => OneHolder
  BY DEF JobInv, WorksUnderLock, OneHolder
<1>2. QED
  BY <1>1, SchedulerInvariant, PTL

\* Until then the counters tell how many runs were closed, and a row says RUNNING while its run is
\* at work.
THEOREM HistoryIsTold == SchedulerSpec => []HistoryTold
<1>1. JobInv => HistoryTold
  <2> SUFFICES ASSUME JobInv, ~broken PROVE HistoryTold
    BY DEF HistoryTold
  <2>1. /\ counted + Cardinality(Uncounted) = Cardinality(Closed) /\ counted \in Nat
        /\ Cardinality(Uncounted) \in Nat
    BY CountsFinite DEF JobInv, JobTyped, CountExact
  <2>2. Uncounted = {} \/ \E h \in Hosts : Working(h) /\ Uncounted = {h}
    BY OneWorks DEF Uncounted, Working
  <2>3. Cardinality(Uncounted) \in {0, 1}
    BY <2>2, FS_EmptySet, FS_Singleton
  <2>4. (\A h \in Hosts : ~Working(h)) => Cardinality(Uncounted) = 0
    BY <2>2, FS_EmptySet
  <2>5. \A r \in RunIds : runRow[r] = "RUNNING" => \E h \in Hosts : Working(h) /\ r \in job[h].row
    BY DEF JobInv, CountExact, Working
  <2>6. Cardinality(Closed) - counted = Cardinality(Uncounted)
    BY <2>1
  <2>7. QED
    BY <2>1, <2>3, <2>4, <2>5, <2>6 DEF HistoryTold
<1>2. QED
  BY <1>1, SchedulerInvariant, PTL

\* A row that was closed keeps its result, and the counter does not go back until something is lost.
HistoryFinal ==
    /\ \A r \in RunIds : runRow[r] \in {"SUCCESS", "FAILURE"} => runRow'[r] = runRow[r]
    /\ ~broken' => counted' >= counted

LEMMA HistoryFinalNext ==
  ASSUME JobInv, [SchedulerNext]_jobVars
  PROVE  HistoryFinal
<1>0. counted \in Nat /\ runRow \in [RunIds -> {"NONE", "RUNNING", "SUCCESS", "FAILURE"}]
  BY DEF JobInv, JobTyped
<1>1. CASE UNCHANGED <<runRow, counted>>
  BY <1>0, <1>1 DEF HistoryFinal
<1>2. ASSUME NEW h \in Hosts, OpenRun(h) PROVE HistoryFinal
  BY <1>0, <1>2 DEF OpenRun, HistoryFinal
<1>3. ASSUME NEW h \in Hosts, CloseRun(h) PROVE HistoryFinal
  <2>1. \A r \in job[h].row : runRow[r] = "RUNNING"
    BY <1>3 DEF CloseRun, JobInv, RowsOwned
  <2>2. counted' = counted /\ \A r \in RunIds : r \notin job[h].row => runRow'[r] = runRow[r]
    BY <1>3 DEF CloseRun
  <2>3. QED
    BY <1>0, <2>1, <2>2 DEF HistoryFinal
<1>4. ASSUME NEW h \in Hosts, CountSaves(h) PROVE HistoryFinal
  <2>1. /\ job[h].pc = "save" /\ counted' = job[h].seen + 1
        /\ UNCHANGED <<runRow, broken>>
    BY <1>4 DEF CountSaves
  <2>2. ~broken => job[h].seen = counted
    BY <2>1 DEF JobInv, CountExact
  <2>3. QED
    BY <1>0, <2>1, <2>2 DEF HistoryFinal
<1>5. CASE UNCHANGED jobVars
  BY <1>1, <1>5 DEF jobVars
<1>6. ASSUME NEW h \in Hosts,
             \/ SetJobEnabled(h) \/ Tick(h) \/ RunNow(h) \/ TakeLock(h) \/ Work(h)
             \/ CountReads(h) \/ TrackingFails(h) \/ ReleaseLock(h) \/ ConnectionLost(h) \/ Restart(h)
      PROVE  HistoryFinal
  BY <1>1, <1>6 DEF SetJobEnabled, Tick, RunNow, TakeLock, Work, CountReads, TrackingFails,
                    ReleaseLock, ConnectionLost, Restart
<1>7. QED
  BY <1>2, <1>3, <1>4, <1>5, <1>6 DEF SchedulerNext

\* A closed row of the history is final, whatever sessions are lost and processes restarted
\* (trackExecution updates the row of its own run), and the counter only grows until then.
THEOREM HistoryStays == SchedulerSpec => [][HistoryFinal]_jobVars
BY HistoryFinalNext, SchedulerInvariant, PTL DEF SchedulerSpec

-----------------------------------------------------------------------------
(***************************************************************************)
(* Listings                                                                *)
(***************************************************************************)
ListingRow ==
    [status : ListingStatuses, expires : {"none", "ahead", "past"},
     moderation : {"ACTIVE", "HIDDEN", "DELETED"}]

RequestRecord ==
    [pc : {"idle", "count", "save"}, op : Ops \cup {"none"}, id : Listings \cup {"none"},
     read : ListingRow]

ListTyped ==
    /\ listing \in [Listings -> ListingRow]
    /\ request \in [Requests -> RequestRecord]
    /\ \A r \in Requests : request[r].pc # "idle" => request[r].op \in Ops /\ request[r].id \in Listings

\* Listings that are live, and those that will be when the requests that have counted save.
Live == {l \in Listings : listing[l].status = "LIVE"}
GoingLive ==
    {l \in Listings : \E r \in Requests :
        request[r].pc = "save" /\ request[r].op \in GoesLive /\ request[r].id = l}

\* A request that has counted has found room beside its listing; what the other requests have
\* counted is all that can have been added since.
RoomCounted == Cardinality(Live \cup GoingLive) < MaxLive + Cardinality(Requests)

ListInv == ListTyped /\ LiveExpires /\ RoomCounted

LEMMA SomeListings ==
  /\ IsFiniteSet(Live \cup GoingLive)
  /\ Cardinality(Live) <= Cardinality(Live \cup GoingLive)
  /\ Cardinality(Live) \in Nat /\ Cardinality(Live \cup GoingLive) \in Nat
  /\ Cardinality(Requests) \in Nat /\ MaxLive \in Nat \ {0}
<1>1. IsFiniteSet(Listings) /\ IsFiniteSet(Requests) /\ MaxLive \in Nat \ {0}
  BY ListingsAssumption
<1>2. Live \cup GoingLive \in SUBSET Listings
  BY DEF Live, GoingLive
<1>3. IsFiniteSet(Live \cup GoingLive)
  BY <1>1, <1>2, FS_Subset
<1>4. Live \in SUBSET (Live \cup GoingLive)
  OBVIOUS
<1>5. IsFiniteSet(Live) /\ Cardinality(Live) <= Cardinality(Live \cup GoingLive)
  BY <1>3, <1>4, FS_Subset
<1>6. QED
  BY <1>1, <1>3, <1>5, FS_CardinalityType

\* No more are live or going live than before.
LEMMA RoomKept ==
  ASSUME RoomCounted, (Live \cup GoingLive)' \subseteq Live \cup GoingLive
  PROVE  RoomCounted'
<1>1. (Live \cup GoingLive)' \in SUBSET (Live \cup GoingLive)
  OBVIOUS
<1>2. IsFiniteSet((Live \cup GoingLive)')
      /\ Cardinality((Live \cup GoingLive)') <= Cardinality(Live \cup GoingLive)
  BY <1>1, SomeListings, FS_Subset
<1>3. Cardinality((Live \cup GoingLive)') \in Nat
  BY <1>2, FS_CardinalityType
<1>4. QED
  BY <1>2, <1>3, SomeListings DEF RoomCounted

LEMMA NoListingTyped ==
  /\ NoListing \in ListingRow /\ NoListing.status = "NONE" /\ DOMAIN NoListing = {"status", "expires", "moderation"}
  /\ NoRequest \in RequestRecord /\ NoRequest.pc = "idle"
<1>1. NoListing \in ListingRow /\ NoListing.status = "NONE"
      /\ DOMAIN NoListing = {"status", "expires", "moderation"}
  BY DEF NoListing, ListingRow, ListingStatuses
<1>2. NoRequest \in RequestRecord /\ NoRequest.pc = "idle"
  BY <1>1 DEF NoRequest, RequestRecord
<1>3. QED
  BY <1>1, <1>2

LEMMA ListInitInv == ListingsInit => ListInv
<1> SUFFICES ASSUME ListingsInit PROVE ListInv
  OBVIOUS
<1>1. ListTyped
  BY NoListingTyped DEF ListingsInit, ListTyped
<1>2. LiveExpires
  BY NoListingTyped DEF ListingsInit, LiveExpires
<1>3. Live \cup GoingLive = {}
  BY NoListingTyped DEF ListingsInit, Live, GoingLive
<1>4. RoomCounted
  BY <1>3, SomeListings, FS_EmptySet DEF RoomCounted
<1>5. QED
  BY <1>1, <1>2, <1>4 DEF ListInv

\* Rows that come, go or age.
LEMMA RowStepInv ==
  ASSUME ListInv, NEW l \in Listings, CreateListing(l) \/ DeleteListing(l) \/ TimePasses(l)
  PROVE  ListInv'
<1>1. /\ request' = request /\ listing' \in [Listings -> ListingRow]
      /\ \A k \in Listings : k # l => listing'[k] = listing[k]
      /\ listing'[l].status = "LIVE" => listing[l].status = "LIVE" /\ listing'[l].expires # "none"
  <2>1. CASE CreateListing(l)
    <3>1. [NoListing EXCEPT !.status = "PENDING_REVIEW"] \in ListingRow
      BY NoListingTyped DEF ListingRow, ListingStatuses
    <3>2. [NoListing EXCEPT !.status = "PENDING_REVIEW"].status = "PENDING_REVIEW"
      BY DEF NoListing
    <3>3. QED
      BY <2>1, <3>1, <3>2 DEF ListInv, ListTyped, CreateListing
  <2>2. CASE DeleteListing(l)
    BY <2>2, NoListingTyped DEF ListInv, ListTyped, DeleteListing
  <2>3. CASE TimePasses(l)
    BY <2>3 DEF ListInv, ListTyped, ListingRow, TimePasses
  <2>4. QED
    BY <2>1, <2>2, <2>3
<1>2. ListTyped'
  BY <1>1 DEF ListInv, ListTyped
<1>3. LiveExpires'
  BY <1>1 DEF ListInv, LiveExpires
<1>4. (Live \cup GoingLive)' \subseteq Live \cup GoingLive
  BY <1>1 DEF Live, GoingLive
<1>5. QED
  BY <1>2, <1>3, <1>4, RoomKept DEF ListInv

\* A request that begins, or ends without a save.
LEMMA RequestStepInv ==
  ASSUME ListInv, NEW r \in Requests,
         \/ \E op \in Ops, l \in Listings : BeginRequest(r, op, l)
         \/ RequestDies(r)
         \/ request[r].pc = "count" /\ EndRequest(r) /\ UNCHANGED listing
  PROVE  ListInv'
<1>1. /\ listing' = listing /\ request' \in [Requests -> RequestRecord]
      /\ \A q \in Requests : q # r => request'[q] = request[q]
      /\ request'[r].pc # "idle" => request'[r].op \in Ops /\ request'[r].id \in Listings
      /\ request'[r].pc = "save" => request'[r].op \notin GoesLive
  <2>1. CASE \E op \in Ops, l \in Listings : BeginRequest(r, op, l)
    <3> PICK op \in Ops, l \in Listings : BeginRequest(r, op, l)
      BY <2>1
    <3> DEFINE new == [pc |-> IF op \in GoesLive THEN "count" ELSE "save", op |-> op, id |-> l,
                       read |-> listing[l]]
    <3>1. request' = [request EXCEPT ![r] = new] /\ listing' = listing
      BY DEF BeginRequest
    <3>2. new \in RequestRecord
      BY DEF ListInv, ListTyped, RequestRecord
    <3>3. new.op = op /\ new.id = l /\ (new.pc = "save" => op \notin GoesLive)
      OBVIOUS
    <3> HIDE DEF new
    <3>4. QED
      BY <3>1, <3>2, <3>3 DEF ListInv, ListTyped
  <2>2. CASE RequestDies(r) \/ (request[r].pc = "count" /\ EndRequest(r) /\ UNCHANGED listing)
    BY <2>2, NoListingTyped DEF ListInv, ListTyped, RequestDies, EndRequest
  <2>3. QED
    BY <2>1, <2>2
<1>2. ListTyped'
  BY <1>1 DEF ListInv, ListTyped
<1>3. LiveExpires'
  BY <1>1 DEF ListInv, LiveExpires
<1>4. (Live \cup GoingLive)' \subseteq Live \cup GoingLive
  BY <1>1 DEF Live, GoingLive
<1>5. QED
  BY <1>2, <1>3, <1>4, RoomKept DEF ListInv

\* There is room beside the listing; every other request brings one more at most.
LEMMA CountLiveInv ==
  ASSUME ListInv, NEW r \in Requests, CountLive(r)
  PROVE  ListInv'
<1> DEFINE l == request[r].id
           Others == Requests \ {r}
           named == [s \in Others |-> request[s].id]
           Names == {request[s].id : s \in Others}
<1>1. CASE ~HasRoom(l)
  BY <1>1, RequestStepInv DEF CountLive
<1>2. CASE HasRoom(l)
  <2>1. request[r].pc = "count" /\ request' = [request EXCEPT ![r].pc = "save"] /\ listing' = listing
    BY <1>2 DEF CountLive
  <2>2. l \in Listings /\ request[r].op \in Ops
    BY <2>1 DEF ListInv, ListTyped
  <2>3. ListTyped'
    BY <2>1 DEF ListInv, ListTyped, RequestRecord
  <2>4. LiveExpires'
    BY <2>1 DEF ListInv, LiveExpires
  <2>5. (Live \cup GoingLive)' \subseteq (LiveBeside(l) \cup {l}) \cup Names
    BY <2>1 DEF ListInv, ListTyped, RequestRecord, Live, GoingLive, LiveBeside
  <2>6. IsFiniteSet(Others) /\ Cardinality(Others) = Cardinality(Requests) - 1
    BY ListingsAssumption, FS_RemoveElement
  <2>7. IsFiniteSet(Names) /\ Cardinality(Names) <= Cardinality(Others)
    <3>1. named \in Surjection(Others, Names)
      BY DEF Surjection
    <3>2. QED
      BY <2>6, <3>1, FS_Surjection
  <2>8. /\ IsFiniteSet(LiveBeside(l) \cup {l})
        /\ Cardinality(LiveBeside(l) \cup {l}) <= MaxLive
    <3>1. LiveBeside(l) \in SUBSET Listings /\ l \notin LiveBeside(l)
      BY DEF LiveBeside
    <3>2. IsFiniteSet(LiveBeside(l))
      BY <3>1, ListingsAssumption, FS_Subset
    <3>3. Cardinality(LiveBeside(l)) \in Nat /\ Cardinality(LiveBeside(l)) < MaxLive
      BY <1>2, <3>2, FS_CardinalityType DEF HasRoom
    <3>4. IsFiniteSet(LiveBeside(l) \cup {l})
          /\ Cardinality(LiveBeside(l) \cup {l}) = Cardinality(LiveBeside(l)) + 1
      BY <3>1, <3>2, FS_AddElement
    <3>5. QED
      BY <3>3, <3>4, ListingsAssumption
  <2> DEFINE A == LiveBeside(l) \cup {l}
             B == (Live \cup GoingLive)'
  <2> HIDE DEF A, B, Names, Others, named
  <2>9. /\ IsFiniteSet(A \cup Names)
        /\ Cardinality(A \cup Names) <= Cardinality(A) + Cardinality(Names)
    <3>1. /\ IsFiniteSet(A \cup Names) /\ IsFiniteSet(A \cap Names)
          /\ Cardinality(A \cup Names) = Cardinality(A) + Cardinality(Names) - Cardinality(A \cap Names)
      BY <2>7, <2>8, FS_Union, FS_Intersection DEF A
    <3>2. Cardinality(A) \in Nat /\ Cardinality(Names) \in Nat /\ Cardinality(A \cap Names) \in Nat
      BY <2>7, <2>8, <3>1, FS_CardinalityType DEF A
    <3>3. QED
      BY <3>1, <3>2
  <2>10. IsFiniteSet(B) /\ Cardinality(B) <= Cardinality(A \cup Names)
    <3>1. B \in SUBSET (A \cup Names)
      BY <2>5 DEF A, B
    <3>2. QED
      BY <2>9, <3>1, FS_Subset
  <2>11. /\ Cardinality(A) \in Nat /\ Cardinality(Names) \in Nat /\ Cardinality(B) \in Nat
         /\ Cardinality(A \cup Names) \in Nat /\ Cardinality(A) <= MaxLive
    BY <2>7, <2>8, <2>9, <2>10, FS_CardinalityType DEF A
  <2>12. Cardinality(B) < MaxLive + Cardinality(Requests)
    BY <2>6, <2>7, <2>9, <2>10, <2>11, SomeListings
  <2>13. RoomCounted'
    BY <2>12 DEF B, RoomCounted
  <2>14. QED
    BY <2>3, <2>4, <2>13 DEF ListInv
<1>3. QED
  BY <1>1, <1>2

\* What an operation wants: LIVE only with a date ahead, and no date taken away without the status.
LEMMA WantedRow ==
  ASSUME NEW op \in Ops, NEW row \in ListingRow
  PROVE  /\ Wanted(op, row) \in ListingRow
         /\ op \in GoesLive => Wanted(op, row).status = "LIVE" /\ Wanted(op, row).expires = "ahead"
         /\ op \notin GoesLive =>
               /\ Wanted(op, row).status = "LIVE" => Wanted(op, row).status = row.status
               /\ Wanted(op, row).expires = row.expires \/ Wanted(op, row).status # row.status
<1>1. /\ Edited(row) \in ListingRow
      /\ Edited(row).status = "LIVE" => Edited(row).status = row.status
      /\ Edited(row).expires = row.expires \/ Edited(row).status # row.status
  BY DEF Edited, ListingRow, ListingStatuses
<1>2. /\ Resubmitted(row) \in ListingRow /\ Resubmitted(row).status = "PENDING_REVIEW"
      /\ Resubmitted(row).expires = row.expires \/ Resubmitted(row).status # row.status
  BY DEF Resubmitted, ListingRow, ListingStatuses
<1>3. CASE op \in GoesLive
  BY <1>3 DEF Wanted, GoesLive, ListingRow, ListingStatuses
<1>4. CASE op \in {"edit", "resubmit"}
  BY <1>1, <1>2, <1>4 DEF Wanted, GoesLive
<1>5. CASE op \in Ops \ (GoesLive \cup {"edit", "resubmit"})
  <2>1. /\ op \notin GoesLive /\ op # "edit" /\ op # "resubmit"
        /\ op \in {"sold", "archive", "retire", "reject", "changes", "hide", "reported",
                  "softDelete", "restore", "expire"}
    BY <1>5 DEF Ops, GoesLive
  <2>2. CASE op \in {"sold", "archive", "retire", "reject", "changes"}
    BY <2>1, <2>2 DEF Wanted, ListingRow, ListingStatuses
  <2>3. CASE op \in {"hide", "reported", "softDelete"}
    BY <2>1, <2>3 DEF Wanted, ListingRow, ListingStatuses
  <2>4. CASE op \in {"restore", "expire"}
    BY <2>1, <2>4 DEF Wanted, ListingRow, ListingStatuses
  <2>5. QED
    BY <2>1, <2>2, <2>3, <2>4
<1>6. QED
  BY <1>3, <1>4, <1>5

\* A save writes LIVE only for a request that has counted, and with a date.
LEMMA SaveListingInv ==
  ASSUME ListInv, NEW r \in Requests, SaveListing(r)
  PROVE  ListInv'
<1> DEFINE l == request[r].id
           read == request[r].read
           want == Wanted(request[r].op, read)
           new(column) == want[column] # read[column] \/ (column = "expires" /\ request[r].op \in GoesLive)
           row == [column \in DOMAIN NoListing |-> IF new(column) THEN want[column] ELSE listing[l][column]]
<1>1. /\ request[r].pc = "save" /\ request' = [request EXCEPT ![r] = NoRequest]
      /\ listing' = IF listing[l].status = "NONE" THEN listing ELSE [listing EXCEPT ![l] = row]
  BY DEF SaveListing, EndRequest
<1>2. l \in Listings /\ request[r].op \in Ops /\ read \in ListingRow /\ listing[l] \in ListingRow
  BY <1>1 DEF ListInv, ListTyped, RequestRecord
<1>3. want \in ListingRow
  BY <1>2, WantedRow
<1>4. /\ row.status = IF want.status # read.status THEN want.status ELSE listing[l].status
      /\ row.expires = IF want.expires # read.expires \/ request[r].op \in GoesLive
                       THEN want.expires ELSE listing[l].expires
      /\ row.moderation = IF want.moderation # read.moderation THEN want.moderation ELSE listing[l].moderation
      /\ row = [status |-> row.status, expires |-> row.expires, moderation |-> row.moderation]
  BY NoListingTyped
<1>5. row \in ListingRow
  <2>1. row.status \in ListingStatuses /\ row.expires \in {"none", "ahead", "past"}
        /\ row.moderation \in {"ACTIVE", "HIDDEN", "DELETED"}
    BY <1>2, <1>3, <1>4 DEF ListingRow
  <2> HIDE DEF row
  <2>2. QED
    BY <1>4, <2>1 DEF ListingRow
<1>6. row.status = "LIVE" =>
         /\ row.expires # "none"
         /\ listing[l].status = "LIVE" \/ request[r].op \in GoesLive
  <2>1. CASE request[r].op \in GoesLive
    BY <1>2, <1>4, <2>1, WantedRow
  <2>2. CASE request[r].op \notin GoesLive
    <3>1. listing[l].status = "LIVE" => listing[l].expires # "none"
      BY <1>2 DEF ListInv, LiveExpires
    <3>2. /\ want.status = "LIVE" => want.status = read.status
          /\ want.expires = read.expires \/ want.status # read.status
      BY <1>2, <2>2, WantedRow
    <3> HIDE DEF row, want
    <3>3. QED
      BY <1>4, <2>2, <3>1, <3>2
  <2>3. QED
    BY <2>1, <2>2
<1> HIDE DEF row, want
<1>7. /\ request' \in [Requests -> RequestRecord] /\ request'[r].pc = "idle"
      /\ \A q \in Requests : q # r => request'[q] = request[q]
      /\ listing' \in [Listings -> ListingRow]
      /\ \A k \in Listings : k # l => listing'[k] = listing[k]
      /\ listing'[l] = listing[l] \/ listing'[l] = row
  BY <1>1, <1>5, NoListingTyped DEF ListInv, ListTyped
<1>8. ListTyped'
  BY <1>7 DEF ListInv, ListTyped
<1>9. LiveExpires'
  BY <1>6, <1>7 DEF ListInv, LiveExpires
<1>10. (Live \cup GoingLive)' \subseteq Live \cup GoingLive
  BY <1>1, <1>6, <1>7 DEF Live, GoingLive
<1>11. QED
  BY <1>8, <1>9, <1>10, RoomKept DEF ListInv

LEMMA ListNextInv == ListInv /\ [ListingsNext]_listingVars => ListInv'
<1> SUFFICES ASSUME ListInv, [ListingsNext]_listingVars PROVE ListInv'
  OBVIOUS
<1>1. CASE \E l \in Listings : CreateListing(l) \/ DeleteListing(l) \/ TimePasses(l)
  BY <1>1, RowStepInv
<1>2. CASE \E r \in Requests :
             \/ \E op \in Ops, l \in Listings : BeginRequest(r, op, l)
             \/ CountLive(r) \/ SaveListing(r) \/ RequestDies(r)
  BY <1>2, RequestStepInv, CountLiveInv, SaveListingInv
<1>3. CASE UNCHANGED listingVars
  <2>1. ListTyped' /\ LiveExpires'
    BY <1>3 DEF listingVars, ListInv, ListTyped, LiveExpires
  <2>2. (Live \cup GoingLive)' \subseteq Live \cup GoingLive
    BY <1>3 DEF listingVars, Live, GoingLive
  <2>3. QED
    BY <2>1, <2>2, RoomKept DEF ListInv
<1>4. QED
  BY <1>1, <1>2, <1>3 DEF ListingsNext

THEOREM ListingsInvariant == ListingsSpec => []ListInv
BY ListInitInv, ListNextInv, PTL DEF ListingsSpec

\* Every variable keeps its type.
THEOREM ListingsTypes == ListingsSpec => []ListingsTypeOK
<1>1. ListInv => ListingsTypeOK
  BY DEF ListInv, ListTyped, ListingRow, RequestRecord, ListingsTypeOK
<1>2. QED
  BY <1>1, ListingsInvariant, PTL

\* A live listing has a date, whatever any number of requests save over each other.
THEOREM LiveListingsExpire == ListingsSpec => []LiveExpires
<1>1. ListInv => LiveExpires
  BY DEF ListInv
<1>2. QED
  BY <1>1, ListingsInvariant, PTL

\* The limit is exceeded by fewer listings than there are requests at the same time.
THEOREM LiveLimitKept == ListingsSpec => []LiveLimit
<1>1. ListInv => LiveLimit
  BY SomeListings DEF ListInv, RoomCounted, LiveLimit, Live
<1>2. QED
  BY <1>1, ListingsInvariant, PTL


-----------------------------------------------------------------------------
(***************************************************************************)
(* ContentSafety                                                           *)
(***************************************************************************)
PostRows == [version : 1 .. MaxVersion, moderated : 0 .. MaxVersion,
             safety : {"PENDING", "SAFE", "HELD"}, refs : Refs, text : Texts, gone : BOOLEAN]
NoRow == [version |-> 0]
SeenRows == [safety : {"PENDING", "SAFE", "HELD"}, moderated : 0 .. MaxVersion,
             version : 1 .. MaxVersion, text : Texts]
EditRows == [pc : {"none", "saved", "reloaded"}, kind : {"none", "caption", "media"},
             seen : {<<>>} \cup SeenRows]
AdminEditRows == [pc : {"none", "read", "saved"}, seen : {<<>>} \cup SeenRows, text : Texts]
Reads == [id : Posts, version : 1 .. MaxVersion, refs : Refs, text : Texts]
Runs == [pc : {"new", "list", "posts", "rewrite", "publish", "clean", "done"},
         at : {"quarantine", "public"}, verdict : {"NONE", "SAFE", "HELD"},
         todo : SUBSET Reads, now : SUBSET Reads, moved : SUBSET Uploads]
Lates == [pc : {"new", "posts"}, todo : SUBSET Reads]
Allows == [pc : {"none", "read", "clean"}, version : 0 .. MaxVersion, moved : SUBSET Uploads]

\* The worker, its failures, administrators and reports.
OthersTyped ==
    /\ media \in [Uploads -> [at : {"quarantine", "public"}, verdict : {"NONE", "SAFE", "HELD"}]]
    /\ object \in SUBSET (Uploads \X {"quarantine", "public"})
    /\ run \in [Uploads -> Runs] /\ late \in [Uploads -> Lates] /\ allow \in [Posts -> Allows]
    /\ cleared \in SUBSET Uploads
    /\ reporting \in SUBSET Posts /\ \A p \in reporting : Exists(p)
    /\ \A p \in Posts : allow[p].pc = "read" => Exists(p)

PostsTyped ==
    /\ post \in [Posts -> PostRows \cup {NoRow}]
    /\ edit \in [Posts -> EditRows] /\ adminEdit \in [Posts -> AdminEditRows]
    /\ unsaid \in SUBSET Posts

\* The version the author's edit has read is still the row's, and leaves one to count to; an
\* administrator's edit has read the row, whatever has become of it since.
EditKnows(p) ==
    /\ edit[p].pc # "none" => Exists(p) /\ edit[p].kind # "none"
    /\ edit[p].pc # "none" /\ edit[p].kind = "media" => post[p].version < MaxVersion
    /\ edit[p].pc = "reloaded" => edit[p].seen \in SeenRows /\ edit[p].seen.version = post[p].version
    /\ adminEdit[p].pc # "none" => Exists(p) /\ adminEdit[p].seen \in SeenRows

\* An edit that has still to take a published row back: the author's has not read it yet, or will
\* write a verdict since it read another one; an administrator's has saved such a caption.
WillHold(p) ==
    \/ edit[p].pc = "saved"
    \/ edit[p].pc = "reloaded"
         /\ AfterEdit(edit[p].seen, edit[p].kind).safety # edit[p].seen.safety
    \/ adminEdit[p].pc = "saved" /\ adminEdit[p].text # "SAFE"

\* A caption that needs review is not published, or an edit will hold it.
CaptionHeld(p) ==
    Exists(p) /\ post[p].text # "SAFE" /\ post[p].safety = "SAFE" => p \in unsaid \/ WillHold(p)

ContentInv == OthersTyped /\ PostsTyped /\ \A p \in Posts : EditKnows(p) /\ CaptionHeld(p)

LEMMA RowIsPost ==
    ASSUME ContentInv, NEW p \in Posts
    PROVE  /\ Exists(p) => post[p] \in PostRows
           /\ ~Exists(p) => post[p] = NoRow
           /\ edit[p] \in EditRows /\ adminEdit[p] \in AdminEditRows
  <1>1. post[p] \in PostRows \cup {NoRow} /\ edit[p] \in EditRows /\ adminEdit[p] \in AdminEditRows
    BY DEF ContentInv, PostsTyped
  <1>2. NoRow.version = 0
    BY DEF NoRow
  <1>3. post[p] \in PostRows => post[p].version > 0
    BY ContentAssumption DEF PostRows
  <1> QED BY <1>1, <1>2, <1>3 DEF Exists

\* What anybody but an edit that checks the caption does to a row: the version stays, and a
\* caption or a verdict that is replaced is replaced by an administrator, or holds the row, or
\* publishes a caption that passes.
RowKept(p) ==
    \/ post'[p] = post[p]
    \/ /\ Exists(p) /\ post'[p] \in PostRows /\ post'[p].version = post[p].version
       /\ \/ p \in unsaid'
          \/ /\ post'[p].text = post[p].text
             /\ post'[p].safety = "SAFE" => post[p].safety = "SAFE" \/ post[p].text = "SAFE"

LEMMA ContentKept ==
    ASSUME ContentInv, edit' = edit, adminEdit' = adminEdit, OthersTyped',
           post' = [p \in Posts |-> post'[p]], \A p \in Posts : RowKept(p),
           unsaid \subseteq unsaid', unsaid' \subseteq Posts
    PROVE  ContentInv'
  <1>1. \A p \in Posts : post'[p] \in PostRows \cup {NoRow}
    BY DEF RowKept, ContentInv, PostsTyped
  <1>2. PostsTyped'
    BY <1>1 DEF ContentInv, PostsTyped
  <1>3. ASSUME NEW p \in Posts PROVE EditKnows(p)' /\ CaptionHeld(p)'
    <2>1. EditKnows(p) /\ CaptionHeld(p) /\ RowKept(p)
      BY DEF ContentInv
    <2>2. CASE post'[p] = post[p]
      BY <2>1, <2>2 DEF EditKnows, CaptionHeld, WillHold, AfterEdit, Exists
    <2>3. CASE post'[p] # post[p]
      <3>1. /\ Exists(p) /\ post'[p].version = post[p].version
            /\ \/ p \in unsaid'
               \/ /\ post'[p].text = post[p].text
                  /\ post'[p].safety = "SAFE" => post[p].safety = "SAFE" \/ post[p].text = "SAFE"
        BY <2>1, <2>3 DEF RowKept
      <3>2. EditKnows(p)'
        BY <2>1, <3>1 DEF EditKnows, Exists
      <3>3. WillHold(p) <=> WillHold(p)'
        BY DEF WillHold, AfterEdit
      <3> QED BY <2>1, <3>1, <3>2, <3>3 DEF CaptionHeld, Exists
    <2> QED BY <2>2, <2>3
  <1> QED BY <1>2, <1>3 DEF ContentInv

\* A change of one row.
LEMMA RowChanged ==
    ASSUME ContentInv, NEW p \in Posts, NEW r, Exists(p), r \in PostRows,
           r.version = post[p].version,
           \/ p \in unsaid'
           \/ /\ r.text = post[p].text
              /\ r.safety = "SAFE" => post[p].safety = "SAFE" \/ post[p].text = "SAFE",
           post' = [post EXCEPT ![p] = r]
    PROVE  /\ post' = [q \in Posts |-> post'[q]] /\ \A q \in Posts : RowKept(q)
           /\ \A q \in Posts : Exists(q)' = Exists(q)
  <1>1. post \in [Posts -> PostRows \cup {NoRow}]
    BY DEF ContentInv, PostsTyped
  <1>2. post' = [q \in Posts |-> post'[q]] /\ post'[p] = r /\ \A q \in Posts \ {p} : post'[q] = post[q]
    BY <1>1
  <1> QED BY <1>2 DEF RowKept, Exists

\* ... and of none.
LEMMA RowsSame ==
    ASSUME ContentInv, post' = post
    PROVE  /\ post' = [q \in Posts |-> post'[q]] /\ \A q \in Posts : RowKept(q)
           /\ \A q \in Posts : Exists(q)' = Exists(q)
  BY DEF ContentInv, PostsTyped, RowKept, Exists

\* The states of the worker and of administrators, and what they read.
LEMMA ContentFacts ==
    ASSUME ContentInv
    PROVE  /\ media \in [Uploads -> [at : {"quarantine", "public"}, verdict : {"NONE", "SAFE", "HELD"}]]
           /\ object \in SUBSET (Uploads \X {"quarantine", "public"})
           /\ run \in [Uploads -> Runs] /\ late \in [Uploads -> Lates] /\ allow \in [Posts -> Allows]
           /\ cleared \in SUBSET Uploads /\ unsaid \in SUBSET Posts
           /\ NoRun \in Runs /\ NoAllow \in Allows
           /\ \A u \in Uploads : \A at : Referring(u, at) \in SUBSET Reads
  <1>1. ASSUME NEW u \in Uploads, NEW at PROVE Referring(u, at) \in SUBSET Reads
    <2>1. \A q \in Posts : Exists(q) => post[q] \in PostRows
      BY RowIsPost
    <2>2. \A q \in Posts : Exists(q) =>
              [id |-> q, version |-> post[q].version, refs |-> post[q].refs, text |-> post[q].text] \in Reads
      BY <2>1 DEF PostRows, Reads
    <2> QED BY <2>2 DEF Referring
  <1>2. NoAllow \in Allows
    BY ContentAssumption DEF NoAllow, Allows
  <1> QED BY <1>1, <1>2 DEF ContentInv, OthersTyped, PostsTyped, NoRun, Runs

LEMMA PromotedTyped ==
    ASSUME ContentInv, NEW refs \in Refs, NEW moved \in SUBSET Uploads
    PROVE  /\ Quarantined(refs) \in SUBSET Uploads
           /\ Rewritten(refs, moved) \in Refs
           /\ \A uploads \in SUBSET Uploads : Promotable(uploads) \in SUBSET Uploads
  <1>1. \A k \in RefSlots : refs[k] \in [upload : Uploads, at : {"quarantine", "public"}]
    BY DEF Refs
  <1>2. \A k \in RefSlots : [refs[k] EXCEPT !.at = "public"] \in [upload : Uploads, at : {"quarantine", "public"}]
    BY <1>1
  <1>3. Rewritten(refs, moved) \in Refs
    BY <1>1, <1>2 DEF Rewritten, Refs
  <1> QED BY <1>1, <1>3 DEF Quarantined, Promotable

\* Steps of the worker that change no row of a post.
LEMMA WorkerQuietSteps ==
    ASSUME ContentInv, NEW u \in Uploads,
           \/ Classify(u) \/ ListPosts(u) \/ Promote(u) \/ CleanUp(u) \/ RunEnds(u) \/ MarkFailed(u)
    PROVE  ContentInv'
  <1>0. /\ media \in [Uploads -> [at : {"quarantine", "public"}, verdict : {"NONE", "SAFE", "HELD"}]]
        /\ object \in SUBSET (Uploads \X {"quarantine", "public"})
        /\ run \in [Uploads -> Runs] /\ late \in [Uploads -> Lates]
        /\ cleared \in SUBSET Uploads /\ NoRun \in Runs
        /\ \A at : Referring(u, at) \in SUBSET Reads
        /\ media[u] \in [at : {"quarantine", "public"}, verdict : {"NONE", "SAFE", "HELD"}]
        /\ run[u] \in Runs
    BY ContentFacts
  <1>1. UNCHANGED <<post, edit, adminEdit, allow, reporting, unsaid>>
    BY DEF Classify, ListPosts, Promote, CleanUp, RunEnds, MarkFailed
  <1>2. ASSUME media' \in [Uploads -> [at : {"quarantine", "public"}, verdict : {"NONE", "SAFE", "HELD"}]],
               object' \in SUBSET (Uploads \X {"quarantine", "public"}),
               run' \in [Uploads -> Runs], late' \in [Uploads -> Lates], cleared' \in SUBSET Uploads
        PROVE  ContentInv'
    <2>1. OthersTyped'
      BY <1>1, <1>2 DEF ContentInv, OthersTyped, Exists
    <2>2. unsaid' \subseteq Posts
      BY <1>1 DEF ContentInv, PostsTyped
    <2> QED BY <1>1, <2>1, <2>2, RowsSame, ContentKept
  <1>3. CASE Classify(u)
    <2>1. PICK v \in Verdicts(u) :
              /\ run' = [run EXCEPT ![u] = [NoRun EXCEPT !.pc = "list", !.at = media[u].at, !.verdict = v]]
              /\ cleared' = IF v = "SAFE" THEN cleared \cup {u} ELSE cleared
      BY <1>3 DEF Classify
    <2> DEFINE at0 == media[u].at
               r == [NoRun EXCEPT !.pc = "list", !.at = at0, !.verdict = v]
    <2>2. at0 \in {"quarantine", "public"} /\ v \in {"NONE", "SAFE", "HELD"}
      BY <1>0 DEF Verdicts
    <2>3. r \in Runs
      <3> HIDE DEF at0
      <3> QED BY <1>0, <2>2 DEF Runs
    <2>4. run' = [run EXCEPT ![u] = r]
      BY <2>1
    <2> HIDE DEF r
    <2>5. run' \in [Uploads -> Runs] /\ cleared' \in SUBSET Uploads
      BY <1>0, <2>1, <2>3, <2>4
    <2> QED BY <1>0, <1>2, <1>3, <2>5 DEF Classify
  <1>4. CASE ListPosts(u)
    <2> DEFINE reads == Referring(u, run[u].at)
               r == [run[u] EXCEPT !.pc = "posts", !.todo = reads]
               v == run[u].verdict
               m == [media[u] EXCEPT !.verdict = v]
    <2>1. run' = [run EXCEPT ![u] = r] /\ media' = [media EXCEPT ![u] = m]
          /\ UNCHANGED <<object, late, cleared>>
      BY <1>0, <1>4 DEF ListPosts
    <2>2. reads \in SUBSET Reads /\ v \in {"NONE", "SAFE", "HELD"}
      BY <1>0 DEF Runs
    <2> HIDE DEF reads, v
    <2>3. r \in Runs
      BY <1>0, <2>2 DEF Runs
    <2>4. m \in [at : {"quarantine", "public"}, verdict : {"NONE", "SAFE", "HELD"}]
      BY <1>0, <2>2
    <2> HIDE DEF r, m
    <2> QED BY <1>0, <1>2, <2>1, <2>3, <2>4
  <1>5. CASE Promote(u)
    <2> DEFINE pick(read) == Quarantined(read.refs) \cup (IF run[u].at = "quarantine" THEN {u} ELSE {})
    <2>1. PICK read \in run[u].todo :
              /\ object' = object \cup (Promotable(pick(read)) \X {"public"})
              /\ run' = [run EXCEPT ![u].pc = "rewrite", ![u].todo = @ \ {read}, ![u].now = {read},
                                    ![u].moved = Promotable(pick(read))]
      BY <1>5 DEF Promote
    <2> DEFINE moved0 == Promotable(pick(read))
               todo0 == run[u].todo \ {read}
               now0 == {read}
               r == [run[u] EXCEPT !.pc = "rewrite", !.todo = todo0, !.now = now0, !.moved = moved0]
    <2>2. read \in Reads /\ todo0 \in SUBSET Reads
      BY <1>0 DEF Runs
    <2>3. read.refs \in Refs
      BY <2>2 DEF Reads
    <2>4. moved0 \in SUBSET Uploads
      <3>1. pick(read) \in SUBSET Uploads
        BY <2>3, PromotedTyped
      <3> HIDE DEF pick
      <3> QED BY <2>3, <3>1, PromotedTyped
    <2>5. run' = [run EXCEPT ![u] = r] /\ object' = object \cup (moved0 \X {"public"})
      BY <1>0, <2>1
    <2> HIDE DEF moved0, todo0
    <2>6. r \in Runs
      BY <1>0, <2>2, <2>4 DEF Runs
    <2> HIDE DEF r
    <2>7. run' \in [Uploads -> Runs] /\ object' \in SUBSET (Uploads \X {"quarantine", "public"})
      BY <1>0, <2>4, <2>5, <2>6
    <2> QED BY <1>0, <1>2, <1>5, <2>7 DEF Promote
  <1>6. CASE CleanUp(u)
    <2> DEFINE r == [run[u] EXCEPT !.pc = "posts", !.now = {}, !.moved = {}]
    <2>1. /\ run' = [run EXCEPT ![u] = r] /\ object' = object \ (run[u].moved \X {"quarantine"})
          /\ UNCHANGED <<media, late, cleared>>
      BY <1>0, <1>6 DEF CleanUp
    <2>2. r \in Runs
      BY <1>0 DEF Runs
    <2> HIDE DEF r
    <2> QED BY <1>0, <1>2, <2>1, <2>2
  <1>7. CASE RunEnds(u)
    <2>1. [NoRun EXCEPT !.pc = "done"] \in Runs
      BY <1>0 DEF Runs
    <2> QED BY <1>0, <1>2, <1>7, <2>1 DEF RunEnds
  <1>8. CASE MarkFailed(u)
    <2> DEFINE reads == Referring(u, media[u].at)
               l == [pc |-> "posts", todo |-> reads]
               m == [media[u] EXCEPT !.verdict = "HELD"]
    <2>1. late' = [late EXCEPT ![u] = l] /\ media' = [media EXCEPT ![u] = m]
          /\ UNCHANGED <<object, run, cleared>>
      BY <1>0, <1>8 DEF MarkFailed
    <2>2. reads \in SUBSET Reads
      BY <1>0
    <2> HIDE DEF reads
    <2>3. l \in Lates
      BY <2>2 DEF Lates
    <2>4. m \in [at : {"quarantine", "public"}, verdict : {"NONE", "SAFE", "HELD"}]
      BY <1>0
    <2> HIDE DEF l, m
    <2> QED BY <1>0, <1>2, <2>1, <2>3, <2>4
  <1> QED BY <1>3, <1>4, <1>5, <1>6, <1>7, <1>8

\* A post is held when its version is the one that was read.
LEMMA HeldIfSame ==
    ASSUME ContentInv, NEW read \in Reads,
           post' = IF post[read.id].version = read.version
                   THEN [post EXCEPT ![read.id].safety = "HELD", ![read.id].moderated = 0] ELSE post
    PROVE  /\ post' = [q \in Posts |-> post'[q]] /\ \A q \in Posts : RowKept(q)
           /\ \A q \in Posts : Exists(q)' = Exists(q)
  <1> DEFINE p == read.id
             r == [post[p] EXCEPT !.safety = "HELD", !.moderated = 0]
  <1>1. p \in Posts /\ read.version > 0
    BY ContentAssumption DEF Reads
  <1>2. CASE post[p].version = read.version
    <2>1. Exists(p)
      BY <1>1, <1>2 DEF Exists
    <2>2. post[p] \in PostRows
      BY <1>1, <2>1, RowIsPost
    <2>3. 0 \in 0 .. MaxVersion
      BY ContentAssumption
    <2>4. post' = [post EXCEPT ![p] = r]
      BY <1>1, <1>2 DEF ContentInv, PostsTyped
    <2> HIDE DEF p
    <2>5. r \in PostRows /\ r.version = post[p].version /\ r.text = post[p].text /\ r.safety = "HELD"
      BY <2>2, <2>3 DEF PostRows
    <2> HIDE DEF r
    <2> QED BY <1>1, <2>1, <2>4, <2>5, RowChanged
  <1>3. CASE post[p].version # read.version
    BY <1>3, RowsSame
  <1> QED BY <1>2, <1>3

LEMMA WorkerRowSteps ==
    ASSUME ContentInv, NEW u \in Uploads,
           HoldPost(u) \/ Rewrite(u) \/ Publish(u) \/ MarkPostFailed(u)
    PROVE  ContentInv'
  <1>0. /\ media \in [Uploads -> [at : {"quarantine", "public"}, verdict : {"NONE", "SAFE", "HELD"}]]
        /\ run \in [Uploads -> Runs] /\ late \in [Uploads -> Lates]
        /\ media[u] \in [at : {"quarantine", "public"}, verdict : {"NONE", "SAFE", "HELD"}]
        /\ run[u] \in Runs /\ late[u] \in Lates /\ unsaid \in SUBSET Posts
    BY ContentFacts
  <1>1. UNCHANGED <<object, edit, adminEdit, allow, reporting, cleared, unsaid>>
    BY DEF HoldPost, Rewrite, Publish, MarkPostFailed
  <1>2. ASSUME media' \in [Uploads -> [at : {"quarantine", "public"}, verdict : {"NONE", "SAFE", "HELD"}]],
               run' \in [Uploads -> Runs], late' \in [Uploads -> Lates],
               post' = [q \in Posts |-> post'[q]], \A q \in Posts : RowKept(q),
               \A q \in Posts : Exists(q)' = Exists(q)
        PROVE  ContentInv'
    <2>1. OthersTyped'
      <3>1. \A q \in reporting : q \in Posts
        BY DEF ContentInv, OthersTyped
      <3> QED BY <1>1, <1>2, <3>1 DEF ContentInv, OthersTyped
    <2> QED BY <1>0, <1>1, <1>2, <2>1, ContentKept
  <1>3. CASE HoldPost(u)
    <2>1. PICK read \in run[u].todo :
              /\ post' = IF post[read.id].version = read.version
                         THEN [post EXCEPT ![read.id].safety = "HELD", ![read.id].moderated = 0] ELSE post
              /\ run' = [run EXCEPT ![u].todo = @ \ {read}]
      BY <1>3 DEF HoldPost
    <2> DEFINE todo0 == run[u].todo \ {read}
               r == [run[u] EXCEPT !.todo = todo0]
    <2>2. read \in Reads /\ todo0 \in SUBSET Reads
      BY <1>0 DEF Runs
    <2>3. run' = [run EXCEPT ![u] = r] /\ UNCHANGED <<media, late>>
      BY <1>0, <1>3, <2>1 DEF HoldPost
    <2> HIDE DEF todo0
    <2>4. r \in Runs
      BY <1>0, <2>2 DEF Runs
    <2> HIDE DEF r
    <2>5. run' \in [Uploads -> Runs]
      BY <1>0, <2>3, <2>4
    <2> QED BY <1>0, <1>2, <2>1, <2>2, <2>3, <2>5, HeldIfSame
  <1>4. CASE MarkPostFailed(u)
    <2>1. PICK read \in late[u].todo :
              /\ post' = IF post[read.id].version = read.version
                         THEN [post EXCEPT ![read.id].safety = "HELD", ![read.id].moderated = 0] ELSE post
              /\ late' = [late EXCEPT ![u].todo = @ \ {read}]
      BY <1>4 DEF MarkPostFailed
    <2> DEFINE todo0 == late[u].todo \ {read}
               l == [late[u] EXCEPT !.todo = todo0]
    <2>2. read \in Reads /\ todo0 \in SUBSET Reads
      BY <1>0 DEF Lates
    <2>3. late' = [late EXCEPT ![u] = l] /\ UNCHANGED <<media, run>>
      BY <1>0, <1>4, <2>1 DEF MarkPostFailed
    <2> HIDE DEF todo0
    <2>4. l \in Lates
      BY <1>0, <2>2 DEF Lates
    <2> HIDE DEF l
    <2>5. late' \in [Uploads -> Lates]
      BY <1>0, <2>3, <2>4
    <2> QED BY <1>0, <1>2, <2>1, <2>2, <2>3, <2>5, HeldIfSame
  <1>5. CASE Rewrite(u)
    <2>1. PICK read \in run[u].now :
            IF post[read.id].version = read.version
            THEN /\ post' = [post EXCEPT ![read.id].refs = Rewritten(@, run[u].moved)]
                 /\ media' = IF u \in run[u].moved THEN [media EXCEPT ![u].at = "public"] ELSE media
                 /\ run' = [run EXCEPT ![u].pc = "publish",
                                       ![u].at = IF u \in run[u].moved THEN "public" ELSE @]
            ELSE RunGoes(u, "publish") /\ UNCHANGED <<post, media>>
      BY <1>5 DEF Rewrite
    <2> DEFINE p == read.id
               at0 == IF u \in run[u].moved THEN "public" ELSE run[u].at
               r == [run[u] EXCEPT !.pc = "publish", !.at = at0]
               r0 == [run[u] EXCEPT !.pc = "publish"]
               m == [media[u] EXCEPT !.at = "public"]
    <2>2. late' = late
      BY <1>5 DEF Rewrite
    <2>3. read \in Reads /\ at0 \in {"quarantine", "public"} /\ run[u].moved \in SUBSET Uploads
      BY <1>0 DEF Runs
    <2>4. p \in Posts /\ read.version > 0
      BY <2>3, ContentAssumption DEF Reads
    <2>5. CASE post[p].version = read.version
      <3>1. run' = [run EXCEPT ![u] = r] /\ media' = (IF u \in run[u].moved THEN [media EXCEPT ![u] = m] ELSE media)
        BY <1>0, <2>1, <2>5
      <3>2. r \in Runs
        <4> HIDE DEF at0
        <4> QED BY <1>0, <2>3 DEF Runs
      <3>3. m \in [at : {"quarantine", "public"}, verdict : {"NONE", "SAFE", "HELD"}]
        BY <1>0
      <3> HIDE DEF r, m
      <3>4. run' \in [Uploads -> Runs]
        BY <1>0, <3>1, <3>2
      <3>5. media' \in [Uploads -> [at : {"quarantine", "public"}, verdict : {"NONE", "SAFE", "HELD"}]]
        BY <1>0, <3>1, <3>3
      <3> DEFINE refs0 == Rewritten(post[p].refs, run[u].moved)
                 x == [post[p] EXCEPT !.refs = refs0]
      <3>6. Exists(p)
        BY <2>4, <2>5 DEF Exists
      <3>7. post[p] \in PostRows
        BY <2>4, <3>6, RowIsPost
      <3>8. refs0 \in Refs
        BY <2>3, <3>7, PromotedTyped DEF PostRows
      <3>9. post' = [post EXCEPT ![p] = x]
        BY <2>1, <2>4, <2>5 DEF ContentInv, PostsTyped
      <3> HIDE DEF refs0, p
      <3>10. /\ x \in PostRows /\ x.version = post[p].version /\ x.text = post[p].text
             /\ x.safety = post[p].safety
        BY <3>7, <3>8 DEF PostRows
      <3> HIDE DEF x
      <3>11. /\ post' = [q \in Posts |-> post'[q]] /\ \A q \in Posts : RowKept(q)
             /\ \A q \in Posts : Exists(q)' = Exists(q)
        BY <2>4, <3>6, <3>9, <3>10, RowChanged
      <3> QED BY <1>0, <1>2, <2>2, <3>4, <3>5, <3>11
    <2>6. CASE post[p].version # read.version
      <3>1. run' = [run EXCEPT ![u] = r0] /\ UNCHANGED <<post, media>>
        BY <1>0, <2>1, <2>6 DEF RunGoes
      <3>2. r0 \in Runs
        BY <1>0 DEF Runs
      <3> HIDE DEF r0
      <3>3. run' \in [Uploads -> Runs]
        BY <1>0, <3>1, <3>2
      <3> QED BY <1>0, <1>2, <2>2, <3>1, <3>3, RowsSame
    <2> QED BY <2>5, <2>6
  <1>6. CASE Publish(u)
    <2>1. PICK read \in run[u].now :
            IF MayPublish(read.id, read.version)
            THEN /\ post' = [post EXCEPT ![read.id].safety = "SAFE", ![read.id].moderated = read.version]
                 /\ RunGoes(u, "clean")
            ELSE run' = [run EXCEPT ![u].pc = "posts", ![u].now = {}, ![u].moved = {}] /\ UNCHANGED post
      BY <1>6 DEF Publish
    <2> DEFINE p == read.id
               n == read.version
               r == [run[u] EXCEPT !.pc = "clean"]
               r0 == [run[u] EXCEPT !.pc = "posts", !.now = {}, !.moved = {}]
    <2>2. UNCHANGED <<late, media>>
      BY <1>6 DEF Publish
    <2>3. read \in Reads
      BY <1>0 DEF Runs
    <2>4. p \in Posts /\ n > 0 /\ n \in 0 .. MaxVersion
      BY <2>3, ContentAssumption DEF Reads
    <2>5. CASE MayPublish(p, n)
      <3>1. run' = [run EXCEPT ![u] = r]
        BY <1>0, <2>1, <2>5 DEF RunGoes
      <3>2. r \in Runs
        BY <1>0 DEF Runs
      <3> HIDE DEF r
      <3>3. run' \in [Uploads -> Runs]
        BY <1>0, <3>1, <3>2
      <3> DEFINE x == [post[p] EXCEPT !.safety = "SAFE", !.moderated = n]
      <3>4. Exists(p) /\ post[p].text = "SAFE"
        BY <2>4, <2>5 DEF MayPublish, Exists
      <3>5. post[p] \in PostRows
        BY <2>4, <3>4, RowIsPost
      <3>6. post' = [post EXCEPT ![p] = x]
        BY <2>1, <2>4, <2>5 DEF ContentInv, PostsTyped
      <3> HIDE DEF p, n
      <3>7. x \in PostRows /\ x.version = post[p].version /\ x.text = post[p].text
        BY <2>4, <3>5 DEF PostRows
      <3> HIDE DEF x
      <3>8. /\ post' = [q \in Posts |-> post'[q]] /\ \A q \in Posts : RowKept(q)
            /\ \A q \in Posts : Exists(q)' = Exists(q)
        BY <2>4, <3>4, <3>6, <3>7, RowChanged
      <3> QED BY <1>0, <1>2, <2>2, <3>3, <3>8
    <2>6. CASE ~MayPublish(p, n)
      <3>1. run' = [run EXCEPT ![u] = r0] /\ UNCHANGED post
        BY <1>0, <2>1, <2>6
      <3>2. r0 \in Runs
        BY <1>0 DEF Runs
      <3> HIDE DEF r0
      <3>3. run' \in [Uploads -> Runs]
        BY <1>0, <3>1, <3>2
      <3> QED BY <1>0, <1>2, <2>2, <3>1, <3>3, RowsSame
    <2> QED BY <2>5, <2>6
  <1> QED BY <1>3, <1>4, <1>5, <1>6

LEMMA AdminSteps ==
    ASSUME ContentInv, NEW p \in Posts,
           \/ AllowReads(p) \/ AllowCommits(p) \/ AllowCleans(p) \/ RejectPost(p) \/ Hide(p)
           \/ ReportReads(p) \/ ReportSaves(p) \/ TradeEditSaves(p)
    PROVE  ContentInv'
  <1>0. /\ object \in SUBSET (Uploads \X {"quarantine", "public"})
        /\ allow \in [Posts -> Allows] /\ allow[p] \in Allows /\ NoAllow \in Allows
        /\ cleared \in SUBSET Uploads /\ unsaid \in SUBSET Posts
        /\ reporting \in SUBSET Posts /\ \A q \in reporting : Exists(q)
        /\ \A q \in Posts : allow[q].pc = "read" => Exists(q)
    BY ContentFacts DEF ContentInv, OthersTyped
  <1>1. UNCHANGED <<media, edit, adminEdit, run, late>>
    BY DEF AllowReads, AllowCommits, AllowCleans, RejectPost, Hide, ReportReads, ReportSaves,
           TradeEditSaves
  <1>2. ASSUME object' \in SUBSET (Uploads \X {"quarantine", "public"}), cleared' \in SUBSET Uploads,
               NEW a \in Allows, allow' = [allow EXCEPT ![p] = a] \/ allow' = allow,
               a.pc = "read" => Exists(p),
               reporting' \in SUBSET Posts, \A q \in reporting' : Exists(q),
               unsaid \subseteq unsaid', unsaid' \in SUBSET Posts,
               post' = [q \in Posts |-> post'[q]], \A q \in Posts : RowKept(q),
               \A q \in Posts : Exists(q)' = Exists(q)
        PROVE  ContentInv'
    <2>1. /\ allow' \in [Posts -> Allows]
          /\ \A q \in Posts : allow'[q].pc = "read" => Exists(q)
      BY <1>0, <1>2
    <2>2. \A q \in Posts : allow'[q].pc = "read" => Exists(q)'
      BY <1>2, <2>1
    <2>3. \A q \in reporting' : Exists(q)'
      BY <1>2
    <2>4. OthersTyped'
      BY <1>1, <1>2, <2>1, <2>2, <2>3 DEF ContentInv, OthersTyped
    <2> QED BY <1>1, <1>2, <2>4, ContentKept
  <1>3. CASE AllowReads(p)
    <2> DEFINE moved == Promotable(Quarantined(post[p].refs))
               n == post[p].version
               a == [pc |-> "read", version |-> n, moved |-> moved]
    <2>1. /\ Exists(p) /\ object' = object \cup (moved \X {"public"})
          /\ allow' = [allow EXCEPT ![p] = a]
          /\ UNCHANGED <<post, reporting, cleared, unsaid>>
      BY <1>3 DEF AllowReads
    <2>2. post[p] \in PostRows
      BY <2>1, RowIsPost
    <2>3. post[p].refs \in Refs /\ n \in 0 .. MaxVersion
      BY <2>2, ContentAssumption DEF PostRows
    <2>4. moved \in SUBSET Uploads
      <3>1. Quarantined(post[p].refs) \in SUBSET Uploads
        BY <2>3, PromotedTyped
      <3> QED BY <2>3, <3>1, PromotedTyped
    <2> HIDE DEF moved, n
    <2>5. a \in Allows /\ a.pc = "read"
      BY <2>3, <2>4 DEF Allows
    <2> HIDE DEF a
    <2>6. object' \in SUBSET (Uploads \X {"quarantine", "public"})
      BY <1>0, <2>1, <2>4
    <2> QED BY <1>0, <1>2, <2>1, <2>5, <2>6, RowsSame
  <1>4. CASE AllowCommits(p)
    <2> DEFINE n == allow[p].version
               a == [allow[p] EXCEPT !.pc = "clean"]
    <2>1. /\ allow[p].pc = "read" /\ UNCHANGED <<object, reporting>>
          /\ IF post[p].version = n /\ ~post[p].gone
             THEN /\ post' = [post EXCEPT ![p].safety = "SAFE", ![p].moderated = n,
                                          ![p].refs = Rewritten(@, allow[p].moved)]
                  /\ allow' = [allow EXCEPT ![p].pc = "clean"]
                  /\ cleared' = cleared \cup allow[p].moved
                  /\ unsaid' = unsaid \cup {p}
             ELSE allow' = [allow EXCEPT ![p] = NoAllow] /\ UNCHANGED <<post, cleared, unsaid>>
      BY <1>4 DEF AllowCommits
    <2>2. /\ n \in 0 .. MaxVersion /\ allow[p].moved \in SUBSET Uploads /\ Exists(p)
          /\ NoAllow.pc = "none"
      BY <1>0, <2>1 DEF Allows, NoAllow
    <2>3. CASE post[p].version = n /\ ~post[p].gone
      <3> DEFINE refs0 == Rewritten(post[p].refs, allow[p].moved)
                 x == [post[p] EXCEPT !.safety = "SAFE", !.moderated = n, !.refs = refs0]
      <3>1. post[p] \in PostRows
        BY <2>2, RowIsPost
      <3>2. refs0 \in Refs
        BY <2>2, <3>1, PromotedTyped DEF PostRows
      <3>3. post' = [post EXCEPT ![p] = x]
        BY <2>1, <2>3 DEF ContentInv, PostsTyped
      <3>4. allow' = [allow EXCEPT ![p] = a]
        BY <1>0, <2>1, <2>3
      <3> HIDE DEF refs0, n
      <3>5. x \in PostRows /\ x.version = post[p].version /\ x.text = post[p].text
        BY <2>2, <3>1, <3>2 DEF PostRows
      <3>6. a \in Allows /\ a.pc = "clean"
        BY <1>0 DEF Allows
      <3> HIDE DEF x, a
      <3>7. p \in unsaid' /\ unsaid \subseteq unsaid' /\ unsaid' \in SUBSET Posts
            /\ cleared' \in SUBSET Uploads
        BY <1>0, <2>1, <2>2, <2>3
      <3>8. /\ post' = [q \in Posts |-> post'[q]] /\ \A q \in Posts : RowKept(q)
            /\ \A q \in Posts : Exists(q)' = Exists(q)
        BY <2>2, <3>3, <3>5, <3>7, RowChanged
      <3> QED BY <1>0, <1>2, <2>1, <3>4, <3>6, <3>7, <3>8
    <2>4. CASE ~(post[p].version = n /\ ~post[p].gone)
      BY <1>0, <1>2, <2>1, <2>2, <2>4, RowsSame
    <2> QED BY <2>3, <2>4
  <1>5. CASE AllowCleans(p)
    <2>1. /\ object' = object \ (allow[p].moved \X {"quarantine"})
          /\ allow' = [allow EXCEPT ![p] = NoAllow] /\ NoAllow.pc = "none"
          /\ UNCHANGED <<post, reporting, cleared, unsaid>>
      BY <1>5 DEF AllowCleans, NoAllow
    <2> QED BY <1>0, <1>2, <2>1, RowsSame
  <1>6. ASSUME Exists(p), UNCHANGED <<object, allow, cleared, unsaid>>, reporting' \subseteq reporting,
               \/ post' = [post EXCEPT ![p].safety = "HELD", ![p].moderated = 0]
               \/ \E gone \in BOOLEAN : post' = [post EXCEPT ![p].gone = gone]
        PROVE  ContentInv'
    <2>1. post[p] \in PostRows /\ 0 \in 0 .. MaxVersion
      BY <1>6, RowIsPost, ContentAssumption
    <2>2. \E x \in PostRows : /\ x.version = post[p].version /\ x.text = post[p].text
                              /\ x.safety = "SAFE" => post[p].safety = "SAFE"
                              /\ post' = [post EXCEPT ![p] = x]
      <3>1. CASE post' = [post EXCEPT ![p].safety = "HELD", ![p].moderated = 0]
        <4> DEFINE x == [post[p] EXCEPT !.safety = "HELD", !.moderated = 0]
        <4>1. post' = [post EXCEPT ![p] = x]
          BY <3>1 DEF ContentInv, PostsTyped
        <4>2. x \in PostRows /\ x.version = post[p].version /\ x.text = post[p].text /\ x.safety = "HELD"
          BY <2>1 DEF PostRows
        <4> HIDE DEF x
        <4> QED BY <4>1, <4>2
      <3>2. ASSUME NEW gone \in BOOLEAN, post' = [post EXCEPT ![p].gone = gone]
            PROVE  \E x \in PostRows : /\ x.version = post[p].version /\ x.text = post[p].text
                                       /\ x.safety = "SAFE" => post[p].safety = "SAFE"
                                       /\ post' = [post EXCEPT ![p] = x]
        <4> DEFINE x == [post[p] EXCEPT !.gone = gone]
        <4>1. post' = [post EXCEPT ![p] = x]
          BY <3>2 DEF ContentInv, PostsTyped
        <4>2. /\ x \in PostRows /\ x.version = post[p].version /\ x.text = post[p].text
              /\ x.safety = post[p].safety
          BY <2>1 DEF PostRows
        <4> HIDE DEF x
        <4> QED BY <4>1, <4>2
      <3> QED BY <1>6, <3>1, <3>2
    <2>3. /\ post' = [q \in Posts |-> post'[q]] /\ \A q \in Posts : RowKept(q)
          /\ \A q \in Posts : Exists(q)' = Exists(q)
      BY <1>6, <2>2, RowChanged
    <2>4. NoAllow.pc # "read"
      BY DEF NoAllow
    <2> QED BY <1>0, <1>2, <1>6, <2>3, <2>4
  <1>7. CASE RejectPost(p)
    BY <1>6, <1>7 DEF RejectPost
  <1>8. CASE Hide(p)
    BY <1>6, <1>8 DEF Hide
  <1>9. CASE ReportReads(p)
    <2>1. /\ Exists(p) /\ reporting' = reporting \cup {p} /\ NoAllow.pc = "none"
          /\ UNCHANGED <<post, object, allow, cleared, unsaid>>
      BY <1>9 DEF ReportReads, NoAllow
    <2> QED BY <1>0, <1>2, <2>1, RowsSame
  <1>10. CASE ReportSaves(p)
    BY <1>0, <1>6, <1>10 DEF ReportSaves
  <1>11. CASE TradeEditSaves(p)
    <2>1. PICK text \in Texts : post' = [post EXCEPT ![p].text = text]
      BY <1>11 DEF TradeEditSaves
    <2> DEFINE x == [post[p] EXCEPT !.text = text]
    <2>2. /\ Exists(p) /\ unsaid' = unsaid \cup {p} /\ NoAllow.pc = "none"
          /\ UNCHANGED <<object, allow, reporting, cleared>>
      BY <1>11 DEF TradeEditSaves, NoAllow
    <2>3. post[p] \in PostRows
      BY <2>2, RowIsPost
    <2>4. post' = [post EXCEPT ![p] = x]
      BY <2>1 DEF ContentInv, PostsTyped
    <2>5. x \in PostRows /\ x.version = post[p].version
      BY <2>3 DEF PostRows
    <2> HIDE DEF x
    <2>6. p \in unsaid' /\ unsaid \subseteq unsaid' /\ unsaid' \in SUBSET Posts
      BY <1>0, <2>2
    <2>7. /\ post' = [q \in Posts |-> post'[q]] /\ \A q \in Posts : RowKept(q)
          /\ \A q \in Posts : Exists(q)' = Exists(q)
      BY <2>2, <2>4, <2>5, <2>6, RowChanged
    <2> QED BY <1>0, <1>2, <2>2, <2>6, <2>7
  <1> QED BY <1>3, <1>4, <1>5, <1>7, <1>8, <1>9, <1>10, <1>11

\* A step of an edit changes one row, and the edits of it.
LEMMA EditKept ==
    ASSUME ContentInv, NEW p \in Posts, NEW r \in PostRows, NEW e \in EditRows, NEW a \in AdminEditRows,
           post' = [post EXCEPT ![p] = r], edit' = [edit EXCEPT ![p] = e],
           adminEdit' = [adminEdit EXCEPT ![p] = a],
           UNCHANGED <<media, object, run, late, allow, reporting, cleared>>,
           unsaid' \in SUBSET Posts, \A q \in Posts \ {p} : q \in unsaid' <=> q \in unsaid,
           e.pc # "none" => e.kind # "none",
           e.pc # "none" /\ e.kind = "media" => r.version < MaxVersion,
           e.pc = "reloaded" => e.seen \in SeenRows /\ e.seen.version = r.version,
           a.pc # "none" => a.seen \in SeenRows,
           r.text # "SAFE" /\ r.safety = "SAFE" /\ p \notin unsaid' =>
               \/ e.pc = "saved"
               \/ e.pc = "reloaded" /\ AfterEdit(e.seen, e.kind).safety # e.seen.safety
               \/ a.pc = "saved" /\ a.text # "SAFE"
    PROVE  ContentInv'
  <1>1. /\ post \in [Posts -> PostRows \cup {NoRow}] /\ edit \in [Posts -> EditRows]
        /\ adminEdit \in [Posts -> AdminEditRows]
    BY DEF ContentInv, PostsTyped
  <1>2. /\ post' \in [Posts -> PostRows \cup {NoRow}] /\ edit' \in [Posts -> EditRows]
        /\ adminEdit' \in [Posts -> AdminEditRows]
        /\ post'[p] = r /\ edit'[p] = e /\ adminEdit'[p] = a
        /\ \A q \in Posts \ {p} : post'[q] = post[q] /\ edit'[q] = edit[q] /\ adminEdit'[q] = adminEdit[q]
    BY <1>1
  <1>3. r.version > 0
    BY ContentAssumption DEF PostRows
  <1>4. \A q \in Posts : Exists(q) => Exists(q)'
    BY <1>2, <1>3 DEF Exists
  <1>5. OthersTyped'
    BY <1>4 DEF ContentInv, OthersTyped
  <1>6. PostsTyped'
    BY <1>2 DEF PostsTyped
  <1>7. EditKnows(p)'
    BY <1>2, <1>3 DEF EditKnows, Exists
  <1>8. CaptionHeld(p)'
    BY <1>2, <1>3 DEF CaptionHeld, WillHold, AfterEdit
  <1>9. ASSUME NEW q \in Posts \ {p} PROVE EditKnows(q)' /\ CaptionHeld(q)'
    <2>1. /\ post'[q] = post[q] /\ edit'[q] = edit[q] /\ adminEdit'[q] = adminEdit[q]
          /\ q \in unsaid' <=> q \in unsaid
      BY <1>2
    <2>2. EditKnows(q) /\ CaptionHeld(q)
      BY DEF ContentInv
    <2>3. WillHold(q)' <=> WillHold(q)
      BY <2>1 DEF WillHold, AfterEdit
    <2> QED BY <2>1, <2>2, <2>3 DEF EditKnows, CaptionHeld, Exists
  <1> QED BY <1>5, <1>6, <1>7, <1>8, <1>9 DEF ContentInv

\* The verdict after an edit, of a row as it was read.
LEMMA AfterEditHolds ==
    ASSUME NEW seen \in SeenRows, NEW kind, kind = "media" => seen.version < MaxVersion
    PROVE  LET next == AfterEdit(seen, kind) IN
           /\ next.safety \in {"HELD", "PENDING"} /\ next.moderated = 0
           /\ next.version \in 1 .. MaxVersion
           /\ kind # "media" => next.safety = "HELD" /\ next.version = seen.version
  <1> DEFINE next == AfterEdit(seen, kind)
             up == seen.version + 1
  <1>1. seen.version \in 1 .. MaxVersion
    BY DEF SeenRows
  <1>2. kind = "media" => up \in 1 .. MaxVersion
    BY <1>1, ContentAssumption
  <1>3. \/ next = [seen EXCEPT !.safety = "HELD", !.moderated = 0]
        \/ kind = "media" /\ next = [seen EXCEPT !.safety = "PENDING", !.moderated = 0, !.version = up]
    BY DEF AfterEdit
  <1> HIDE DEF up, next
  <1>4. /\ next.safety \in {"HELD", "PENDING"} /\ next.moderated = 0
        /\ next.version \in 1 .. MaxVersion
        /\ kind # "media" => next.safety = "HELD" /\ next.version = seen.version
    BY <1>1, <1>2, <1>3 DEF SeenRows
  <1> QED BY <1>4 DEF next

\* What applyEditSafety makes of the row: it publishes nothing.
LEMMA UpdatedTyped ==
    ASSUME NEW row \in PostRows, NEW seen, NEW next, NEW again \in BOOLEAN,
           next.safety \in {"HELD", "PENDING"}, next.moderated = 0, next.version \in 1 .. MaxVersion
    PROVE  LET r == Updated(row, seen, next, again) IN
           /\ r \in PostRows /\ r.text = row.text /\ r.refs = row.refs
           /\ r.safety = (IF next.safety # seen.safety \/ again THEN next.safety ELSE row.safety)
           /\ r.version = (IF next.version # seen.version THEN next.version ELSE row.version)
  <1> DEFINE r == Updated(row, seen, next, again)
             s == IF next.safety # seen.safety \/ again THEN next.safety ELSE row.safety
             m == IF next.moderated # seen.moderated THEN next.moderated ELSE row.moderated
             v == IF next.version # seen.version THEN next.version ELSE row.version
  <1>1. r = [row EXCEPT !.safety = s, !.moderated = m, !.version = v]
    BY DEF Updated, PostRows
  <1>2. s \in {"PENDING", "SAFE", "HELD"} /\ m \in 0 .. MaxVersion /\ v \in 1 .. MaxVersion
    BY ContentAssumption DEF PostRows
  <1> HIDE DEF r, s, m, v
  <1>3. r \in PostRows /\ r.text = row.text /\ r.refs = row.refs /\ r.safety = s /\ r.version = v
    BY <1>1, <1>2 DEF PostRows
  <1> QED BY <1>3 DEF r, s, v

LEMMA AuthorSteps ==
    ASSUME ContentInv, NEW p \in Posts,
           CreatePost(p) \/ EditSaves(p) \/ EditReloads(p) \/ EditUpdates(p) \/ EditDies(p)
    PROVE  ContentInv'
  <1>0. /\ unsaid \in SUBSET Posts /\ edit \in [Posts -> EditRows] /\ edit[p] \in EditRows
        /\ post \in [Posts -> PostRows \cup {NoRow}]
        /\ Exists(p) => post[p] \in PostRows
        /\ NoEdit \in EditRows /\ NoEdit.pc = "none" /\ NoEdit.kind = "none"
        /\ adminEdit \in [Posts -> AdminEditRows] /\ adminEdit[p] \in AdminEditRows
        /\ EditKnows(p) /\ CaptionHeld(p) /\ 0 \in 0 .. MaxVersion /\ 1 \in 1 .. MaxVersion
    BY RowIsPost, ContentAssumption DEF ContentInv, PostsTyped, NoEdit, EditRows
  <1>1. /\ UNCHANGED <<media, object, run, late, allow, reporting, cleared>>
        /\ adminEdit' = [adminEdit EXCEPT ![p] = adminEdit[p]]
        /\ adminEdit[p].pc # "none" => adminEdit[p].seen \in SeenRows
    BY <1>0 DEF EditKnows, CreatePost, EditSaves, EditReloads, EditUpdates, EditDies
  <1>2. CASE CreatePost(p)
    <2>1. PICK refs \in Refs, text \in Texts \ {"BLOCK"} : post' = [post EXCEPT ![p] = NewPost(refs, text)]
      BY <1>2 DEF CreatePost
    <2> DEFINE r == NewPost(refs, text)
    <2>2. r \in PostRows /\ r.safety = "PENDING"
      BY <1>0 DEF NewPost, PostRows
    <2>3. post' = [post EXCEPT ![p] = r]
      BY <2>1
    <2> HIDE DEF r
    <2>4. edit[p].pc = "none" /\ edit' = [edit EXCEPT ![p] = edit[p]] /\ unsaid' = unsaid
      BY <1>0, <1>2 DEF CreatePost, EditKnows
    <2> QED BY <1>0, <1>1, <2>2, <2>3, <2>4, EditKept
  <1>3. CASE EditSaves(p)
    <2>1. Exists(p) /\ unsaid' = unsaid \ {p}
      BY <1>3 DEF EditSaves
    <2>2. ASSUME NEW text \in Texts, post' = [post EXCEPT ![p].text = text],
                 edit' = [edit EXCEPT ![p] = [NoEdit EXCEPT !.pc = "saved", !.kind = "caption"]]
          PROVE  ContentInv'
      <3> DEFINE r == [post[p] EXCEPT !.text = text]
                 e == [NoEdit EXCEPT !.pc = "saved", !.kind = "caption"]
      <3>1. r \in PostRows
        BY <1>0, <2>1 DEF PostRows
      <3>2. e \in EditRows /\ e.pc = "saved" /\ e.kind = "caption"
        BY <1>0 DEF EditRows
      <3>3. post' = [post EXCEPT ![p] = r] /\ edit' = [edit EXCEPT ![p] = e]
        BY <1>0, <2>2
      <3> HIDE DEF r, e
      <3> QED BY <1>0, <1>1, <2>1, <3>1, <3>2, <3>3, EditKept
    <2>3. ASSUME NEW k \in RefSlots, NEW u \in Uploads, NEW at \in Place(u),
                 post[p].version < MaxVersion,
                 post' = [post EXCEPT ![p].refs[k] = [upload |-> u, at |-> at]],
                 edit' = [edit EXCEPT ![p] = [NoEdit EXCEPT !.pc = "saved", !.kind = "media"]]
          PROVE  ContentInv'
      <3> DEFINE new == [upload |-> u, at |-> at]
                 refs0 == [post[p].refs EXCEPT ![k] = new]
                 r == [post[p] EXCEPT !.refs = refs0]
                 e == [NoEdit EXCEPT !.pc = "saved", !.kind = "media"]
      <3>1. at \in {"quarantine", "public"}
        BY ContentFacts DEF Place
      <3>2. post[p] \in PostRows /\ post[p].refs \in Refs
        BY <1>0, <2>1 DEF PostRows
      <3>3. new \in [upload : Uploads, at : {"quarantine", "public"}]
        BY <3>1
      <3>4. post' = [post EXCEPT ![p] = r] /\ edit' = [edit EXCEPT ![p] = e]
        BY <1>0, <2>3
      <3> HIDE DEF new
      <3>5. refs0 \in Refs
        BY <3>2, <3>3 DEF Refs
      <3> HIDE DEF refs0
      <3>6. r \in PostRows /\ r.version = post[p].version
        BY <3>2, <3>5 DEF PostRows
      <3>7. e \in EditRows /\ e.pc = "saved" /\ e.kind = "media"
        BY <1>0 DEF EditRows
      <3> HIDE DEF r, e
      <3> QED BY <1>0, <1>1, <2>1, <2>3, <3>4, <3>6, <3>7, EditKept
    <2> QED BY <1>3, <2>2, <2>3 DEF EditSaves
  <1>4. CASE EditReloads(p)
    <2> DEFINE seen == Columns(p)
               e == [edit[p] EXCEPT !.pc = "reloaded", !.seen = seen]
    <2>1. /\ edit[p].pc = "saved" /\ Exists(p) /\ post' = post /\ unsaid' = unsaid
          /\ post[p] \in PostRows /\ post' = [post EXCEPT ![p] = post[p]]
      BY <1>0, <1>4 DEF EditReloads, EditKnows
    <2>2. seen \in SeenRows /\ seen.version = post[p].version /\ seen.safety = post[p].safety
      BY <2>1 DEF Columns, SeenRows, PostRows
    <2>3. CASE edit[p].kind = "caption" /\ post[p].text = "SAFE"
      <3>1. edit' = [edit EXCEPT ![p] = NoEdit]
        BY <1>4, <2>3 DEF EditReloads
      <3> QED BY <1>0, <1>1, <2>1, <2>3, <3>1, EditKept
    <2>4. CASE ~(edit[p].kind = "caption" /\ post[p].text = "SAFE")
      <3>1. edit' = [edit EXCEPT ![p] = e]
        BY <1>0, <1>4, <2>4 DEF EditReloads
      <3> HIDE DEF seen
      <3>2. e \in EditRows /\ e.pc = "reloaded" /\ e.kind = edit[p].kind /\ e.seen = seen
        BY <1>0, <2>2 DEF EditRows
      <3> HIDE DEF e
      <3>3. AfterEdit(seen, edit[p].kind).safety # "SAFE"
        BY <1>0, <2>1, <2>2, AfterEditHolds DEF EditKnows
      <3>4. /\ e.kind # "none"
            /\ e.kind = "media" => post[p].version < MaxVersion
            /\ e.seen \in SeenRows /\ e.seen.version = post[p].version
        BY <1>0, <2>1, <2>2, <3>2 DEF EditKnows
      <3>5. post[p].safety = "SAFE" => AfterEdit(e.seen, e.kind).safety # e.seen.safety
        BY <2>2, <3>2, <3>3
      <3> QED BY <1>0, <1>1, <2>1, <3>1, <3>2, <3>4, <3>5, EditKept
    <2> QED BY <2>3, <2>4
  <1>5. CASE EditUpdates(p)
    <2> DEFINE seen == edit[p].seen
               next == AfterEdit(seen, edit[p].kind)
    <2>1. PICK again \in Again(seen) : post' = [post EXCEPT ![p] = Updated(@, seen, next, again)]
      BY <1>5 DEF EditUpdates
    <2>2. /\ edit[p].pc = "reloaded" /\ unsaid' = unsaid /\ edit' = [edit EXCEPT ![p] = NoEdit]
          /\ again \in BOOLEAN
      BY <1>5 DEF EditUpdates, Again
    <2>3. /\ Exists(p) /\ post[p] \in PostRows /\ seen \in SeenRows /\ seen.version = post[p].version
          /\ edit[p].kind = "media" => seen.version < MaxVersion
      BY <1>0, <2>2 DEF EditKnows
    <2>4. /\ next.safety \in {"HELD", "PENDING"} /\ next.moderated = 0
          /\ next.version \in 1 .. MaxVersion
      BY <2>3, AfterEditHolds
    <2> DEFINE r == Updated(post[p], seen, next, again)
    <2>5. /\ r \in PostRows /\ r.text = post[p].text
          /\ r.safety = "SAFE" => post[p].safety = "SAFE" /\ next.safety = seen.safety
      BY <2>2, <2>3, <2>4, UpdatedTyped
    <2>6. post' = [post EXCEPT ![p] = r]
      BY <1>0, <2>1
    <2>7. r.text # "SAFE" /\ r.safety = "SAFE" /\ p \notin unsaid' =>
              adminEdit[p].pc = "saved" /\ adminEdit[p].text # "SAFE"
      BY <1>0, <2>2, <2>3, <2>5 DEF CaptionHeld, WillHold
    <2> HIDE DEF r
    <2> QED BY <1>0, <1>1, <2>2, <2>5, <2>6, <2>7, EditKept
  <1>6. CASE EditDies(p)
    <2>1. /\ edit[p].pc # "none" /\ unsaid' = unsaid \cup {p} /\ edit' = [edit EXCEPT ![p] = NoEdit]
          /\ post' = [post EXCEPT ![p] = post[p]]
      BY <1>0, <1>6 DEF EditDies
    <2>2. post[p] \in PostRows
      BY <1>0, <2>1 DEF EditKnows
    <2> QED BY <1>0, <1>1, <2>1, <2>2, EditKept
  <1> QED BY <1>2, <1>3, <1>4, <1>5, <1>6

LEMMA AdminEditSteps ==
    ASSUME ContentInv, NEW p \in Posts,
           AdminEditReads(p) \/ AdminEditSaves(p) \/ AdminEditApplies(p) \/ AdminEditDies(p)
    PROVE  ContentInv'
  <1>0. /\ unsaid \in SUBSET Posts /\ edit \in [Posts -> EditRows] /\ edit[p] \in EditRows
        /\ post \in [Posts -> PostRows \cup {NoRow}]
        /\ Exists(p) => post[p] \in PostRows
        /\ adminEdit \in [Posts -> AdminEditRows] /\ adminEdit[p] \in AdminEditRows
        /\ NoAdminEdit \in AdminEditRows /\ NoAdminEdit.pc = "none"
        /\ EditKnows(p) /\ CaptionHeld(p)
    BY RowIsPost DEF ContentInv, PostsTyped, NoAdminEdit, AdminEditRows, Texts
  <1>1. /\ UNCHANGED <<media, object, run, late, allow, reporting, cleared>>
        /\ edit' = [edit EXCEPT ![p] = edit[p]]
    BY <1>0 DEF AdminEditReads, AdminEditSaves, AdminEditApplies, AdminEditDies
  <1>2. Exists(p) /\ post[p] \in PostRows
    BY <1>0 DEF EditKnows, AdminEditReads, AdminEditSaves, AdminEditApplies, AdminEditDies
  <1>3. /\ edit[p].pc # "none" => edit[p].kind # "none"
        /\ edit[p].pc # "none" /\ edit[p].kind = "media" => post[p].version < MaxVersion
        /\ edit[p].pc = "reloaded" =>
              edit[p].seen \in SeenRows /\ edit[p].seen.version = post[p].version
    BY <1>0, <1>2 DEF EditKnows
  <1>4. CASE AdminEditReads(p)
    <2> DEFINE seen == Columns(p)
               a == [adminEdit[p] EXCEPT !.pc = "read", !.seen = seen]
    <2>1. /\ adminEdit' = [adminEdit EXCEPT ![p] = a] /\ adminEdit[p].pc = "none" /\ unsaid' = unsaid
          /\ post' = [post EXCEPT ![p] = post[p]]
      BY <1>0, <1>4 DEF AdminEditReads
    <2>2. seen \in SeenRows
      BY <1>2 DEF Columns, SeenRows, PostRows
    <2> HIDE DEF seen
    <2>3. a \in AdminEditRows /\ a.seen = seen
      BY <1>0, <2>2 DEF AdminEditRows
    <2> HIDE DEF a
    <2>4. post[p].text # "SAFE" /\ post[p].safety = "SAFE" /\ p \notin unsaid' =>
            \/ edit[p].pc = "saved"
            \/ edit[p].pc = "reloaded"
                 /\ AfterEdit(edit[p].seen, edit[p].kind).safety # edit[p].seen.safety
      BY <1>0, <1>2, <2>1 DEF CaptionHeld, WillHold
    <2> QED BY <1>0, <1>1, <1>2, <1>3, <2>1, <2>2, <2>3, <2>4, EditKept
  <1>5. CASE AdminEditSaves(p)
    <2>1. PICK text \in Texts :
            /\ adminEdit' = [adminEdit EXCEPT ![p].pc = "saved", ![p].text = text]
            /\ \/ post' = [post EXCEPT ![p].text = text] /\ unsaid' = unsaid \ {p}
               \/ UNCHANGED <<post, unsaid>>
      BY <1>5 DEF AdminEditSaves
    <2> DEFINE a == [adminEdit[p] EXCEPT !.pc = "saved", !.text = text]
               r == [post[p] EXCEPT !.text = text]
    <2>2. adminEdit' = [adminEdit EXCEPT ![p] = a] /\ adminEdit[p].pc = "read"
      BY <1>0, <1>5, <2>1 DEF AdminEditSaves
    <2>3. /\ a \in AdminEditRows /\ a.seen = adminEdit[p].seen /\ a.pc = "saved" /\ a.text = text
          /\ a.seen \in SeenRows
      BY <1>0, <2>2 DEF AdminEditRows, EditKnows
    <2> HIDE DEF a
    <2>4. CASE post' = [post EXCEPT ![p].text = text] /\ unsaid' = unsaid \ {p}
      <3>1. post' = [post EXCEPT ![p] = r]
        BY <1>0, <2>4
      <3>2. r \in PostRows /\ r.text = text /\ r.version = post[p].version
        BY <1>2 DEF PostRows
      <3> HIDE DEF r
      <3>3. /\ edit[p].pc # "none" /\ edit[p].kind = "media" => r.version < MaxVersion
            /\ edit[p].pc = "reloaded" => edit[p].seen \in SeenRows /\ edit[p].seen.version = r.version
        BY <1>3, <3>2
      <3>4. unsaid' \in SUBSET Posts /\ \A q \in Posts \ {p} : q \in unsaid' <=> q \in unsaid
        BY <1>0, <2>4
      <3>5. r.text # "SAFE" => a.pc = "saved" /\ a.text # "SAFE"
        BY <2>3, <3>2
      <3>6. edit[p].pc # "none" => edit[p].kind # "none"
        BY <1>3
      <3> QED BY <1>0, <1>1, <2>2, <2>3, <3>1, <3>2, <3>3, <3>4, <3>5, <3>6, EditKept
    <2>5. CASE UNCHANGED <<post, unsaid>>
      <3>1. post' = [post EXCEPT ![p] = post[p]]
        BY <1>0, <2>5
      <3>2. post[p].text # "SAFE" /\ post[p].safety = "SAFE" /\ p \notin unsaid' =>
              \/ edit[p].pc = "saved"
              \/ edit[p].pc = "reloaded"
                   /\ AfterEdit(edit[p].seen, edit[p].kind).safety # edit[p].seen.safety
        BY <1>0, <1>2, <2>2, <2>5 DEF CaptionHeld, WillHold
      <3> QED BY <1>0, <1>1, <1>2, <1>3, <2>2, <2>3, <2>5, <3>1, <3>2, EditKept
    <2> QED BY <2>1, <2>4, <2>5
  <1>6. CASE AdminEditApplies(p)
    <2> DEFINE seen == adminEdit[p].seen
               mine == [seen EXCEPT !.text = adminEdit[p].text]
               next == AfterEdit(mine, "caption")
    <2>1. adminEdit[p].pc = "saved" /\ adminEdit' = [adminEdit EXCEPT ![p] = NoAdminEdit]
      BY <1>6 DEF AdminEditApplies
    <2>2. CASE adminEdit[p].text = "SAFE"
      <3>1. post' = [post EXCEPT ![p] = post[p]] /\ unsaid' = unsaid
        BY <1>0, <1>6, <2>2 DEF AdminEditApplies
      <3>2. post[p].text # "SAFE" /\ post[p].safety = "SAFE" /\ p \notin unsaid' =>
              \/ edit[p].pc = "saved"
              \/ edit[p].pc = "reloaded"
                   /\ AfterEdit(edit[p].seen, edit[p].kind).safety # edit[p].seen.safety
        BY <1>0, <1>2, <2>2, <3>1 DEF CaptionHeld, WillHold
      <3> QED BY <1>0, <1>1, <1>2, <1>3, <2>1, <3>1, <3>2, EditKept
    <2>3. CASE adminEdit[p].text # "SAFE"
      <3>1. PICK again \in Again(seen) :
              /\ post' = [post EXCEPT ![p] = Updated(@, seen, next, again)]
              /\ unsaid' = IF seen.safety = "HELD" /\ ~again /\ post[p].safety # "HELD"
                           THEN unsaid \cup {p} ELSE unsaid
        BY <1>6, <2>3 DEF AdminEditApplies
      <3>2. again \in BOOLEAN
        BY DEF Again
      <3>3. seen \in SeenRows /\ adminEdit[p].text \in Texts
        BY <1>0, <2>1 DEF EditKnows, AdminEditRows
      <3>4. mine \in SeenRows /\ mine.version = seen.version
        <4> HIDE DEF seen
        <4> QED BY <3>3 DEF SeenRows
      <3>5. /\ next.safety = "HELD" /\ next.moderated = 0
            /\ next.version \in 1 .. MaxVersion /\ next.version = seen.version
        <4> HIDE DEF mine
        <4> QED BY <3>4, AfterEditHolds
      <3> DEFINE r == Updated(post[p], seen, next, again)
      <3>6. post' = [post EXCEPT ![p] = r]
        BY <1>0, <3>1
      <3> HIDE DEF next
      <3>7. /\ r \in PostRows /\ r.text = post[p].text /\ r.version = post[p].version
            /\ r.safety = "SAFE" => post[p].safety = "SAFE" /\ seen.safety = "HELD" /\ ~again
        BY <1>2, <3>2, <3>5, UpdatedTyped
      <3>8. r.safety = "SAFE" => p \in unsaid'
        BY <3>1, <3>7
      <3>9. unsaid' \in SUBSET Posts /\ \A q \in Posts \ {p} : q \in unsaid' <=> q \in unsaid
        BY <1>0, <3>1
      <3> HIDE DEF r
      <3> QED BY <1>0, <1>1, <1>3, <2>1, <3>6, <3>7, <3>8, <3>9, EditKept
    <2> QED BY <2>2, <2>3
  <1>7. CASE AdminEditDies(p)
    <2>1. /\ adminEdit' = [adminEdit EXCEPT ![p] = NoAdminEdit]
          /\ post' = [post EXCEPT ![p] = post[p]]
          /\ unsaid' = IF adminEdit[p].pc = "saved" THEN unsaid \cup {p} ELSE unsaid
      BY <1>0, <1>7 DEF AdminEditDies
    <2>2. post[p].text # "SAFE" /\ post[p].safety = "SAFE" /\ p \notin unsaid' =>
            \/ edit[p].pc = "saved"
            \/ edit[p].pc = "reloaded"
                 /\ AfterEdit(edit[p].seen, edit[p].kind).safety # edit[p].seen.safety
      BY <1>0, <1>2, <2>1 DEF CaptionHeld, WillHold
    <2>3. unsaid' \in SUBSET Posts /\ \A q \in Posts \ {p} : q \in unsaid' <=> q \in unsaid
      BY <1>0, <2>1
    <2> QED BY <1>0, <1>1, <1>2, <1>3, <2>1, <2>2, <2>3, EditKept
  <1> QED BY <1>4, <1>5, <1>6, <1>7

\* The invariant of captions: a caption that does not pass is published only while an edit is under
\* way that will hold it, or after one of the steps that "unsaid" remembers.
THEOREM ContentInvariant == ContentSpec => []ContentInv
  <1>1. ContentInit => ContentInv
    <2> SUFFICES ASSUME ContentInit PROVE ContentInv
      OBVIOUS
    <2>1. NoRun \in Runs /\ NoAllow \in Allows /\ NoEdit \in EditRows /\ NoAllow.pc = "none"
          /\ NoEdit.pc = "none"
      BY ContentAssumption DEF NoRun, Runs, NoAllow, Allows, NoEdit, EditRows
    <2>2. [pc |-> "new", todo |-> {}] \in Lates
      BY DEF Lates
    <2>3. OthersTyped
      BY <2>1, <2>2 DEF ContentInit, OthersTyped
    <2>4. PostsTyped
      BY <2>1 DEF ContentInit, PostsTyped, NoRow, NoAdminEdit, AdminEditRows, Texts
    <2>5. \A p \in Posts : ~Exists(p) /\ edit[p].pc = "none" /\ adminEdit[p].pc = "none"
      BY <2>1 DEF ContentInit, Exists, NoAdminEdit
    <2> QED BY <2>3, <2>4, <2>5 DEF ContentInv, EditKnows, CaptionHeld
  <1>2. ContentInv /\ [ContentNext]_contentVars => ContentInv'
    <2> SUFFICES ASSUME ContentInv, [ContentNext]_contentVars PROVE ContentInv'
      OBVIOUS
    <2>1. CASE UNCHANGED contentVars
      BY <2>1 DEF contentVars, ContentInv, OthersTyped, PostsTyped, EditKnows, CaptionHeld, WillHold,
                  AfterEdit, Exists
    <2> QED BY <2>1, WorkerQuietSteps, WorkerRowSteps, AdminSteps, AuthorSteps, AdminEditSteps
            DEF ContentNext, ContentBegins, ContentGoesOn
  <1> QED BY <1>1, <1>2, PTL DEF ContentSpec

\* Type correctness of moderation and publication.
THEOREM ContentTypes == ContentSpec => []ContentTypeOK
  <1>1. ContentInv => ContentTypeOK
    <2> SUFFICES ASSUME ContentInv PROVE ContentTypeOK
      OBVIOUS
    <2>1. \A p \in Posts : Exists(p) => post[p] \in PostRows
      BY RowIsPost
    <2>2. \A p \in Posts : Exists(p) =>
              /\ post[p].version \in 1 .. MaxVersion /\ post[p].moderated \in 0 .. MaxVersion
              /\ post[p].safety \in {"PENDING", "SAFE", "HELD"}
              /\ post[p].refs \in Refs /\ post[p].text \in Texts /\ post[p].gone \in BOOLEAN
      BY <2>1 DEF PostRows
    <2> QED BY <2>2 DEF ContentInv, OthersTyped, PostsTyped, ContentTypeOK
  <1> QED BY <1>1, ContentInvariant, PTL

\* "Caption BLOCK/REVIEW never stays public" (initialSafety.ts), as far as the code keeps it: a
\* caption that does not pass is published only while an edit of the author or of an administrator
\* is between its saves, or after one that died there, an administrator's edit whose verdict came
\* too late for the row it had read, an edit of a listing or a job, which checks nothing, or an
\* administrator's allow; no run of the worker, report or failure publishes it.
THEOREM CaptionsStayHeld == ContentSpec => []CaptionNotPublic
  <1>1. ContentInv => CaptionNotPublic
    BY DEF ContentInv, CaptionHeld, WillHold, CaptionNotPublic, InPublic
  <1> QED BY <1>1, ContentInvariant, PTL


-----------------------------------------------------------------------------
(***************************************************************************)
(* Posts with one upload: what has a public key was found SAFE, or was     *)
(* allowed.  A second upload of the post would be promoted with the first. *)
(***************************************************************************)
OneKey == \A j, k \in RefSlots : j = k

ClearedKeys(p) == \A k \in RefSlots : post[p].refs[k].at = "public" => post[p].refs[k].upload \in cleared

\* A run promotes what it found SAFE only, and has read posts of its own upload.
ClearedRun(u) ==
    /\ media[u].at = "public" => u \in cleared
    /\ run[u].verdict = "SAFE" => u \in cleared
    /\ run[u].moved \subseteq cleared
    /\ \A read \in run[u].todo, k \in RefSlots : read.refs[k].upload = u

VerifiedInv ==
    /\ \A u \in Uploads : ClearedRun(u)
    /\ \A p \in Posts : Exists(p) => ClearedKeys(p)

\* A run's row that changes, and nothing else that matters here.
LEMMA ClearedKept ==
    ASSUME ContentInv, VerifiedInv, cleared \subseteq cleared',
           \A u \in Uploads : ClearedRun(u)',
           \A p \in Posts : \/ post'[p].version = post[p].version /\ post'[p].refs = post[p].refs
                            \/ Exists(p)' => ClearedKeys(p)'
                            \/ Exists(p) /\ post'[p].refs = post[p].refs
    PROVE  VerifiedInv'
  BY DEF VerifiedInv, ClearedKeys, Exists

LEMMA RunsSame ==
    ASSUME VerifiedInv, media' = media, run' = run, cleared \subseteq cleared'
    PROVE  \A u \in Uploads : ClearedRun(u)'
  BY DEF VerifiedInv, ClearedRun

LEMMA PlacesCleared ==
    ASSUME VerifiedInv, NEW u \in Uploads, "public" \in Place(u)
    PROVE  u \in cleared
  BY DEF VerifiedInv, ClearedRun, Place

LEMMA RewrittenCleared ==
    ASSUME ContentInv, NEW p \in Posts, Exists(p), ClearedKeys(p), NEW moved \in SUBSET Uploads,
           moved \subseteq cleared', cleared \subseteq cleared',
           post'[p].refs = Rewritten(post[p].refs, moved)
    PROVE  ClearedKeys(p)'
  <1>1. post[p].refs \in Refs
    BY RowIsPost DEF PostRows
  <1> DEFINE refs0 == post[p].refs
             new == post'[p].refs
  <1>2. new = [k \in RefSlots |-> IF refs0[k].upload \in moved THEN [refs0[k] EXCEPT !.at = "public"]
                                  ELSE refs0[k]]
    BY DEF Rewritten
  <1>3. \A k \in RefSlots : refs0[k] \in [upload : Uploads, at : {"quarantine", "public"}]
    BY <1>1 DEF Refs
  <1>4. \A k \in RefSlots : refs0[k].at = "public" => refs0[k].upload \in cleared
    BY DEF ClearedKeys
  <1> HIDE DEF refs0, new
  <1>5. ASSUME NEW k \in RefSlots, new[k].at = "public" PROVE new[k].upload \in cleared'
    <2>1. CASE refs0[k].upload \in moved
      BY <1>2, <1>3, <2>1
    <2>2. CASE refs0[k].upload \notin moved
      BY <1>2, <1>4, <1>5, <2>2
    <2> QED BY <2>1, <2>2
  <1> QED BY <1>5 DEF new, ClearedKeys

LEMMA HeldKeys ==
    ASSUME ContentInv, NEW read \in Reads,
           post' = IF post[read.id].version = read.version
                   THEN [post EXCEPT ![read.id].safety = "HELD", ![read.id].moderated = 0] ELSE post
    PROVE  \A p \in Posts : post'[p].version = post[p].version /\ post'[p].refs = post[p].refs
  <1> DEFINE p == read.id
  <1>1. p \in Posts /\ read.version > 0 /\ post \in [Posts -> PostRows \cup {NoRow}]
    BY ContentAssumption DEF Reads, ContentInv, PostsTyped
  <1>2. CASE post[p].version = read.version
    <2>1. Exists(p)
      BY <1>1, <1>2 DEF Exists
    <2>2. post[p] \in PostRows
      BY <1>1, <2>1, RowIsPost
    <2> QED BY <1>1, <1>2, <2>2 DEF PostRows
  <1>3. CASE post[p].version # read.version
    BY <1>3
  <1> QED BY <1>2, <1>3

LEMMA VerifiedWorker ==
    ASSUME OneKey, ContentInv, VerifiedInv, NEW u \in Uploads,
           \/ Classify(u) \/ ListPosts(u) \/ HoldPost(u) \/ Promote(u) \/ Rewrite(u)
           \/ Publish(u) \/ CleanUp(u) \/ RunEnds(u) \/ MarkFailed(u) \/ MarkPostFailed(u)
    PROVE  VerifiedInv'
  <1>0. /\ media \in [Uploads -> [at : {"quarantine", "public"}, verdict : {"NONE", "SAFE", "HELD"}]]
        /\ run \in [Uploads -> Runs] /\ run[u] \in Runs /\ ClearedRun(u)
        /\ media[u] \in [at : {"quarantine", "public"}, verdict : {"NONE", "SAFE", "HELD"}]
        /\ NoRun \in Runs /\ NoRun.moved = {} /\ NoRun.todo = {} /\ NoRun.verdict = "NONE"
        /\ post \in [Posts -> PostRows \cup {NoRow}]
    BY ContentFacts DEF VerifiedInv, ContentInv, PostsTyped, NoRun
  <1>1. \A read \in run[u].todo \cup run[u].now : read.id \in Posts
    BY <1>0 DEF Runs, Reads
  <1>2. ASSUME NEW r \in Runs, run' = [run EXCEPT ![u] = r],
               NEW m \in [at : {"quarantine", "public"}, verdict : {"NONE", "SAFE", "HELD"}],
               media' = [media EXCEPT ![u] = m] \/ (media' = media /\ m = media[u]),
               cleared \subseteq cleared',
               m.at = "public" => u \in cleared', r.verdict = "SAFE" => u \in cleared',
               r.moved \subseteq cleared', \A read \in r.todo, k \in RefSlots : read.refs[k].upload = u
        PROVE  \A v \in Uploads : ClearedRun(v)'
    <2>1. run'[u] = r /\ media'[u] = m
      BY <1>0, <1>2
    <2>2. ClearedRun(u)'
      BY <1>2, <2>1 DEF ClearedRun
    <2>3. ASSUME NEW v \in Uploads \ {u} PROVE ClearedRun(v)'
      <3>1. run'[v] = run[v] /\ media'[v] = media[v] /\ ClearedRun(v)
        BY <1>0, <1>2 DEF VerifiedInv
      <3> QED BY <1>2, <3>1 DEF ClearedRun
    <2> QED BY <2>2, <2>3
  <1>3. CASE Classify(u)
    <2>1. PICK v \in Verdicts(u) :
              /\ run' = [run EXCEPT ![u] = [NoRun EXCEPT !.pc = "list", !.at = media[u].at, !.verdict = v]]
              /\ cleared' = IF v = "SAFE" THEN cleared \cup {u} ELSE cleared
      BY <1>3 DEF Classify
    <2> DEFINE at0 == media[u].at
               r == [NoRun EXCEPT !.pc = "list", !.at = at0, !.verdict = v]
    <2>2. at0 \in {"quarantine", "public"} /\ v \in {"NONE", "SAFE", "HELD"}
      BY <1>0 DEF Verdicts
    <2>3. r \in Runs /\ r.verdict = v /\ r.moved = {} /\ r.todo = {}
      <3> HIDE DEF at0
      <3> QED BY <1>0, <2>2 DEF Runs
    <2>4. run' = [run EXCEPT ![u] = r] /\ media' = media /\ post' = post
      BY <1>3, <2>1 DEF Classify
    <2> HIDE DEF r
    <2>5. \A w \in Uploads : ClearedRun(w)'
      BY <1>0, <1>2, <2>1, <2>3, <2>4 DEF ClearedRun
    <2> QED BY <2>1, <2>4, <2>5, ClearedKept
  <1>4. CASE ListPosts(u)
    <2> DEFINE reads == Referring(u, run[u].at)
               r == [run[u] EXCEPT !.pc = "posts", !.todo = reads]
               v == run[u].verdict
               m == [media[u] EXCEPT !.verdict = v]
    <2>1. run' = [run EXCEPT ![u] = r] /\ media' = [media EXCEPT ![u] = m]
          /\ UNCHANGED <<post, cleared>>
      BY <1>0, <1>4 DEF ListPosts
    <2>2. reads \in SUBSET Reads /\ v \in {"NONE", "SAFE", "HELD"}
      BY <1>0, ContentFacts DEF Runs
    <2>3. \A read \in reads, k \in RefSlots : read.refs[k].upload = u
      <3> SUFFICES ASSUME NEW read \in reads, NEW k \in RefSlots PROVE read.refs[k].upload = u
        OBVIOUS
      <3>1. PICK q \in Posts : /\ \E j \in RefSlots : post[q].refs[j] = [upload |-> u, at |-> run[u].at]
                               /\ read.refs = post[q].refs
        BY DEF Referring
      <3>2. post[q].refs[k] = [upload |-> u, at |-> run[u].at]
        BY <3>1 DEF OneKey
      <3> QED BY <3>1, <3>2
    <2> HIDE DEF reads, v
    <2>4. r \in Runs /\ r.todo = reads /\ r.moved = run[u].moved /\ r.verdict = run[u].verdict
      BY <1>0, <2>2 DEF Runs
    <2>5. m \in [at : {"quarantine", "public"}, verdict : {"NONE", "SAFE", "HELD"}] /\ m.at = media[u].at
      BY <1>0, <2>2
    <2> HIDE DEF r, m
    <2>6. \A w \in Uploads : ClearedRun(w)'
      BY <1>0, <1>2, <2>1, <2>3, <2>4, <2>5 DEF ClearedRun
    <2> QED BY <2>1, <2>6, ClearedKept
  <1>5. CASE HoldPost(u)
    <2>1. PICK read \in run[u].todo :
              /\ post' = IF post[read.id].version = read.version
                         THEN [post EXCEPT ![read.id].safety = "HELD", ![read.id].moderated = 0] ELSE post
              /\ run' = [run EXCEPT ![u].todo = @ \ {read}]
      BY <1>5 DEF HoldPost
    <2> DEFINE todo0 == run[u].todo \ {read}
               r == [run[u] EXCEPT !.todo = todo0]
    <2>2. todo0 \in SUBSET Reads /\ todo0 \subseteq run[u].todo /\ read \in Reads
      BY <1>0 DEF Runs
    <2>3. run' = [run EXCEPT ![u] = r] /\ UNCHANGED <<media, cleared>>
      BY <1>0, <1>5, <2>1 DEF HoldPost
    <2> HIDE DEF todo0
    <2>4. r \in Runs /\ r.todo = todo0 /\ r.moved = run[u].moved /\ r.verdict = run[u].verdict
      BY <1>0, <2>2 DEF Runs
    <2> HIDE DEF r
    <2>5. \A w \in Uploads : ClearedRun(w)'
      BY <1>0, <1>2, <2>2, <2>3, <2>4 DEF ClearedRun
    <2>6. \A p \in Posts : post'[p].version = post[p].version /\ post'[p].refs = post[p].refs
      BY <2>1, <2>2, HeldKeys
    <2> QED BY <2>3, <2>5, <2>6, ClearedKept
  <1>6. CASE MarkPostFailed(u)
    <2>1. PICK read \in late[u].todo :
              post' = IF post[read.id].version = read.version
                      THEN [post EXCEPT ![read.id].safety = "HELD", ![read.id].moderated = 0] ELSE post
      BY <1>6 DEF MarkPostFailed
    <2>2. read \in Reads
      BY ContentFacts DEF Lates
    <2>3. \A p \in Posts : post'[p].version = post[p].version /\ post'[p].refs = post[p].refs
      BY <2>1, <2>2, HeldKeys
    <2>4. UNCHANGED <<media, run, cleared>>
      BY <1>6 DEF MarkPostFailed
    <2> QED BY <2>3, <2>4, RunsSame, ClearedKept
  <1>7. CASE Promote(u)
    <2> DEFINE pick(read) == Quarantined(read.refs) \cup (IF run[u].at = "quarantine" THEN {u} ELSE {})
    <2>1. PICK read \in run[u].todo :
              /\ PostVerdict(u, read) = "SAFE"
              /\ run' = [run EXCEPT ![u].pc = "rewrite", ![u].todo = @ \ {read}, ![u].now = {read},
                                    ![u].moved = Promotable(pick(read))]
      BY <1>7 DEF Promote
    <2> DEFINE moved0 == Promotable(pick(read))
               todo0 == run[u].todo \ {read}
               now0 == {read}
               r == [run[u] EXCEPT !.pc = "rewrite", !.todo = todo0, !.now = now0, !.moved = moved0]
    <2>2. read \in Reads /\ todo0 \in SUBSET Reads /\ todo0 \subseteq run[u].todo
      BY <1>0 DEF Runs
    <2>3. moved0 \subseteq {u}
      BY <1>0 DEF ClearedRun, Promotable, Quarantined
    <2>4. u \in cleared
      BY <1>0, <2>1 DEF ClearedRun, PostVerdict
    <2>5. run' = [run EXCEPT ![u] = r] /\ UNCHANGED <<media, post, cleared>>
      BY <1>0, <1>7, <2>1 DEF Promote
    <2> HIDE DEF moved0, todo0
    <2>6. r \in Runs /\ r.todo = todo0 /\ r.moved = moved0 /\ r.verdict = run[u].verdict
      BY <1>0, <2>2, <2>3 DEF Runs
    <2> HIDE DEF r
    <2>7. \A w \in Uploads : ClearedRun(w)'
      BY <1>0, <1>2, <2>2, <2>3, <2>4, <2>5, <2>6 DEF ClearedRun
    <2> QED BY <2>5, <2>7, ClearedKept
  <1>8. CASE Rewrite(u)
    <2>1. PICK read \in run[u].now :
            IF post[read.id].version = read.version
            THEN /\ post' = [post EXCEPT ![read.id].refs = Rewritten(@, run[u].moved)]
                 /\ media' = IF u \in run[u].moved THEN [media EXCEPT ![u].at = "public"] ELSE media
                 /\ run' = [run EXCEPT ![u].pc = "publish",
                                       ![u].at = IF u \in run[u].moved THEN "public" ELSE @]
            ELSE RunGoes(u, "publish") /\ UNCHANGED <<post, media>>
      BY <1>8 DEF Rewrite
    <2> DEFINE p == read.id
               at0 == IF u \in run[u].moved THEN "public" ELSE run[u].at
               r == [run[u] EXCEPT !.pc = "publish", !.at = at0]
               r0 == [run[u] EXCEPT !.pc = "publish"]
               m == [media[u] EXCEPT !.at = "public"]
    <2>2. cleared' = cleared
      BY <1>8 DEF Rewrite
    <2>3. read \in Reads /\ at0 \in {"quarantine", "public"} /\ run[u].moved \in SUBSET Uploads
      BY <1>0 DEF Runs
    <2>4. p \in Posts /\ read.version > 0
      BY <2>3, ContentAssumption DEF Reads
    <2>5. CASE post[p].version = read.version
      <3>1. run' = [run EXCEPT ![u] = r] /\ media' = (IF u \in run[u].moved THEN [media EXCEPT ![u] = m] ELSE media)
        BY <1>0, <2>1, <2>5
      <3>2. r \in Runs /\ r.todo = run[u].todo /\ r.moved = run[u].moved /\ r.verdict = run[u].verdict
        <4> HIDE DEF at0
        <4> QED BY <1>0, <2>3 DEF Runs
      <3>3. m \in [at : {"quarantine", "public"}, verdict : {"NONE", "SAFE", "HELD"}]
        BY <1>0
      <3> HIDE DEF r, m
      <3>4. u \in run[u].moved => u \in cleared
        BY <1>0 DEF ClearedRun
      <3>5. \A w \in Uploads : ClearedRun(w)'
        <4>1. CASE u \in run[u].moved
          BY <1>0, <1>2, <2>2, <3>1, <3>2, <3>3, <3>4, <4>1 DEF ClearedRun
        <4>2. CASE u \notin run[u].moved
          BY <1>0, <1>2, <2>2, <3>1, <3>2, <4>2 DEF ClearedRun
        <4> QED BY <4>1, <4>2
      <3>6. Exists(p)
        BY <2>4, <2>5 DEF Exists
      <3>7. post[p] \in PostRows
        BY <2>4, <3>6, RowIsPost
      <3>8. post'[p].refs = Rewritten(post[p].refs, run[u].moved)
            /\ \A q \in Posts \ {p} : post'[q] = post[q]
        BY <1>0, <2>1, <2>4, <2>5, <3>7 DEF PostRows
      <3> HIDE DEF p
      <3>9. ClearedKeys(p)'
        <4>1. run[u].moved \subseteq cleared' /\ ClearedKeys(p)
          BY <1>0, <2>2, <2>4, <3>6 DEF ClearedRun, VerifiedInv
        <4> QED BY <2>2, <2>3, <2>4, <3>6, <3>8, <4>1, RewrittenCleared
      <3> QED BY <2>2, <2>4, <3>5, <3>8, <3>9, ClearedKept
    <2>6. CASE post[p].version # read.version
      <3>1. run' = [run EXCEPT ![u] = r0] /\ UNCHANGED <<post, media>>
        BY <1>0, <2>1, <2>6 DEF RunGoes
      <3>2. r0 \in Runs /\ r0.todo = run[u].todo /\ r0.moved = run[u].moved /\ r0.verdict = run[u].verdict
        BY <1>0 DEF Runs
      <3> HIDE DEF r0
      <3>3. \A w \in Uploads : ClearedRun(w)'
        BY <1>0, <1>2, <2>2, <3>1, <3>2 DEF ClearedRun
      <3> QED BY <2>2, <3>1, <3>3, ClearedKept
    <2> QED BY <2>5, <2>6
  <1>9. CASE Publish(u)
    <2>1. PICK read \in run[u].now :
            IF MayPublish(read.id, read.version)
            THEN /\ post' = [post EXCEPT ![read.id].safety = "SAFE", ![read.id].moderated = read.version]
                 /\ RunGoes(u, "clean")
            ELSE run' = [run EXCEPT ![u].pc = "posts", ![u].now = {}, ![u].moved = {}] /\ UNCHANGED post
      BY <1>9 DEF Publish
    <2> DEFINE p == read.id
               r == [run[u] EXCEPT !.pc = "clean"]
               r0 == [run[u] EXCEPT !.pc = "posts", !.now = {}, !.moved = {}]
    <2>2. UNCHANGED <<cleared, media>>
      BY <1>9 DEF Publish
    <2>3. run' = [run EXCEPT ![u] = r] \/ run' = [run EXCEPT ![u] = r0]
      BY <1>0, <2>1 DEF RunGoes
    <2>4. /\ r \in Runs /\ r.todo = run[u].todo /\ r.moved = run[u].moved /\ r.verdict = run[u].verdict
          /\ r0 \in Runs /\ r0.todo = run[u].todo /\ r0.moved = {} /\ r0.verdict = run[u].verdict
      BY <1>0 DEF Runs
    <2> HIDE DEF r, r0
    <2>5. \A w \in Uploads : ClearedRun(w)'
      BY <1>0, <1>2, <2>2, <2>3, <2>4 DEF ClearedRun
    <2>6. read \in Reads
      BY <1>0 DEF Runs
    <2>7. \A q \in Posts : post'[q].version = post[q].version /\ post'[q].refs = post[q].refs
      <3>1. CASE MayPublish(p, read.version)
        <4>1. p \in Posts /\ Exists(p)
          BY <2>6, <3>1, ContentAssumption DEF MayPublish, Exists, Reads
        <4>2. post[p] \in PostRows
          BY <4>1, RowIsPost
        <4> QED BY <1>0, <2>1, <3>1, <4>1, <4>2 DEF PostRows
      <3>2. CASE ~MayPublish(p, read.version)
        BY <2>1, <3>2
      <3> QED BY <3>1, <3>2
    <2> QED BY <2>2, <2>5, <2>7, ClearedKept
  <1>10. CASE CleanUp(u)
    <2> DEFINE r == [run[u] EXCEPT !.pc = "posts", !.now = {}, !.moved = {}]
    <2>1. run' = [run EXCEPT ![u] = r] /\ UNCHANGED <<media, post, cleared>>
      BY <1>0, <1>10 DEF CleanUp
    <2>2. r \in Runs /\ r.todo = run[u].todo /\ r.moved = {} /\ r.verdict = run[u].verdict
      BY <1>0 DEF Runs
    <2> HIDE DEF r
    <2>3. \A w \in Uploads : ClearedRun(w)'
      BY <1>0, <1>2, <2>1, <2>2 DEF ClearedRun
    <2> QED BY <2>1, <2>3, ClearedKept
  <1>11. CASE RunEnds(u)
    <2> DEFINE r == [NoRun EXCEPT !.pc = "done"]
    <2>1. run' = [run EXCEPT ![u] = r] /\ UNCHANGED <<media, post, cleared>>
      BY <1>11 DEF RunEnds
    <2>2. r \in Runs /\ r.todo = {} /\ r.moved = {} /\ r.verdict = "NONE"
      BY <1>0 DEF Runs
    <2> HIDE DEF r
    <2>3. \A w \in Uploads : ClearedRun(w)'
      BY <1>0, <1>2, <2>1, <2>2 DEF ClearedRun
    <2> QED BY <2>1, <2>3, ClearedKept
  <1>12. CASE MarkFailed(u)
    <2> DEFINE m == [media[u] EXCEPT !.verdict = "HELD"]
    <2>1. media' = [media EXCEPT ![u] = m] /\ UNCHANGED <<run, post, cleared>>
      BY <1>0, <1>12 DEF MarkFailed
    <2>2. m \in [at : {"quarantine", "public"}, verdict : {"NONE", "SAFE", "HELD"}] /\ m.at = media[u].at
      BY <1>0
    <2> HIDE DEF m
    <2>3. run' = [run EXCEPT ![u] = run[u]]
      BY <1>0, <2>1
    <2>4. \A w \in Uploads : ClearedRun(w)'
      BY <1>0, <1>2, <2>1, <2>2, <2>3 DEF ClearedRun
    <2> QED BY <2>1, <2>4, ClearedKept
  <1> QED BY <1>3, <1>4, <1>5, <1>6, <1>7, <1>8, <1>9, <1>10, <1>11, <1>12

LEMMA VerifiedOthers ==
    ASSUME ContentInv, VerifiedInv, NEW p \in Posts,
           \/ CreatePost(p) \/ EditSaves(p) \/ EditReloads(p) \/ EditUpdates(p) \/ EditDies(p)
           \/ AllowReads(p) \/ AllowCommits(p) \/ AllowCleans(p) \/ RejectPost(p) \/ Hide(p)
           \/ ReportReads(p) \/ ReportSaves(p) \/ TradeEditSaves(p)
           \/ AdminEditReads(p) \/ AdminEditSaves(p) \/ AdminEditApplies(p) \/ AdminEditDies(p)
    PROVE  VerifiedInv'
  <1>0. /\ post \in [Posts -> PostRows \cup {NoRow}] /\ cleared \in SUBSET Uploads
        /\ allow \in [Posts -> Allows] /\ \A q \in reporting : Exists(q)
        /\ Exists(p) => post[p] \in PostRows /\ ClearedKeys(p)
        /\ allow[p].pc = "read" => Exists(p)
        /\ edit[p].pc # "none" \/ adminEdit[p].pc # "none" => Exists(p)
    BY ContentFacts, RowIsPost DEF ContentInv, PostsTyped, OthersTyped, EditKnows, VerifiedInv
  <1>1. UNCHANGED <<media, run>> /\ cleared \subseteq cleared'
    BY <1>0 DEF CreatePost, EditSaves, EditReloads, EditUpdates, EditDies, AllowReads, AllowCommits,
                AllowCleans, RejectPost, Hide, ReportReads, ReportSaves, TradeEditSaves,
                AdminEditReads, AdminEditSaves, AdminEditApplies, AdminEditDies
  <1>2. \A u \in Uploads : ClearedRun(u)'
    BY <1>1, RunsSame
  <1>3. CASE CreatePost(p)
    <2>1. PICK refs \in Refs, text \in Texts \ {"BLOCK"} :
              /\ \A k \in RefSlots : refs[k].at \in Place(refs[k].upload)
              /\ post' = [post EXCEPT ![p] = NewPost(refs, text)]
      BY <1>3 DEF CreatePost
    <2>2. post'[p].refs = refs /\ \A q \in Posts \ {p} : post'[q] = post[q]
      BY <1>0, <2>1 DEF NewPost
    <2>3. ASSUME NEW k \in RefSlots, refs[k].at = "public" PROVE refs[k].upload \in cleared
      <3>1. refs[k].upload \in Uploads
        BY DEF Refs
      <3>2. "public" \in Place(refs[k].upload)
        BY <2>1, <2>3
      <3> QED BY <3>1, <3>2, PlacesCleared
    <2>4. ClearedKeys(p)'
      BY <1>1, <2>2, <2>3 DEF ClearedKeys
    <2> QED BY <1>1, <1>2, <2>2, <2>4, ClearedKept
  <1>4. CASE EditSaves(p)
    <2>1. Exists(p) /\ post[p] \in PostRows
      BY <1>0, <1>4 DEF EditSaves
    <2>2. ASSUME NEW text \in Texts, post' = [post EXCEPT ![p].text = text]
          PROVE  VerifiedInv'
      <3>1. \A q \in Posts : post'[q].version = post[q].version /\ post'[q].refs = post[q].refs
        BY <1>0, <2>1, <2>2 DEF PostRows
      <3> QED BY <1>1, <1>2, <3>1, ClearedKept
    <2>3. ASSUME NEW k \in RefSlots, NEW u \in Uploads, NEW at \in Place(u),
                 post' = [post EXCEPT ![p].refs[k] = [upload |-> u, at |-> at]]
          PROVE  VerifiedInv'
      <3> DEFINE new == [upload |-> u, at |-> at]
                 refs0 == [post[p].refs EXCEPT ![k] = new]
      <3>1. post'[p].refs = refs0 /\ \A q \in Posts \ {p} : post'[q] = post[q]
        BY <1>0, <2>1, <2>3 DEF PostRows
      <3>2. post[p].refs \in Refs
        BY <2>1 DEF PostRows
      <3>3. refs0[k] = new /\ \A j \in RefSlots \ {k} : refs0[j] = post[p].refs[j]
        BY <3>2 DEF Refs
      <3>4. new.at = "public" => new.upload \in cleared
        BY PlacesCleared
      <3> HIDE DEF refs0, new
      <3>5. ClearedKeys(p)'
        BY <1>0, <1>1, <2>1, <3>1, <3>3, <3>4 DEF ClearedKeys
      <3> QED BY <1>1, <1>2, <3>1, <3>5, ClearedKept
    <2> QED BY <1>4, <2>2, <2>3 DEF EditSaves
  <1>5. ASSUME Exists(p), NEW seen, NEW next, NEW again,
               post' = [post EXCEPT ![p] = Updated(@, seen, next, again)]
        PROVE  VerifiedInv'
    <2> DEFINE r == Updated(post[p], seen, next, again)
    <2>1. r.refs = post[p].refs
      BY <1>0, <1>5 DEF Updated, PostRows
    <2> HIDE DEF r
    <2>2. post' = [post EXCEPT ![p] = r]
      BY <1>0, <1>5 DEF r
    <2>3. post'[p].refs = post[p].refs /\ \A q \in Posts \ {p} : post'[q] = post[q]
      BY <1>0, <2>1, <2>2
    <2> QED BY <1>1, <1>2, <1>5, <2>3, ClearedKept
  <1>6. CASE AllowCommits(p)
    <2>1. CASE post' = post
      BY <1>1, <1>2, <2>1, ClearedKept
    <2>2. CASE post' # post
      <3>1. /\ allow[p].pc = "read"
            /\ post' = [post EXCEPT ![p].safety = "SAFE", ![p].moderated = allow[p].version,
                                    ![p].refs = Rewritten(@, allow[p].moved)]
            /\ cleared' = cleared \cup allow[p].moved
        BY <1>6, <2>2 DEF AllowCommits
      <3>2. Exists(p) /\ post[p] \in PostRows /\ ClearedKeys(p) /\ allow[p].moved \in SUBSET Uploads
        BY <1>0, <3>1 DEF Allows
      <3>3. post'[p].refs = Rewritten(post[p].refs, allow[p].moved)
            /\ \A q \in Posts \ {p} : post'[q] = post[q]
        BY <1>0, <3>1, <3>2 DEF PostRows
      <3>4. ClearedKeys(p)'
        BY <1>1, <3>1, <3>2, <3>3, RewrittenCleared
      <3> QED BY <1>1, <1>2, <3>3, <3>4, ClearedKept
    <2> QED BY <2>1, <2>2
  <1>7. CASE RejectPost(p) \/ Hide(p) \/ ReportSaves(p)
    <2>1. Exists(p) /\ post[p] \in PostRows
      BY <1>0, <1>7 DEF RejectPost, Hide, ReportSaves
    <2>2. \A q \in Posts : post'[q].version = post[q].version /\ post'[q].refs = post[q].refs
      BY <1>0, <1>7, <2>1 DEF RejectPost, Hide, ReportSaves, PostRows
    <2> QED BY <1>1, <1>2, <2>2, ClearedKept
  <1>8. CASE post' = post
    BY <1>1, <1>2, <1>8, ClearedKept
  <1>9. ASSUME Exists(p), NEW text \in Texts, post' = [post EXCEPT ![p].text = text]
        PROVE  VerifiedInv'
    <2>1. \A q \in Posts : post'[q].version = post[q].version /\ post'[q].refs = post[q].refs
      BY <1>0, <1>9 DEF PostRows
    <2> QED BY <1>1, <1>2, <2>1, ClearedKept
  <1>10. CASE EditUpdates(p)
    BY <1>0, <1>5, <1>10 DEF EditUpdates
  <1>11. CASE AdminEditSaves(p)
    BY <1>0, <1>8, <1>9, <1>11 DEF AdminEditSaves
  <1>12. CASE AdminEditApplies(p)
    BY <1>0, <1>5, <1>8, <1>12 DEF AdminEditApplies
  <1>13. CASE TradeEditSaves(p)
    BY <1>9, <1>13 DEF TradeEditSaves
  <1> QED
    BY <1>3, <1>4, <1>6, <1>7, <1>8, <1>10, <1>11, <1>12, <1>13
       DEF EditReloads, EditDies, AllowReads, AllowCleans, ReportReads, AdminEditReads, AdminEditDies

\* "UNVERIFIED = NOT PUBLIC" (docs/CONTENT_SAFETY.md) for posts with one upload: whatever edits,
\* runs, failures and allows overlap, what a published post shows under a public key was found
\* SAFE or allowed by an administrator.
THEOREM UnverifiedStaysPrivate ==
    ASSUME \A j, k \in RefSlots : j = k
    PROVE  ContentSpec => []UnverifiedNotPublic
  <1>1. ContentInit => VerifiedInv
    BY DEF ContentInit, VerifiedInv, ClearedRun, NoRun, Exists
  <1>2. ContentInv /\ VerifiedInv /\ [ContentNext]_contentVars => VerifiedInv'
    <2> SUFFICES ASSUME ContentInv, VerifiedInv, [ContentNext]_contentVars PROVE VerifiedInv'
      OBVIOUS
    <2>1. CASE UNCHANGED contentVars
      BY <2>1 DEF contentVars, VerifiedInv, ClearedRun, ClearedKeys, Exists
    <2>2. OneKey
      BY DEF OneKey
    <2> QED BY <2>1, <2>2, VerifiedWorker, VerifiedOthers DEF ContentNext, ContentBegins, ContentGoesOn
  <1>3. VerifiedInv => UnverifiedNotPublic
    BY DEF VerifiedInv, ClearedKeys, UnverifiedNotPublic, InPublic
  <1> QED BY <1>1, <1>2, <1>3, ContentInvariant, PTL DEF ContentSpec

-----------------------------------------------------------------------------
(***************************************************************************)
(* The composition that TLC runs: a step of one part is a step of its      *)
(* component and leaves the other components alone.                        *)
(***************************************************************************)
LEMMA ServicesBegin ==
    Init => /\ ConnectionsInit /\ BillingInit /\ MatchesInit /\ ContentInit /\ SchedulerInit
            /\ ListingsInit
  BY DEF Init

LEMMA ServicesMove ==
    ASSUME [Next]_servicesVars
    PROVE  /\ [ConnectionsNext]_connVars /\ [BillingNext]_billVars /\ [MatchesNext]_matchVars
           /\ [ContentNext]_contentVars /\ [SchedulerNext]_jobVars /\ [ListingsNext]_listingVars
  BY DEF Next, servicesVars, Spends, Free, ContentNext, BillingNext

\* The run services, with its budget and one part that moves, shows behaviours of the components,
\* so their theorems hold of it.
THEOREM ServicesRunTheirParts ==
    Spec => /\ ConnectionsSpec /\ BillingSpec /\ MatchesSpec /\ ContentSpec /\ SchedulerSpec
            /\ ListingsSpec
  BY ServicesBegin, ServicesMove, PTL
     DEF Spec, ConnectionsSpec, BillingSpec, MatchesSpec, ContentSpec, SchedulerSpec, ListingsSpec

\* Every variable of the six components keeps its type.
THEOREM ServicesTypes == Spec => []ServicesTypeOK
  <1>1. ConnectionsTypeOK /\ BillingTypeOK /\ MatchesTypeOK /\ ContentTypeOK /\ SchedulerTypeOK
          /\ ListingsTypeOK => ServicesTypeOK
    BY DEF ServicesTypeOK
  <1> QED
    BY <1>1, ServicesRunTheirParts, ConnectionsTypes, BillingTypes, MatchesTypes, ContentTypes,
       SchedulerTypes, ListingsTypes, PTL


\* What the run services checks on a small instance holds of it for any constants, apart from the
\* unverified uploads, which UnverifiedStaysPrivate is about.
THEOREM ServicesKeepPromises ==
    Spec => /\ [](ConnectedByConsent /\ OneAccepted)
            /\ [](GrantedOnceUnlessStale /\ LiveUnlessReplaced) /\ BillingAccounting
            /\ [](MatchedByBoth /\ AcceptedIsMatched /\ CaptionNotPublic)
            /\ [](OneHolder /\ HistoryTold /\ LiveExpires /\ LiveLimit)
  <1>1. Spec => [](ConnectedByConsent /\ OneAccepted)
    BY ServicesRunTheirParts, ConsentedConnections, SingleConnection, PTL
  <1>2. Spec => [](GrantedOnceUnlessStale /\ LiveUnlessReplaced) /\ BillingAccounting
    BY ServicesRunTheirParts, GrantedOnce, PlansEndForNewer, BillingImplementsAccounting, PTL
  <1>3. Spec => [](MatchedByBoth /\ AcceptedIsMatched /\ CaptionNotPublic)
    BY ServicesRunTheirParts, MatchNeedsBoth, CrossingAcceptancesMatch, CaptionsStayHeld, PTL
  <1>4. Spec => [](OneHolder /\ HistoryTold /\ LiveExpires /\ LiveLimit)
    BY ServicesRunTheirParts, OneHolderAlways, HistoryIsTold, LiveListingsExpire, LiveLimitKept, PTL
  <1> QED BY <1>1, <1>2, <1>3, <1>4
=============================================================================
