--------------------------- MODULE LegalDocuments ---------------------------
(***************************************************************************)
(* The versions of one legal document (Legal.service.ts): administrators   *)
(* draft, edit, restore and publish it, members accept what is published.  *)
(*                                                                         *)
(* Each operation reads some rows and writes by id what it has decided     *)
(* from them; the archiving of the version in force and the publication of *)
(* the draft are one transaction, which the reads before it are not part   *)
(* of.  The versions of a document are unique by an index.                 *)
(***************************************************************************)
EXTENDS Naturals, FiniteSets

CONSTANTS LegalCalls,  \* requests under way
          MaxDocs,     \* bound: rows
          MaxTexts     \* bound: texts written

ASSUME LegalAssumption == MaxDocs \in Nat \ {0} /\ MaxTexts \in Nat \ {0}

VARIABLES docs,        \* legal_documents, by id
          acceptances,    \* legal_document_acceptances of one member: version and the text then
          legalOp,     \* requests between reading and writing
          texts,       \* texts written
          everInForce, \* history: something was published
          overlapped   \* history: a publication, or an edit, decided before another publication

legalVars == <<docs, acceptances, legalOp, texts, everInForce, overlapped>>

Docs == 1 .. MaxDocs
\* version, which carries a suffix in a draft, and versionMajor and versionMinor are columns each.
NoDoc == [status |-> "NONE", inForce |-> FALSE, version |-> <<0, 0>>, suffix |-> FALSE,
          number |-> <<0, 0>>, text |-> 0]
NewDraft(version, suffix, number, text) ==
    [NoDoc EXCEPT !.status = "DRAFT", !.version = version, !.suffix = suffix, !.number = number,
                  !.text = text]
NoLegalOp == [kind |-> "none", doc |-> 0, seen |-> NoDoc, current |-> 0, to |-> <<0, 0>>, early |-> FALSE]

\* ensureLegalDefaults seeds a draft without a suffix.
LegalInit ==
    /\ docs = [d \in Docs |-> IF d = 1 THEN NewDraft(<<1, 0>>, FALSE, <<1, 0>>, 1) ELSE NoDoc]
    /\ acceptances = {} /\ texts = 1
    /\ legalOp = [c \in LegalCalls |-> NoLegalOp]
    /\ everInForce = FALSE /\ overlapped = FALSE

Drafts == {d \in Docs : docs[d].status = "DRAFT"}
InForce == {d \in Docs : docs[d].inForce}
VersionTaken(d, version, suffix) ==
    \E e \in Docs \ {d} : docs[e].status # "NONE" /\ docs[e].version = version /\ docs[e].suffix = suffix

LegalStarts(c, op) ==
    /\ legalOp[c].kind = "none"
    /\ legalOp' = [legalOp EXCEPT ![c] = op]
    /\ UNCHANGED <<docs, acceptances, texts, everInForce, overlapped>>

-----------------------------------------------------------------------------
\* createDraft, and restoreVersion without a draft: there is none, ...
NoDraftYet(c) == Drafts = {} /\ LegalStarts(c, [NoLegalOp EXCEPT !.kind = "absent"])

\* ... and a row is made after the version in force then; restored, with another row's number.
DraftCreated(c) ==
    /\ legalOp[c].kind = "absent" /\ texts < MaxTexts
    /\ \E d \in {e \in Docs : docs[e].status = "NONE"} :
       \E version \in IF InForce = {} THEN {<<1, 0>>} ELSE {docs[e].number : e \in InForce} :
       \E number \in {version} \cup {docs[e].number : e \in {f \in Docs : docs[f].status # "NONE"}} :
          /\ ~VersionTaken(d, version, TRUE)
          /\ docs' = [docs EXCEPT ![d] = NewDraft(version, TRUE, number, texts + 1)]
    /\ texts' = texts + 1
    /\ legalOp' = [legalOp EXCEPT ![c] = NoLegalOp]
    /\ UNCHANGED <<acceptances, everInForce, overlapped>>

\* updateDraft, and restoreVersion with a draft: the row is one, ...
TextReads(c) ==
    \E d \in Drafts : LegalStarts(c, [NoLegalOp EXCEPT !.kind = "edit", !.doc = d])

\* ... and gets its text by id.
TextWrites(c) ==
    /\ legalOp[c].kind = "edit" /\ texts < MaxTexts
    /\ docs' = [docs EXCEPT ![legalOp[c].doc].text = texts + 1]
    /\ texts' = texts + 1
    /\ overlapped' = (overlapped \/ legalOp[c].early)
    /\ legalOp' = [legalOp EXCEPT ![c] = NoLegalOp]
    /\ UNCHANGED <<acceptances, everInForce>>

\* publishDocument: the draft, ...
PublishReads(c) ==
    \E d \in Drafts : LegalStarts(c, [NoLegalOp EXCEPT !.kind = "draft", !.doc = d, !.seen = docs[d]])

\* nextVersion
NextVersions(current) ==
    IF current = 0 THEN {<<1, 0>>}
    ELSE LET v == docs[current].number IN {<<v[1] + 1, 0>>, <<v[1], v[2] + 1>>}

\* ... the version in force and the one that would have the new number, ...
PublishChecks(c) ==
    /\ legalOp[c].kind = "draft"
    /\ \E current \in IF InForce = {} THEN {0} ELSE InForce : \E to \in NextVersions(current) :
          /\ ~VersionTaken(legalOp[c].doc, to, FALSE)
          /\ legalOp' = [legalOp EXCEPT ![c] = [@ EXCEPT !.kind = "publish", !.current = current, !.to = to]]
    /\ UNCHANGED <<docs, acceptances, texts, everInForce, overlapped>>

Archive(rows, d) == IF d = 0 THEN rows ELSE [rows EXCEPT ![d].inForce = FALSE, ![d].status = "ARCHIVED"]

\* The columns that differ from the draft as it was read.
PutInForce(rows, d, seen, to) ==
    LET renamed == to # seen.version \/ seen.suffix IN
    [rows EXCEPT ![d] = [@ EXCEPT !.inForce = TRUE, !.status = "PUBLISHED",
        !.version = IF renamed THEN to ELSE rows[d].version,
        !.suffix = ~renamed /\ rows[d].suffix,
        !.number = [i \in 1 .. 2 |-> IF to[i] # seen.number[i] THEN to[i] ELSE rows[d].number[i]]]]

\* Faulty variant: the draft first, the version in force then.
PublicationFirst(rows, op) == Archive(PutInForce(rows, op.doc, op.seen, op.to), op.current)

Publication(rows, op) == PutInForce(Archive(rows, op.current), op.doc, op.seen, op.to)

\* ... and both are written, unless the index refuses.
PublishCommits(c) ==
    LET op == legalOp[c] IN
    /\ op.kind = "publish"
    /\ ~VersionTaken(op.doc, op.to, FALSE)
    /\ docs' = Publication(docs, op)
    /\ everInForce' = TRUE
    /\ overlapped' = (overlapped \/ op.early)
    /\ legalOp' = [d \in LegalCalls |-> IF d = c \/ legalOp[d].kind = "none" THEN NoLegalOp
                                        ELSE [legalOp[d] EXCEPT !.early = TRUE]]
    /\ UNCHANGED <<acceptances, texts>>

LegalOpEnds(c) ==
    /\ legalOp[c].kind # "none"
    /\ legalOp' = [legalOp EXCEPT ![c] = NoLegalOp]
    /\ UNCHANGED <<docs, acceptances, texts, everInForce, overlapped>>

\* acceptDocuments: once for each version.
AcceptDocument ==
    /\ \E d \in InForce :
          /\ \A a \in acceptances : a.version # docs[d].version
          /\ acceptances' = acceptances \cup {[version |-> docs[d].version, text |-> docs[d].text]}
    /\ UNCHANGED <<docs, legalOp, texts, everInForce, overlapped>>

LegalBegin == \E c \in LegalCalls : NoDraftYet(c) \/ TextReads(c) \/ PublishReads(c)

LegalGoesOn ==
    \/ AcceptDocument
    \/ \E c \in LegalCalls :
          DraftCreated(c) \/ TextWrites(c) \/ PublishChecks(c) \/ PublishCommits(c) \/ LegalOpEnds(c)

LegalNext == LegalBegin \/ LegalGoesOn

LegalSpec == LegalInit /\ [][LegalNext]_legalVars

-----------------------------------------------------------------------------
LegalTypeOK ==
    /\ docs \in [Docs -> [status : {"NONE", "DRAFT", "PUBLISHED", "ARCHIVED"}, inForce : BOOLEAN,
                          version : Nat \X Nat, suffix : BOOLEAN, number : Nat \X Nat,
                          text : 0 .. MaxTexts]]
    /\ acceptances \subseteq [version : Nat \X Nat, text : 1 .. MaxTexts]
    /\ everInForce \in BOOLEAN /\ overlapped \in BOOLEAN

OneInForce == Cardinality(InForce) = 1

AcceptedStands == \A d \in InForce, a \in acceptances : a.version = docs[d].version => a.text = docs[d].text

Above(v, w) == v[1] > w[1] \/ (v[1] = w[1] /\ v[2] > w[2])
NewestInForce ==
    \A d \in InForce, e \in Docs : docs[e].status = "ARCHIVED" => Above(docs[d].version, docs[e].version)

\* Once a version is in force there always is one, however publications of one draft or of
\* several overlap.  It is the only one and above all before it, and its text the one its members
\* accepted under its number, unless a publication or an edit was decided before a publication
\* that it overwrites.
AlwaysInForce ==
    everInForce => InForce # {} /\ (~overlapped => OneInForce /\ NewestInForce /\ AcceptedStands)

=============================================================================
