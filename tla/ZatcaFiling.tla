------------------------------ MODULE ZatcaFiling ------------------------------
(***************************************************************************)
(* A tenant's credentials with the tax authority and what is done with     *)
(* them: ZatcaOnboardingService (compliance certificate, production        *)
(* certificate, renewal, revocation), the stamping of invoices by issue    *)
(* and their submission by submit.                                         *)
(*                                                                         *)
(* Every handler reads the organization's row, calls the authority without *)
(* a lock or a transaction and then writes; the calls and the writes of    *)
(* all requests interleave.  A call may be refused, its answer may be lost *)
(* and the process may stop, which all end the request.                    *)
(*                                                                         *)
(* A key pair is a number, a certificate the key it was issued for and its *)
(* stage.  Certificate and API secret are always read and written          *)
(* together, so the secret goes with the certificate.                      *)
(***************************************************************************)
EXTENDS Integers

CONSTANTS
    Invoices,
    Filers,      \* requests at work at the same time
    MaxKeys,     \* bound: key pairs generated
    Missing      \* null

ASSUME FilingAssumption == MaxKeys \in Nat /\ Missing \notin Nat

VARIABLES
    org,         \* the credential columns of the organization
    keys,        \* key pairs generated so far
    invoice,     \* the columns of each invoice that issue and submit write
    handling,    \* per filer: the handler under way
    filed,       \* invoices the authority has accepted
    presented,   \* history: certificates the reporting interface was called with
    overlapped,  \* history: two requests changed the credentials at the same time
    raced,       \* history: invoices submitted twice at the same time
    lost,        \* history: invoices whose submission had no recorded answer
    misread      \* history: invoices not accepted whose answer could not be read

filingVars == <<org, keys, invoice, handling, filed, presented, overlapped, raced, lost,
          misread>>

Stages == {"compliance", "production"}
Keys == 1 .. MaxKeys
Certificate == [key : Keys, stage : Stages]

Organization ==
    [csid : Certificate \cup {Missing}, key : Keys \cup {Missing},
     requestId : Keys \cup {Missing}, environment : Stages \cup {Missing}]

\* What an invoice is stamped with: Missing is the plain QR without a signature.
Stamp == [csid : Certificate, key : Keys]

Invoice ==
    [issued : BOOLEAN, stamp : Stamp \cup {Missing},
     status : {"pending", "filed", "failed"}, submittedAt : BOOLEAN]

Onboarding == [op : {"compliance", "production", "renewal"}, key : Keys]
Issuing == [op : {"issue"}, invoice : Invoices, stamp : Stamp \cup {Missing}]
Submitting == [op : {"submit"}, invoice : Invoices, csid : Certificate, submittedAt : BOOLEAN]
Recording == [op : {"record"}, invoice : Invoices, submitted : BOOLEAN, submittedAt : BOOLEAN]

FilingRequest == Onboarding \cup Issuing \cup Submitting \cup Recording

ASSUME FilingNone ==
    Missing \notin FilingRequest /\ Missing \notin Certificate /\ Missing \notin Stamp /\ Missing \notin Stages

FilingTypeOK ==
    /\ org \in Organization
    /\ keys \in 0 .. MaxKeys
    /\ invoice \in [Invoices -> Invoice]
    /\ handling \in [Filers -> FilingRequest \cup {Missing}]
    /\ filed \subseteq Invoices
    /\ presented \subseteq Certificate
    /\ overlapped \in BOOLEAN
    /\ raced \subseteq Invoices
    /\ lost \subseteq Invoices
    /\ misread \subseteq Invoices

NotStarted == [csid |-> Missing, key |-> Missing, requestId |-> Missing, environment |-> Missing]

FilingInit ==
    /\ org = NotStarted
    /\ keys = 0
    /\ invoice = [i \in Invoices |->
            [issued |-> FALSE, stamp |-> Missing, status |-> "pending", submittedAt |-> FALSE]]
    /\ handling = [w \in Filers |-> Missing]
    /\ filed = {}
    /\ presented = {}
    /\ overlapped = FALSE
    /\ raced = {}
    /\ lost = {}
    /\ misread = {}

FilingGoto(w, r) == handling' = [handling EXCEPT ![w] = r]
FilingDone(w) == FilingGoto(w, Missing)

At(w, op) == handling[w] # Missing /\ handling[w].op = op

IsOnboarding(w) == handling[w] # Missing /\ handling[w] \in Onboarding

\* Somebody is between the read and the write of the organization's row.
ChangesUnderWay == \E w \in Filers : IsOnboarding(w)

-----------------------------------------------------------------------------
(* Onboarding.  A request is read, called and answered in Start, and       *)
(* stored in Store: nothing of the row is looked at again.                 *)

StartOnboarding(w, op, key) ==
    /\ handling[w] = Missing
    /\ FilingGoto(w, [op |-> op, key |-> key])
    /\ overlapped' = (overlapped \/ ChangesUnderWay)
    /\ UNCHANGED <<org, invoice, filed, presented, raced, lost, misread>>

StartCompliance(w) ==
    /\ keys < MaxKeys
    /\ keys' = keys + 1
    /\ StartOnboarding(w, "compliance", keys + 1)

StoreCompliance(w) ==
    /\ At(w, "compliance")
    /\ LET k == handling[w].key
       IN org' = [csid |-> [key |-> k, stage |-> "compliance"], key |-> k,
                  requestId |-> k, environment |-> "compliance"]
    /\ FilingDone(w)
    /\ UNCHANGED <<keys, invoice, filed, presented, overlapped, raced, lost, misread>>

\* The authority certifies the key of the compliance request it is shown.
StartProduction(w) ==
    /\ org.environment = "compliance"
    /\ org.requestId # Missing /\ org.csid # Missing
    /\ keys' = keys
    /\ StartOnboarding(w, "production", org.requestId)

\* Only the certificate is replaced, the key is the compliance request's.
StoreProduction(w) ==
    /\ At(w, "production")
    /\ org' = [org EXCEPT !.csid = [key |-> handling[w].key, stage |-> "production"],
                          !.environment = "production"]
    /\ FilingDone(w)
    /\ UNCHANGED <<keys, invoice, filed, presented, overlapped, raced, lost, misread>>

StartRenewal(w) ==
    /\ org.environment = "production" /\ org.csid # Missing
    /\ keys < MaxKeys
    /\ keys' = keys + 1
    /\ StartOnboarding(w, "renewal", keys + 1)

\* Fault: the new key is not stored, as in the production step.
RenewalKeepsKey(key) == org.key

RenewedKey(key) == key

StoreRenewal(w) ==
    /\ At(w, "renewal")
    /\ org' = [org EXCEPT !.csid = [key |-> handling[w].key, stage |-> "production"],
                          !.key = RenewedKey(handling[w].key),
                          !.environment = "production"]
    /\ FilingDone(w)
    /\ UNCHANGED <<keys, invoice, filed, presented, overlapped, raced, lost, misread>>

\* revokeLocally: one update of the row, no call.
Revoke(w) ==
    /\ handling[w] = Missing
    /\ org # NotStarted
    /\ org' = NotStarted
    /\ overlapped' = (overlapped \/ ChangesUnderWay)
    /\ UNCHANGED <<keys, invoice, handling, filed, presented, raced, lost, misread>>

-----------------------------------------------------------------------------
(* Invoices.                                                               *)

\* issue reads the credentials with the invoice and stamps with what it read;
\* the stage of the certificate is not looked at.
IssueRead(w, i) ==
    /\ handling[w] = Missing
    /\ ~invoice[i].issued
    /\ FilingGoto(w, [op |-> "issue", invoice |-> i,
                stamp |-> IF org.csid # Missing /\ org.key # Missing
                          THEN [csid |-> org.csid, key |-> org.key] ELSE Missing])
    /\ UNCHANGED <<org, keys, invoice, filed, presented, overlapped, raced, lost,
                   misread>>

\* The document with its stamp, and its archive.
IssueCommit(w) ==
    /\ At(w, "issue")
    /\ invoice' = [invoice EXCEPT ![handling[w].invoice].issued = TRUE,
                                  ![handling[w].invoice].stamp = handling[w].stamp]
    /\ FilingDone(w)
    /\ UNCHANGED <<org, keys, filed, presented, overlapped, raced, lost, misread>>

\* submit: "zatcaEnvironment must equal 'production', not just be present".
Onboarded == org.csid # Missing /\ org.environment = "production"

Submits(w, i) ==
    (At(w, "submit") \/ At(w, "record")) /\ handling[w].invoice = i

\* Nothing keeps an invoice that was filed from being submitted again.
SubmitRead(w, i) ==
    /\ handling[w] = Missing
    /\ Onboarded
    /\ invoice[i].issued
    /\ FilingGoto(w, [op |-> "submit", invoice |-> i, csid |-> org.csid,
                submittedAt |-> invoice[i].submittedAt])
    /\ raced' = IF \E v \in Filers : Submits(v, i) THEN raced \cup {i} ELSE raced
    /\ UNCHANGED <<org, keys, invoice, filed, presented, overlapped, lost, misread>>

\* What comes back of a submission: an answer that says what the authority did;
\* none that does (a network error, a redirect, an error of a gateway); or a
\* status below 400 with a body that is not JSON.
Answers == {"told", "lost", "unreadable"}

\* submit and parseResponse: a body that cannot be read is null, null lists no
\* errors, and what lists no errors is valid.
ReadsAsAccepted(accepted, answer) ==
    answer = "unreadable" \/ (answer = "told" /\ accepted)

\* The authority accepts the invoice or not, and an answer comes back or not.
SubmitCall(w, accepted, answer) ==
    /\ At(w, "submit")
    /\ LET r == handling[w]
       IN /\ presented' = presented \cup {r.csid}
          /\ filed' = IF accepted THEN filed \cup {r.invoice} ELSE filed
          /\ lost' = IF answer = "lost" THEN lost \cup {r.invoice} ELSE lost
          /\ misread' = IF answer = "unreadable" /\ ~accepted
                        THEN misread \cup {r.invoice} ELSE misread
          /\ FilingGoto(w, [op |-> "record", invoice |-> r.invoice,
                      submitted |-> ReadsAsAccepted(accepted, answer),
                      submittedAt |-> r.submittedAt])
    /\ UNCHANGED <<org, keys, invoice, overlapped, raced>>

\* Fault: no answer is taken for a good one.
StatusOptimistic(submitted) == "filed"

SubmissionStatus(submitted) == IF submitted THEN "filed" ELSE "failed"

\* "submitted ? new Date() : invoice.submittedAt", which was read at the start.
SubmittedAt(submitted, before) == submitted \/ before

SubmitRecord(w) ==
    /\ At(w, "record")
    /\ LET r == handling[w]
       IN invoice' = [invoice EXCEPT
                ![r.invoice].status = SubmissionStatus(r.submitted),
                ![r.invoice].submittedAt = SubmittedAt(r.submitted, r.submittedAt)]
    /\ FilingDone(w)
    /\ UNCHANGED <<org, keys, filed, presented, overlapped, raced, lost, misread>>

\* The authority refuses an onboarding call, the process stops, or the database
\* is lost before the write.
FilingDies(w) ==
    /\ handling[w] # Missing
    /\ lost' = IF At(w, "record") THEN lost \cup {handling[w].invoice} ELSE lost
    /\ FilingDone(w)
    /\ UNCHANGED <<org, keys, invoice, filed, presented, overlapped, raced, misread>>

-----------------------------------------------------------------------------

FilingNext ==
    \E w \in Filers :
        \/ StartCompliance(w) \/ StoreCompliance(w)
        \/ StartProduction(w) \/ StoreProduction(w)
        \/ StartRenewal(w) \/ StoreRenewal(w)
        \/ Revoke(w)
        \/ \E i \in Invoices : IssueRead(w, i)
        \/ IssueCommit(w)
        \/ \E i \in Invoices : SubmitRead(w, i)
        \/ \E accepted \in BOOLEAN, answer \in Answers : SubmitCall(w, accepted, answer)
        \/ SubmitRecord(w)
        \/ FilingDies(w)

FilingSpec == FilingInit /\ [][FilingNext]_filingVars

-----------------------------------------------------------------------------
(* Properties.                                                             *)

\* Every stamp is made with the key its certificate was issued for, through
\* compliance, production, renewal and revocation in any order, unless two
\* requests changed the credentials at the same time.
StampsVerify ==
    overlapped \/ \A i \in Invoices :
        invoice[i].stamp # Missing => invoice[i].stamp.csid.key = invoice[i].stamp.key

\* D-058: the reporting interface is only ever called with a production
\* certificate, however onboarding, revocation and submissions interleave.
SubmitsWithProduction == \A c \in presented : c.stage = "production"

\* No invoice is recorded as filed that the authority did not accept, unless it
\* said so in an answer that could not be read: neither a lost answer, nor a second attempt,
\* nor the date read before the call can bring that about.
RecordedIsFiled ==
    \A i \in Invoices :
        invoice[i].status = "filed" \/ invoice[i].submittedAt => i \in filed \cup misread

\* D-029: "an invoice must never be recorded as filed when it was not".
NeverFiledUnaccepted == \A i \in Invoices : invoice[i].status = "filed" => i \in filed

\* An accepted invoice has its date of submission for good, whatever is
\* answered to a later attempt, unless an answer was lost or two attempts on it
\* ran at the same time.
FilingIsRemembered ==
    \A i \in filed :
        \/ invoice[i].submittedAt
        \/ i \in lost \cup raced
        \/ \E w \in Filers : Submits(w, i)

\* The books agree with the authority: what they call filed was accepted, but for
\* refusals nobody could read, and what was accepted stays dated, but for lost
\* answers and overlapping attempts.
FilingRecordsTrue == RecordedIsFiled /\ FilingIsRemembered
================================================================================
