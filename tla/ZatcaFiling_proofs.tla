-------------------------- MODULE ZatcaFiling_proofs --------------------------
(***************************************************************************)
(* Proofs about ZatcaFiling, for any number of invoices, requests and key  *)
(* pairs: which certificate is used for what, and what the record of a     *)
(* submission says about the filing.                                       *)
(***************************************************************************)
EXTENDS ZatcaFiling, TLAPS

-----------------------------------------------------------------------------
(* Types.                                                                  *)

\* A request at a step has the fields of that step.
LEMMA RequestFields ==
    ASSUME FilingTypeOK, NEW w \in Filers
    PROVE  /\ At(w, "compliance") \/ At(w, "production") \/ At(w, "renewal")
                => handling[w] \in Onboarding
           /\ At(w, "issue") => handling[w] \in Issuing
           /\ At(w, "submit") => handling[w] \in Submitting
           /\ At(w, "record") => handling[w] \in Recording
BY DEF FilingTypeOK, At, FilingRequest, Onboarding, Issuing, Submitting, Recording

LEMMA TypesInit ==
    ASSUME FilingInit
    PROVE  FilingTypeOK
<1>1. org \in Organization
    BY DEF FilingInit, NotStarted, Organization
<1>2. keys \in 0 .. MaxKeys
    BY FilingAssumption DEF FilingInit
<1>3. invoice \in [Invoices -> Invoice]
    BY DEF FilingInit, Invoice
<1>4. handling \in [Filers -> FilingRequest \cup {Missing}]
    BY DEF FilingInit
<1> QED BY <1>1, <1>2, <1>3, <1>4 DEF FilingInit, FilingTypeOK

LEMMA TypesStep ==
    ASSUME FilingTypeOK, [FilingNext]_filingVars
    PROVE  FilingTypeOK'
<1> USE FilingAssumption DEF FilingTypeOK, FilingGoto, FilingDone
<1>1. CASE UNCHANGED filingVars
    BY <1>1 DEF filingVars
<1>2. ASSUME NEW w \in Filers, StartCompliance(w) \/ StartRenewal(w)
      PROVE  FilingTypeOK'
    <2>1. keys + 1 \in Keys /\ keys' = keys + 1
        BY <1>2 DEF StartCompliance, StartRenewal, Keys
    <2>2. \A op \in {"compliance", "renewal"} : [op |-> op, key |-> keys + 1] \in FilingRequest
        BY <2>1 DEF FilingRequest, Onboarding
    <2>3. keys' \in 0 .. MaxKeys
        BY <2>1 DEF Keys
    <2>4. \E op \in {"compliance", "renewal"} : StartOnboarding(w, op, keys + 1)
        BY <1>2 DEF StartCompliance, StartRenewal
    <2>5. handling' \in [Filers -> FilingRequest \cup {Missing}]
        BY <2>2, <2>4 DEF StartOnboarding
    <2> QED BY <2>3, <2>4, <2>5 DEF StartOnboarding
<1>3. ASSUME NEW w \in Filers, StartProduction(w)
      PROVE  FilingTypeOK'
    <2>1. [op |-> "production", key |-> org.requestId] \in FilingRequest
        BY <1>3 DEF StartProduction, Organization, FilingRequest, Onboarding
    <2> QED BY <1>3, <2>1 DEF StartProduction, StartOnboarding
<1>4. ASSUME NEW w \in Filers, StoreCompliance(w) \/ StoreProduction(w) \/ StoreRenewal(w)
      PROVE  FilingTypeOK'
    <2>1. handling[w].key \in Keys
        BY <1>4, RequestFields DEF StoreCompliance, StoreProduction, StoreRenewal, Onboarding
    <2>2. \A s \in Stages : [key |-> handling[w].key, stage |-> s] \in Certificate
        BY <2>1 DEF Certificate
    <2>3. CASE StoreCompliance(w)
        BY <2>1, <2>2, <2>3 DEF StoreCompliance, Organization, Stages
    <2>4. CASE StoreProduction(w)
        BY <2>1, <2>2, <2>4 DEF StoreProduction, Organization, Stages
    <2>5. CASE StoreRenewal(w)
        BY <2>1, <2>2, <2>5 DEF StoreRenewal, RenewedKey, Organization, Stages
    <2> QED BY <1>4, <2>3, <2>4, <2>5
<1>5. ASSUME NEW w \in Filers, Revoke(w)
      PROVE  FilingTypeOK'
    BY <1>5 DEF Revoke, NotStarted, Organization
<1>6. ASSUME NEW w \in Filers, NEW i \in Invoices, IssueRead(w, i)
      PROVE  FilingTypeOK'
    <2>1. (IF org.csid # Missing /\ org.key # Missing
           THEN [csid |-> org.csid, key |-> org.key] ELSE Missing) \in Stamp \cup {Missing}
        BY DEF Organization, Stamp
    <2> QED BY <1>6, <2>1 DEF IssueRead, FilingRequest, Issuing
<1>7. ASSUME NEW w \in Filers, IssueCommit(w)
      PROVE  FilingTypeOK'
    <2>1. handling[w].invoice \in Invoices /\ handling[w].stamp \in Stamp \cup {Missing}
        BY <1>7, RequestFields DEF IssueCommit, Issuing
    <2> QED BY <1>7, <2>1, ZenonT(60) DEF IssueCommit, Invoice
<1>8. ASSUME NEW w \in Filers, NEW i \in Invoices, SubmitRead(w, i)
      PROVE  FilingTypeOK'
    <2>1. org.csid \in Certificate /\ invoice[i].submittedAt \in BOOLEAN
        BY <1>8 DEF SubmitRead, Onboarded, Organization, Invoice
    <2>2. [op |-> "submit", invoice |-> i, csid |-> org.csid,
           submittedAt |-> invoice[i].submittedAt] \in FilingRequest
        BY <2>1 DEF FilingRequest, Submitting
    <2> QED BY <1>8, <2>2 DEF SubmitRead
<1>9. ASSUME NEW w \in Filers, NEW accepted \in BOOLEAN, NEW answer \in Answers,
             SubmitCall(w, accepted, answer)
      PROVE  FilingTypeOK'
    <2> DEFINE r == handling[w]
               good == ReadsAsAccepted(accepted, answer)
    <2>1. r \in Submitting
        BY <1>9, RequestFields DEF SubmitCall
    <2>2. r.invoice \in Invoices /\ r.csid \in Certificate /\ r.submittedAt \in BOOLEAN
        BY <2>1 DEF Submitting
    <2>3. good \in BOOLEAN
        BY DEF ReadsAsAccepted
    <2> HIDE DEF good
    <2>4. [op |-> "record", invoice |-> r.invoice, submitted |-> good,
           submittedAt |-> r.submittedAt] \in FilingRequest
        BY <2>2, <2>3 DEF FilingRequest, Recording
    <2>5. handling' = [handling EXCEPT ![w] =
              [op |-> "record", invoice |-> r.invoice, submitted |-> good,
               submittedAt |-> r.submittedAt]]
        BY <1>9 DEF SubmitCall, good
    <2> QED BY <1>9, <2>2, <2>4, <2>5 DEF SubmitCall
<1>10. ASSUME NEW w \in Filers, SubmitRecord(w)
       PROVE  FilingTypeOK'
    <2> DEFINE r == handling[w]
               date == r.submitted \/ r.submittedAt
    <2>1. r.invoice \in Invoices /\ r.submitted \in BOOLEAN /\ r.submittedAt \in BOOLEAN
        BY <1>10, RequestFields DEF SubmitRecord, Recording
    <2>2. SubmissionStatus(r.submitted) \in {"filed", "failed"} /\ date \in BOOLEAN
        BY DEF SubmissionStatus
    <2>3. invoice' = [invoice EXCEPT ![r.invoice] =
              [invoice[r.invoice] EXCEPT !.status = SubmissionStatus(r.submitted),
                                         !.submittedAt = date]]
        BY <1>10, <2>1 DEF SubmitRecord, SubmittedAt
    <2> HIDE DEF date, r
    <2>4. invoice' \in [Invoices -> Invoice]
        BY <2>1, <2>2, <2>3, ZenonT(60) DEF Invoice
    <2> QED BY <1>10, <2>4 DEF SubmitRecord
<1>11. ASSUME NEW w \in Filers, FilingDies(w)
       PROVE  FilingTypeOK'
    <2>1. At(w, "record") => handling[w].invoice \in Invoices
        BY RequestFields DEF Recording
    <2> QED BY <1>11, <2>1 DEF FilingDies
<1> QED BY <1>1, <1>2, <1>3, <1>4, <1>5, <1>6, <1>7, <1>8, <1>9, <1>10, <1>11 DEF FilingNext

\* The organization's columns, the invoices and the requests keep their types.
THEOREM FilingTypes == FilingSpec => []FilingTypeOK
<1>1. FilingInit => FilingTypeOK
    BY TypesInit
<1>2. FilingTypeOK /\ [FilingNext]_filingVars => FilingTypeOK'
    BY TypesStep
<1> QED BY <1>1, <1>2, PTL DEF FilingSpec

-----------------------------------------------------------------------------
(* What a request does to the others' steps.                               *)

\* Only the requesting worker moves.
OthersStay(w) == \A v \in Filers : v # w => handling'[v] = handling[v]

LEMMA OneMoves ==
    ASSUME FilingTypeOK, NEW w \in Filers, NEW r, FilingGoto(w, r)
    PROVE  OthersStay(w) /\ handling'[w] = r
BY DEF FilingTypeOK, FilingGoto, OthersStay

-----------------------------------------------------------------------------
(* Certificates on the reporting interface.                                *)

\* The stage column is the stage of the certificate beside it: every handler
\* writes both or neither.
StageInv ==
    /\ org.csid # Missing => org.environment = org.csid.stage
    /\ \A w \in Filers : At(w, "submit") => handling[w].csid.stage = "production"
    /\ SubmitsWithProduction

LEMMA StageStep ==
    ASSUME FilingTypeOK, StageInv, [FilingNext]_filingVars
    PROVE  StageInv'
<1> USE DEF StageInv, SubmitsWithProduction
<1>1. CASE UNCHANGED filingVars
    BY <1>1 DEF filingVars, At
<1>2. ASSUME NEW w \in Filers, NEW r, FilingGoto(w, r), UNCHANGED <<org, presented>>,
             r = Missing \/ r.op # "submit"
      PROVE  StageInv'
    BY <1>2, OneMoves DEF OthersStay, At
<1>3. ASSUME NEW w \in Filers, StartCompliance(w) \/ StartProduction(w) \/ StartRenewal(w)
      PROVE  StageInv'
    <2>1. PICK op, k : op # "submit" /\ StartOnboarding(w, op, k)
        BY <1>3 DEF StartCompliance, StartProduction, StartRenewal
    <2> QED BY <1>2, <2>1 DEF StartOnboarding
<1>4. ASSUME NEW w \in Filers, StoreCompliance(w) \/ StoreProduction(w) \/ StoreRenewal(w)
      PROVE  StageInv'
    <2>1. org'.environment = org'.csid.stage
        <3>1. CASE StoreCompliance(w)
            BY <3>1 DEF StoreCompliance
        <3>2. CASE StoreProduction(w)
            BY <3>2 DEF StoreProduction, FilingTypeOK, Organization
        <3>3. CASE StoreRenewal(w)
            BY <3>3 DEF StoreRenewal, FilingTypeOK, Organization
        <3> QED BY <1>4, <3>1, <3>2, <3>3
    <2>2. FilingGoto(w, Missing) /\ presented' = presented
        BY <1>4 DEF StoreCompliance, StoreProduction, StoreRenewal, FilingDone
    <2> QED BY <2>1, <2>2, OneMoves DEF OthersStay, At
<1>5. ASSUME NEW w \in Filers, Revoke(w)
      PROVE  StageInv'
    BY <1>5 DEF Revoke, NotStarted, At
<1>6. ASSUME NEW w \in Filers, NEW i \in Invoices, SubmitRead(w, i)
      PROVE  StageInv'
    <2> DEFINE r == [op |-> "submit", invoice |-> i, csid |-> org.csid,
                     submittedAt |-> invoice[i].submittedAt]
    <2>1. FilingGoto(w, r) /\ UNCHANGED <<org, presented>>
        BY <1>6 DEF SubmitRead
    <2>2. r.csid.stage = "production"
        BY <1>6 DEF SubmitRead, Onboarded
    <2> HIDE DEF r
    <2> QED BY <2>1, <2>2, OneMoves DEF OthersStay, At
<1>7. ASSUME NEW w \in Filers, NEW accepted \in BOOLEAN, NEW answer \in Answers,
             SubmitCall(w, accepted, answer)
      PROVE  StageInv'
    <2> DEFINE r == [op |-> "record", invoice |-> handling[w].invoice,
                     submitted |-> ReadsAsAccepted(accepted, answer),
                     submittedAt |-> handling[w].submittedAt]
    <2>1. FilingGoto(w, r) /\ org' = org /\ presented' = presented \cup {handling[w].csid}
        BY <1>7 DEF SubmitCall
    <2>2. r.op = "record" /\ At(w, "submit")
        BY <1>7 DEF SubmitCall
    <2> HIDE DEF r
    <2> QED BY <2>1, <2>2, OneMoves DEF OthersStay, At
<1>8. ASSUME NEW w \in Filers,
             \/ \E i \in Invoices : IssueRead(w, i)
             \/ IssueCommit(w) \/ SubmitRecord(w) \/ FilingDies(w)
      PROVE  StageInv'
    <2>1. UNCHANGED <<org, presented>>
        BY <1>8 DEF IssueRead, IssueCommit, SubmitRecord, FilingDies
    <2>2. \A v \in Filers : At(v, "submit")' => handling'[v] = handling[v]
        BY <1>8 DEF IssueRead, IssueCommit, SubmitRecord, FilingDies, FilingGoto, FilingDone, At, FilingTypeOK
    <2> QED BY <2>1, <2>2 DEF At
<1> QED BY <1>1, <1>3, <1>4, <1>5, <1>6, <1>7, <1>8 DEF FilingNext

\* submit never calls the authority with a compliance certificate, whatever
\* onboarding requests and revocations run beside it.
THEOREM ProductionSubmits == FilingSpec => []SubmitsWithProduction
<1>1. FilingInit => StageInv
    BY DEF FilingInit, NotStarted, StageInv, SubmitsWithProduction, At
<1>2. FilingTypeOK /\ StageInv /\ [FilingNext]_filingVars => StageInv'
    BY StageStep
<1>3. StageInv => SubmitsWithProduction
    BY DEF StageInv
<1> QED BY <1>1, <1>2, <1>3, FilingTypes, PTL DEF FilingSpec

-----------------------------------------------------------------------------
(* Stamps.                                                                 *)

KeysMatch(pair) == pair.csid.key = pair.key

\* While no two requests have changed the credentials at the same time, at most
\* one is under way; the row holds a pair, and a production request works on
\* the key of the row.
PairInv ==
    overlapped \/
        /\ org.csid # Missing => KeysMatch(org)
        /\ org.environment = "compliance" => org.requestId = org.key
        /\ \A v, w \in Filers : IsOnboarding(v) /\ IsOnboarding(w) => v = w
        /\ \A w \in Filers : At(w, "production") => handling[w].key = org.key
        /\ \A w \in Filers :
              At(w, "issue") /\ handling[w].stamp # Missing => KeysMatch(handling[w].stamp)
        /\ \A i \in Invoices : invoice[i].stamp # Missing => KeysMatch(invoice[i].stamp)

\* SubmitRecord writes the outcome and the date of one invoice.
LEMMA RecordedRow ==
    ASSUME FilingTypeOK, NEW w \in Filers, SubmitRecord(w)
    PROVE  LET r == handling[w]
           IN /\ r.invoice \in Invoices
              /\ invoice'[r.invoice].status = SubmissionStatus(r.submitted)
              /\ invoice'[r.invoice].submittedAt = (r.submitted \/ r.submittedAt)
              /\ \A i \in Invoices : invoice'[i].stamp = invoice[i].stamp
              /\ \A i \in Invoices \ {r.invoice} : invoice'[i] = invoice[i]
<1> DEFINE r == handling[w]
           date == r.submitted \/ r.submittedAt
<1>1. r.invoice \in Invoices
    BY RequestFields DEF SubmitRecord, Recording
<1>2. invoice' = [invoice EXCEPT ![r.invoice] =
          [invoice[r.invoice] EXCEPT !.status = SubmissionStatus(r.submitted),
                                     !.submittedAt = date]]
    BY <1>1 DEF SubmitRecord, SubmittedAt, FilingTypeOK
<1> HIDE DEF date
<1>3. /\ invoice'[r.invoice].status = SubmissionStatus(r.submitted)
      /\ invoice'[r.invoice].submittedAt = date
      /\ invoice'[r.invoice].stamp = invoice[r.invoice].stamp
      /\ \A i \in Invoices : i # r.invoice => invoice'[i] = invoice[i]
    BY <1>1, <1>2 DEF FilingTypeOK, Invoice
<1> QED BY <1>1, <1>3 DEF date

\* A step of w that leaves the credentials and the stamps alone.
LEMMA PairKept ==
    ASSUME FilingTypeOK, PairInv, NEW w \in Filers, NEW r, FilingGoto(w, r),
           UNCHANGED <<org, overlapped>>,
           \A i \in Invoices : invoice'[i].stamp = invoice[i].stamp,
           r = Missing \/ (r \notin Onboarding /\ r.op \notin {"production", "issue"})
    PROVE  PairInv'
BY OneMoves DEF PairInv, OthersStay, At, IsOnboarding

LEMMA PairStep ==
    ASSUME FilingTypeOK, PairInv, ~overlapped', [FilingNext]_filingVars
    PROVE  PairInv'
<1>1. FilingTypeOK' /\ ~overlapped
    <2>1. overlapped => overlapped'
        BY DEF FilingNext, filingVars, StartCompliance, StartProduction, StartRenewal, StartOnboarding,
               StoreCompliance, StoreProduction, StoreRenewal, Revoke, IssueRead,
               IssueCommit, SubmitRead, SubmitCall, SubmitRecord, FilingDies
    <2> QED BY <2>1, TypesStep
<1>2. CASE UNCHANGED filingVars
    BY <1>2 DEF filingVars, PairInv, IsOnboarding, At
<1>3. ASSUME NEW w \in Filers, NEW op, NEW k, StartOnboarding(w, op, k),
             op = "production" => k = org.key, op # "issue"
      PROVE  PairInv'
    <2> DEFINE r == [op |-> op, key |-> k]
    <2>1. \A v \in Filers : ~IsOnboarding(v)
        BY <1>3 DEF StartOnboarding, ChangesUnderWay
    <2>2. OthersStay(w) /\ handling'[w] = r /\ UNCHANGED <<org, invoice>>
        BY <1>3, OneMoves DEF StartOnboarding
    <2>3. r.op = op /\ r.key = k
        OBVIOUS
    <2> HIDE DEF r
    <2> QED BY <1>1, <1>3, <2>1, <2>2, <2>3 DEF PairInv, OthersStay, At, IsOnboarding
<1>4. ASSUME NEW w \in Filers, StoreCompliance(w) \/ StoreProduction(w) \/ StoreRenewal(w)
      PROVE  PairInv'
    <2>1. IsOnboarding(w) /\ handling[w].key \in Keys
        BY <1>4, RequestFields
           DEF StoreCompliance, StoreProduction, StoreRenewal, At, IsOnboarding, Onboarding
    <2>2. \A v \in Filers : v # w => ~IsOnboarding(v)
        BY <1>1, <2>1 DEF PairInv
    <2>3. OthersStay(w) /\ handling'[w] = Missing /\ invoice' = invoice
        BY <1>4, OneMoves DEF StoreCompliance, StoreProduction, StoreRenewal, FilingDone
    <2>4. KeysMatch(org') /\ (org'.environment = "compliance" => org'.requestId = org'.key)
        <3>1. CASE StoreCompliance(w)
            BY <3>1 DEF StoreCompliance, KeysMatch
        <3>2. CASE StoreProduction(w)
            BY <1>1, <3>2 DEF StoreProduction, KeysMatch, PairInv, FilingTypeOK, Organization
        <3>3. CASE StoreRenewal(w)
            BY <3>3 DEF StoreRenewal, RenewedKey, KeysMatch, FilingTypeOK, Organization
        <3> QED BY <1>4, <3>1, <3>2, <3>3
    <2>5. \A v \in Filers : ~At(v, "production")'
        <3>1. ASSUME NEW v \in Filers, v # w, At(v, "production") PROVE FALSE
            BY <2>2, <3>1, RequestFields DEF At, IsOnboarding
        <3> QED BY <2>3, <3>1 DEF OthersStay, At
    <2> QED BY <1>1, <2>2, <2>3, <2>4, <2>5 DEF PairInv, OthersStay, At, IsOnboarding
<1>5. ASSUME NEW w \in Filers, Revoke(w)
      PROVE  PairInv'
    <2>1. \A v \in Filers : ~IsOnboarding(v)
        BY <1>5 DEF Revoke, ChangesUnderWay
    <2>2. \A v \in Filers : ~At(v, "production")
        BY <2>1, RequestFields DEF At, IsOnboarding
    <2>3. org'.csid = Missing /\ org'.environment = Missing /\ handling' = handling /\ invoice' = invoice
        BY <1>5 DEF Revoke, NotStarted
    <2>4. Missing # "compliance"
        BY FilingNone DEF Stages
    <2> QED BY <1>1, <2>1, <2>2, <2>3, <2>4 DEF PairInv, At, IsOnboarding
<1>6. ASSUME NEW w \in Filers, NEW i \in Invoices, IssueRead(w, i)
      PROVE  PairInv'
    <2> DEFINE stamp == IF org.csid # Missing /\ org.key # Missing
                        THEN [csid |-> org.csid, key |-> org.key] ELSE Missing
               r == [op |-> "issue", invoice |-> i, stamp |-> stamp]
    <2>1. OthersStay(w) /\ handling'[w] = r /\ UNCHANGED <<org, invoice>>
        BY <1>6, OneMoves DEF IssueRead
    <2>2. stamp # Missing => KeysMatch(stamp)
        BY <1>1 DEF PairInv, KeysMatch
    <2>3. r.op = "issue" /\ r.stamp = stamp /\ r \notin Onboarding
        BY DEF Onboarding
    <2> HIDE DEF r, stamp
    <2> QED BY <1>1, <2>1, <2>2, <2>3 DEF PairInv, OthersStay, At, IsOnboarding
<1>7. ASSUME NEW w \in Filers, IssueCommit(w)
      PROVE  PairInv'
    <2> DEFINE r == handling[w]
    <2>1. r \in Issuing /\ At(w, "issue")
        BY <1>7, RequestFields DEF IssueCommit
    <2>2. OthersStay(w) /\ handling'[w] = Missing /\ org' = org
        BY <1>7, OneMoves DEF IssueCommit, FilingDone
    <2>3. \A i \in Invoices : invoice'[i].stamp = invoice[i].stamp
                             \/ invoice'[i].stamp = r.stamp
        BY <1>7, <2>1 DEF IssueCommit, Issuing, FilingTypeOK, Invoice
    <2>4. r.stamp # Missing => KeysMatch(r.stamp)
        BY <1>1, <2>1 DEF PairInv
    <2> HIDE DEF r
    <2> QED BY <1>1, <2>2, <2>3, <2>4 DEF PairInv, OthersStay, At, IsOnboarding
<1>8. ASSUME NEW w \in Filers,
             \/ \E i \in Invoices : SubmitRead(w, i)
             \/ \E accepted \in BOOLEAN, answer \in Answers : SubmitCall(w, accepted, answer)
      PROVE  PairInv'
    <2>1. UNCHANGED <<org, invoice, overlapped>>
        BY <1>8 DEF SubmitRead, SubmitCall
    <2>2. ASSUME NEW r, FilingGoto(w, r), r.op \in {"submit", "record"}
          PROVE  PairInv'
        <3>1. r \notin Onboarding
            BY <2>2 DEF Onboarding
        <3> QED BY <2>1, <2>2, <3>1, PairKept
    <2>3. ASSUME NEW i \in Invoices, SubmitRead(w, i)
          PROVE  PairInv'
        <3>1. FilingGoto(w, [op |-> "submit", invoice |-> i, csid |-> org.csid,
                       submittedAt |-> invoice[i].submittedAt])
            BY <2>3 DEF SubmitRead
        <3> QED BY <2>2, <3>1
    <2>4. ASSUME NEW accepted \in BOOLEAN, NEW answer \in Answers,
                 SubmitCall(w, accepted, answer)
          PROVE  PairInv'
        <3> DEFINE good == ReadsAsAccepted(accepted, answer)
        <3>1. FilingGoto(w, [op |-> "record", invoice |-> handling[w].invoice, submitted |-> good,
                       submittedAt |-> handling[w].submittedAt])
            BY <2>4 DEF SubmitCall
        <3> HIDE DEF good
        <3> QED BY <2>2, <3>1
    <2> QED BY <1>8, <2>3, <2>4
<1>9. ASSUME NEW w \in Filers, SubmitRecord(w)
      PROVE  PairInv'
    <2>1. FilingGoto(w, Missing) /\ UNCHANGED <<org, overlapped>>
        BY <1>9 DEF SubmitRecord, FilingDone
    <2>2. \A i \in Invoices : invoice'[i].stamp = invoice[i].stamp
        BY <1>9, RecordedRow
    <2>3. PICK r : r = Missing /\ FilingGoto(w, r)
        BY <2>1
    <2> QED BY <2>1, <2>2, <2>3, PairKept
<1>10. ASSUME NEW w \in Filers, FilingDies(w)
       PROVE  PairInv'
    <2>1. FilingGoto(w, Missing) /\ UNCHANGED <<org, overlapped, invoice>>
        BY <1>10 DEF FilingDies, FilingDone
    <2>2. \A i \in Invoices : invoice'[i].stamp = invoice[i].stamp
        BY <2>1
    <2>3. PICK r : r = Missing /\ FilingGoto(w, r)
        BY <2>1
    <2> QED BY <2>1, <2>2, <2>3, PairKept
<1>11. ASSUME NEW w \in Filers, StartCompliance(w) \/ StartProduction(w) \/ StartRenewal(w)
       PROVE  PairInv'
    <2>1. StartProduction(w) => org.requestId = org.key
        BY <1>1 DEF StartProduction, PairInv
    <2> QED BY <1>3, <1>11, <2>1 DEF StartCompliance, StartProduction, StartRenewal
<1> QED BY <1>2, <1>4, <1>5, <1>6, <1>7, <1>8, <1>9, <1>10, <1>11 DEF FilingNext

\* A stamp is made with the key its certificate was issued for: the production
\* step may reuse the stored key because nothing else changed it meanwhile.
THEOREM StampsAreGood == FilingSpec => []StampsVerify
<1>1. FilingInit => PairInv
    BY FilingNone DEF FilingInit, NotStarted, PairInv, IsOnboarding, At, Stages
<1>2. FilingTypeOK /\ PairInv /\ [FilingNext]_filingVars => PairInv'
    <2> SUFFICES ASSUME FilingTypeOK, PairInv, [FilingNext]_filingVars PROVE PairInv'
        OBVIOUS
    <2>1. CASE overlapped'
        BY <2>1 DEF PairInv
    <2> QED BY <2>1, PairStep
<1>3. PairInv => StampsVerify
    BY DEF PairInv, StampsVerify, KeysMatch
<1> QED BY <1>1, <1>2, <1>3, FilingTypes, PTL DEF FilingSpec

-----------------------------------------------------------------------------
(* Filing.                                                                 *)

\* What a submission carries from the invoice or from the authority is true of
\* the authority, unless a refusal could not be read.
FiledInv ==
    /\ RecordedIsFiled
    /\ \A w \in Filers :
          (At(w, "submit") \/ At(w, "record")) /\ handling[w].submittedAt
              => handling[w].invoice \in filed \cup misread
    /\ \A w \in Filers :
          At(w, "record") /\ handling[w].submitted
              => handling[w].invoice \in filed \cup misread

\* An invoice that was never submitted twice at a time has one submission under
\* way, which knows its date; and if no answer was lost, what was accepted is in
\* the row or about to be written to it.
RememberInv ==
    \A i \in Invoices \ raced :
        /\ \A v, w \in Filers : Submits(v, i) /\ Submits(w, i) => v = w
        /\ \A w \in Filers :
              Submits(w, i) => (handling[w].submittedAt <=> invoice[i].submittedAt)
        /\ i \in filed \ lost =>
              \/ invoice[i].submittedAt
              \/ \E w \in Filers :
                    At(w, "record") /\ handling[w].invoice = i /\ handling[w].submitted

\* The request that SubmitCall leaves behind.
LEMMA CalledRequest ==
    ASSUME FilingTypeOK, NEW w \in Filers, NEW accepted \in BOOLEAN, NEW answer \in Answers,
           SubmitCall(w, accepted, answer)
    PROVE  LET r == handling[w]
           IN /\ r.invoice \in Invoices
              /\ OthersStay(w)
              /\ At(w, "record")'
              /\ handling'[w].invoice = r.invoice
              /\ handling'[w].submitted <=> ReadsAsAccepted(accepted, answer)
              /\ handling'[w].submittedAt <=> r.submittedAt
<1> DEFINE r == handling[w]
           good == ReadsAsAccepted(accepted, answer)
           next == [op |-> "record", invoice |-> r.invoice, submitted |-> good,
                    submittedAt |-> r.submittedAt]
<1>1. r \in Submitting /\ r.invoice \in Invoices
    BY RequestFields DEF SubmitCall, Submitting
<1>2. FilingGoto(w, next)
    BY DEF SubmitCall
<1>3. next.op = "record" /\ next.invoice = r.invoice
    OBVIOUS
<1>4. next.submitted = good /\ next.submittedAt = r.submittedAt
    OBVIOUS
<1>5. good \in BOOLEAN
    BY DEF ReadsAsAccepted
<1> HIDE DEF good
<1>6. next \in FilingRequest
    BY <1>1, <1>5 DEF FilingRequest, Recording, Submitting
<1> HIDE DEF next
<1>7. OthersStay(w) /\ handling'[w] = next /\ next # Missing
    BY <1>2, <1>6, OneMoves, FilingNone
<1> QED BY <1>1, <1>3, <1>4, <1>7 DEF good, At

\* The request that SubmitRead starts.
LEMMA ReadRequest ==
    ASSUME FilingTypeOK, NEW w \in Filers, NEW i \in Invoices, SubmitRead(w, i)
    PROVE  /\ OthersStay(w) /\ handling[w] = Missing
           /\ At(w, "submit")' /\ handling'[w].invoice = i
           /\ handling'[w].submittedAt = invoice[i].submittedAt
<1> DEFINE next == [op |-> "submit", invoice |-> i, csid |-> org.csid,
                    submittedAt |-> invoice[i].submittedAt]
<1>1. FilingGoto(w, next) /\ handling[w] = Missing
    BY DEF SubmitRead
<1>2. /\ next.op = "submit" /\ next.invoice = i
      /\ next.submittedAt = invoice[i].submittedAt
    OBVIOUS
<1>3. org.csid \in Certificate /\ invoice[i].submittedAt \in BOOLEAN
    BY DEF SubmitRead, Onboarded, FilingTypeOK, Organization, Invoice
<1>4. next \in FilingRequest
    BY <1>3 DEF FilingRequest, Submitting
<1> HIDE DEF next
<1>5. OthersStay(w) /\ handling'[w] = next /\ next # Missing
    BY <1>1, <1>4, OneMoves, FilingNone
<1> QED BY <1>1, <1>2, <1>5 DEF At

\* A step that neither submits nor records, seen from the submissions.
Aside ==
    /\ UNCHANGED <<filed, lost, raced, misread>>
    /\ \A i \in Invoices : /\ invoice'[i].status = invoice[i].status
                           /\ invoice'[i].submittedAt = invoice[i].submittedAt
    /\ \A w \in Filers : \/ handling'[w] = handling[w]
                          \/ /\ ~At(w, "submit") /\ ~At(w, "record")
                             /\ ~At(w, "submit")' /\ ~At(w, "record")'

LEMMA SubmissionSteps ==
    ASSUME FilingTypeOK, [FilingNext]_filingVars
    PROVE  \/ Aside
           \/ \E w \in Filers :
                 \/ \E i \in Invoices : SubmitRead(w, i)
                 \/ \E accepted \in BOOLEAN, answer \in Answers : SubmitCall(w, accepted, answer)
                 \/ SubmitRecord(w)
                 \/ FilingDies(w)
<1>1. ASSUME NEW w \in Filers, NEW r, FilingGoto(w, r), UNCHANGED <<filed, lost, raced, misread, invoice>>,
             ~At(w, "submit"), ~At(w, "record"),
             r = Missing \/ (r.op # "submit" /\ r.op # "record")
      PROVE  Aside
    BY <1>1, OneMoves DEF Aside, OthersStay, At
<1>2. ASSUME NEW w \in Filers, StartCompliance(w) \/ StartProduction(w) \/ StartRenewal(w)
      PROVE  Aside
    <2>1. PICK op, k : op \notin {"submit", "record"} /\ StartOnboarding(w, op, k)
        BY <1>2 DEF StartCompliance, StartProduction, StartRenewal
    <2>2. [op |-> op, key |-> k].op = op
        OBVIOUS
    <2> QED BY <1>1, <2>1, <2>2 DEF StartOnboarding, At
<1>3. ASSUME NEW w \in Filers, StoreCompliance(w) \/ StoreProduction(w) \/ StoreRenewal(w)
      PROVE  Aside
    <2>1. /\ FilingGoto(w, Missing) /\ UNCHANGED <<filed, lost, raced, misread, invoice>>
          /\ ~At(w, "submit") /\ ~At(w, "record")
        BY <1>3 DEF StoreCompliance, StoreProduction, StoreRenewal, FilingDone, At
    <2> QED BY <1>1, <2>1
<1>4. ASSUME NEW w \in Filers, Revoke(w)
      PROVE  Aside
    BY <1>4 DEF Revoke, Aside
<1>5. ASSUME NEW w \in Filers, NEW i \in Invoices, IssueRead(w, i)
      PROVE  Aside
    <2> DEFINE r == [op |-> "issue", invoice |-> i,
                     stamp |-> IF org.csid # Missing /\ org.key # Missing
                               THEN [csid |-> org.csid, key |-> org.key] ELSE Missing]
    <2>1. /\ FilingGoto(w, r) /\ UNCHANGED <<filed, lost, raced, misread, invoice>>
          /\ ~At(w, "submit") /\ ~At(w, "record")
        BY <1>5 DEF IssueRead, At
    <2>2. r.op = "issue"
        OBVIOUS
    <2> HIDE DEF r
    <2> QED BY <1>1, <2>1, <2>2
<1>6. ASSUME NEW w \in Filers, IssueCommit(w)
      PROVE  Aside
    <2>1. handling[w].invoice \in Invoices
        BY <1>6, RequestFields DEF IssueCommit, Issuing
    <2>2. \A i \in Invoices : /\ invoice'[i].status = invoice[i].status
                             /\ invoice'[i].submittedAt = invoice[i].submittedAt
        BY <1>6, <2>1 DEF IssueCommit, FilingTypeOK, Invoice
    <2>3. UNCHANGED <<filed, lost, raced, misread>> /\ FilingGoto(w, Missing)
        BY <1>6 DEF IssueCommit, FilingDone
    <2>4. ~At(w, "submit") /\ ~At(w, "record") /\ handling'[w] = Missing /\ OthersStay(w)
        BY <1>6, <2>3, OneMoves DEF IssueCommit, At
    <2> QED BY <2>2, <2>3, <2>4 DEF Aside, OthersStay, At
<1>7. CASE UNCHANGED filingVars
    BY <1>7 DEF filingVars, Aside
<1> QED BY <1>2, <1>3, <1>4, <1>5, <1>6, <1>7 DEF FilingNext

\* A worker that submits or records is at one of these two steps, on an invoice.
LEMMA AtOneStep ==
    ASSUME FilingTypeOK, NEW w \in Filers
    PROVE  /\ ~(At(w, "submit") /\ At(w, "record"))
           /\ At(w, "submit") \/ At(w, "record") => handling[w].invoice \in Invoices
<1>1. ~(At(w, "submit") /\ At(w, "record"))
    BY DEF At
<1>2. At(w, "submit") \/ At(w, "record") => handling[w].invoice \in Invoices
    BY RequestFields DEF Submitting, Recording
<1> QED BY <1>1, <1>2

LEMMA FiledStep ==
    ASSUME FilingTypeOK, FiledInv, [FilingNext]_filingVars
    PROVE  FiledInv'
<1>1. CASE Aside
    BY <1>1 DEF Aside, FiledInv, RecordedIsFiled, At
<1>2. ASSUME NEW w \in Filers, NEW i \in Invoices, SubmitRead(w, i)
      PROVE  FiledInv'
    <2>1. UNCHANGED <<invoice, filed, misread>>
        BY <1>2 DEF SubmitRead
    <2>2. /\ OthersStay(w) /\ ~At(w, "record")' /\ handling'[w].invoice = i
          /\ handling'[w].submittedAt = invoice[i].submittedAt
        BY <1>2, ReadRequest DEF At
    <2> QED BY <2>1, <2>2 DEF FiledInv, RecordedIsFiled, OthersStay, At
<1>3. ASSUME NEW w \in Filers, NEW accepted \in BOOLEAN, NEW answer \in Answers,
             SubmitCall(w, accepted, answer)
      PROVE  FiledInv'
    <2>1. /\ invoice' = invoice /\ filed \subseteq filed'
          /\ misread \subseteq misread'
          /\ ReadsAsAccepted(accepted, answer) => handling[w].invoice \in filed' \cup misread'
          /\ At(w, "submit")
        BY <1>3 DEF SubmitCall, ReadsAsAccepted
    <2>2. /\ OthersStay(w)
          /\ handling'[w].invoice = handling[w].invoice
          /\ handling'[w].submitted <=> ReadsAsAccepted(accepted, answer)
          /\ handling'[w].submittedAt <=> handling[w].submittedAt
        BY <1>3, CalledRequest
    <2> QED BY <2>1, <2>2 DEF FiledInv, RecordedIsFiled, OthersStay, At
<1>4. ASSUME NEW w \in Filers, SubmitRecord(w)
      PROVE  FiledInv'
    <2> DEFINE r == handling[w]
    <2>1. At(w, "record") /\ UNCHANGED <<filed, misread>> /\ FilingGoto(w, Missing)
        BY <1>4 DEF SubmitRecord, FilingDone
    <2>2. OthersStay(w) /\ handling'[w] = Missing
        BY <2>1, OneMoves
    <2>3. /\ r.invoice \in Invoices
          /\ invoice'[r.invoice].status = SubmissionStatus(r.submitted)
          /\ invoice'[r.invoice].submittedAt = (r.submitted \/ r.submittedAt)
          /\ \A i \in Invoices \ {r.invoice} : invoice'[i] = invoice[i]
        BY <1>4, RecordedRow
    <2>4. r.submitted \/ r.submittedAt => r.invoice \in filed \cup misread
        BY <2>1 DEF FiledInv
    <2>5. SubmissionStatus(r.submitted) = "filed" => r.submitted
        BY DEF SubmissionStatus
    <2>6. RecordedIsFiled'
        <3>1. ASSUME NEW i \in Invoices, i # r.invoice,
                     invoice'[i].status = "filed" \/ invoice'[i].submittedAt
              PROVE  i \in filed \cup misread
            BY <2>3, <3>1 DEF FiledInv, RecordedIsFiled
        <3>2. invoice'[r.invoice].status = "filed" \/ invoice'[r.invoice].submittedAt
                => r.invoice \in filed \cup misread
            BY <2>3, <2>4, <2>5
        <3> QED BY <2>1, <3>1, <3>2 DEF RecordedIsFiled
    <2> QED BY <2>1, <2>2, <2>6 DEF FiledInv, OthersStay, At
<1>5. ASSUME NEW w \in Filers, FilingDies(w)
      PROVE  FiledInv'
    <2>1. OthersStay(w) /\ handling'[w] = Missing /\ UNCHANGED <<invoice, filed, misread>>
        BY <1>5, OneMoves DEF FilingDies, FilingDone
    <2> QED BY <2>1 DEF FiledInv, RecordedIsFiled, OthersStay, At
<1> QED BY <1>1, <1>2, <1>3, <1>4, <1>5, SubmissionSteps

\* The row never says filed, nor has a date, for an invoice that the authority
\* did not accept, but by a refusal that could not be read: neither a lost answer
\* nor the date read before the call can bring that about.
THEOREM RecordsAreTrue == FilingSpec => []RecordedIsFiled
<1>1. FilingInit => FiledInv
    BY DEF FilingInit, FiledInv, RecordedIsFiled, At
<1>2. FilingTypeOK /\ FiledInv /\ [FilingNext]_filingVars => FiledInv'
    BY FiledStep
<1>3. FiledInv => RecordedIsFiled
    BY DEF FiledInv
<1> QED BY <1>1, <1>2, <1>3, FilingTypes, PTL DEF FilingSpec

LEMMA RememberStep ==
    ASSUME FilingTypeOK, RememberInv, [FilingNext]_filingVars
    PROVE  RememberInv'
<1>1. CASE Aside
    BY <1>1 DEF Aside, RememberInv, Submits, At
<1>2. ASSUME NEW w \in Filers, NEW i \in Invoices, SubmitRead(w, i)
      PROVE  RememberInv'
    <2>1. UNCHANGED <<invoice, filed, lost>> /\ raced \subseteq raced'
        BY <1>2 DEF SubmitRead
    <2>2. (\E v \in Filers : Submits(v, i)) => i \in raced'
        BY <1>2 DEF SubmitRead
    <2>3. /\ OthersStay(w) /\ handling[w] = Missing
          /\ At(w, "submit")' /\ handling'[w].invoice = i
          /\ handling'[w].submittedAt = invoice[i].submittedAt
        BY <1>2, ReadRequest
    <2>4. \A v \in Filers, j \in Invoices :
              Submits(v, j)' <=> Submits(v, j) \/ (v = w /\ j = i)
        BY <2>3 DEF OthersStay, Submits, At
    <2>5. \A v \in Filers : At(v, "record") => v # w
        BY <2>3 DEF At
    <2> QED BY <2>1, <2>2, <2>3, <2>4, <2>5 DEF RememberInv, OthersStay, Submits, At
<1>3. ASSUME NEW w \in Filers, NEW accepted \in BOOLEAN, NEW answer \in Answers,
             SubmitCall(w, accepted, answer)
      PROVE  RememberInv'
    <2> DEFINE k == handling[w].invoice
    <2>1. /\ UNCHANGED <<invoice, raced>> /\ lost \subseteq lost'
          /\ accepted /\ ~ReadsAsAccepted(accepted, answer) => k \in lost'
          /\ filed' \subseteq filed \cup {k} /\ (~accepted => filed' = filed)
          /\ At(w, "submit")
        BY <1>3 DEF SubmitCall, ReadsAsAccepted, Answers
    <2>2. /\ k \in Invoices /\ OthersStay(w) /\ At(w, "record")'
          /\ handling'[w].invoice = k
          /\ handling'[w].submitted <=> ReadsAsAccepted(accepted, answer)
          /\ handling'[w].submittedAt <=> handling[w].submittedAt
        BY <1>3, CalledRequest
    <2>3. \A v \in Filers, j \in Invoices : Submits(v, j)' <=> Submits(v, j)
        BY <2>1, <2>2 DEF OthersStay, Submits, At
    <2>4. \A v \in Filers : At(v, "record") => v # w
        BY <2>1 DEF At
    <2>5. Submits(w, k)
        BY <2>1 DEF Submits
    <2> HIDE DEF k
    <2>6. ASSUME NEW i \in Invoices \ raced, i \in filed' \ lost'
          PROVE  \/ invoice[i].submittedAt
                 \/ \E v \in Filers :
                       At(v, "record")' /\ handling'[v].invoice = i /\ handling'[v].submitted
        <3>1. CASE i = k /\ accepted
            BY <2>1, <2>2, <2>6, <3>1
        <3>2. CASE ~(i = k /\ accepted)
            <4>1. i \in filed \ lost
                BY <2>1, <2>6, <3>2
            <4>2. \A v \in Filers : At(v, "record") => handling'[v] = handling[v]
                BY <2>2, <2>4 DEF OthersStay
            <4> QED BY <4>1, <4>2 DEF RememberInv, At
        <3> QED BY <3>1, <3>2
    <2>7. ASSUME NEW i \in Invoices \ raced, NEW v \in Filers, Submits(v, i)
          PROVE  handling'[v].submittedAt <=> invoice[i].submittedAt
        BY <2>2, <2>7 DEF RememberInv, OthersStay
    <2> QED BY <2>1, <2>3, <2>6, <2>7 DEF RememberInv
<1>4. ASSUME NEW w \in Filers, SubmitRecord(w)
      PROVE  RememberInv'
    <2> DEFINE r == handling[w]
    <2>0. PICK k : k = handling[w].invoice
        OBVIOUS
    <2>1. At(w, "record") /\ UNCHANGED <<filed, lost, raced, misread>> /\ FilingGoto(w, Missing)
        BY <1>4 DEF SubmitRecord, FilingDone
    <2>2. OthersStay(w) /\ handling'[w] = Missing
        BY <2>1, OneMoves
    <2>3. /\ k \in Invoices
          /\ invoice'[k].submittedAt = (r.submitted \/ r.submittedAt)
          /\ \A i \in Invoices \ {k} : invoice'[i] = invoice[i]
        BY <1>4, <2>0, RecordedRow
    <2>4. Submits(w, k)
        BY <2>0, <2>1 DEF Submits
    <2>5. \A v \in Filers, j \in Invoices : Submits(v, j)' <=> Submits(v, j) /\ v # w
        BY <2>2 DEF OthersStay, Submits, At
    <2>6. \A j \in Invoices : Submits(w, j) => j = k
        BY <2>0 DEF Submits
    <2>7. ASSUME NEW i \in Invoices \ raced, i # k
          PROVE  /\ \A v \in Filers :
                       Submits(v, i)' => (handling'[v].submittedAt <=> invoice'[i].submittedAt)
                 /\ i \in filed \ lost =>
                       \/ invoice'[i].submittedAt
                       \/ \E v \in Filers : At(v, "record")' /\ handling'[v].invoice = i
                                                /\ handling'[v].submitted
        BY <2>0, <2>2, <2>3, <2>5, <2>7 DEF RememberInv, OthersStay, At
    <2>8. ASSUME k \notin raced
          PROVE  /\ \A v \in Filers : ~Submits(v, k)'
                 /\ k \in filed \ lost => invoice'[k].submittedAt
        <3>1. \A v \in Filers : Submits(v, k) => v = w
            BY <2>3, <2>4, <2>8 DEF RememberInv
        <3>2. r.submittedAt <=> invoice[k].submittedAt
            BY <2>3, <2>4, <2>8 DEF RememberInv
        <3>3. k \in filed \ lost => r.submitted \/ invoice[k].submittedAt
            BY <2>3, <2>8, <3>1 DEF RememberInv, Submits
        <3>4. k \in filed \ lost => invoice'[k].submittedAt
            BY <2>3, <3>2, <3>3
        <3>5. \A v \in Filers : ~Submits(v, k)'
            BY <2>3, <2>5, <3>1
        <3> QED BY <3>4, <3>5
    <2>9. ASSUME NEW i \in Invoices \ raced, NEW v \in Filers, NEW u \in Filers,
                 Submits(v, i)', Submits(u, i)'
          PROVE  v = u
        BY <2>5, <2>9 DEF RememberInv
    <2> HIDE DEF r
    <2>10. \A i \in Invoices \ raced, v \in Filers :
              Submits(v, i)' => (handling'[v].submittedAt <=> invoice'[i].submittedAt)
        BY <2>7, <2>8
    <2>11. \A i \in Invoices \ raced : i \in filed \ lost =>
              \/ invoice'[i].submittedAt
              \/ \E v \in Filers :
                    At(v, "record")' /\ handling'[v].invoice = i /\ handling'[v].submitted
        BY <2>7, <2>8
    <2> QED BY <2>1, <2>9, <2>10, <2>11 DEF RememberInv
<1>5. ASSUME NEW w \in Filers, FilingDies(w)
      PROVE  RememberInv'
    <2>1. OthersStay(w) /\ handling'[w] = Missing /\ UNCHANGED <<invoice, filed, raced>>
        BY <1>5, OneMoves DEF FilingDies, FilingDone
    <2>2. lost \subseteq lost' /\ (At(w, "record") => handling[w].invoice \in lost')
        BY <1>5 DEF FilingDies
    <2>3. \A v \in Filers, j \in Invoices : Submits(v, j)' <=> Submits(v, j) /\ v # w
        BY <2>1 DEF OthersStay, Submits, At
    <2> QED BY <2>1, <2>2, <2>3 DEF RememberInv, OthersStay, At
<1> QED BY <1>1, <1>2, <1>3, <1>4, <1>5, SubmissionSteps

\* An accepted invoice keeps its date: whatever a later attempt is answered, the
\* update writes the date it read, unless two attempts on the invoice overlapped
\* or an answer was lost.
THEOREM DatesAreKept == FilingSpec => []FilingIsRemembered
<1>1. FilingInit => RememberInv
    BY DEF FilingInit, RememberInv, Submits, At
<1>2. FilingTypeOK /\ RememberInv /\ [FilingNext]_filingVars => RememberInv'
    BY RememberStep
<1>3. FilingTypeOK /\ RememberInv => FilingIsRemembered
    BY DEF FilingTypeOK, RememberInv, FilingIsRemembered, Submits
<1> QED BY <1>1, <1>2, <1>3, FilingTypes, PTL DEF FilingSpec

\* The books agree with the authority in both directions.
THEOREM RecordsAgree == FilingSpec => []FilingRecordsTrue
<1>1. RecordedIsFiled /\ FilingIsRemembered => FilingRecordsTrue
    BY DEF FilingRecordsTrue
<1> QED BY <1>1, RecordsAreTrue, DatesAreKept, PTL
===============================================================================
