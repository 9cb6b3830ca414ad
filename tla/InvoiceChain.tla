----------------------------- MODULE InvoiceChain -----------------------------
(***************************************************************************)
(* The tax invoices of one tenant: InvoicesService.createForOrder,         *)
(* ZatcaService.issue and verifyChain, and the worker that sends the       *)
(* invoice of a delivered order.                                           *)
(*                                                                         *)
(* issue runs under an advisory lock from the allocation of its chain slot *)
(* to the commit, so that transaction is one action; what it checked       *)
(* before ("already issued") may be outdated by then.  The XML archive is  *)
(* another system: each call is a step, and a request may die between any  *)
(* two.                                                                    *)
(*                                                                         *)
(* A document is known by its hash: it carries a random UUID, so two       *)
(* documents never have the same one.                                      *)
(***************************************************************************)
EXTENDS Integers, Sequences, FiniteSets

CONSTANTS
    Orders,      \* orders of the tenant; an order has at most one invoice
    Workers,     \* requests and queue jobs at work at the same time
    Hashes,      \* hashes of documents
    Genesis,     \* GENESIS_PIH
    None         \* null

ASSUME ChainAssumption == Genesis \notin Hashes /\ None \notin Hashes

VARIABLES
    counter,     \* document_counters, kind "invoice"
    row,         \* the invoice of each order, or None
    stored,      \* hash of the XML in object storage under the invoice's number
    request,     \* per worker: the request or job in flight
    plain,       \* orders whose customer was sent an invoice without QR
    log,         \* history: the documents issued, in the order of their commits
    failed       \* history: orders whose issuing request died or was rolled back

vars == <<counter, row, stored, request, plain, log, failed>>

Invoice ==
    [number : Nat, icv : Nat, hash : Hashes \cup {None},
     previous : Hashes \cup {Genesis, None}, archived : BOOLEAN]

\* createForOrder and issue; "mail" when the worker runs it to send the PDF.
Issuing ==
    [op : {"insert", "issue", "allocate", "send"}, order : Orders, mail : BOOLEAN]

Archiving ==
    [op : {"put", "url"}, order : Orders, mail : BOOLEAN, hash : Hashes]

Request == Issuing \cup Archiving

ASSUME NoneAssumption == None \notin Invoice /\ None \notin Request

FL == INSTANCE FiscalLog WITH Invoices <- Orders

TypeOK ==
    /\ counter \in Nat
    /\ row \in [Orders -> Invoice \cup {None}]
    /\ stored \in [Orders -> Hashes \cup {None}]
    /\ request \in [Workers -> Request \cup {None}]
    /\ plain \subseteq Orders
    /\ log \in Seq(FL!Document)
    /\ failed \subseteq Orders

Init ==
    /\ counter = 0
    /\ row = [o \in Orders |-> None]
    /\ stored = [o \in Orders |-> None]
    /\ request = [w \in Workers |-> None]
    /\ plain = {}
    /\ log = <<>>
    /\ failed = {}

Goto(w, r) == request' = [request EXCEPT ![w] = r]
Done(w) == Goto(w, None)

At(w, op) == request[w] # None /\ request[w].op = op

IsIssued(o) == row[o] # None /\ row[o].hash # None
Issued == {o \in Orders : IsIssued(o)}

\* w is on its way to issue the invoice of o.
Issues(w, o) ==
    (At(w, "issue") \/ At(w, "allocate")) /\ request[w].order = o

-----------------------------------------------------------------------------
(* createForOrder: find, else insert.                                      *)

\* Checkout asks for the invoice, or the worker for one to send.  An invoice
\* that is found is taken as it is, issued or not.
CreateRead(w, o, mail) ==
    /\ request[w] = None
    /\ row[o] = None \/ mail
    /\ Goto(w, [op |-> IF row[o] = None THEN "insert" ELSE "send",
                order |-> o, mail |-> mail])
    /\ UNCHANGED <<counter, row, stored, plain, log, failed>>

\* Fault: the worker's path sends what it created and never issues it.
SendAfterInsert(mail) == IF mail THEN "send" ELSE "issue"

\* Whoever created the row issues it next.
AfterInsert(mail) == "issue"

\* The counter's row lock is held to the commit, so number and row go together.
CreateInsert(w) ==
    /\ At(w, "insert")
    /\ LET r == request[w]
       IN /\ row[r.order] = None
          /\ row' = [row EXCEPT ![r.order] =
                [number |-> counter + 1, icv |-> 0, hash |-> None, previous |-> None,
                 archived |-> FALSE]]
          /\ counter' = counter + 1
          /\ Goto(w, [r EXCEPT !.op = AfterInsert(r.mail)])
    /\ UNCHANGED <<stored, plain, log, failed>>

CounterAfterConflict == counter

\* Another request inserted the order's invoice meanwhile: the unique index on
\* the order rolls this one back, number and all.
CreateConflict(w) ==
    /\ At(w, "insert")
    /\ row[request[w].order] # None
    /\ counter' = CounterAfterConflict
    /\ Done(w)
    /\ UNCHANGED <<row, stored, plain, log, failed>>

-----------------------------------------------------------------------------
(* issue.                                                                  *)

\* The row is read, and left alone when it is issued already.  The endpoint
\* POST zatca/invoices/:id/issue starts here, createForOrder continues here.
IssueRead(w, o) ==
    /\ row[o] # None
    /\ \/ request[w] = None
       \/ At(w, "issue") /\ request[w].order = o
    /\ LET mail == request[w] # None /\ request[w].mail
       IN \/ /\ ~IsIssued(o)
             /\ Goto(w, [op |-> "allocate", order |-> o, mail |-> mail])
          \/ /\ IsIssued(o)
             /\ request[w] # None
             /\ IF mail THEN Goto(w, [op |-> "send", order |-> o, mail |-> mail])
                        ELSE Done(w)
    /\ UNCHANGED <<counter, row, stored, plain, log, failed>>

\* Fault: ORDER BY icv ASC.
OldestIssued == CHOOSE o \in Issued : \A p \in Issued : row[o].icv <= row[p].icv

\* allocateChainSlot: the row with the largest counter value.
LastIssued == CHOOSE o \in Issued : \A p \in Issued : row[p].icv <= row[o].icv

NextIcv == IF Issued = {} THEN 1 ELSE row[LastIssued].icv + 1

PreviousHash == IF Issued = {} THEN Genesis ELSE row[LastIssued].hash

\* hashInvoiceXml of a document that did not exist before.
NewHash == CHOOSE h \in Hashes : h \notin FL!Used

\* Chain slot, document and row under the advisory lock.  That the invoice was
\* not issued is what the request read before it had the lock.
Allocate(w) ==
    /\ At(w, "allocate")
    /\ Hashes \ FL!Used # {}
    /\ LET o == request[w].order
           h == NewHash
       IN /\ row' = [row EXCEPT ![o].icv = NextIcv,
                                ![o].hash = h,
                                ![o].previous = PreviousHash]
          /\ log' = Append(log, [invoice |-> o, icv |-> NextIcv, hash |-> h,
                                 previous |-> PreviousHash])
          /\ Goto(w, [op |-> "put", order |-> o, mail |-> request[w].mail,
                      hash |-> h])
    /\ UNCHANGED <<counter, stored, plain, failed>>

\* The transaction fails (it waited too long for the lock, or the key is bad).
AllocateFails(w) ==
    /\ At(w, "allocate")
    /\ failed' = failed \cup {request[w].order}
    /\ Done(w)
    /\ UNCHANGED <<counter, row, stored, plain, log>>

\* What a request does when issue has returned.
AfterIssue(w) ==
    LET r == request[w]
    IN IF r.mail THEN Goto(w, [op |-> "send", order |-> r.order, mail |-> TRUE])
                 ELSE Done(w)

PutXml(w) ==
    /\ At(w, "put")
    /\ stored' = [stored EXCEPT ![request[w].order] = request[w].hash]
    /\ Goto(w, [request[w] EXCEPT !.op = "url"])
    /\ UNCHANGED <<counter, row, plain, log, failed>>

\* Storage is switched off or fails: the error is logged, the request goes on.
ArchiveFails(w) ==
    /\ At(w, "put") \/ At(w, "url")
    /\ AfterIssue(w)
    /\ UNCHANGED <<counter, row, stored, plain, log, failed>>

SetXmlUrl(w) ==
    /\ At(w, "url")
    /\ row' = [row EXCEPT ![request[w].order].archived = TRUE]
    /\ AfterIssue(w)
    /\ UNCHANGED <<counter, stored, plain, log, failed>>

\* NotificationWorker.processInvoice renders the row as it is by now.
SendPdf(w) ==
    /\ At(w, "send")
    /\ plain' = IF IsIssued(request[w].order) THEN plain
                ELSE plain \cup {request[w].order}
    /\ Done(w)
    /\ UNCHANGED <<counter, row, stored, log, failed>>

\* The process stops, or the database or the storage is lost, between steps.
RequestDies(w) ==
    /\ request[w] # None
    /\ failed' = IF Issues(w, request[w].order) THEN failed \cup {request[w].order}
                                               ELSE failed
    /\ Done(w)
    /\ UNCHANGED <<counter, row, stored, plain, log>>

-----------------------------------------------------------------------------

\* The steps a request takes by itself once it is under way.
Proceed(w) ==
    \/ CreateInsert(w)
    \/ CreateConflict(w)
    \/ At(w, "issue") /\ \E o \in Orders : IssueRead(w, o)
    \/ Allocate(w)
    \/ PutXml(w)
    \/ ArchiveFails(w)
    \/ SetXmlUrl(w)
    \/ SendPdf(w)

Next ==
    \/ \E w \in Workers, o \in Orders, mail \in BOOLEAN : CreateRead(w, o, mail)
    \/ \E w \in Workers, o \in Orders : request[w] = None /\ IssueRead(w, o)
    \/ \E w \in Workers : Proceed(w)
    \/ \E w \in Workers : AllocateFails(w)
    \/ \E w \in Workers : RequestDies(w)

\* A handler under way runs on; the advisory lock is granted in turn.
Spec == Init /\ [][Next]_vars /\ \A w \in Workers : WF_vars(Proceed(w))

-----------------------------------------------------------------------------
(* verifyChain, over the rows as they are.                                 *)

\* The issued invoice before o by counter value: the hash o must name.
HashBefore(o) ==
    LET before == {p \in Issued : row[p].icv < row[o].icv}
    IN IF before = {} THEN Genesis
       ELSE row[CHOOSE p \in before : \A q \in before : row[q].icv <= row[p].icv].hash

\* findChainBreak finds none.
ChainIntact == \A o \in Issued : row[o].previous = HashBefore(o)

\* Fault: only the distance of two neighbours is looked at.
NoGapBetween ==
    \A o, p \in Issued : row[o].icv < row[p].icv =>
        \E q \in Issued : row[q].icv = row[o].icv + 1

\* The k-th invoice by counter value has the counter value k.
NoIcvGaps ==
    \A o \in Issued : row[o].icv = Cardinality({p \in Issued : row[p].icv <= row[o].icv})

-----------------------------------------------------------------------------
(* Properties.                                                             *)

\* D-039: a chain is inherently serial.  Whatever races, dies or is issued
\* twice, the documents that were issued form one log: counter values without
\* a hole or a repetition, each document with the hash of the one before.
IssuesInOneLog == FL!Spec

\* The invoice of o was issued twice, and its first document overwritten.
Superseded(o) ==
    \E k \in DOMAIN log : log[k].invoice = o /\ log[k].hash # row[o].hash

\* verifyChain's linkage test and its continuity test each find out whenever an
\* invoice was issued twice, and raise no alarm when none was.
ChainVerdictExact == ChainIntact <=> \A o \in Orders : ~Superseded(o)
GapVerdictExact == NoIcvGaps <=> \A o \in Orders : ~Superseded(o)

\* The XML a row points at is the document of the row, so that verifyChain's
\* third test raises no alarm unless the invoice was issued twice.
ArchiveIsTheRow ==
    \A o \in Orders : row[o] # None /\ row[o].archived /\ ~Superseded(o)
                        => stored[o] = row[o].hash

\* verifyChain's three verdicts are exact together.
AuditVerdictExact == ChainVerdictExact /\ GapVerdictExact /\ ArchiveIsTheRow

\* Invoice numbers have no hole and no repetition, in spite of rollbacks.
NumbersDense ==
    LET invoices == {o \in Orders : row[o] # None}
    IN /\ {row[o].number : o \in invoices} = 1 .. counter
       /\ Cardinality(invoices) = counter

\* A customer is sent an invoice without QR only while another request is still
\* issuing it, or after one died on it.
PlainWhileUnderWay ==
    [][\A o \in plain' \ plain : o \in failed \/ \E w \in Workers : Issues(w, o)]_vars

\* An invoice that exists is issued, unless the request that set out to died.
CreatedIsIssued ==
    \A o \in Orders : row[o] # None ~> IsIssued(o) \/ o \in failed

================================================================================
