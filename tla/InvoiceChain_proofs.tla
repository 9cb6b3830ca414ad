------------------------- MODULE InvoiceChain_proofs -------------------------
(***************************************************************************)
(* Proofs about InvoiceChain, for any number of orders and requests: the   *)
(* documents form one log, the archive holds what was issued, the numbers  *)
(* are dense and an invoice without QR has somebody working on it.         *)
(***************************************************************************)
EXTENDS InvoiceChain, FiniteSetTheorems, WellFoundedInduction, TLAPS

-----------------------------------------------------------------------------
(* The inductive invariant.                                                *)

\* A request that is past the insertion works on an invoice that exists.
WorksOnInvoice ==
    \A w \in Workers :
        request[w] # None /\ request[w].op # "insert" => row[request[w].order] # None

\* Every issued row is the last document of its invoice, at its place ...
RowsAreLogged ==
    \A o \in Issued :
        /\ row[o].icv \in DOMAIN log
        /\ log[row[o].icv].invoice = o
        /\ log[row[o].icv].hash = row[o].hash

\* ... and the last document of all is still in its row, because a row is only
\* overwritten by a document that comes later.
LastIsInItsRow ==
    log # <<>> => LET o == log[Len(log)].invoice
                  IN o \in Issued /\ row[o].icv = Len(log)

\* o was issued with hash h in the log l.
IssuedIn(l, o, h) == \E k \in DOMAIN l : l[k].invoice = o /\ l[k].hash = h

\* The archive holds nothing but documents of the invoice, a URL is only set
\* when something is stored.
ArchiveIsOfInvoice ==
    /\ \A o \in Orders : stored[o] # None => IssuedIn(log, o, stored[o])
    /\ \A o \in Orders : row[o] # None /\ row[o].archived => stored[o] # None
    /\ \A w \in Workers :
          At(w, "put") \/ At(w, "url") => IssuedIn(log, request[w].order, request[w].hash)
    /\ \A w \in Workers : At(w, "url") => stored[request[w].order] # None

\* Every invoice that is not issued is being issued, or the request was lost.
UnissuedHasWorker ==
    \A o \in Orders :
        row[o] # None /\ ~IsIssued(o) => o \in failed \/ \E w \in Workers : Issues(w, o)

Invoiced == {o \in Orders : row[o] # None}

NumbersCounted == NumbersDense /\ IsFiniteSet(Invoiced)

ChainInv ==
    /\ TypeOK
    /\ WorksOnInvoice
    /\ RowsAreLogged
    /\ LastIsInItsRow

-----------------------------------------------------------------------------

\* Reading the row with the largest counter value is reading the end of the log.
LEMMA SlotIsEndOfLog ==
    ASSUME ChainInv
    PROVE  /\ NextIcv = Len(log) + 1
           /\ PreviousHash = IF log = <<>> THEN Genesis ELSE log[Len(log)].hash
<1>1. log \in Seq(FL!Document) /\ Len(log) \in Nat
    BY DEF ChainInv, TypeOK
<1>2. CASE Issued = {}
    <2>1. log = <<>>
        BY <1>2 DEF ChainInv, LastIsInItsRow
    <2> QED BY <1>1, <1>2, <2>1 DEF NextIcv, PreviousHash
<1>3. CASE Issued # {}
    <2>1. \A o \in Issued : row[o].icv \in 1 .. Len(log)
        BY <1>1 DEF ChainInv, RowsAreLogged
    <2>2. log # <<>>
        BY <1>1, <1>3, <2>1
    <2>3. PICK last \in Issued : row[last].icv = Len(log)
        BY <2>2 DEF ChainInv, LastIsInItsRow
    <2>4. \A p \in Issued : row[p].icv <= row[last].icv
        BY <1>1, <2>1, <2>3
    <2>5. LastIssued \in Issued /\ \A p \in Issued : row[p].icv <= row[LastIssued].icv
        BY <2>3, <2>4 DEF LastIssued
    <2>6. row[LastIssued].icv = Len(log)
        BY <1>1, <2>1, <2>3, <2>5
    <2>7. log[Len(log)].hash = row[LastIssued].hash
        BY <2>5, <2>6 DEF ChainInv, RowsAreLogged
    <2> QED BY <1>3, <2>2, <2>6, <2>7 DEF NextIcv, PreviousHash
<1> QED BY <1>2, <1>3

\* The document that Allocate issues is new, and is the next of the log.
LEMMA AllocateIssues ==
    ASSUME ChainInv, NEW w \in Workers, Allocate(w)
    PROVE  /\ request[w].order \in Orders
           /\ NewHash \in Hashes \ FL!Used
           /\ NextIcv = Len(log) + 1
           /\ PreviousHash \in Hashes \cup {Genesis}
           /\ FL!Issue(request[w].order, NewHash)
           /\ log' = Append(log, [invoice |-> request[w].order, icv |-> Len(log) + 1,
                                  hash |-> NewHash, previous |-> PreviousHash])
<1>1. request[w].order \in Orders
    BY DEF Allocate, At, ChainInv, TypeOK, Request, Issuing, Archiving
<1>2. NewHash \in Hashes \ FL!Used
    BY DEF Allocate, NewHash
<1>3. /\ NextIcv = Len(log) + 1
      /\ PreviousHash = IF log = <<>> THEN Genesis ELSE log[Len(log)].hash
    BY SlotIsEndOfLog
<1>4. log \in Seq(FL!Document)
    BY DEF ChainInv, TypeOK
<1>5. PreviousHash \in Hashes \cup {Genesis}
    <2>1. CASE log = <<>>
        BY <1>3, <2>1
    <2>2. CASE log # <<>>
        <3>1. log[Len(log)] \in FL!Document
            BY <1>4, <2>2
        <3> QED BY <1>3, <2>2, <3>1 DEF FL!Document
    <2> QED BY <2>1, <2>2
<1>6. log' = Append(log, [invoice |-> request[w].order, icv |-> NextIcv,
                          hash |-> NewHash, previous |-> PreviousHash])
    BY DEF Allocate
<1> QED BY <1>1, <1>2, <1>3, <1>5, <1>6 DEF FL!Issue

-----------------------------------------------------------------------------
(* The chain.                                                              *)

LEMMA ChainInit == Init => ChainInv
BY DEF Init, ChainInv, TypeOK, WorksOnInvoice, RowsAreLogged, LastIsInItsRow, Issued, IsIssued

\* A request is at one of its steps, with what that step needs.
LEMMA RequestShape ==
    ASSUME TypeOK, NEW w \in Workers, request[w] # None
    PROVE  /\ request[w] \in Request
           /\ request[w].order \in Orders /\ request[w].mail \in BOOLEAN
           /\ At(w, "put") \/ At(w, "url") => request[w] \in Archiving
BY DEF TypeOK, Request, Issuing, Archiving, At

\* Once issue has returned a request ends or sends what it issued.
LEMMA AfterIssueShape ==
    ASSUME TypeOK, NEW w \in Workers, request[w] # None, AfterIssue(w)
    PROVE  /\ request' \in [Workers -> Request \cup {None}]
           /\ \A v \in Workers : v # w => request'[v] = request[v]
           /\ \/ request'[w] = None
              \/ /\ request'[w] # None /\ request'[w].op = "send"
                 /\ request'[w].order = request[w].order
<1> DEFINE send == [op |-> "send", order |-> request[w].order, mail |-> TRUE]
<1>1. send \in Request
    BY RequestShape DEF Request, Issuing
<1>2. request' = [request EXCEPT ![w] = send] \/ request' = [request EXCEPT ![w] = None]
    BY DEF AfterIssue, Done, Goto
<1> HIDE DEF send
<1>3. request' \in [Workers -> Request \cup {None}]
    BY <1>1, <1>2 DEF TypeOK
<1>4. \A v \in Workers : v # w => request'[v] = request[v]
    BY <1>2 DEF TypeOK
<1>5. request'[w] = None \/ request'[w] = send
    BY <1>2 DEF TypeOK
<1> QED BY <1>1, <1>3, <1>4, <1>5, NoneAssumption DEF send

LEMMA TypeStep ==
    ASSUME ChainInv, [Next]_vars
    PROVE  TypeOK' /\ WorksOnInvoice'
<1> USE DEF TypeOK, WorksOnInvoice, Goto, Done, At
<1>1. TypeOK /\ WorksOnInvoice
    BY DEF ChainInv
<1>2. CASE UNCHANGED vars
    BY <1>1, <1>2 DEF vars
<1>3. ASSUME NEW w \in Workers, NEW o \in Orders, NEW mail \in BOOLEAN,
             CreateRead(w, o, mail)
      PROVE  TypeOK' /\ WorksOnInvoice'
    BY <1>1, <1>3 DEF CreateRead, Request, Issuing
<1>4. ASSUME NEW w \in Workers, NEW o \in Orders, IssueRead(w, o)
      PROVE  TypeOK' /\ WorksOnInvoice'
    <2> DEFINE mail == request[w] # None /\ request[w].mail
               next(op) == [op |-> op, order |-> o, mail |-> mail]
    <2>1. mail \in BOOLEAN
        OBVIOUS
    <2>2. next("allocate") \in Request /\ next("send") \in Request
        BY <2>1 DEF Request, Issuing
    <2>3. \/ request' = [request EXCEPT ![w] = next("allocate")]
          \/ request' = [request EXCEPT ![w] = next("send")]
          \/ request' = [request EXCEPT ![w] = None]
        BY <1>4 DEF IssueRead
    <2>4. next("allocate").order = o /\ next("send").order = o
        OBVIOUS
    <2> HIDE DEF mail, next
    <2>5. request' \in [Workers -> Request \cup {None}]
        BY <1>1, <2>2, <2>3
    <2>6. \A v \in Workers : request'[v] = request[v] \/ request'[v] = None
                                                   \/ request'[v].order = o
        BY <1>1, <2>2, <2>3, <2>4
    <2>7. row[o] # None /\ UNCHANGED <<counter, row, stored, plain, log, failed>>
        BY <1>4 DEF IssueRead
    <2> QED BY <1>1, <2>5, <2>6, <2>7
<1>5. ASSUME NEW w \in Workers, CreateInsert(w)
      PROVE  TypeOK' /\ WorksOnInvoice'
    <2> DEFINE r == request[w]
    <2>1. r \in Request /\ r.order \in Orders /\ r.mail \in BOOLEAN /\ r # None
        BY <1>1, <1>5, RequestShape DEF CreateInsert
    <2>2. r \in Issuing
        BY <2>1, <1>5 DEF CreateInsert, Request, Issuing, Archiving
    <2>3. [number |-> counter + 1, icv |-> 0, hash |-> None, previous |-> None,
           archived |-> FALSE] \in Invoice
        BY <1>1 DEF Invoice
    <2>4. [r EXCEPT !.op = "issue"] \in Request
        BY <2>2 DEF Request, Issuing
    <2>5. TypeOK'
        BY <1>1, <1>5, <2>1, <2>3, <2>4 DEF CreateInsert, AfterInsert
    <2>6. row'[r.order] # None /\ \A o \in Orders : row'[o] = None => row[o] = None
        BY <1>1, <1>5, <2>1, <2>3, NoneAssumption DEF CreateInsert
    <2>7. /\ request'[w].order = r.order
          /\ \A v \in Workers : v # w => request'[v] = request[v]
        BY <1>1, <1>5, <2>2 DEF CreateInsert, AfterInsert, Issuing
    <2>8. \A v \in Workers : request[v] # None => request[v].order \in Orders
        BY <1>1, RequestShape
    <2>9. WorksOnInvoice'
        BY <1>1, <2>6, <2>7, <2>8
    <2> QED BY <2>5, <2>9
<1>6. ASSUME NEW w \in Workers, CreateConflict(w)
      PROVE  TypeOK' /\ WorksOnInvoice'
    BY <1>1, <1>6 DEF CreateConflict, CounterAfterConflict
<1>7. ASSUME NEW w \in Workers, Allocate(w)
      PROVE  TypeOK' /\ WorksOnInvoice'
    <2> DEFINE o == request[w].order
    <2>1. /\ o \in Orders /\ NewHash \in Hashes /\ PreviousHash \in Hashes \cup {Genesis}
          /\ NextIcv = Len(log) + 1
          /\ log' = Append(log, [invoice |-> o, icv |-> Len(log) + 1,
                                 hash |-> NewHash, previous |-> PreviousHash])
        BY <1>7, AllocateIssues
    <2>2. request[w] # None /\ request[w].mail \in BOOLEAN
        BY <1>1, <1>7, RequestShape DEF Allocate
    <2>3. row[o] \in Invoice
        BY <1>1, <1>7, <2>1 DEF Allocate
    <2>4. Len(log) + 1 \in Nat
        BY <1>1
    <2>5. [row[o] EXCEPT !.icv = NextIcv, !.hash = NewHash, !.previous = PreviousHash] \in Invoice
        BY <2>1, <2>3, <2>4 DEF Invoice
    <2>6. row' = [row EXCEPT ![o] = [row[o] EXCEPT !.icv = NextIcv, !.hash = NewHash,
                                                  !.previous = PreviousHash]]
        BY <1>1, <1>7, <2>1 DEF Allocate
    <2>7. row' \in [Orders -> Invoice \cup {None}]
        BY <1>1, <2>5, <2>6
    <2>8. log' \in Seq(FL!Document)
        BY <1>1, <2>1, <2>4 DEF FL!Document
    <2>9. [op |-> "put", order |-> o, mail |-> request[w].mail, hash |-> NewHash] \in Request
        BY <2>1, <2>2 DEF Request, Archiving
    <2>10. TypeOK'
        BY <1>1, <1>7, <2>7, <2>8, <2>9 DEF Allocate
    <2>11. \A p \in Orders : row'[p] = None => row[p] = None
        BY <1>1, <2>1, <2>5, <2>6, NoneAssumption
    <2>12. WorksOnInvoice'
        BY <1>1, <1>7, <2>1, <2>5, <2>6, <2>11, NoneAssumption, RequestShape DEF Allocate
    <2> QED BY <2>10, <2>12
<1>8. ASSUME NEW w \in Workers, PutXml(w)
      PROVE  TypeOK' /\ WorksOnInvoice'
    <2>1. request[w] \in Archiving /\ request[w].order \in Orders
        BY <1>1, <1>8, RequestShape DEF PutXml
    <2>2. request[w].hash \in Hashes /\ [request[w] EXCEPT !.op = "url"] \in Request
        BY <2>1 DEF Archiving, Request
    <2> QED BY <1>1, <1>8, <2>1, <2>2 DEF PutXml, Archiving
<1>9. ASSUME NEW w \in Workers, ArchiveFails(w)
      PROVE  TypeOK' /\ WorksOnInvoice'
    <2>1. request[w] # None /\ request[w].op # "insert" /\ AfterIssue(w)
        BY <1>9 DEF ArchiveFails
    <2> QED BY <1>1, <1>9, <2>1, AfterIssueShape DEF ArchiveFails
<1>10. ASSUME NEW w \in Workers, SetXmlUrl(w)
      PROVE  TypeOK' /\ WorksOnInvoice'
    <2> DEFINE o == request[w].order
    <2>1. request[w] \in Archiving /\ o \in Orders
        BY <1>1, <1>10, RequestShape DEF SetXmlUrl
    <2>2. row[o] \in Invoice
        BY <1>1, <1>10, <2>1 DEF SetXmlUrl
    <2>3. [row[o] EXCEPT !.archived = TRUE] \in Invoice
        BY <2>2 DEF Invoice
    <2>4. row' = [row EXCEPT ![o] = [row[o] EXCEPT !.archived = TRUE]]
        BY <1>1, <1>10, <2>1 DEF SetXmlUrl
    <2>5. row' \in [Orders -> Invoice \cup {None}]
        BY <1>1, <2>3, <2>4
    <2>6. \A p \in Orders : row'[p] = None => row[p] = None
        BY <1>1, <2>1, <2>3, <2>4, NoneAssumption
    <2>7. request[w] # None /\ request[w].op # "insert" /\ AfterIssue(w)
        BY <1>10 DEF SetXmlUrl
    <2>8. TypeOK'
        BY <1>1, <1>10, <2>5, <2>7, AfterIssueShape DEF SetXmlUrl
    <2>9. \A v \in Workers : request[v] # None => request[v].order \in Orders
        BY <1>1, RequestShape
    <2>10. WorksOnInvoice'
        BY <1>1, <2>6, <2>7, <2>9, AfterIssueShape
    <2> QED BY <2>8, <2>10
<1>11. ASSUME NEW w \in Workers, SendPdf(w)
      PROVE  TypeOK' /\ WorksOnInvoice'
    BY <1>1, <1>11, RequestShape DEF SendPdf
<1>12. ASSUME NEW w \in Workers, AllocateFails(w)
      PROVE  TypeOK' /\ WorksOnInvoice'
    BY <1>1, <1>12, RequestShape DEF AllocateFails
<1>13. ASSUME NEW w \in Workers, RequestDies(w)
      PROVE  TypeOK' /\ WorksOnInvoice'
    BY <1>1, <1>13, RequestShape DEF RequestDies
<1> QED BY <1>2, <1>3, <1>4, <1>5, <1>6, <1>7, <1>8, <1>9, <1>10, <1>11, <1>12, <1>13
        DEF Next, Proceed

\* Nothing but Allocate issues, and nothing at all takes an issue back.
LEMMA OnlyAllocateIssues ==
    ASSUME ChainInv, [Next]_vars
    PROVE  \/ \E w \in Workers : Allocate(w)
           \/ /\ log' = log
              /\ Issued' = Issued
              /\ \A o \in Issued : /\ row'[o].icv = row[o].icv /\ row'[o].hash = row[o].hash
                                   /\ row'[o].previous = row[o].previous
<1> DEFINE Kept == /\ log' = log
                   /\ Issued' = Issued
                   /\ \A o \in Issued : /\ row'[o].icv = row[o].icv /\ row'[o].hash = row[o].hash
                                        /\ row'[o].previous = row[o].previous
<1>1. TypeOK /\ WorksOnInvoice
    BY DEF ChainInv
<1>2. row' = row /\ log' = log => Kept
    BY DEF Issued, IsIssued
<1>3. ASSUME NEW w \in Workers, CreateInsert(w)
      PROVE  Kept
    <2> DEFINE o == request[w].order
               new == [number |-> counter + 1, icv |-> 0, hash |-> None, previous |-> None,
                       archived |-> FALSE]
    <2>1. o \in Orders /\ row[o] = None /\ row' = [row EXCEPT ![o] = new] /\ log' = log
        BY <1>1, <1>3, RequestShape DEF CreateInsert, At
    <2>2. new.hash = None
        OBVIOUS
    <2> HIDE DEF new, o
    <2>3. \A p \in Orders : IF p = o THEN row'[p] = new ELSE row'[p] = row[p]
        BY <1>1, <2>1 DEF TypeOK
    <2>4. o \notin Issued /\ Issued' = Issued
        BY <2>1, <2>2, <2>3 DEF Issued, IsIssued
    <2> QED BY <2>1, <2>3, <2>4 DEF Issued
<1>4. ASSUME NEW w \in Workers, SetXmlUrl(w)
      PROVE  Kept
    <2> DEFINE o == request[w].order
    <2>1. o \in Orders /\ row[o] \in Invoice
        BY <1>1, <1>4, RequestShape DEF SetXmlUrl, At, WorksOnInvoice, TypeOK
    <2>2. row' = [row EXCEPT ![o] = [row[o] EXCEPT !.archived = TRUE]] /\ log' = log
        BY <1>4 DEF SetXmlUrl
    <2>3. \A p \in Orders : p # o => row'[p] = row[p]
        BY <1>1, <2>2 DEF TypeOK
    <2>4. row'[o] = [row[o] EXCEPT !.archived = TRUE]
        BY <1>1, <2>1, <2>2 DEF TypeOK
    <2>5. /\ row'[o].hash = row[o].hash /\ row'[o].icv = row[o].icv
          /\ row'[o].previous = row[o].previous
          /\ row'[o] # None /\ row[o] # None
        BY <2>1, <2>4, NoneAssumption DEF Invoice
    <2>6. Issued' = Issued
        BY <2>3, <2>5 DEF Issued, IsIssued
    <2> QED BY <2>2, <2>3, <2>5, <2>6 DEF Issued
<1>5. CASE UNCHANGED vars
    BY <1>2, <1>5 DEF vars
<1> QED BY <1>2, <1>3, <1>4, <1>5
        DEF Next, Proceed, CreateRead, IssueRead, CreateConflict, PutXml, ArchiveFails,
            SendPdf, AllocateFails, RequestDies

\* The row that Allocate writes is the last document, all others stay.
LEMMA AllocateRow ==
    ASSUME ChainInv, NEW w \in Workers, Allocate(w)
    PROVE  LET o == request[w].order
           IN /\ Issued' = Issued \cup {o}
              /\ row'[o].icv = Len(log) + 1 /\ row'[o].hash = NewHash
              /\ row'[o].previous = PreviousHash
              /\ row'[o] # None /\ row[o] # None
              /\ row'[o].archived = row[o].archived /\ row'[o].number = row[o].number
              /\ \A p \in Orders : p # o => row'[p] = row[p]
<1> DEFINE o == request[w].order
           new == [row[o] EXCEPT !.icv = NextIcv, !.hash = NewHash, !.previous = PreviousHash]
<1>1. o \in Orders /\ NewHash \in Hashes /\ NextIcv = Len(log) + 1
    BY AllocateIssues
<1>2. row \in [Orders -> Invoice \cup {None}] /\ row[o] # None /\ row[o] \in Invoice
    BY <1>1 DEF ChainInv, TypeOK, WorksOnInvoice, Allocate, At
<1>3. row' = [row EXCEPT ![o] = new]
    BY <1>1, <1>2 DEF Allocate
<1>4. /\ new # None /\ new.hash = NewHash /\ new.icv = NextIcv
      /\ new.previous = PreviousHash
      /\ new.archived = row[o].archived /\ new.number = row[o].number
    <2>1. PreviousHash \in Hashes \cup {Genesis}
        BY AllocateIssues
    <2>2. NextIcv \in Nat
        BY <1>1 DEF ChainInv, TypeOK
    <2>3. new \in Invoice
        BY <1>1, <1>2, <2>1, <2>2 DEF Invoice
    <2> QED BY <1>2, <2>3, NoneAssumption DEF Invoice
<1> HIDE DEF new
<1>5. row'[o] = new /\ \A p \in Orders : p # o => row'[p] = row[p]
    BY <1>1, <1>2, <1>3
<1>6. NewHash # None
    BY <1>1, ChainAssumption
<1>7. Issued' = Issued \cup {o}
    BY <1>1, <1>4, <1>5, <1>6 DEF Issued, IsIssued
<1> QED BY <1>1, <1>2, <1>4, <1>5, <1>7

LEMMA ChainStep ==
    ASSUME ChainInv, [Next]_vars
    PROVE  ChainInv'
<1>1. TypeOK' /\ WorksOnInvoice'
    BY TypeStep
<1>2. log \in Seq(FL!Document) /\ Len(log) \in Nat
    BY DEF ChainInv, TypeOK
<1>3. ASSUME NEW w \in Workers, Allocate(w)
      PROVE  RowsAreLogged' /\ LastIsInItsRow'
    <2> DEFINE o == request[w].order
               d == [invoice |-> o, icv |-> Len(log) + 1, hash |-> NewHash,
                     previous |-> PreviousHash]
    <2>1. log' = Append(log, d) /\ o \in Orders
        BY <1>3, AllocateIssues
    <2>2. /\ Issued' = Issued \cup {o}
          /\ row'[o].icv = Len(log) + 1 /\ row'[o].hash = NewHash
          /\ \A p \in Orders : p # o => row'[p] = row[p]
        BY <1>3, AllocateRow
    <2>3. d.invoice = o /\ d.hash = NewHash
        OBVIOUS
    <2> HIDE DEF d, o
    <2>4. /\ Len(log') = Len(log) + 1 /\ log'[Len(log) + 1] = d
          /\ DOMAIN log' = 1 .. Len(log) + 1 /\ DOMAIN log = 1 .. Len(log)
          /\ \A k \in DOMAIN log : log'[k] = log[k]
        BY <1>2, <2>1
    <2>5. \A p \in Issued : p \in Orders
        BY DEF Issued
    <2>6. RowsAreLogged'
        <3>1. \A p \in Issued : /\ row[p].icv \in DOMAIN log
                                /\ log[row[p].icv].invoice = p
                                /\ log[row[p].icv].hash = row[p].hash
            BY DEF ChainInv, RowsAreLogged
        <3>2. ASSUME NEW p \in Issued'
              PROVE  /\ row'[p].icv \in DOMAIN log'
                     /\ log'[row'[p].icv].invoice = p
                     /\ log'[row'[p].icv].hash = row'[p].hash
            <4>1. CASE p = o
                BY <1>2, <2>2, <2>3, <2>4, <4>1
            <4>2. CASE p # o
                BY <1>2, <2>2, <2>4, <2>5, <3>1, <4>2
            <4> QED BY <4>1, <4>2
        <3> QED BY <3>2 DEF RowsAreLogged
    <2>7. LastIsInItsRow'
        BY <2>2, <2>3, <2>4 DEF LastIsInItsRow
    <2> QED BY <2>6, <2>7
<1>4. ASSUME log' = log, Issued' = Issued,
             \A o \in Issued : row'[o].icv = row[o].icv /\ row'[o].hash = row[o].hash
      PROVE  RowsAreLogged' /\ LastIsInItsRow'
    BY <1>4 DEF ChainInv, RowsAreLogged, LastIsInItsRow
<1> QED BY <1>1, <1>3, <1>4, OnlyAllocateIssues DEF ChainInv

\* A tenant's rows stay type-correct and stay part of the log of what was issued.
THEOREM ChainInvariant == Spec => []ChainInv
<1>1. Init => ChainInv
    BY ChainInit
<1>2. ChainInv /\ [Next]_vars => ChainInv'
    BY ChainStep
<1> QED BY <1>1, <1>2, PTL DEF Spec

\* Rows, requests, archive and log of a tenant keep their types.
THEOREM ChainTypes == Spec => []TypeOK
<1>1. ChainInv => TypeOK
    BY DEF ChainInv
<1> QED BY <1>1, ChainInvariant, PTL

\* Whatever races, is issued twice or dies: allocateChainSlot and issue write
\* one log, without a hole, a repetition or a wrong predecessor.
THEOREM OneLog == Spec => IssuesInOneLog
<1>1. Init => FL!Init
    BY DEF Init, FL!Init
<1>2. ASSUME ChainInv, [Next]_vars
      PROVE  [FL!Next]_log
    <2>1. ASSUME NEW w \in Workers, Allocate(w)
          PROVE  FL!Next
        BY <1>2, <2>1, AllocateIssues DEF FL!Next
    <2> QED BY <1>2, <2>1, OnlyAllocateIssues
<1> QED BY <1>1, <1>2, ChainInvariant, PTL DEF Spec, IssuesInOneLog, FL!Spec

-----------------------------------------------------------------------------
(* The archive.                                                            *)

LEMMA ArchiveStep ==
    ASSUME ChainInv, ArchiveIsOfInvoice, [Next]_vars
    PROVE  ArchiveIsOfInvoice'
<1>1. TypeOK /\ WorksOnInvoice
    BY DEF ChainInv
<1>2. \A o, h : IssuedIn(log, o, h) => IssuedIn(log', o, h)
    <2>1. ASSUME NEW w \in Workers, Allocate(w)
          PROVE  \A k \in DOMAIN log : k \in DOMAIN log' /\ log'[k] = log[k]
        <3> DEFINE d == [invoice |-> request[w].order, icv |-> Len(log) + 1,
                         hash |-> NewHash, previous |-> PreviousHash]
        <3>1. log' = Append(log, d)
            BY <2>1, AllocateIssues
        <3> HIDE DEF d
        <3> QED BY <1>1, <3>1 DEF TypeOK
    <2> QED BY <2>1, OnlyAllocateIssues DEF IssuedIn
<1>3. ASSUME NEW w \in Workers, Allocate(w)
      PROVE  ArchiveIsOfInvoice'
    <2> DEFINE o == request[w].order
               d == [invoice |-> o, icv |-> Len(log) + 1, hash |-> NewHash,
                     previous |-> PreviousHash]
               put == [op |-> "put", order |-> o, mail |-> request[w].mail, hash |-> NewHash]
    <2>1. log' = Append(log, d) /\ d.invoice = o /\ d.hash = NewHash
        BY <1>3, AllocateIssues
    <2>2. request' = [request EXCEPT ![w] = put] /\ stored' = stored
        BY <1>3 DEF Allocate, Goto
    <2>3. put.op = "put" /\ put.order = o /\ put.hash = NewHash
        OBVIOUS
    <2> HIDE DEF d, put
    <2>4. Len(log) + 1 \in DOMAIN log' /\ log'[Len(log) + 1] = d
        BY <1>1, <2>1 DEF TypeOK
    <2>5. IssuedIn(log', o, NewHash)
        BY <2>1, <2>4 DEF IssuedIn
    <2>6. request'[w] = put /\ \A v \in Workers : v # w => request'[v] = request[v]
        BY <1>1, <2>2 DEF TypeOK
    <2>7. /\ row'[o].archived = row[o].archived /\ row[o] # None
          /\ \A p \in Orders : p # o => row'[p] = row[p]
        BY <1>3, AllocateRow
    <2> HIDE DEF o
    <2> QED BY <1>2, <2>2, <2>3, <2>5, <2>6, <2>7 DEF ArchiveIsOfInvoice, At
<1>4. ASSUME NEW w \in Workers, PutXml(w)
      PROVE  ArchiveIsOfInvoice'
    <2> DEFINE r == request[w]
    <2>1. r \in Archiving /\ r.order \in Orders /\ r # None /\ r.hash \in Hashes
        BY <1>1, <1>4, RequestShape DEF PutXml, At, Archiving
    <2>2. /\ stored'[r.order] = r.hash
          /\ \A o \in Orders : o # r.order => stored'[o] = stored[o]
          /\ row' = row
        BY <1>1, <1>4, <2>1 DEF PutXml, TypeOK
    <2>3. /\ request'[w] = [r EXCEPT !.op = "url"]
          /\ \A v \in Workers : v # w => request'[v] = request[v]
        BY <1>1, <1>4 DEF PutXml, Goto, TypeOK
    <2>4. request'[w].order = r.order /\ request'[w].hash = r.hash
        BY <2>1, <2>3 DEF Archiving
    <2>5. r.hash # None /\ IssuedIn(log, r.order, r.hash)
        BY <1>4, <2>1, ChainAssumption DEF ArchiveIsOfInvoice, PutXml
    <2> HIDE DEF r
    <2>6. \A o \in Orders : stored'[o] # None => IssuedIn(log', o, stored'[o])
        BY <1>2, <2>2, <2>5 DEF ArchiveIsOfInvoice
    <2>7. \A o \in Orders : row'[o] # None /\ row'[o].archived => stored'[o] # None
        BY <2>2, <2>5 DEF ArchiveIsOfInvoice
    <2>8. ASSUME NEW v \in Workers, At(v, "put")' \/ At(v, "url")'
          PROVE  IssuedIn(log', request'[v].order, request'[v].hash)
        BY <1>2, <2>3, <2>4, <2>5, <2>8 DEF ArchiveIsOfInvoice, At
    <2>9. ASSUME NEW v \in Workers, At(v, "url")'
          PROVE  stored'[request'[v].order] # None
        <3>1. CASE v = w
            BY <2>2, <2>4, <2>5, <3>1
        <3>2. CASE v # w
            <4>1. request'[v] = request[v] /\ At(v, "url")
                BY <2>3, <2>9, <3>2 DEF At
            <4>2. stored[request[v].order] # None /\ request[v].order \in Orders
                BY <1>1, <4>1, RequestShape DEF ArchiveIsOfInvoice, At
            <4> QED BY <2>2, <2>5, <4>1, <4>2
        <3> QED BY <3>1, <3>2
    <2> QED BY <2>6, <2>7, <2>8, <2>9 DEF ArchiveIsOfInvoice
<1>5. ASSUME stored' = stored,
             \A o \in Orders : row'[o] # None /\ row'[o].archived =>
                 (row[o] # None /\ row[o].archived) \/ stored[o] # None,
             \A v \in Workers : request'[v] = request[v] \/ request'[v] = None
                                 \/ request'[v].op \notin {"put", "url"}
      PROVE  ArchiveIsOfInvoice'
    BY <1>2, <1>5 DEF ArchiveIsOfInvoice, At
<1>6. ASSUME NEW w \in Workers, SetXmlUrl(w)
      PROVE  ArchiveIsOfInvoice'
    <2> DEFINE o == request[w].order
    <2>1. o \in Orders /\ request[w] # None /\ stored[o] # None
        BY <1>1, <1>6, RequestShape DEF SetXmlUrl, At, ArchiveIsOfInvoice
    <2>2. \A p \in Orders : p # o => row'[p] = row[p]
        BY <1>1, <1>6, <2>1 DEF SetXmlUrl, TypeOK
    <2>3. AfterIssue(w) /\ stored' = stored
        BY <1>6 DEF SetXmlUrl
    <2>4. \A v \in Workers : request'[v] = request[v] \/ request'[v] = None
                                 \/ request'[v].op \notin {"put", "url"}
        BY <1>1, <2>1, <2>3, AfterIssueShape
    <2> QED BY <1>5, <2>1, <2>2, <2>3, <2>4
<1>7. ASSUME NEW w \in Workers, ArchiveFails(w)
      PROVE  ArchiveIsOfInvoice'
    <2>1. request[w] # None /\ AfterIssue(w) /\ UNCHANGED <<row, stored>>
        BY <1>7 DEF ArchiveFails, At
    <2>2. \A v \in Workers : request'[v] = request[v] \/ request'[v] = None
                                 \/ request'[v].op \notin {"put", "url"}
        BY <1>1, <2>1, AfterIssueShape
    <2> QED BY <1>5, <2>1, <2>2
<1>8. ASSUME NEW w \in Workers, CreateInsert(w)
      PROVE  ArchiveIsOfInvoice'
    <2>1. request[w] \in Issuing /\ request[w].order \in Orders /\ request[w] # None
        BY <1>1, <1>8 DEF CreateInsert, At, TypeOK, Request, Issuing, Archiving
    <2>2. \A o \in Orders : row'[o] # None /\ row'[o].archived => row[o] # None /\ row[o].archived
        BY <1>1, <1>8, <2>1 DEF CreateInsert, TypeOK
    <2>3. \A v \in Workers : request'[v] = request[v] \/ request'[v].op \notin {"put", "url"}
        BY <1>1, <1>8, <2>1 DEF CreateInsert, AfterInsert, Goto, TypeOK, Issuing
    <2>4. stored' = stored
        BY <1>8 DEF CreateInsert
    <2> QED BY <1>5, <2>2, <2>3, <2>4
<1>9. ASSUME UNCHANGED <<row, stored>>,
             \E w \in Workers, o \in Orders, mail \in BOOLEAN :
                 CreateRead(w, o, mail) \/ IssueRead(w, o)
      PROVE  ArchiveIsOfInvoice'
    <2>1. \A v \in Workers : request'[v] = request[v] \/ request'[v] = None
                                 \/ request'[v].op \notin {"put", "url"}
        BY <1>1, <1>9 DEF CreateRead, IssueRead, Goto, Done, TypeOK
    <2> QED BY <1>5, <1>9, <2>1
<1>10. ASSUME NEW w \in Workers, UNCHANGED <<row, stored>>, Done(w)
       PROVE  ArchiveIsOfInvoice'
    BY <1>1, <1>5, <1>10 DEF Done, Goto, TypeOK
<1>11. CASE UNCHANGED vars
    BY <1>5, <1>11 DEF vars
<1> QED BY <1>3, <1>4, <1>6, <1>7, <1>8, <1>9, <1>10, <1>11
        DEF Next, Proceed, CreateRead, IssueRead, CreateConflict, SendPdf, AllocateFails,
            RequestDies

\* The archived XML is the row's document unless the invoice was issued twice,
\* however requests on one invoice overtake each other between put and url.
THEOREM ArchiveMatchesRow == Spec => []ArchiveIsTheRow
<1>1. Init => ArchiveIsOfInvoice
    BY DEF Init, ArchiveIsOfInvoice, At
<1>2. ChainInv /\ ArchiveIsOfInvoice /\ [Next]_vars => ArchiveIsOfInvoice'
    BY ArchiveStep
<1>3. ArchiveIsOfInvoice => ArchiveIsTheRow
    BY DEF ArchiveIsOfInvoice, ArchiveIsTheRow, Superseded, IssuedIn
<1> QED BY <1>1, <1>2, <1>3, ChainInvariant, PTL DEF Spec

-----------------------------------------------------------------------------
(* Nobody forgets an invoice.                                              *)

LEMMA UnissuedStep ==
    ASSUME ChainInv, UnissuedHasWorker, [Next]_vars
    PROVE  UnissuedHasWorker'
<1>1. TypeOK /\ WorksOnInvoice
    BY DEF ChainInv
<1>2. ASSUME \A o \in Orders : row'[o] # None /\ ~IsIssued(o)' => row[o] # None /\ ~IsIssued(o),
             failed \subseteq failed',
             \A v \in Workers, o \in Orders :
                 Issues(v, o) => Issues(v, o)' \/ IsIssued(o)' \/ o \in failed'
      PROVE  UnissuedHasWorker'
    BY <1>2 DEF UnissuedHasWorker
<1>3. ASSUME NEW w \in Workers, UNCHANGED <<row, failed>>,
             \A v \in Workers : v # w => request'[v] = request[v],
             \A o \in Orders : Issues(w, o) => Issues(w, o)' \/ IsIssued(o)
      PROVE  UnissuedHasWorker'
    <2>1. \A v \in Workers, o \in Orders :
              Issues(v, o) => Issues(v, o)' \/ IsIssued(o)' \/ o \in failed'
        BY <1>3 DEF Issues, At, IsIssued
    <2> QED BY <1>2, <1>3, <2>1 DEF IsIssued
<1>4. ASSUME NEW w \in Workers, NEW o \in Orders, NEW mail \in BOOLEAN,
             CreateRead(w, o, mail)
      PROVE  UnissuedHasWorker'
    BY <1>1, <1>3, <1>4 DEF CreateRead, Goto, Issues, At, TypeOK
<1>5. ASSUME NEW w \in Workers, NEW o \in Orders, IssueRead(w, o)
      PROVE  UnissuedHasWorker'
    <2> DEFINE mail == request[w] # None /\ request[w].mail
               next == [op |-> "allocate", order |-> o, mail |-> mail]
    <2>1. UNCHANGED <<row, failed>> /\ \A v \in Workers : v # w => request'[v] = request[v]
        BY <1>1, <1>5 DEF IssueRead, Goto, Done, TypeOK
    <2>2. next # None
        <3>1. mail \in BOOLEAN
            OBVIOUS
        <3> HIDE DEF mail
        <3>2. next \in Request
            BY <3>1 DEF Request, Issuing
        <3> QED BY <3>2, NoneAssumption
    <2>3. next.op = "allocate" /\ next.order = o
        OBVIOUS
    <2>4. IsIssued(o) \/ request'[w] = next
        BY <1>1, <1>5 DEF IssueRead, Goto, TypeOK
    <2> HIDE DEF next
    <2>5. \A p \in Orders : Issues(w, p) => p = o
        BY <1>5 DEF IssueRead, Issues, At
    <2> QED BY <1>3, <2>1, <2>2, <2>3, <2>4, <2>5 DEF Issues, At
<1>6. ASSUME NEW w \in Workers, CreateInsert(w)
      PROVE  UnissuedHasWorker'
    <2> DEFINE r == request[w]
    <2>1. r \in Issuing /\ r.order \in Orders /\ r # None /\ r.op = "insert"
        BY <1>1, <1>6 DEF CreateInsert, At, TypeOK, Request, Issuing, Archiving
    <2>2. /\ \A p \in Orders : p # r.order => row'[p] = row[p]
          /\ failed' = failed
        BY <1>1, <1>6, <2>1 DEF CreateInsert, TypeOK
    <2>3. request'[w] = [r EXCEPT !.op = "issue"] /\ [r EXCEPT !.op = "issue"] \in Request
        BY <1>1, <1>6, <2>1 DEF CreateInsert, AfterInsert, Goto, TypeOK, Issuing, Request
    <2>4. request'[w] # None /\ request'[w].op = "issue" /\ request'[w].order = r.order
        BY <2>1, <2>3, NoneAssumption DEF Issuing
    <2>5. \A v \in Workers : v # w => request'[v] = request[v]
        BY <1>1, <1>6 DEF CreateInsert, Goto, TypeOK
    <2> HIDE DEF r
    <2>6. ASSUME NEW o \in Orders, row'[o] # None, ~IsIssued(o)'
          PROVE  o \in failed' \/ \E v \in Workers : Issues(v, o)'
        <3>1. CASE o = r.order
            BY <2>4, <3>1 DEF Issues, At
        <3>2. CASE o # r.order
            <4>1. row[o] # None /\ ~IsIssued(o)
                BY <2>2, <2>6, <3>2 DEF IsIssued
            <4>2. o \in failed \/ \E v \in Workers : v # w /\ Issues(v, o)
                BY <2>1, <4>1 DEF UnissuedHasWorker, Issues, At, r
            <4> QED BY <2>2, <2>5, <4>2 DEF Issues, At
        <3> QED BY <3>1, <3>2
    <2> QED BY <2>6 DEF UnissuedHasWorker
<1>7. ASSUME NEW w \in Workers, Allocate(w)
      PROVE  UnissuedHasWorker'
    <2> DEFINE o == request[w].order
    <2>1. Issued' = Issued \cup {o} /\ \A p \in Orders : p # o => row'[p] = row[p]
        BY <1>7, AllocateRow
    <2>2. /\ failed' = failed
          /\ \A v \in Workers : v # w => request'[v] = request[v]
        BY <1>1, <1>7 DEF Allocate, Goto, TypeOK
    <2>5. \A v \in Workers, p \in Orders : Issues(v, p) /\ p # o => Issues(v, p)'
        BY <2>2 DEF Issues, At
    <2> HIDE DEF o
    <2>6. \A p \in Orders : row'[p] # None /\ ~IsIssued(p)' => p # o
        BY <2>1 DEF Issued
    <2>7. \A p \in Orders : p # o => (IsIssued(p)' <=> IsIssued(p))
        BY <2>1 DEF IsIssued
    <2> QED BY <2>1, <2>2, <2>5, <2>6, <2>7 DEF UnissuedHasWorker
<1>8. ASSUME NEW w \in Workers, SetXmlUrl(w)
      PROVE  UnissuedHasWorker'
    <2> DEFINE o == request[w].order
    <2>1. o \in Orders /\ row[o] # None /\ request[w] # None /\ request[w].op = "url"
        BY <1>1, <1>8, RequestShape DEF SetXmlUrl, At, WorksOnInvoice
    <2>2. \A p \in Orders : p # o => row'[p] = row[p]
        BY <1>1, <1>8 DEF SetXmlUrl, TypeOK
    <2>3. Issued' = Issued /\ failed' = failed
        <3>1. row'[o].hash = row[o].hash /\ row'[o] # None
            <4>1. row[o] \in Invoice /\ row'[o] = [row[o] EXCEPT !.archived = TRUE]
                BY <1>1, <1>8, <2>1 DEF SetXmlUrl, TypeOK
            <4> QED BY <4>1, NoneAssumption DEF Invoice
        <3> QED BY <1>8, <2>1, <2>2, <3>1 DEF SetXmlUrl, Issued, IsIssued
    <2>4. \A v \in Workers : v # w => request'[v] = request[v]
        BY <1>1, <1>8, <2>1, AfterIssueShape DEF SetXmlUrl
    <2>5. \A v \in Workers, p \in Orders : Issues(v, p) => Issues(v, p)'
        BY <2>1, <2>4 DEF Issues, At
    <2>6. \A p \in Orders : IsIssued(p)' <=> IsIssued(p)
        BY <2>3 DEF Issued
    <2> HIDE DEF o
    <2> QED BY <1>2, <2>1, <2>2, <2>3, <2>5, <2>6
<1>9. ASSUME NEW w \in Workers, ArchiveFails(w)
      PROVE  UnissuedHasWorker'
    <2>1. /\ request[w] # None /\ AfterIssue(w) /\ UNCHANGED <<row, failed>>
          /\ \A o \in Orders : ~Issues(w, o)
        BY <1>9 DEF ArchiveFails, At, Issues
    <2> QED BY <1>1, <1>3, <2>1, AfterIssueShape
<1>10. ASSUME NEW w \in Workers,
              PutXml(w) \/ SendPdf(w) \/ CreateConflict(w)
      PROVE  UnissuedHasWorker'
    <2>1. UNCHANGED <<row, failed>> /\ \A o \in Orders : ~Issues(w, o)
        BY <1>10 DEF PutXml, SendPdf, CreateConflict, At, Issues
    <2>2. \A v \in Workers : v # w => request'[v] = request[v]
        BY <1>1, <1>10 DEF PutXml, SendPdf, CreateConflict, Goto, Done, TypeOK
    <2> QED BY <1>3, <2>1, <2>2
<1>11. ASSUME NEW w \in Workers, AllocateFails(w) \/ RequestDies(w)
       PROVE  UnissuedHasWorker'
    <2>1. row' = row /\ failed \subseteq failed'
        BY <1>11 DEF AllocateFails, RequestDies
    <2>2. \A v \in Workers : v # w => request'[v] = request[v]
        BY <1>1, <1>11 DEF AllocateFails, RequestDies, Goto, Done, TypeOK
    <2>3. \A o \in Orders : Issues(w, o) => o \in failed'
        BY <1>11 DEF AllocateFails, RequestDies, Issues
    <2> QED BY <1>2, <2>1, <2>2, <2>3 DEF IsIssued, Issues, At
<1>12. CASE UNCHANGED vars
    BY <1>12 DEF vars, UnissuedHasWorker, IsIssued, Issues, At
<1> QED BY <1>4, <1>5, <1>6, <1>7, <1>8, <1>9, <1>10, <1>11, <1>12 DEF Next, Proceed

\* The worker that finds an invoice before it is issued sends it without QR only
\* while the request that issues it is under way, or if that request was lost.
THEOREM PlainOnlyUnderWay == Spec => PlainWhileUnderWay
<1>1. Init => UnissuedHasWorker
    BY DEF Init, UnissuedHasWorker
<1>2. ChainInv /\ UnissuedHasWorker /\ [Next]_vars => UnissuedHasWorker'
    BY UnissuedStep
<1>3. ASSUME ChainInv, UnissuedHasWorker, [Next]_vars
      PROVE  [\A o \in plain' \ plain :
                  o \in failed \/ \E w \in Workers : Issues(w, o)]_vars
    <2>1. ASSUME NEW w \in Workers, SendPdf(w), NEW o \in plain' \ plain
          PROVE  o \in failed \/ \E v \in Workers : Issues(v, o)
        <3>1. o = request[w].order /\ ~IsIssued(o)
            BY <2>1 DEF SendPdf
        <3>2. o \in Orders /\ row[o] # None
            BY <1>3, <2>1, <3>1, RequestShape, SMTT(40)
               DEF SendPdf, At, ChainInv, WorksOnInvoice
        <3> QED BY <1>3, <3>1, <3>2 DEF UnissuedHasWorker
    <2>2. plain' = plain \/ \E w \in Workers : SendPdf(w)
        BY <1>3 DEF Next, Proceed, vars, CreateRead, IssueRead, CreateInsert,
                    CreateConflict, Allocate, PutXml, ArchiveFails, SetXmlUrl,
                    AllocateFails, RequestDies
    <2> QED BY <2>1, <2>2
<1> QED BY <1>1, <1>2, <1>3, ChainInvariant, PTL DEF Spec, PlainWhileUnderWay

-----------------------------------------------------------------------------
(* Invoice numbers.                                                        *)

LEMMA NumbersStep ==
    ASSUME ChainInv, NumbersCounted, [Next]_vars
    PROVE  NumbersCounted'
<1>1. TypeOK /\ WorksOnInvoice
    BY DEF ChainInv
<1>2. /\ {row[o].number : o \in Invoiced} = 1 .. counter
      /\ Cardinality(Invoiced) = counter /\ IsFiniteSet(Invoiced)
    BY DEF NumbersCounted, NumbersDense, Invoiced
<1>3. ASSUME counter' = counter,
             \A o \in Orders : /\ (row'[o] = None) <=> (row[o] = None)
                               /\ row[o] # None => row'[o].number = row[o].number
      PROVE  NumbersCounted'
    <2>1. Invoiced' = Invoiced
        BY <1>3 DEF Invoiced
    <2>2. {row'[o].number : o \in Invoiced} = {row[o].number : o \in Invoiced}
        BY <1>3 DEF Invoiced
    <2> QED BY <1>2, <1>3, <2>1, <2>2 DEF NumbersCounted, NumbersDense, Invoiced
<1>4. ASSUME NEW w \in Workers, CreateInsert(w)
      PROVE  NumbersCounted'
    <2> DEFINE o == request[w].order
               new == [number |-> counter + 1, icv |-> 0, hash |-> None, previous |-> None,
                       archived |-> FALSE]
    <2>1. o \in Orders /\ row[o] = None /\ row' = [row EXCEPT ![o] = new] /\ counter' = counter + 1
        BY <1>1, <1>4, RequestShape DEF CreateInsert, At
    <2>2. new # None /\ new.number = counter + 1
        <3>1. counter + 1 \in Nat
            BY <1>1 DEF TypeOK
        <3>2. new \in Invoice
            BY <3>1 DEF Invoice
        <3> QED BY <3>2, NoneAssumption
    <2> HIDE DEF new, o
    <2>3. row'[o] = new /\ \A p \in Orders : p # o => row'[p] = row[p]
        BY <1>1, <2>1 DEF TypeOK
    <2>4. Invoiced' = Invoiced \cup {o} /\ o \notin Invoiced
        BY <2>1, <2>2, <2>3 DEF Invoiced
    <2>5. IsFiniteSet(Invoiced') /\ Cardinality(Invoiced') = counter + 1
        BY <1>2, <2>4, FS_AddElement
    <2>6. {row'[p].number : p \in Invoiced'} = {row[p].number : p \in Invoiced} \cup {counter + 1}
        BY <2>2, <2>3, <2>4 DEF Invoiced
    <2>7. {row'[p].number : p \in Invoiced'} = 1 .. counter + 1
        <3>1. counter \in Nat
            BY <1>1 DEF TypeOK
        <3>2. (1 .. counter) \cup {counter + 1} = 1 .. counter + 1
            BY <3>1
        <3> QED BY <1>2, <2>6, <3>2
    <2> QED BY <2>1, <2>5, <2>7 DEF NumbersCounted, NumbersDense, Invoiced
<1>5. ASSUME NEW w \in Workers, Allocate(w)
      PROVE  NumbersCounted'
    <2>1. counter' = counter
        BY <1>5 DEF Allocate
    <2> QED BY <1>3, <1>5, <2>1, AllocateRow
<1>6. ASSUME NEW w \in Workers, SetXmlUrl(w)
      PROVE  NumbersCounted'
    <2> DEFINE o == request[w].order
    <2>1. o \in Orders /\ row[o] \in Invoice /\ counter' = counter
        BY <1>1, <1>6, RequestShape DEF SetXmlUrl, At, WorksOnInvoice, TypeOK
    <2>2. row' = [row EXCEPT ![o] = [row[o] EXCEPT !.archived = TRUE]]
        BY <1>1, <1>6, <2>1 DEF SetXmlUrl
    <2>3. \A p \in Orders : p # o => row'[p] = row[p]
        BY <1>1, <2>2 DEF TypeOK
    <2>4. row'[o] # None /\ row[o] # None /\ row'[o].number = row[o].number
        BY <1>1, <2>1, <2>2, NoneAssumption DEF TypeOK, Invoice
    <2> HIDE DEF o
    <2> QED BY <1>3, <2>1, <2>3, <2>4
<1>7. row' = row /\ counter' = counter => NumbersCounted'
    BY <1>3
<1>8. CASE UNCHANGED vars
    BY <1>7, <1>8 DEF vars
<1> QED BY <1>4, <1>5, <1>6, <1>7, <1>8
        DEF Next, Proceed, CreateRead, IssueRead, CreateConflict, CounterAfterConflict,
            PutXml, ArchiveFails, SendPdf, AllocateFails, RequestDies

\* The invoice numbers of a tenant are 1 to the counter, one each: a rollback
\* gives its number back because the counter's row lock is held to the commit.
THEOREM NumbersWithoutHoles == Spec => []NumbersDense
<1>1. Init => NumbersCounted
    <2> SUFFICES ASSUME Init PROVE NumbersCounted
        OBVIOUS
    <2>1. Invoiced = {} /\ counter = 0
        BY DEF Init, Invoiced
    <2>2. IsFiniteSet({}) /\ Cardinality({}) = 0
        BY FS_EmptySet
    <2>3. {row[o].number : o \in Invoiced} = 1 .. 0
        BY <2>1
    <2> QED BY <2>1, <2>2, <2>3 DEF NumbersCounted, NumbersDense, Invoiced
<1>2. ChainInv /\ NumbersCounted /\ [Next]_vars => NumbersCounted'
    BY NumbersStep
<1>3. NumbersCounted => NumbersDense
    BY DEF NumbersCounted
<1> QED BY <1>1, <1>2, <1>3, ChainInvariant, PTL DEF Spec

-----------------------------------------------------------------------------
(* The audit.  A document that is overwritten leaves a hole among the       *)
(* counter values of the rows, and every hole is one; each of verifyChain's *)
(* tests finds holes.                                                       *)

\* Each document names the one before it, and no two have the same hash.
LogLinked ==
    /\ \A k \in DOMAIN log : log[k].previous = IF k = 1 THEN Genesis ELSE log[k - 1].hash
    /\ \A k, l \in DOMAIN log : log[k].hash = log[l].hash => k = l

\* A row names the document before its own, and its own is the last of its invoice.
RowsLinked ==
    /\ \A o \in Issued : row[o].previous = log[row[o].icv].previous
    /\ \A k \in DOMAIN log : log[k].invoice \in Issued

AuditInv == ChainInv /\ ArchiveIsOfInvoice /\ LogLinked /\ RowsLinked

LEMMA AuditStep ==
    ASSUME AuditInv, [Next]_vars
    PROVE  LogLinked' /\ RowsLinked'
<1>1. /\ ChainInv /\ log \in Seq(FL!Document) /\ Len(log) \in Nat
      /\ DOMAIN log = 1 .. Len(log)
    BY DEF AuditInv, ChainInv, TypeOK
<1>2. \A p \in Issued : p \in Orders /\ row[p].icv \in DOMAIN log
    BY <1>1 DEF ChainInv, RowsAreLogged, Issued
<1>3. ASSUME NEW w \in Workers, Allocate(w)
      PROVE  LogLinked' /\ RowsLinked'
    <2> DEFINE o == request[w].order
               n == Len(log) + 1
               d == [invoice |-> o, icv |-> n, hash |-> NewHash, previous |-> PreviousHash]
    <2>1. log' = Append(log, d) /\ NewHash \notin FL!Used
        BY <1>1, <1>3, AllocateIssues
    <2>2. /\ Issued' = Issued \cup {o}
          /\ row'[o].icv = n /\ row'[o].previous = PreviousHash
          /\ \A p \in Orders : p # o => row'[p] = row[p]
        BY <1>1, <1>3, AllocateRow
    <2>3. PreviousHash = IF log = <<>> THEN Genesis ELSE log[Len(log)].hash
        BY <1>1, SlotIsEndOfLog
    <2>4. d.invoice = o /\ d.hash = NewHash /\ d.previous = PreviousHash
        OBVIOUS
    <2> HIDE DEF d, o
    <2>5. /\ DOMAIN log' = 1 .. n /\ log'[n] = d
          /\ \A k \in DOMAIN log : log'[k] = log[k]
        BY <1>1, <2>1
    <2>6. \A k \in DOMAIN log : log[k].hash # NewHash
        BY <2>1 DEF FL!Used
    <2>7. \A k \in DOMAIN log' :
             log'[k].previous = IF k = 1 THEN Genesis ELSE log'[k - 1].hash
        <3>1. ASSUME NEW k \in DOMAIN log
              PROVE  log'[k].previous = IF k = 1 THEN Genesis ELSE log'[k - 1].hash
            BY <1>1, <2>5 DEF AuditInv, LogLinked
        <3>2. log'[n].previous = IF n = 1 THEN Genesis ELSE log'[n - 1].hash
            <4>1. log = <<>> <=> n = 1
                BY <1>1
            <4>2. n # 1 => log'[n - 1] = log[Len(log)]
                BY <1>1, <2>5
            <4> QED BY <2>3, <2>4, <2>5, <4>1, <4>2
        <3> QED BY <1>1, <2>5, <3>1, <3>2
    <2>8. \A k, l \in DOMAIN log' : log'[k].hash = log'[l].hash => k = l
        <3>1. \A k \in DOMAIN log' : k \in DOMAIN log \/ k = n
            BY <1>1, <2>5
        <3> QED BY <2>4, <2>5, <2>6, <3>1 DEF AuditInv, LogLinked
    <2>9. \A p \in Issued' : row'[p].previous = log'[row'[p].icv].previous
        BY <1>2, <2>2, <2>4, <2>5 DEF AuditInv, RowsLinked
    <2>10. \A k \in DOMAIN log' : log'[k].invoice \in Issued'
        <3>1. \A k \in DOMAIN log' : k \in DOMAIN log \/ k = n
            BY <1>1, <2>5
        <3> QED BY <2>2, <2>4, <2>5, <3>1 DEF AuditInv, RowsLinked
    <2> QED BY <2>7, <2>8, <2>9, <2>10 DEF LogLinked, RowsLinked
<1>4. ASSUME log' = log, Issued' = Issued,
             \A o \in Issued : /\ row'[o].icv = row[o].icv /\ row'[o].hash = row[o].hash
                               /\ row'[o].previous = row[o].previous
      PROVE  LogLinked' /\ RowsLinked'
    BY <1>4 DEF AuditInv, LogLinked, RowsLinked
<1> QED BY <1>1, <1>3, <1>4, OnlyAllocateIssues

-----------------------------------------------------------------------------
\* A set of places has a first one ...
LEMMA Smallest ==
    ASSUME NEW n \in Nat, NEW A, A \subseteq 1 .. n, A # {}
    PROVE  \E k \in A : \A j \in A : k <= j
<1> DEFINE S == 1 .. n
           B == {1 .. k : k \in A}
<1>1. IsFiniteSet(S)
    BY FS_Interval
<1>2. B \subseteq FiniteSubsetsOf(S) /\ B # {}
    <2>1. B \subseteq SUBSET S
        OBVIOUS
    <2>2. B # {}
        OBVIOUS
    <2> HIDE DEF B, S
    <2> QED BY <1>1, <2>1, <2>2, FS_FiniteSubsetsOfFinite
<1>3. IsWellFoundedOn(StrictSubsetOrdering(S), FiniteSubsetsOf(S))
    <2> HIDE DEF S
    <2> QED BY FS_StrictSubsetOrderingWellFounded
<1>4. PICK T \in B : \A U \in B : <<U, T>> \notin StrictSubsetOrdering(S)
    <2> HIDE DEF B, S
    <2> QED BY <1>2, <1>3, WFMin
<1>5. PICK k \in A : T = 1 .. k
    BY <1>4
<1>6. ASSUME NEW j \in A, j < k PROVE FALSE
    <2>1. 1 .. j \subseteq 1 .. k /\ 1 .. j # 1 .. k /\ 1 .. k \subseteq S
        <3>1. k \in 1 .. k /\ k \notin 1 .. j
            BY <1>6
        <3> QED BY <1>6, <3>1
    <2> QED BY <1>4, <1>5, <2>1 DEF StrictSubsetOrdering
<1> QED BY <1>6

\* ... and a last one.
LEMMA Greatest ==
    ASSUME NEW n \in Nat, NEW A, A \subseteq 1 .. n, A # {}
    PROVE  \E k \in A : \A j \in A : j <= k
<1> DEFINE B == {n + 1 - k : k \in A}
<1>1. B \subseteq 1 .. n /\ B # {}
    OBVIOUS
<1>2. PICK b \in B : \A c \in B : b <= c
    <2> HIDE DEF B
    <2> QED BY <1>1, Smallest
<1>3. PICK k \in A : b = n + 1 - k
    BY <1>2
<1>4. \A j \in A : n + 1 - k <= n + 1 - j
    BY <1>2, <1>3
<1> QED BY <1>3, <1>4

\* The counter values of the rows.
Places == {row[o].icv : o \in Issued}

LEMMA PlacesAreOfTheLog ==
    ASSUME AuditInv
    PROVE  /\ Len(log) \in Nat /\ DOMAIN log = 1 .. Len(log)
           /\ Places \subseteq 1 .. Len(log)
           /\ \A o \in Issued : /\ o \in Orders /\ row[o].icv \in 1 .. Len(log)
                                /\ log[row[o].icv].invoice = o
                                /\ log[row[o].icv].hash = row[o].hash
           /\ \A o, p \in Issued : row[o].icv = row[p].icv => o = p
           /\ log # <<>> => Len(log) \in Places
BY DEF AuditInv, ChainInv, TypeOK, RowsAreLogged, LastIsInItsRow, Places, Issued

\* Invoices that were issued twice are exactly the holes.
LEMMA HolesAreSuperseded ==
    ASSUME AuditInv
    PROVE  (\A o \in Orders : ~Superseded(o)) <=> Places = 1 .. Len(log)
<1>1. ASSUME \A o \in Orders : ~Superseded(o), NEW k \in 1 .. Len(log)
      PROVE  k \in Places
    <2> DEFINE o == log[k].invoice
    <2>1. o \in Issued /\ k \in DOMAIN log
        BY PlacesAreOfTheLog DEF AuditInv, RowsLinked
    <2>2. log[k].hash = row[o].hash
        BY <1>1, <2>1, PlacesAreOfTheLog DEF Superseded
    <2>3. log[row[o].icv].hash = row[o].hash /\ row[o].icv \in DOMAIN log
        BY <2>1, PlacesAreOfTheLog
    <2>4. k = row[o].icv
        BY <2>1, <2>2, <2>3 DEF AuditInv, LogLinked
    <2> QED BY <2>1, <2>4 DEF Places
<1>2. ASSUME Places = 1 .. Len(log), NEW o \in Orders, Superseded(o)
      PROVE  FALSE
    <2>1. PICK k \in DOMAIN log : log[k].invoice = o /\ log[k].hash # row[o].hash
        BY <1>2 DEF Superseded
    <2>2. PICK p \in Issued : k = row[p].icv
        BY <1>2, <2>1, PlacesAreOfTheLog DEF Places
    <2> QED BY <2>1, <2>2, PlacesAreOfTheLog
<1> QED BY <1>1, <1>2, PlacesAreOfTheLog

\* Continuity: the rows up to a counter value are as many as it says exactly when
\* they fill every place up to it.
LEMMA RowsUpTo ==
    ASSUME AuditInv, NEW m \in 1 .. Len(log)
    PROVE  Cardinality({p \in Issued : row[p].icv <= m}) = m <=> 1 .. m \subseteq Places
<1> DEFINE S == {p \in Issued : row[p].icv <= m}
           f == [p \in S |-> row[p].icv]
<1>1. m \in Nat /\ IsFiniteSet(1 .. m) /\ Cardinality(1 .. m) = m
    <2>1. m \in Nat /\ 1 \in Int /\ m \in Int /\ ~(1 > m)
        BY PlacesAreOfTheLog
    <2> QED BY <2>1, FS_Interval
<1>2. f \in [S -> 1 .. m]
    BY PlacesAreOfTheLog
<1>3. f \in Injection(S, 1 .. m)
    BY <1>2, PlacesAreOfTheLog DEF Injection, IsInjective
<1>4. f \in Surjection(S, 1 .. m) <=> 1 .. m \subseteq Places
    <2>1. f \in Surjection(S, 1 .. m) <=> \A k \in 1 .. m : \E p \in S : f[p] = k
        BY <1>2 DEF Surjection
    <2>2. \A p \in S : p \in Issued /\ f[p] = row[p].icv
        OBVIOUS
    <2>3. ASSUME NEW k \in 1 .. m, k \in Places
          PROVE  \E p \in S : f[p] = k
        <3>1. PICK p \in Issued : row[p].icv = k
            BY <2>3 DEF Places
        <3>2. p \in S
            BY <1>1, <3>1
        <3> QED BY <2>2, <3>1, <3>2
    <2> HIDE DEF S, f
    <2>4. ASSUME NEW p \in S PROVE f[p] \in Places
        BY <2>2 DEF Places
    <2> QED BY <2>1, <2>3, <2>4
<1> HIDE DEF f
<1>5. Cardinality(S) = Cardinality(1 .. m) <=> f \in Surjection(S, 1 .. m)
    <2> HIDE DEF S
    <2> QED BY <1>1, <1>3, FS_Injection
<1> QED BY <1>1, <1>4, <1>5

LEMMA GapsAreHoles ==
    ASSUME AuditInv
    PROVE  NoIcvGaps <=> Places = 1 .. Len(log)
<1>1. ASSUME NoIcvGaps PROVE Places = 1 .. Len(log)
    <2>1. CASE log = <<>>
        BY <2>1, PlacesAreOfTheLog
    <2>2. CASE log # <<>>
        <3>1. PICK o \in Issued : row[o].icv = Len(log)
            BY <2>2, PlacesAreOfTheLog DEF Places
        <3>2. Len(log) \in 1 .. Len(log)
            BY <3>1, PlacesAreOfTheLog
        <3>3. Cardinality({p \in Issued : row[p].icv <= Len(log)}) = Len(log)
            BY <1>1, <3>1 DEF NoIcvGaps
        <3> QED BY <3>2, <3>3, RowsUpTo, PlacesAreOfTheLog
    <2> QED BY <2>1, <2>2
<1>2. ASSUME Places = 1 .. Len(log), NEW o \in Issued
      PROVE  row[o].icv = Cardinality({p \in Issued : row[p].icv <= row[o].icv})
    <2>1. row[o].icv \in 1 .. Len(log)
        BY PlacesAreOfTheLog
    <2>2. 1 .. row[o].icv \subseteq Places
        BY <1>2, <2>1, PlacesAreOfTheLog
    <2> QED BY <2>1, <2>2, RowsUpTo
<1> QED BY <1>1, <1>2 DEF NoIcvGaps

\* Linkage.  The document before a row's own is in a row, and then it is the one the
\* audit compares with, ...
LEMMA LinkOfFullPlace ==
    ASSUME AuditInv, NEW o \in Issued, row[o].icv = 1 \/ row[o].icv - 1 \in Places
    PROVE  row[o].previous = HashBefore(o)
<1> DEFINE m == row[o].icv
           before == {p \in Issued : row[p].icv < m}
           last == CHOOSE p \in before : \A q \in before : row[q].icv <= row[p].icv
<1>1. m \in 1 .. Len(log) /\ m \in DOMAIN log
    BY PlacesAreOfTheLog
<1>2. row[o].previous = IF m = 1 THEN Genesis ELSE log[m - 1].hash
    BY <1>1 DEF AuditInv, RowsLinked, LogLinked
<1>3. CASE m = 1
    <2>1. before = {}
        BY <1>3, PlacesAreOfTheLog
    <2> QED BY <1>2, <1>3, <2>1 DEF HashBefore
<1>4. CASE m # 1
    <2>1. PICK p \in Issued : row[p].icv = m - 1
        BY <1>4 DEF Places
    <2>2. p \in before /\ \A q \in before : row[q].icv <= row[p].icv
        BY <1>1, <2>1, PlacesAreOfTheLog
    <2>3. last \in before /\ \A q \in before : row[q].icv <= row[last].icv
        BY <2>2
    <2>4. row[last].icv = m - 1
        <3>1. last \in Issued /\ row[last].icv < m /\ row[p].icv <= row[last].icv
            BY <2>2, <2>3
        <3> HIDE DEF last
        <3> QED BY <1>1, <2>1, <3>1, PlacesAreOfTheLog
    <2>5. log[m - 1].hash = row[last].hash
        BY <2>3, <2>4, PlacesAreOfTheLog
    <2>6. HashBefore(o) = row[last].hash
        BY <2>2 DEF HashBefore
    <2> QED BY <1>2, <1>4, <2>5, <2>6
<1> QED BY <1>3, <1>4

\* There is a last row before o unless there is none at all.
LEMMA LastBefore ==
    ASSUME AuditInv, NEW o \in Issued, {p \in Issued : row[p].icv < row[o].icv} # {}
    PROVE  \E p \in {r \in Issued : row[r].icv < row[o].icv} :
              \A q \in {r \in Issued : row[r].icv < row[o].icv} : row[q].icv <= row[p].icv
<1> DEFINE before == {p \in Issued : row[p].icv < row[o].icv}
           A == {row[p].icv : p \in before}
<1>1. Len(log) \in Nat /\ A \subseteq 1 .. Len(log) /\ A # {}
    BY PlacesAreOfTheLog
<1>2. PICK k \in A : \A j \in A : j <= k
    <2> HIDE DEF A
    <2> QED BY <1>1, Greatest
<1> QED BY <1>2

\* ... or it is overwritten, and no row has its hash.
LEMMA LinkOfHole ==
    ASSUME AuditInv, NEW o \in Issued, row[o].icv # 1, row[o].icv - 1 \notin Places
    PROVE  row[o].previous # HashBefore(o)
<1> DEFINE m == row[o].icv
           before == {p \in Issued : row[p].icv < m}
           last == CHOOSE p \in before : \A q \in before : row[q].icv <= row[p].icv
<1>1. m \in 1 .. Len(log) /\ m \in DOMAIN log /\ m - 1 \in DOMAIN log
    BY PlacesAreOfTheLog
<1>2. row[o].previous = log[m - 1].hash
    BY <1>1 DEF AuditInv, RowsLinked, LogLinked
<1>3. log[m - 1].hash \in Hashes
    <2>1. log[m - 1] \in FL!Document
        BY <1>1 DEF AuditInv, ChainInv, TypeOK
    <2> QED BY <2>1 DEF FL!Document
<1>4. \A p \in Issued : row[p].hash # log[m - 1].hash
    <2>1. ASSUME NEW p \in Issued, row[p].hash = log[m - 1].hash PROVE FALSE
        <3>1. row[p].icv \in DOMAIN log /\ log[row[p].icv].hash = log[m - 1].hash
            BY <2>1, PlacesAreOfTheLog
        <3>2. row[p].icv = m - 1
            BY <1>1, <3>1 DEF AuditInv, LogLinked
        <3> QED BY <3>2 DEF Places
    <2> QED BY <2>1
<1>5. CASE before = {}
    BY <1>2, <1>3, <1>5, ChainAssumption DEF HashBefore
<1>6. CASE before # {}
    <2>1. HashBefore(o) = row[last].hash
        BY <1>6 DEF HashBefore
    <2>2. last \in Issued
        <3>1. PICK p \in before : \A q \in before : row[q].icv <= row[p].icv
            BY <1>6, LastBefore
        <3>2. last \in before
            BY <3>1
        <3> QED BY <3>2
    <2> QED BY <1>2, <1>4, <2>1, <2>2
<1> QED BY <1>5, <1>6

\* The linkage test fails at the first row after a hole, and nowhere else.
LEMMA LinksAreHoles ==
    ASSUME AuditInv
    PROVE  ChainIntact <=> Places = 1 .. Len(log)
<1>1. ASSUME Places = 1 .. Len(log), NEW o \in Issued
      PROVE  row[o].previous = HashBefore(o)
    <2>1. row[o].icv = 1 \/ row[o].icv - 1 \in Places
        BY <1>1, PlacesAreOfTheLog
    <2> QED BY <2>1, LinkOfFullPlace
<1>2. ASSUME ChainIntact, NEW k \in 1 .. Len(log), k \notin Places
      PROVE  FALSE
    <2> DEFINE A == {j \in Places : j > k}
    <2>1. /\ Len(log) \in Nat /\ k \in Nat
          /\ A \subseteq 1 .. Len(log)
        BY PlacesAreOfTheLog
    <2>2. Len(log) \in A
        <3>1. log # <<>>
            BY PlacesAreOfTheLog
        <3>2. Len(log) \in Places
            BY <3>1, PlacesAreOfTheLog
        <3> QED BY <1>2, <2>1, <3>2
    <2>3. PICK m \in A : \A j \in A : m <= j
        <3> HIDE DEF A
        <3> QED BY <2>1, <2>2, Smallest
    <2>4. m - 1 \notin Places /\ m # 1
        <3>1. m \in 1 .. Len(log) /\ m > k
            BY <2>1, <2>3
        <3>2. CASE m - 1 = k
            BY <1>2, <3>1, <3>2
        <3>3. CASE m - 1 # k
            <4>1. m - 1 \notin A /\ m - 1 > k
                BY <2>1, <2>3, <3>1, <3>3
            <4> QED BY <2>1, <3>1, <4>1
        <3> QED BY <3>2, <3>3
    <2>5. PICK o \in Issued : row[o].icv = m
        BY <2>3 DEF Places
    <2>6. row[o].previous # HashBefore(o)
        BY <2>4, <2>5, LinkOfHole
    <2> QED BY <1>2, <2>6 DEF ChainIntact
<1> QED BY <1>1, <1>2, PlacesAreOfTheLog DEF ChainIntact

\* Each of the three tests of the audit is exact.
LEMMA AuditVerdicts ==
    ASSUME AuditInv
    PROVE  AuditVerdictExact
<1>1. ChainVerdictExact /\ GapVerdictExact
    BY HolesAreSuperseded, GapsAreHoles, LinksAreHoles
       DEF ChainVerdictExact, GapVerdictExact
<1>2. ASSUME NEW o \in Orders, row[o] # None, row[o].archived, ~Superseded(o)
      PROVE  stored[o] = row[o].hash
    <2>1. IssuedIn(log, o, stored[o])
        BY <1>2 DEF AuditInv, ArchiveIsOfInvoice
    <2> QED BY <1>2, <2>1 DEF IssuedIn, Superseded
<1> QED BY <1>1, <1>2 DEF AuditVerdictExact, ArchiveIsTheRow

LEMMA InitAudit == Init => AuditInv
<1> SUFFICES ASSUME Init PROVE AuditInv
    OBVIOUS
<1>1. ChainInv /\ ArchiveIsOfInvoice
    BY ChainInit DEF Init, ArchiveIsOfInvoice, At
<1>2. Issued = {} /\ DOMAIN log = {}
    BY DEF Init, Issued, IsIssued
<1>3. LogLinked /\ RowsLinked
    BY <1>2 DEF LogLinked, RowsLinked
<1> QED BY <1>1, <1>3 DEF AuditInv

\* verifyChain tells the truth.  However requests race and die and however often
\* an invoice is issued a second time, the linkage test and the continuity test of
\* the audit each report a broken chain exactly when some invoice was issued twice
\* and its first document overwritten, and an archived invoice that was issued once
\* has its own document in the archive.
THEOREM AuditIsExact == Spec => []AuditVerdictExact
<1>1. AuditInv /\ [Next]_vars => AuditInv'
    BY ChainStep, ArchiveStep, AuditStep DEF AuditInv
<1>2. AuditInv => AuditVerdictExact
    BY AuditVerdicts
<1> QED BY InitAudit, <1>1, <1>2, PTL DEF Spec
==============================================================================
