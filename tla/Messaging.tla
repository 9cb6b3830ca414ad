------------------------------- MODULE Messaging -------------------------------
(***************************************************************************)
(* What a customer is told about an order: OrderEventsPublisher hands each *)
(* committed status change to the WhatsApp queue, NotificationWorker takes *)
(* the jobs, several at a time, WhatsappService and PushService send, and  *)
(* WhatsappWebhookController records the receipts that come back.          *)
(*                                                                         *)
(* The publisher, the worker and the webhook are one process.  It may die  *)
(* at any moment; the queue, in Redis, then runs its active jobs again.    *)
(* Every call to the database or to WhatsApp may fail, and a call that did *)
(* its work may be reported as failed.  Attempts, stalls and the backoff   *)
(* are BullMQ's, as notifications.module.ts configures them.               *)
(***************************************************************************)
EXTENDS Integers, Sequences, FiniteSets

CONSTANTS
    History,      \* the statuses one order goes through, in commit order
    Concurrency,  \* jobs the worker runs at once: 5
    Attempts,     \* tries of a job that throws: 3
    MaxStalls,    \* how often a job whose worker died runs again: 1
    MaxIncidents  \* bound: deaths of the process, calls that fail and receipts

ASSUME MessagingAssumption ==
    /\ History \in Seq({"pending", "cutting", "sewing", "fitting", "ready",
                        "delivered", "cancelled"})
    /\ Concurrency \in Nat \ {0}
    /\ Attempts \in Nat \ {0}
    /\ MaxStalls \in Nat
    /\ MaxIncidents \in Nat

VARIABLES
    publisher,   \* per status change: where its request stands
    job,         \* per job: its place in the queue and its progress
    waiting,     \* the jobs the worker may take, oldest first
    records,     \* per job: its whatsapp_messages rows
    pushes,      \* per job: rounds of web push that reached a device
    excuse,      \* history, per job: why it ended well and told nobody
    slips,       \* history, per job: deaths and false failures it met
    incidents    \* counted against MaxIncidents

vars == <<publisher, job, waiting, records, pushes, excuse, slips, incidents>>

Changes == 1 .. Len(History)

\* queues.ts: order.status.changed, and invoice.requested for a delivery.
Jobs ==
    {<<"status", n>> : n \in Changes} \cup
        {<<"invoice", n>> : n \in {c \in Changes : History[c] = "delivered"}}

\* STATUS_TEMPLATES: the statuses a customer is told about.
Templates == {"cutting", "sewing", "fitting", "ready", "delivered"}

HasTemplate(j) == j[1] = "invoice" \/ History[j[2]] \in Templates

\* Where a running job stands: reading who to tell, creating the row, calling
\* WhatsApp, recording the answer or the failure, pushing, stamping the invoice.
Step == {"read", "record", "send", "sent", "failed", "push", "stamp"}

Place == {"none", "waiting", "active", "backoff", "completed", "failed"}

\* WaStatusUpdate.status: all four are written to the row.
ReceiptStatus == {"sent", "delivered", "read", "failed"}

\* A row: whether WhatsApp took the message or the send was simulated, and whether
\* the row has WhatsApp's id.  The rest is history: the last receipt that found
\* the row, and whether a fault hit the row.
Record ==
    [status : ReceiptStatus \cup {"queued"}, sent : {"no", "simulated", "taken"}, linked : BOOLEAN,
     heard : ReceiptStatus \cup {"none"}, hit : BOOLEAN]

NewRecord ==
    [status |-> "queued", sent |-> "no", linked |-> FALSE,
     heard |-> "none", hit |-> FALSE]

\* Nobody to tell, no consent or no WhatsApp in the plan for an invoice, or no
\* device that took the push.
Excuse == {"none", "customer", "consent", "devices"}

TypeOK ==
    /\ publisher \in [Changes -> {"ahead", "status", "invoice", "done", "lost"}]
    /\ job \in [Jobs -> [place : Place, step : Step, tries : 0 .. Attempts,
                         stalls : 0 .. MaxStalls]]
    /\ waiting \in Seq(Jobs)
    /\ records \in [Jobs -> Seq(Record)]
    /\ pushes \in [Jobs -> Nat]
    /\ excuse \in [Jobs -> Excuse]
    /\ slips \in [Jobs -> Nat]
    /\ incidents \in 0 .. MaxIncidents

Init ==
    /\ publisher = [n \in Changes |-> "ahead"]
    /\ job = [j \in Jobs |-> [place |-> "none", step |-> "read", tries |-> 0,
                              stalls |-> 0]]
    /\ waiting = <<>>
    /\ records = [j \in Jobs |-> <<>>]
    /\ pushes = [j \in Jobs |-> 0]
    /\ excuse = [j \in Jobs |-> "none"]
    /\ slips = [j \in Jobs |-> 0]
    /\ incidents = 0

Incident == incidents < MaxIncidents /\ incidents' = incidents + 1

Active == {j \in Jobs : job[j].place = "active"}

At(j, step) == j \in Active /\ job[j].step = step
Goto(j, step) == job' = [job EXCEPT ![j].step = step]

Slip(j) == slips' = [slips EXCEPT ![j] = @ + 1]

\* The row of the current attempt.
Row(j) == records[j][Len(records[j])]
WriteRow(j, r) == records' = [records EXCEPT ![j][Len(records[j])] = r]

-----------------------------------------------------------------------------
(* Publishing.  A request has committed its status change before; changes  *)
(* commit in the order of History, their requests go on side by side.      *)

Commit(n) ==
    /\ publisher[n] = "ahead"
    /\ n > 1 => publisher[n - 1] # "ahead"
    /\ publisher' = [publisher EXCEPT ![n] = "status"]
    /\ UNCHANGED <<job, waiting, records, pushes, excuse, slips, incidents>>

Enqueue(j) ==
    /\ job' = [job EXCEPT ![j].place = "waiting"]
    /\ waiting' = Append(waiting, j)

PublishStatus(n) ==
    /\ publisher[n] = "status"
    /\ Enqueue(<<"status", n>>)
    /\ publisher' = [publisher EXCEPT
           ![n] = IF History[n] = "delivered" THEN "invoice" ELSE "done"]
    /\ UNCHANGED <<records, pushes, excuse, slips, incidents>>

PublishInvoice(n) ==
    /\ publisher[n] = "invoice"
    /\ Enqueue(<<"invoice", n>>)
    /\ publisher' = [publisher EXCEPT ![n] = "done"]
    /\ UNCHANGED <<records, pushes, excuse, slips, incidents>>

\* queue.add throws; the error is logged and whatever was left is not queued.
PublishFails(n) ==
    /\ publisher[n] \in {"status", "invoice"}
    /\ publisher' = [publisher EXCEPT ![n] = "lost"]
    /\ Incident
    /\ UNCHANGED <<job, waiting, records, pushes, excuse, slips>>

-----------------------------------------------------------------------------
(* The queue.                                                              *)

\* The worker takes the oldest job while it has a free slot.
Take ==
    /\ waiting # <<>>
    /\ Cardinality(Active) < Concurrency
    /\ job' = [job EXCEPT ![Head(waiting)].place = "active",
                          ![Head(waiting)].step = "read"]
    /\ waiting' = Tail(waiting)
    /\ UNCHANGED <<publisher, records, pushes, excuse, slips, incidents>>

Complete(j) == job' = [job EXCEPT ![j].place = "completed"]

CompleteUntold(j, why) == Complete(j) /\ excuse' = [excuse EXCEPT ![j] = why]

\* Fault: tries are not counted.
Fault_RetryForEver(j) == job' = [job EXCEPT ![j].place = "backoff"]
\* The handler threw: another try after the backoff, if one is left.
Throw(j) ==
    job' = [job EXCEPT
        ![j].place = IF job[j].tries + 1 < Attempts THEN "backoff" ELSE "failed",
        ![j].tries = @ + 1]

EndBackoff(j) ==
    /\ job[j].place = "backoff"
    /\ Enqueue(j)
    /\ UNCHANGED <<publisher, records, pushes, excuse, slips, incidents>>

\* The process dies and comes back: requests that were publishing are gone, and
\* active jobs return to the queue unless they have stalled before.  The order
\* in which they do is the queue's.
Crash ==
    /\ Incident
    /\ publisher' = [n \in Changes |->
           IF publisher[n] \in {"status", "invoice"} THEN "lost" ELSE publisher[n]]
    /\ job' = [j \in Jobs |->
           IF j \notin Active THEN job[j]
           ELSE IF job[j].stalls < MaxStalls
                THEN [job[j] EXCEPT !.place = "waiting", !.stalls = @ + 1]
                ELSE [job[j] EXCEPT !.place = "failed"]]
    /\ LET again == {j \in Active : job[j].stalls < MaxStalls}
       IN \E order \in [1 .. Cardinality(again) -> again] :
              /\ \A j \in again : \E k \in DOMAIN order : order[k] = j
              /\ waiting' = waiting \o order
    /\ slips' = [j \in Jobs |-> IF j \in Active THEN slips[j] + 1 ELSE slips[j]]
    /\ records' = [j \in Jobs |->
           IF j \in Active /\ records[j] # <<>>
           THEN [records[j] EXCEPT ![Len(records[j])].hit = TRUE]
           ELSE records[j]]
    /\ UNCHANGED <<pushes, excuse>>

-----------------------------------------------------------------------------
(* One attempt of a job.                                                   *)

\* processStatusChange or processInvoice up to the send: the customer's consent,
\* the plan's features, the invoice and its PDF.  Consent and plan change at any
\* time, so either answer is possible.
NothingToTell(j) ==
    /\ At(j, "read")
    /\ ~HasTemplate(j)
    /\ Complete(j)
    /\ UNCHANGED <<publisher, waiting, records, pushes, excuse, slips, incidents>>

MayWhatsapp(j) ==
    /\ At(j, "read")
    /\ HasTemplate(j)
    /\ Goto(j, "record")
    /\ UNCHANGED <<publisher, waiting, records, pushes, excuse, slips, incidents>>

NoWhatsapp(j) ==
    /\ At(j, "read")
    /\ HasTemplate(j)
    /\ IF j[1] = "status"
       THEN Goto(j, "push") /\ UNCHANGED excuse
       ELSE CompleteUntold(j, "consent")
    /\ UNCHANGED <<publisher, waiting, records, pushes, slips, incidents>>

\* A status change whose customer is not found tells nobody.
NoCustomer(j) ==
    /\ At(j, "read")
    /\ HasTemplate(j)
    /\ j[1] = "status"
    /\ CompleteUntold(j, "customer")
    /\ UNCHANGED <<publisher, waiting, records, pushes, slips, incidents>>

\* A read, createForOrder or the PDF fails, outside any try.  It may fail every
\* time, so it is not counted as an incident.
ReadFails(j) ==
    /\ At(j, "read")
    /\ HasTemplate(j)
    /\ Throw(j)
    /\ UNCHANGED <<publisher, waiting, records, pushes, excuse, slips, incidents>>

\* sendTemplate and sendDocument start with the row, status queued.
CreateRow(j) ==
    /\ At(j, "record")
    /\ records' = [records EXCEPT ![j] = Append(@, NewRecord)]
    /\ Goto(j, "send")
    /\ UNCHANGED <<publisher, waiting, pushes, excuse, slips, incidents>>

\* Fault: the worker swallows the error of a send.
Fault_NoFallback(j) == Complete(j)
\* An error of the send reaches the worker: it pushes for a status change, and
\* lets an invoice's job fail.
SendThrows(j) == IF j[1] = "status" THEN Goto(j, "push") ELSE Throw(j)

CreateRowFails(j) ==
    /\ At(j, "record")
    /\ SendThrows(j)
    /\ Incident
    /\ UNCHANGED <<publisher, waiting, records, pushes, excuse, slips>>

\* Fault: a send that succeeded falls through to the push.
Fault_PushToo(j) == IF j[1] = "status" THEN Goto(j, "push") ELSE Goto(j, "stamp")
\* What follows a send that succeeded.
AfterSend(j) == IF j[1] = "status" THEN Complete(j) ELSE Goto(j, "stamp")

\* A store without credentials: the send is simulated and the row says sent.
Simulate(j) ==
    /\ At(j, "send")
    /\ WriteRow(j, [Row(j) EXCEPT !.status = "sent", !.sent = "simulated",
                                  !.linked = TRUE])
    /\ AfterSend(j)
    /\ UNCHANGED <<publisher, waiting, pushes, excuse, slips, incidents>>

\* The store's row cannot be read, or the simulated send cannot be recorded:
\* the error leaves sendTemplate past its catch, and the row stays queued.
LookupFails(j) ==
    /\ At(j, "send")
    /\ SendThrows(j)
    /\ WriteRow(j, [Row(j) EXCEPT !.hit = TRUE])
    /\ Incident
    /\ UNCHANGED <<publisher, waiting, pushes, excuse, slips>>

\* WhatsApp takes the message and says so.
Send(j) ==
    /\ At(j, "send")
    /\ WriteRow(j, [Row(j) EXCEPT !.sent = "taken"])
    /\ Goto(j, "sent")
    /\ UNCHANGED <<publisher, waiting, pushes, excuse, slips, incidents>>

\* WhatsApp refuses, or the upload of the document fails.
SendRefused(j) ==
    /\ At(j, "send")
    /\ Goto(j, "failed")
    /\ Incident
    /\ UNCHANGED <<publisher, waiting, records, pushes, excuse, slips>>

\* WhatsApp takes the message and the answer is lost.
SendAnswerLost(j) ==
    /\ At(j, "send")
    /\ WriteRow(j, [Row(j) EXCEPT !.sent = "taken", !.hit = TRUE])
    /\ Goto(j, "failed")
    /\ Slip(j)
    /\ Incident
    /\ UNCHANGED <<publisher, waiting, pushes, excuse>>

\* The row becomes sent and gets WhatsApp's id in one update, if the answer had
\* one: messages?.[0]?.id.  A row without it is found by no receipt.
RecordSent(j) ==
    /\ At(j, "sent")
    /\ \E linked \in BOOLEAN :
          WriteRow(j, [Row(j) EXCEPT !.status = "sent", !.linked = linked])
    /\ AfterSend(j)
    /\ UNCHANGED <<publisher, waiting, pushes, excuse, slips, incidents>>

\* The update is inside the try: when it fails, applied or not, a message that
\* was sent is treated as one that was not.
RecordSentFails(j) ==
    /\ At(j, "sent")
    /\ \E applied, linked \in BOOLEAN :
          WriteRow(j, IF applied
                      THEN [Row(j) EXCEPT !.status = "sent", !.linked = linked,
                                          !.hit = TRUE]
                      ELSE [Row(j) EXCEPT !.hit = TRUE])
    /\ Goto(j, "failed")
    /\ Slip(j)
    /\ Incident
    /\ UNCHANGED <<publisher, waiting, pushes, excuse>>

\* Fault: the catch throws on without a word in the row.
Fault_RowLeftQueued(j) ==
    /\ At(j, "failed")
    /\ SendThrows(j)
    /\ UNCHANGED <<publisher, waiting, records, pushes, excuse, slips, incidents>>
\* The catch writes failed over whatever the row says, and throws on.
RecordFailed(j) ==
    /\ At(j, "failed")
    /\ WriteRow(j, [Row(j) EXCEPT !.status = "failed"])
    /\ SendThrows(j)
    /\ UNCHANGED <<publisher, waiting, pushes, excuse, slips, incidents>>

RecordFailedFails(j) ==
    /\ At(j, "failed")
    /\ WriteRow(j, [Row(j) EXCEPT !.hit = TRUE])
    /\ SendThrows(j)
    /\ Incident
    /\ UNCHANGED <<publisher, waiting, pushes, excuse, slips>>

\* processInvoice's last write, sentViaWhatsappAt.
Stamp(j) ==
    /\ At(j, "stamp")
    /\ Complete(j)
    /\ UNCHANGED <<publisher, waiting, records, pushes, excuse, slips, incidents>>

StampFails(j) ==
    /\ At(j, "stamp")
    /\ Throw(j)
    /\ Slip(j)
    /\ Incident
    /\ UNCHANGED <<publisher, waiting, records, pushes, excuse>>

\* PushService.sendToCustomer: one round over the customer's devices reaches one
\* of them and the job is done.
Push(j) ==
    /\ At(j, "push")
    /\ pushes' = [pushes EXCEPT ![j] = @ + 1]
    /\ Complete(j)
    /\ UNCHANGED <<publisher, waiting, records, excuse, slips, incidents>>

\* Push is not configured, the customer has no device, or none took the message:
\* sendToCustomer returns 0 and the job is done all the same.
PushReachesNobody(j) ==
    /\ At(j, "push")
    /\ CompleteUntold(j, "devices")
    /\ UNCHANGED <<publisher, waiting, records, pushes, slips, incidents>>

\* The devices cannot be read; or one that is gone cannot be marked as such,
\* which fails the round after it reached the others.
PushFails(j) ==
    /\ At(j, "push")
    /\ \E reached \in BOOLEAN :
          IF reached
          THEN /\ pushes' = [pushes EXCEPT ![j] = @ + 1]
               /\ Slip(j)
          ELSE UNCHANGED <<pushes, slips>>
    /\ Throw(j)
    /\ Incident
    /\ UNCHANGED <<publisher, waiting, records, excuse>>

-----------------------------------------------------------------------------
(* The webhook.  WhatsApp reports on a message it took, once or more, in   *)
(* any order; the webhook writes the status of each receipt to the row it  *)
(* finds, and answers 200 whether it found one or not.                     *)

Receipt(j, k, receipt) ==
    /\ Incident
    /\ k \in DOMAIN records[j]
    /\ records[j][k].sent = "taken"
    /\ records[j][k].linked =>
          records' = [records EXCEPT ![j][k].status = receipt, ![j][k].heard = receipt]
    /\ ~records[j][k].linked => UNCHANGED records
    /\ UNCHANGED <<publisher, job, waiting, pushes, excuse, slips>>

-----------------------------------------------------------------------------

Attempt(j) ==
    \/ NothingToTell(j) \/ MayWhatsapp(j) \/ NoWhatsapp(j)
    \/ NoCustomer(j) \/ ReadFails(j)
    \/ CreateRow(j) \/ CreateRowFails(j)
    \/ Simulate(j) \/ LookupFails(j)
    \/ Send(j) \/ SendRefused(j) \/ SendAnswerLost(j)
    \/ RecordSent(j) \/ RecordSentFails(j)
    \/ RecordFailed(j) \/ RecordFailedFails(j)
    \/ Stamp(j) \/ StampFails(j)
    \/ Push(j) \/ PushReachesNobody(j) \/ PushFails(j)

Next ==
    \/ \E n \in Changes :
          Commit(n) \/ PublishStatus(n) \/ PublishInvoice(n) \/ PublishFails(n)
    \/ Take
    \/ Crash
    \/ \E j \in Jobs : EndBackoff(j) \/ Attempt(j)
    \/ \E j \in Jobs : \E k \in DOMAIN records[j] :
          \E receipt \in ReceiptStatus : Receipt(j, k, receipt)

\* The worker keeps taking jobs, a job it runs goes on, a backoff ends.
Fairness ==
    /\ WF_vars(Take)
    /\ \A j \in Jobs : WF_vars(EndBackoff(j)) /\ WF_vars(Attempt(j))

Spec == Init /\ [][Next]_vars /\ Fairness

-----------------------------------------------------------------------------
(* Properties.                                                             *)

Accepted(j) == Cardinality({k \in DOMAIN records[j] : records[j][k].sent # "no"})

\* A job that ended well has told the customer, or says why it could not: no
\* failed send and no retry passes for done.  An invoice is passed over only for
\* want of consent or of WhatsApp in the plan (or of the customer), a status
\* change only when there is no customer, or when the last resort, a whole round
\* of push, was tried and no device took it.
CompletedMeansTold ==
    \A j \in Jobs :
        (job[j].place = "completed" /\ HasTemplate(j)) =>
            \/ Accepted(j) + pushes[j] > 0
            \/ excuse[j] \in IF j[1] = "status" THEN {"customer", "devices"}
                                                ELSE {"consent"}

\* A customer hears of a change once: each further message of a job is explained
\* by a death of the process or by a call that did its work and failed.
NoticeOnce == \A j \in Jobs : Accepted(j) + pushes[j] <= 1 + slips[j]

\* A row that no fault hit tells what became of its message: the last receipt that
\* found it, whatever the worker writes meanwhile, else whether WhatsApp took it.
\* The last receipt, not the furthest: nothing in the webhook compares them, so a
\* "sent" or "delivered" that comes late takes a row back from "read".
RecordsHonest ==
    \A j \in Jobs : \A k \in DOMAIN records[j] :
        LET r == records[j][k]
            settled == k < Len(records[j]) \/ j \notin Active
        IN (settled /\ ~r.hit) =>
               r.status = IF r.heard # "none" THEN r.heard
                          ELSE IF r.sent # "no" THEN "sent" ELSE "failed"

\* Whatever fails, a queued job does not run for ever: it completes, or fails
\* after its attempts.
JobsEnd ==
    \A j \in Jobs :
        (job[j].place = "waiting") ~> (job[j].place \in {"completed", "failed"})
===============================================================================
