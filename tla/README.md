# TailorERP in TLA+

TailorERP is a multi-tenant ERP for tailoring shops: a NestJS API over PostgreSQL
(`src/apps/api`), with Redis for queues and caches, object storage for documents, WhatsApp,
Stripe and the Saudi tax authority (ZATCA) as outside services, and four React front ends (back
office, counter and workshop tablet, customers' app, platform console) that reach the rest only
through the API. This directory holds TLA+ models of its core logic and of what the front ends
keep, configurations that check them with TLC on small instances, and theorems about them that
TLAPS proves for instances of every size.

Contents: [the system](#1-the-system), [what is hard about it](#2-what-is-hard),
[the modules](#3-the-modules), [the runs](#4-the-runs), [fairness](#5-fairness),
[the proofs](#6-the-proofs), [what is only model-checked](#7-what-is-only-model-checked),
[where code and documents disagree](#8-where-code-and-documents-disagree),
[what is not modelled](#9-what-is-not-modelled), [the plan](#10-the-plan),
[how to run it](#11-running).

## 1. The system

Every component but the last is a service of the API. All of them run in every API process;
several processes, and within one process several requests, run at the same time. They share state
through the database only, except where a queue or a cache is named. The default isolation level
is READ COMMITTED: a transaction that did not lock a row may see it change, and an `update` by
primary key does not look at what was read before.

| Component (`src/apps/api/src/...`) | State it keeps | Operations that change it | Interacts with | What makes it correct |
|---|---|---|---|---|
| Fabric stock (`inventory/inventory.service.ts`) | `inventory_batches`: metres on the roll, metres promised, status; `inventory_movements` | createBatch, adjustBatch, transfer | reservations and FIFO write the same rows | movements explain the balance; status follows it; promised ≤ physical |
| Reservations (`inventory/reservation.service.ts`, `yield.service.ts`) | `fabric_reservations` | reserve, consumeForOrderItem, releaseForOrder (no caller) | called by checkout, by the workshop at the cut | a roll promises exactly its live holds; an item is cut once |
| FIFO (`inventory/fifo.service.ts`) | rows of the stock | consume | called by OrdersService.create | oldest first; never more than is there |
| Orders (`orders/orders.service.ts`) | `orders` (status, paid amount), history, payments | create, updateStatus, addPayment | publishes events after the commit | statuses follow `ORDER_STATUS_TRANSITIONS`; sums add up |
| Point of sale (`pos/pos.service.ts`) | orders, payments | checkout, settle | holds, ledger, tickets, invoice | an order is all there or not at all; money adds up |
| Workshop (`workshop/workshop.service.ts`) | `workshop_tickets`: station per garment | createTicketsForOrder, assign, moveTicket, checkOrderReady | cuts cloth, moves the order to ready | no ticket passes the cut with its hold; the last one is noticed |
| Ledger (`ledger/ledger.service.ts`, `zatca/zatca-vat.ts`) | journal entries, chart of accounts | postDeposit, postSettlement | inside the transactions of checkout and settle | entries balance; VAT reconciles with the invoice (it does not when a deposit order is paid in instalments: section 8); a deposit is released once |
| Document counters (`common/counter.service.ts`) | `document_counters` | next | inside checkout and invoice transactions | no number twice, no hole |
| Invoices (`invoices/invoices.service.ts`) | `invoices` (one per order), PDFs | createForOrder | issues through ZATCA; called by checkout and by the worker | every invoice is issued; nobody is sent an unissued one |
| ZATCA issuance (`zatca/zatca.service.ts`, `zatca-hash.ts`) | ICV, hash, previous hash; XML archive | issue, verifyChain, submit | advisory lock per tenant; the authority | one gap-free chain per tenant; what is recorded as filed was filed |
| ZATCA onboarding (`zatca/zatca-onboarding.service.ts`) | certificate, key, stage of the organization | compliance CSID, production CSID, renewal, revocation | the authority | certificate and key belong together; only production certificates file |
| Order events and queue (`orders/order-events.publisher.ts`, `notifications/queues.ts`) | BullMQ queue | publishStatusChanged | orders to worker | a committed change is announced |
| Notification worker, WhatsApp, webhook, push (`notifications/...`) | `whatsapp_messages`, push subscriptions | processStatusChange, processInvoice, sendTemplate, receive | five jobs at a time, three attempts each | one message per event; no failed send passes for done; a row says what its last receipt said |
| Reorder alerts (`notifications/reorder-cron.service.ts`, `inventory/alerts.service.ts`) | `inventory_restock_alerts` | checkStore, setAlertStatus | an hourly job of the queue | one open alert per fabric and store; a new one is mailed |
| Sessions and OTP (`auth/token.service.ts`, `otp.service.ts`) | refresh tokens; OTP codes and counters in Redis | issue, rotate, revoke; requestOtp, verifyOtp | the clients' interceptors | a token is spent once; a code opens one session; a lock-out ends |
| Guards (`auth/guards`, `packages/shared/src/permissions.ts`) | none: a function of the caller, the route and the store header | | in front of every route | what a page offers, its route admits |
| Team (`team/team.service.ts`) | users, invitations, roles | invite, acceptInvite, updateRoles, updateStatus | seats of the plan, which may change under it | accounts past the seats are explained; an administrator remains |
| Platform administration (`platform/platform.service.ts`) | organizations, plans, platform admins | createOrganization, changeSubscription, upsertPlan, createPlatformAdmin, updatePlatformAdmin | the feature gate's cache, the row Stripe writes, the limits of seats and stores | a super admin remains (not modelled) |
| Feature gate (`platform/feature-gate.service.ts`) | a copy of a tenant's features in Redis | getFeatures, invalidate | written around by billing and platform | the copy follows the plan; what made it stale ends |
| Billing (`billing/stripe.service.ts`) | `organization_subscriptions`, the tenant's Stripe customer | createCheckoutSession, handleEvent, syncSubscription | Stripe's webhooks, in any order and again | the row follows Stripe's last change of those a sync can write; the payer is the tenant's customer |
| Stores (`stores/stores.service.ts`) | stores and their status | create, update | the plan's limit, which may change | stores past the limit are explained |
| Appointments (`appointments/...`) | appointments | book, updateForCustomer, updateForStaff | measurements of the visit | no two live appointments overlap |
| Measurements, customers (`measurements/`, `customers/`) | versioned profiles, one active | addMeasurement, create, update | workshop reads them per ticket | versions are consecutive, one is active |
| Customer API (`customer-api/`) | none of its own | bookings, cancellations, reads of one's own orders | appointments | a customer sees their own |
| Dashboard, audit, organization, buttons, storage, health | none that others depend on | plain reads and updates | | |
| Front ends (`src/apps/admin`, `pos`, `pwa`, `platform-admin`) | tokens, a snapshot of rights, the chosen store, the cart, figures on the screen | sign-in and refresh, the counter, the tablet's scan and move, the booking page, every page's loads and buttons | the API, whose answers come in any order | what is on the screen belongs together; a press acts once; nobody is thrown out |

## 2. What is hard

No handler of the API retries and few lock. The dangerous patterns, in the order of how often the code has
them:

- *Read, then write unconditionally.* `updateStatus`, `settle`, `addPayment`, `moveTicket`,
  `checkOrderReady`, `issue`, `submit` and the onboarding handlers check a row they read outside the
  transaction that writes it.
- *Several transactions in one request.* Checkout commits the order before the tickets and the
  invoice; moveTicket commits the cut before the station; createForOrder commits the row before
  it is issued. A process that stops in between leaves the rest undone, and nothing repairs it.
- *Lock order.* Two transfers of the same batch code in opposite directions wait for each other.
- *After the commit.* Events, archives and calls to the authority happen outside any
  transaction and may be lost or answered late.
- *Run again.* The queue runs a job again after an error, and again when its process died; what
  the first run did by then is done twice. Stripe sends an event again.
- *Commands, not transactions.* In Redis each command is atomic and a handler issues several:
  a counter without its expiry, a code compared and spent in two steps, a copy written after
  the row it was made of had changed.
- *Answers that come late in a screen.* A page asks, the person goes on, and the answer fills
  whatever is shown by then: figures of another ticket, another customer's profile, the slots
  of another day, rows of another store, the tokens of somebody who signed out.
- *A button pressed twice* before the first answer disables nothing.
- *Rounding.* VAT is inside the prices; parts rounded on their own do not add up to the whole.

`PROJECT.json` lists the hazards, each with its line and the properties that would notice it
going wrong.

## 3. The modules

A module models one component: its rows are the variables, a handler is an action per step
between which other requests can run, and a request in flight is a record of what it has read.
A transaction that takes its locks before it reads is one action. Definitions marked "Fault" are
variants with a plausible bug in them; they are not part of any specification and serve to check
that a property notices the bug.

### FabricStock

Rolls under concurrent requests. `status`, `currentQuantity` and `reservedQuantity` are the columns of
`inventory_batches`; `reservation` is the row of each order item; `movements` is the signed sum of a
roll's movements. `cutting` and `moving` are requests between their unlocked read and their
transaction.

| Action | Code |
|---|---|
| CreateBatch, AdjustBatch | InventoryService.createBatch, adjustBatch |
| Reserve | ReservationService.reserve (with YieldService's `canCutFrom`) |
| FifoConsume, ConsumeExplicit | FifoService.consume, OrdersService.consumeExplicit |
| CutRead, then CutCommit or CutRejected | consumeForOrderItem: the unlocked read of live holds, then the transaction |
| TransferRead, then TransferMerge or TransferRejected, or TransferDeadlock | transfer: source locked, destination read; then the absolute write |

The CHECK constraints of the tables abort a transaction (`RowOK`). Metres are whole, all rolls are of
one fabric. History variables: `cuts` counts how often an item was deducted, `staleMerges` names the
rolls a transfer overwrote from an outdated balance.

### OrderLifecycle

Order status, station of each garment's ticket, and the requests that move them. `hold` is a
garment's cloth reduced to none, reserved or consumed. Checkout commits the order and leaves a request that creates the tickets;
StatusRead, StatusWrite and StatusPublish are the steps of updateStatus (and of a settlement that
delivers); MoveRead, MoveCut and MoveWrite those of moveTicket; CheckTickets, CheckOrder and
MarkReady those of checkOrderReady. RequestDies ends a request at any step; PublishFails loses an event.
`disturbed` remembers the orders on which something died, was lost or was written from an outdated
read: what the code does not protect is an exception that has a name, not a state left out.

### VatSplit and OrderLedger

VatSplit is `splitInclusive` in halalas: the net is rounded half up, the VAT is the rest. OrderLedger is
the money of one order: payments as sums per kind, the journal as the balances of four accounts.
CheckoutDeposit posts the deposit. PaymentRead is what settle or addPayment reads; SettleCommit writes the
absolute sum and posts the settlement entry, SettleAborts is an entry that the journal refuses, a
second posting with the same number, or any other rollback; AddPaymentCommit posts nothing, as in the code. `stale`
remembers a sum written from an outdated read, `closings` counts the settlements that close the order, `instalments` the sum of those that do not
release a deposit. An order that addPayment closes keeps its deposit as a liability; `closings` does not count it, and DepositReleasedOnce says the liability stays.

### FiscalLog and InvoiceChain

FiscalLog is the abstract specification: the documents of a tenant form a log that only grows; each has
its place as counter value and names the hash of the one before. InvoiceChain is the code: `row` is
the invoice of each order, `counter` the document counter, `stored` the XML archive, `request` the
requests and queue jobs under way.

| Action | Code |
|---|---|
| CreateRead, then CreateInsert or CreateConflict | createForOrder: find, then insert under the unique index |
| IssueRead, then Allocate or AllocateFails | issue: the "already issued" check, then the transaction under the advisory lock |
| PutXml, SetXmlUrl, ArchiveFails | the archive, two calls that may fail |
| SendPdf | the worker's processInvoice, which renders the row as it is by then |
| RequestDies | the process stops between two steps |

`log` is the refinement mapping: a history variable with the documents in the order of their commits, kept even
where a later document overwrote the row. The hash is a fresh value, because every document
carries a random UUID. ChainIntact and NoIcvGaps are the two tests of verifyChain.

### ZatcaFiling

The organization's credentials and what is done with them. A certificate is the key it was issued
for and its stage. StartCompliance, StartProduction and StartRenewal read the row and call the
authority; StoreCompliance, StoreProduction and StoreRenewal write the answer without looking again;
Revoke is the local wipe. IssueRead and IssueCommit stamp an invoice with the credentials that were read with
it. SubmitRead, SubmitCall and SubmitRecord are submit: the authority accepts or not, its answer says so, or is
lost, or cannot be read, and the update writes the status and the date. A status below 400 whose body is not JSON counts as an acceptance
(ReadsAsAccepted), as in the client. `overlapped`, `raced`, `lost` and `misread` remember credentials changed by two requests at a time, invoices
submitted twice at a time, attempts without a recorded answer, and refusals taken for acceptances. An invoice is issued here
together with its archive; the steps between the two are InvoiceChain's.

### Messaging

What a customer is told of one order. A job is a status change or the order's invoice, and its record
says where it is (waiting, active, backoff, completed, failed), the step its handler stands at, its tries
and its stalls. `records` are the rows of `whatsapp_messages` a job wrote, with what the model knows of the
message behind each: whether WhatsApp took it, whether the row knows the message's id, and the receipt heard last. `excuse` says why a job was done
with nobody told.

| Action | Code |
|---|---|
| Commit, then PublishStatus, PublishInvoice or PublishFails | OrderEventsPublisher: the hand-over after the commit, one call each, that may fail or die |
| Take, EndBackoff, Crash | BullMQ's worker: five jobs at a time, the delay before the next try, the stalled check after the process died |
| NothingToTell, NoCustomer, MayWhatsapp, NoWhatsapp, ReadFails | processStatusChange and processInvoice up to the choice of the channel |
| CreateRow, Simulate, Send, SendRefused, SendAnswerLost, LookupFails, CreateRowFails | WhatsappService.sendTemplate: the row, the call, the answer |
| RecordSent, RecordFailed and their failures | the update of the row after the call; the answer may lack the message's id, and then no receipt finds the row |
| Push, PushReachesNobody, PushFails | PushService, the fallback of a status change: it reaches a device, or none (not configured, no subscription, every device failed), or throws |
| Stamp, StampFails | `sentViaWhatsappAt` of the invoice |
| Receipt | WhatsappWebhookController: "sent", "delivered", "read", "failed", any number of times, in any order; each is written, whatever the row says |

`slips` counts, per job, the faults after which it may say again what it said; a row is `hit` when
a fault touched it. `MaxIncidents` bounds deaths, failing calls and receipts.

### RestockAlerts

One store's check, step by step (stock, open alert, create, digest), against the staff's
setAlertStatus. DigestLost is the mail that is refused or the check that dies. `reopened` names the
fabrics of which somebody set a resolved alert open.

### Sessions and Otp

Sessions has the token table on one side and browser tabs on the other; `app` says which front end
they run, because three of them share one refresh among their calls and the PWA starts one for
each, and only the back office tells the server of a sign-out. A *line* is a login's refresh token with its replacements.
Login (over an existing session, too), OpenTab (a tab that finds the storage of another), SignOut and HandleLogout, Deactivate, Expire (refresh tokens live
equally long, so they expire in the order of issue); StartRefresh, JoinRefresh,
Granted and Rejected are the interceptors; ReadToken, RevokeToken, IssueToken and LookUpAccount the
steps of a rotation; LoseAnswer the network. Named exceptions: `overlaps` counts the rotations that found
the token unrevoked together, `lossy` the lines that lost an answer, `crossed` those with a refresh under
way while the tab changed hands, `copied` those that two tabs hold, `lapsed` those refused because their token had expired, `parallel` those of a
tab with two refreshes under way, which only the PWA has.

Otp has the three Redis keys of one phone and the handlers between their commands; keys expire
and handlers die between any two. `forgiven` counts the guesses a reset forgave, `raced` the sessions
opened by a handler that was past the comparison when another spent the code, `stranded` a request counter whose
handler died before it set the expiry.

### FeatureGate, Billing, Checkout, Team

One tenant, cut where the parts share one fact.

| Module | State | Steps | Named exceptions |
|---|---|---|---|
| FeatureGate | plan and status, the features of each plan, the copy in Redis | GateMiss, GateRead, GateSet of a reader; WriteSubscription, WriteAgain, UpdateOrganization and Invalidate of a webhook or console; UpsertPlan; CacheExpires; WriterDies | `stale`: a reader overtook a writer, a plan edited under its tenants, a writer died |
| Billing | Stripe's subscriptions, in each of Stripe's statuses, with the number of their last change, events, the tenant's row | StripeChanges, Pay, Receive, Retrieve, Upsert or PassOver (a subscription of no tenant, of no plan or without a period: answered and written nowhere), ChangeSubscription, HandlerEnds | `displaced`: the row was written from an older state than before; `overridden`: the console wrote last; `latest` is the last change that a sync can write |
| Checkout | the tenant's Stripe customer, hosted pages | Ensure, CreateCustomer, StoreCustomer, OpenPage, Subscribe, VisitDies | `replaced`: customers that a second first visit put out of the row |
| Team | accounts, invitations, branches, the limits of the plan | Invite, CreateDirectly, Accept, Join, UpdateRoles, UpdateStatus, CreateStore, UpdateStore, each check apart from its write; ChangePlan, which looks at no account and no store | `crowd` and `extra`: accounts and stores beyond the limit, by a way that does not look at it, by a request checked under another count or plan (Overtaken), or there before a downgrade (TooMany); `farewell`: how the last administrator went |

### Appointments, Counter, Floor

Appointments has the slots of one store with the bookings, moves and cancellations between check and write,
and the booking page that shows the slots of whichever day answered last. SlotFree is assertSlotFree, Offered the
list of AvailabilityService. `excused` names the appointments written past the check (written meanwhile, revived by the
staff, let through by a check that looks at one earlier neighbour); `mispicked` is a slot picked from another
day's list.

Counter is one till: the customer on show, the figures typed, the cart with who was on show when a line was entered (`by`) and when the method of the
deposit was picked (`method`, which only a successful checkout resets), and
the calls under way (opening, saving, yields, checkout), whose answers come in any order. `swapped` is a cart whose
customer was replaced by a late profile, `unanswered` the orders the till was told had failed.

Floor is the workshop tablet: the polled board, the scanned ticket, its figures from a second
request, the move. `raced` is a ticket opened while the figures of another were still on their way.

### Routes and Screens

Routes is data: the permissions of each role, with grants and revokes, and for every route of the controllers the permission it
asks, whether it works in a store, and what a second identical request does: nothing ("same"), nothing unless both are carried out at once ("races"), a
refusal, or the same again. Admits and Verdict are the guards and the services' look-up by
store. Screens is the machine all pages share (sign-in with its snapshot of the rights, switcher, loads, buttons), and each page as a
record: who is offered it, which routes it loads, which buttons it has, to whom they show, what they call, and whether they are disabled
while busy. Overoffers and TwiceTaken name what the pages do get wrong; Unasked lists what each page of the tablet calls for and its tab does not ask (the
till's tab asks use_pos alone, and the till registers, measures and checks out), and LeftShort is a role whose overrides left it without some of that. Tables are joined with Together, since no two have an entry in common.

### The configurations of several components

MCOrders (the floor, the journal and the filing of an order), MCMessaging (messages, alerts, the feature gate), MCSessions
(sessions, one-time codes), MCTenancy (checkout, team, webhook) and MCFrontEnds (counter, bookings, floor, screens) each check several
components that share no state. A behaviour chooses one (`part`, `half`) and runs it, so that their states add up instead of
multiplying; that is why some names carry a prefix (Ledger, Filing, Alerts, Otp, Gate, Appt). MCFabricStock lets a behaviour choose one of two
shops.

### How they compose

The modules cut the system where components share one fact, and each models what it needs of the
other side: OrderLifecycle has a garment's hold as one of three values, whose metres are
FabricStock's; OrderLedger has the status as far as a payment depends on it; InvoiceChain has the
worker as far as it sends an invoice, whose delivery is Messaging's; ZatcaFiling has issuance as far as it stamps;
Messaging begins where OrderLifecycle's events end; Billing's writes of a subscription are FeatureGate's writers; Counter's
checkout is OrderLifecycle's and OrderLedger's; Floor's move is OrderLifecycle's moveTicket as the tablet sees it. Within
a module the parts run together: checkout, cut, sale and transfer on one roll; checkout, status and tickets on one
order; checkout, worker and endpoint on one invoice.

## 4. The runs

Each configuration gives every CONSTANT a value and checks the properties it lists. The type invariants are not
among them: they are parts of the inductive invariants that section 6 proves.

| Run | Instance | What it shows |
|---|---|---|
| Stock | two requests; either two rolls of at most 5 m on one shelf and two items, or the same batch code in two stores, rolls of at most 2 m, one item and two transfers | HoldsExactUnlessRecut, NoPhantomHold: what a roll promises is its live holds unless an item was cut twice, and never more; ProductionKeepsMargin: holds and cuts alone keep a roll's usable margin; MovementsExplainBalance but for a balance that a transfer overwrote from an outdated read; RequestsEnd although transfers deadlock |
| Orders | two requests that may die anywhere, on one order of two garments; on one account of 400 or 230 riyals with six sums and three payments; on one invoice with three key pairs | CutBeforeStitching: no ticket passes the cut with its hold; AllReadyNoticed: the last ready garment is noticed; StatusFollowsTable but for the jump to ready and stale writes; MoneyAddsUp: paid amount is the receipts without a lost race, the deposit leaves the liability once; VatAccountedFor: one settlement reconciles exactly, and in every case the VAT booked is the deposit's, the rest of the order's with each closing and that of every instalment, to a halala per payment; StampsVerify: a stamp matches its certificate unless two requests changed the credentials at once; FilingRecordsTrue: books and authority agree on what is filed, but for lost and unreadable answers and overlapping attempts |
| SilentReady, CancelledCloth | the same with one request | findings: a ready order is announced to nobody; a cancelled one keeps its cloth |
| DoubleVat | the same with one request | finding: with a deposit, an instalment and a closing payment the instalment's VAT is booked twice |
| UnreadAnswer | the same with one request | finding: a refused invoice is recorded as filed |
| InvoiceChain | two orders, two requests, four hashes | IssuesInOneLog: what is issued forms FiscalLog's log; AuditVerdictExact: verifyChain reports exactly the invoices issued twice; CreatedIsIssued unless the request died |
| Messaging | an order's delivery with its invoice, two jobs at once, two tries, one stall, two incidents; two fabrics with two alerts; two workers and two plans at the feature gate | NoticeOnce: once, but for a counted fault; CompletedMeansTold: a job done has told its customer or was done for one of the code's reasons, never because a failed send passed for done; RecordsHonest: a row says its last receipt; JobsEnd; OneOpenAlert; CacheCurrent and StalenessEnds |
| Sessions | two tabs with two calls each, two users, three tokens, three 401s, two incidents, the back office, the tablet or the customers' app (for a tab, the console is the tablet); two OTP handlers, one request and two guesses allowed, two codes | LineUnforked, NotThrownOut, TabActsForItsUser, SignOutEndsLine: each exception is one of the named ones; CodesHold, LockoutEnds |
| Tenancy | three visits; three people and up to three stores, plans of one and of two seats and stores, four writes; two webhook servers, two subscriptions, two changes, one death or change in the console, every status of Stripe | PayerIsKnown; PlanLimitsHold, through changes of the plan; RowFollowsStripe, with subscriptions a sync passes over |
| FrontEnds | one till, two customers, a cart of up to two garments of two types, two orders (the second of a cart of one garment), one measurement elsewhere; one client with two calls on two days; one tablet with two tickets and four taps; two stores, eight people | CartIsTheirs, FiguresAreTheirs, OneOrderPerCart; NoDoubleBooking, BooksTheDayShown; FiguresFitTheTicket; RefusalsExplained, TakesEffectOnce, RowsAnswerToTheirStore |
| StrangersMethod | the same | finding: the method of the deposit picked for one customer goes out with the next one's order |

*Why the bounds are enough.* Rows of different orders, tenants and fabrics share nothing, so one
order (one tenant, one fabric, one phone) has every interaction; the proofs confirm it for any number. Two
requests are what a race takes: each property relates a reader to one writer. Two items make a
hold, a cut and a second cut of the other meet on one roll; two rolls give FIFO a choice and transfers a cycle.
Metres up to 5 (2 between stores) contain an empty roll, one at its minimum and one between. Three payments contain
deposit, part and closing payment, at sums where a split rounds up, down and not at all. An order gets at most one
document per request at work, so four hashes suffice. Three keys are a certificate, its successor and that of
another request. Two incidents are a fault and the one that hits its retry: a lost answer, then a death. Three tokens are a
line's first, its successor and a fork or another login. One request per window and two guesses per code are limits that
the second handler can pass. Three visits leave one customer replaced and one that pays late. Three people are two who remove each other and one
who joins; one more store than the plan allows shows an extra one; two plans are what an upgrade and a downgrade take. Two
changes of Stripe's are what can come out of order. Two stores are the row's and the
header's, and a person with a role in each is refused by one and admitted by the other. Every bound is a CONSTANT
(`Max...`, `Hashes`, `Visits`) and stands in a guard.

*What the exceptions are for.* Where the code promises less than its callers may think, the property holds but for states that a history
variable names (`staleMerges`, `disturbed`, `overlaps`, `stale`, `crowd`, `excused`, ...). The exception is set by the step
that goes wrong and by no other, so the property still says that this is the *only* way.

*Deadlock.* It is checked in InvoiceChain, where a job can always come. Elsewhere the system may stop: every item is
cut, the order is paid, every job has ended, nobody calls again.

*Symmetry* is used where only safety is checked: workers, items, handlers, plans, tabs and customers are never compared or
ordered by the specifications. Stock, InvoiceChain and Messaging, which check liveness, use none.

## 5. Fairness

Clients owe the system nothing: no action that starts a request is fair. What a started request is owed:

- FabricStock: strong fairness of the second half of a cut and of a transfer. It waits for row locks
  that are released and taken again by others, and PostgreSQL serves a lock's queue in order. Weak
  fairness of the deadlock detector, which runs after a time-out whenever a cycle of waits persists.
- InvoiceChain: weak fairness of each request's next step. Handlers run on without waiting for a client; the
  advisory lock is taken within one action and granted in turn. RequestDies is not fair, and CreatedIsIssued
  excuses the invoices whose request died.
- Messaging: weak fairness of Take, of each job's next step and of the end of its backoff. The worker takes jobs as long as one is
  waiting and it has room, every call returns or throws, and BullMQ promotes delayed jobs. Faults are
  not fair and bounded, deaths of the process among them.
- FeatureGate: weak fairness of each worker's next step and of CacheExpires, the TTL that Redis keeps. StalenessEnds says what holds from some point
  on, since writes are bounded.
- The others state safety only and assume no fairness.

## 6. The proofs

The `..._proofs` modules hold theorems for every value of the constants that meets the named
assumptions: bounds are natural numbers, `None` is not a value of the data, each roll has an age that is unique
in its store, each order has a garment, a store closes before its day ends, a ticket was ordered with a version of its
customer's figures, a person has at most one role in each store, and "All stores" is no store. A proof has one step per action; an inductive invariant is a conjunction of named parts.

**Shop_proofs.** What a store works with, in five parts that share nothing.

- *Fabric.* StockInv adds to the types that an absent roll is empty, that a transfer in flight can still be taken from its
  source and still fits its destination (`TransfersValid`), that no two transfers lock one roll, and that a cut works on an existing
  hold. These carry the row invariants through the unlocked read: the source does not change under the lock; the destination
  may, and then `staleMerges` says so. Theorems: StatusMatchesBalance, NoOversell, MovementsMatchBalance. HoldsInv compares the promised metres
  with a *sum* over the live holds, which the model writes as a fold. The induction such a sum calls for is replaced by a minimal counterexample: of the
  sets for which adding one element went wrong, take a smallest; it has an element, and without that one it is smaller. From this
  follow the lemmas that the sum moves by a hold's metres when the hold comes or goes, and on them PromisesAreHolds,
  NoMetresKeptForNobody and ProductionLeavesMinimum.
- *Appointments.* The heart is the lemma CheckSound: looking at the latest-starting earlier neighbour is enough when no two
  appointments overlapped before. ApptInv says that a request past its check was right about everything written before the check, so what
  it writes overlaps only what came meanwhile, and that is `excused`. Theorems: DoubleBookingsExcused, BookingsAreOfTheDay.
- *Counter.* CounterInv is ScreenOwn (figures, cart and requests under way are of one customer's hand, or the cart is `swapped`) and CartNumbers (an
  order carries the number of the cart at hand only when its answer was lost). Theorems: CartsAreTheirs, FiguresOnFile, CartsOrderOnce.
- *Floor.* FloorInv: each answer on its way fits the ticket it was asked for, and a tablet that raced nothing asks for one ticket's. Theorem: FiguresFit.
- *Screens.* First the tables: each page of each front end, button by button, calls only what its guard admits for everybody it is shown to, but for
  Overoffers (PosPagesSound, PlatformPagesSound, PwaPagesSound, AdminPagesSound), where overrides leave the role what the page needs beyond its tab; without
  overrides every role that is shown a page has that (RightsCover). Then the machine: ScreensInv says that the page on the screen is for this person *in the store chosen*, and that
  each load and each call under way carries a store in which it was, however often the switcher moved since. Theorems:
  RefusalsAreExplained, PressesCountOnce, RowsStayInTheirStore.

**OrderLifecycle_proofs.** LifecycleInv says what a request in flight may still rely on (`RequestsValid`) and that
an order whose tickets are all ready is closed, or has a checker under way, or is disturbed (`SomeoneChecks`). The argument
against the race of the last two garments: a mover checks after it has written, so whoever writes last sees all. Theorems:
LifecycleTypes, NoTicketSkipsTheCut, LastReadyTicketNoticed, StatusChangesFollowTable.

**OrderLedger_proofs.** LedgerInv relates paid amount, payments, accounts and closings, and keeps the rounding error
of VAT multiplied out (46 times the VAT against 6 times the sums), so that it stays linear. Theorems: LedgerTypes,
ReceiptsAddUp, DepositLeavesLiabilityOnce, TwoPartPaymentReconciles, JournalRefusals, VatHasItsSources, and what the run checks of them
together, MoneyIsExact and VatIsAccountedFor. VatHasItsSources holds in every case, races included; with a deposit, an instalment and a closing
settlement its sum is more than the VAT of the order, which is the finding DoubleVat.

**InvoiceChain_proofs.** ChainInv says that an issued row is the document at its place in the log and that
the newest document is still in its row: a row is only overwritten by a later document, so the row with the largest
counter value is the end of the log, and what Allocate computes from the rows is the next document.
That is the refinement, OneLog: every step is a step of FiscalLog or a stutter, *even when an invoice is issued twice*, where the rows alone would show a
hole. AuditInv is what verifyChain's verdict rests on: an invoice issued again leaves its first document without a row, and only so does a document lose its row, so
the superseded documents are exactly the holes among the counter values (HolesAreSuperseded). A hole shows as a gap between neighbours
(GapsAreHoles) and as a link that does not match (LinksAreHoles), and nothing else does: AuditIsExact. Further theorems: ChainTypes, ArchiveMatchesRow,
PlainOnlyUnderWay, NumbersWithoutHoles.

**ZatcaFiling_proofs.** StageInv: the stage column is the stage of the certificate beside it, because every handler writes
both. PairInv: while no two requests changed the credentials at the same time, at most one is under way, the row holds a
pair, and a production request works on the row's key. FiledInv: whatever a submission carries is true of the authority or was misread. RememberInv: an
invoice never submitted twice at a time has one submission under way, which knows its date. Theorems: FilingTypes,
ProductionSubmits, StampsAreGood, RecordsAreTrue, DatesAreKept, RecordsAgree.

**Messaging_proofs.** MessagingInv: a job that has not been queued has told nobody (`NotQueuedYet`), the waiting list holds each waiting job once
(`QueueSound`), and each job fits the step it stands at (`JobsFit`): what WhatsApp and push have taken, plus one if the step
is past the fault that will be repeated, is at most one more than its slips, and its last row is as the steps so far have left it. This slack is what
NoticeOnce lacks: at a step between the send and the end of the job, the customer has been told and the job may yet
run again. An excuse is written only by the step that ends the job untold, and a job that reaches no device has tried all that came before. Theorems: MessagingInvariant, NobodyIsToldTwice, CompletedJobsHaveTold, RowsTellTheTruth. AlertsInv adds to OneOpenAlert that a check which found no
open alert is still right when it creates one (nobody else creates, and only a reopened fabric gets one by the staff), and that what is due to be mailed is on the
check's list: FabricHasOneAlert, AlertsAreMailed.

**Sessions_proofs.** SessionsInv is Placed (tokens, tabs, refreshes and marks refer to each other as the lines say), Unforked (the live
tokens of a line *and* the refreshes that have revoked one and not yet issued the next are at most 1 + overlaps), OneFlight (a client that shares
its refresh never has two) and Orderly (on a line that
nothing disturbed, `lapsed` and `parallel` included, there is one refresh under way, and where it stands says which token is live). LineUnforked alone is not
inductive, because a rotation issues without looking. Theorems: SessionsInvariant, SpentTokensOpenNoSecondLine,
SharedRefreshThrowsNobodyOut, TabsActForTheirUsers, SignOutLeavesNoToken. OtpInv counts the guesses that are allowed but not compared
yet (`Waiting`) against the counter, and a request counter without expiry has a handler that will set it: OtpInvariant, CodesHoldAlways, LockoutsEnd.

**Tenancy_proofs.** GateInv: a reader that nobody outdated carries what the tenant is entitled to. BillingInv: a server that applies a subscription
read it whole (`Tidings`), the event of the last change that a sync can write is unanswered or applied (`LatestOnItsWay`), and the row is what the newest applied state makes of it (`RowIsApplied`).
CheckoutInv: customers are counted by visits still to come, and each page's customer is the tenant's or was replaced. TeamInv: a request past its check remembers a count that was
below the limit it read, or the count or the limit has moved since and what it will write is marked as beyond it (`RequestsChecked`); a change of the plan marks what is too many by then. Theorems: FeaturesAreCurrent, RowsFollowStripe, PayersAreKnown, TeamInvariant,
PlansHold, LastAdminsGoByThreeWays.

## 7. What is only model-checked

- Liveness (RequestsEnd, CreatedIsIssued, JobsEnd, StalenessEnds): fairness and ENABLED are outside TLAPS's reach.
- That the instances reach what the properties speak of: each property of a passing run has a variant of the code ("Fault") that
  breaks it there. The proofs say nothing of this.

Every other safety and action property of a passing run is a theorem.

## 8. Where code and documents disagree

These disagreements with a comment, a test or a document of the repository are runs of their own, with a counterexample;
`PROJECT.json` quotes the text.

| Run | Place (`src/apps/...`) | What happens |
|---|---|---|
| SilentReady | `api/src/workshop/workshop.service.ts:254` | the order becomes ready without the event that its comment promises |
| CancelledCloth | `api/src/orders/orders.service.ts:315` | cancelling releases no cloth; releaseForOrder, whose comment says it does, has no caller |
| DoubleVat | `api/src/ledger/ledger.service.ts:223` | the closing settlement of a deposit order books the VAT of earlier instalments a second time, which a test says never happens |
| UnreadAnswer | `api/src/zatca/zatca-api-client.ts:159` | an answer below 400 without a JSON body is taken for an acceptance, and the invoice recorded as filed |
| StrangersMethod | `pos/src/pages/Counter.tsx:146` | a change of customer resets the order but not the method of the deposit |

The others met while modelling are exceptions with a name in the properties that would hold without them:

| Place (`src/apps/...`) | What happens | Named in |
|---|---|---|
| `api/src/inventory/reservation.service.ts:104` | holds are found before the roll is locked and not looked at again: two tablets deduct one garment twice | HoldsExactUnlessRecut |
| `api/src/ledger/ledger.service.ts:220` | without a deposit each part is rounded on its own, and the VAT drifts | VatAccountedFor |
| `api/src/notifications/whatsapp-webhook.controller.ts:74` | receipts are not compared: a late "sent" takes a row back from "read" | RecordsHonest (the last receipt) |
| `api/src/zatca/zatca.service.ts:102` | "already issued" is checked before the lock: an invoice is issued twice and a counter value disappears from the rows | AuditVerdictExact (Superseded) |
| `api/src/auth/token.service.ts:88` | two rotations of one token both succeed | LineUnforked (`overlaps`) |
| `pwa/src/api.ts:49` | the PWA starts one refresh per call: two 401s at once throw the customer out | NotThrownOut (`parallel`) |
| the stores of POS, PWA and console | only the back office's sign-out revokes the token | SignOutEndsLine, of lines that the server was told of |
| `api/src/billing/stripe.service.ts:262` | a price changed in the portal does not change the plan while the subscription carries one in its metadata, although the architecture document says that the portal's changes are synced | RowFollowsStripe (PlanOf) |
| `api/src/workshop/workshop.service.ts:252` | finishing the tickets of a cancelled order makes it ready, and the table of statuses says nothing follows `cancelled` | StatusFollowsTable |
| `api/src/notifications/notification.worker.ts:192` | the PRD asks for push or SMS when WhatsApp fails; the push may reach nobody, there is no SMS, and the job is done | CompletedMeansTold (`excuse`) |
| `api/src/platform/platform.service.ts` upsertPlan | a plan is edited under its tenants and their cached features stay | CacheCurrent (`stale`) |
| `api/src/team/team.service.ts` acceptInvite, `api/src/stores/stores.service.ts` update, `api/src/platform/platform.service.ts:196` | an accepted invitation, an account switched on and a reopened store do not look at the limit, and a smaller plan does not look at them | PlanLimitsHold (`crowd`, `extra`) |
| `api/src/appointments/appointments.service.ts` assertSlotFree | looks at the latest-starting earlier neighbour only, and before the write | NoDoubleBooking (`excused`) |
| `pos/src/pages/Counter.tsx:211` | a profile that comes late replaces the customer of a started cart, which the comment at :138 excludes | CartIsTheirs (`swapped`) |
| several pages; the tablet under overrides | a menu item or button that the guard refuses; tabs that look at two permissions of those their pages use | RefusalsExplained (Overoffers, LeftShort) |
| `api/src/inventory/inventory.controller.ts` transfer | who may transfer in one store takes cloth from any store of the organization: the route looks at permissions of the store named and at no store of the roll | RowsAnswerToTheirStore |
| order payment, batch adjustment, transfer, new store, invitation, charge, assistance, the workshop's move | the button stays enabled, and the second press acts again; the move's cloth is deducted twice when both requests read the ticket first | TakesEffectOnce (TwiceTaken) |

## 9. What is not modelled

Encodings of one document without state (UBL XML, XAdES, TLV, CSR, PDF layout, e-mail templates); the arithmetic of
fabric yield, which its unit tests cover; thin adapters (storage, Redis, Prisma, configuration, health); read-only aggregation (dashboard);
the audit log, which nothing reads back; impersonation, platform administrators, tenant lists and figures of the console; plain updates of one row (organization,
buttons, contact data), of which only routes and pages are modelled; of the front ends layout, texts, forms and printing; seeds and scripts. In the modelled
components: prices, suppliers, the text of orders and items, PDFs and their archive; the chart of accounts is taken to exist;
compliance checks of the onboarding, which read and call and store nothing; the re-seeding of counters, which has no caller.

Two dangers have neither a property nor a place among the hazards. Two checkouts that reserve the same rolls in
opposite order (`pos/pos.service.ts:333`) wait for each other until PostgreSQL ends one, whose cashier presses again:
FabricStock reserves for one garment at a time. An answer of the authority that arrives after a revocation writes
credentials again (`zatca/zatca-onboarding.service.ts:279`): ZatcaFiling has the step and records it in `overlapped`, and the
code says nowhere what it should do instead. Of the hazards listed, three are things that the models let happen but no property
can forbid, because the code promises nothing against them: the lost event, the order without tickets, the last
administrator of a tenant (of the platform's, nothing is modelled).

## 10. The plan

Done, in this order: FabricStock; OrderLifecycle; VatSplit and OrderLedger; FiscalLog and InvoiceChain; ZatcaFiling; Messaging and
RestockAlerts; Sessions and Otp; FeatureGate, Billing, Checkout, Team; Appointments, Counter, Floor, Routes and Screens.

Next, most important first:

1. Composition of OrderLifecycle with FabricStock: its three-valued hold as an abstraction of `reservation`, shown by refinement.
2. Checkouts of several garments that lock their rolls one after the other.

## 11. Running

In this directory, with the TLA+ tools and the community modules on the path:

    tlc -config Stock.cfg MCFabricStock.tla
    tlapm Shop_proofs.tla

`PROJECT.json` names the module and the configuration of each run, the code lines each definition
models, the fault each property notices, the hazards and the theorems.
