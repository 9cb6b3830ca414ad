----------------------------- MODULE Screens -----------------------------
(***************************************************************************)
(* One device with one of the four front ends: the back office (admin),    *)
(* the counter and workshop tablet (pos), the customers' app (pwa) and the *)
(* platform console (platform).  Each page is a record: who is offered it, *)
(* which routes it loads, what can be pressed on it and to what the press   *)
(* is sent.  The machine below is what the pages have in common: a snapshot *)
(* of the person's rights taken at sign-in, a store switcher, loads whose   *)
(* late answers are listed all the same, and buttons that may be pressed     *)
(* twice unless the page disables them while a call is under way.          *)
(***************************************************************************)
EXTENDS Routes, Sequences, Naturals

CONSTANTS
  Roster,       \* rights a person may be given
  All,          \* the switcher's "All stores"
  NoPage, NoAnswer,
  MaxChanges    \* bound: changes of rights while the device is in use

ASSUME RosterAssumption == Roster \subseteq Person

ASSUME AllIsNoStore == All \notin Stores \cup {NoStore}

ASSUME MaxChangesIsBound == MaxChanges \in Nat

VARIABLES
  rights,    \* what the database says of the person
  held,      \* what the device remembers of it since sign-in
  app, store,
  screen, subject,  \* the page, and the store of a detail page's row
  listed,     \* the store whose rows are on the screen
  asked,     \* stores named by loads not answered yet
  press,     \* the button pressed last, and its calls not answered yet
  last,      \* what became of the call answered last
  changes

screenVars ==
  <<rights, held, app, store, screen, subject, listed, asked, press, last,
    changes>>

-----------------------------------------------------------------------------
\* What a page is made of.

Screen(application, to, kind, ways, loads, does) ==
  [app |-> application, to |-> to, kind |-> kind, ways |-> ways,
   loads |-> loads, does |-> does]

\* A control: the routes it calls in order, who is listed it, whether it is
\* disabled while under way ("busy") and acts on a row listed ("row").
Act(calls, to, ways) == [calls |-> calls, to |-> to, ways |-> ways]

Nothing == [none |-> Act({}, {"nobody"}, {})]

Listing == {"needs store", "follows store"}

-----------------------------------------------------------------------------
\* The back office.

AdminDashboard ==
  Screen("admin", {}, "plain", {"follows store"}, {"dashboard_store"}, Nothing)

\* Under "All stores" the same page asks for the organization's figures.
HqDashboard ==
  Screen("admin", {"hq"}, "plain", {"follows store"}, {"dashboard_hq"}, Nothing)

AdminOrders ==
  Screen("admin", {}, "list", Listing, {"orders_list"}, Nothing)

AdminOrderDetail ==
  Screen("admin", {}, "detail", {}, {"order"},
       [status |-> Act({"order_status"}, {}, {"busy", "row"}),
        invoice |-> Act({"invoice_create", "invoice_download"}, {},
                        {"busy", "row"}),
        pay |-> Act({"payments"}, {}, {"row"})])

\* The customers and fabrics are asked for before the page finds that no
\* store is chosen.
NewOrder ==
  Screen("admin", {}, "plain", {"follows store"},
       {"customers_list", "batches_list"},
       [place |-> Act({"orders_create"}, {}, {"busy", "store"}),
        pick |-> Act({"batches_list"}, {}, {"store"})])

CustomersPage ==
  Screen("admin", {}, "plain", {"follows store"}, {"customers_list"},
       [create |-> Act({"customers_create"}, {}, {})])

CustomerDetailDrawer ==
  Screen("admin", {}, "plain", {}, {"customer", "measurements_history"},
       Nothing)

Inventory ==
  Screen("admin", {}, "list", Listing, {"batches_list"},
       [purchase |-> Act({"batches_create"}, {}, {"store"}),
        transfer |-> Act({"transfer"}, {"hq"}, {"row"})])

BatchDetail ==
  Screen("admin", {}, "detail", {}, {"batch", "movements"},
       [adjust |-> Act({"adjust"}, {}, {"row"})])

Alerts ==
  Screen("admin", {}, "list", Listing, {"alerts", "reorder_list"},
       [act |-> Act({"alert_set"}, {}, {"row"}),
        threshold |-> Act({"reorder_set"}, {}, {"store"})])

AdminAppointments ==
  Screen("admin", {}, "list", Listing, {"appointments_list"},
       [status |-> Act({"appointment_set"}, {}, {"row"})])

InvoicesList ==
  Screen("admin", {}, "list", Listing, {"invoices_list"},
       [download |-> Act({"invoice_download"}, {}, {"busy", "row"})])

InviteForm == [invite |-> Act({"invite"}, {}, {})]

Team ==
  Screen("admin", {"hq"}, "plain", {}, {"users_list"},
       Together({InviteForm, [toggle |-> Act({"user_status"}, {}, {})]}))

AdminStores ==
  Screen("admin", {"hq"}, "plain", {}, {"stores_list"},
       [create |-> Act({"stores_create"}, {}, {}),
        edit |-> Act({"store_set"}, {}, {})])

AdminBilling ==
  Screen("admin", {"hq"}, "plain", {},
       {"subscription", "plans_offered", "stripe_invoices"},
       [portal |-> Act({"portal"}, {}, {"busy"}),
        subscribe |-> Act({"checkout"}, {}, {"busy"})])

\* The chart of accounts is set up by the page when the balance is empty.
Ledger ==
  Screen("admin", {"hq"}, "plain", {}, {"trial_balance", "bootstrap"},
       [open |-> Act({"statement"}, {}, {})])

AdminButtons ==
  Screen("admin", {"hq"}, "plain", {}, {"buttons_list"},
       [create |-> Act({"buttons_create"}, {}, {"busy"}),
        edit |-> Act({"button_set"}, {}, {"busy"}),
        toggle |-> Act({"button_set"}, {}, {})])

BusinessProfileCard ==
  [save |-> Act({"organization_set"}, {}, {"busy"})]

CsidForm == [enrol |-> Act({"compliance_csid"}, {}, {"busy"})]

OnboardingSteps ==
  [check |-> Act({"compliance_checks"}, {}, {"busy"}),
   produce |-> Act({"production_csid"}, {}, {"busy"}),
   renew |-> Act({"renew"}, {}, {"busy"}),
   revoke |-> Act({"revoke"}, {}, {"busy"})]

Settings ==
  Screen("admin", {"hq"}, "plain", {}, {"organization", "onboarding"},
       Together({BusinessProfileCard, CsidForm, OnboardingSteps}))

-----------------------------------------------------------------------------
\* The counter and the workshop tablet.

PosCounter ==
  Screen("pos", {"use_pos"}, "plain", {},
       {"buttons_list", "pos_customers", "sellable"},
       [preview |-> Act({"pos_yield", "pos_profile"}, {}, {}),
        register |-> Act({"customers_create"}, {}, {}),
        measure |-> Act({"measurements_add"}, {}, {"busy"}),
        checkout |-> Act({"pos_orders"}, {}, {"busy"})])

PosOrders ==
  Screen("pos", {}, "list", {}, {"orders_list"}, Nothing)

PrintCenter == [print |-> Act({"invoice_download"}, {}, {"busy", "row"})]

\* The mutant: a settle button that stays enabled.
Fault_SettleNotBusy ==
  Screen("pos", {}, "detail", {}, {"order"},
       Together({PrintCenter,
                 [settle |-> Act({"settle"}, {"pos_settle"}, {"row"})]}))

PosOrderDetail ==
  Screen("pos", {}, "detail", {}, {"order"},
       Together({PrintCenter,
                 [settle |-> Act({"settle"}, {"pos_settle"}, {"busy", "row"})]}))

Workshop ==
  Screen("pos", {"view_workshop"}, "list", {"polls"}, {"board"},
       [scan |-> Act({"by_code", "ticket_measurements"}, {}, {"row"}),
        move |-> Act({"station"}, {}, {"row"})])

-----------------------------------------------------------------------------
\* The platform console.

PlatformDashboard ==
  Screen("platform", {}, "plain", {}, {"metrics"}, Nothing)

Tenants ==
  Screen("platform", {}, "plain", {}, {"tenants", "plans"},
       [create |-> Act({"tenants_create"}, {}, {})])

TenantDetail ==
  Screen("platform", {}, "plain", {}, {"tenant", "plans"},
       [bills |-> Act({"admin_invoices"}, {"super_admin", "billing"}, {}),
        suspend |-> Act({"tenant_set"}, {"super_admin"}, {}),
        portal |-> Act({"admin_portal"}, {"super_admin", "billing"},
                       {"busy"}),
        assist |-> Act({"impersonate"}, {"super_admin", "support"}, {})])

PlanForms ==
  [charge |-> Act({"admin_checkout"}, {"super_admin", "billing"}, {}),
   plan |-> Act({"plan_change"}, {"super_admin", "billing"}, {})]

Plans ==
  Screen("platform", {}, "plain", {}, {"plans"},
       [save |-> Act({"plans_upsert"}, {}, {})])

Audit == Screen("platform", {}, "plain", {}, {"audit"}, Nothing)

PlatformAdmins ==
  Screen("platform", {"super_admin"}, "plain", {}, {"admins"},
       [create |-> Act({"admins_create"}, {}, {}),
        change |-> Act({"admin_set"}, {}, {})])

-----------------------------------------------------------------------------
\* The customers' app; its booking page is the module Appointments.

MyOrders == Screen("pwa", {}, "plain", {}, {"my_orders"}, Nothing)

PushOptIn == [allow |-> Act({"push_key", "devices"}, {}, {})]

OrderTracking == Screen("pwa", {}, "plain", {}, {"my_order"}, PushOptIn)

Measurements ==
  Screen("pwa", {}, "plain", {}, {"my_measurements", "my_points"}, Nothing)

Profile == Screen("pwa", {}, "plain", {}, {}, Nothing)

-----------------------------------------------------------------------------
AdminPages ==
  [Dashboard |-> AdminDashboard, HqDashboard |-> HqDashboard,
   Orders |-> AdminOrders, OrderDetail |-> AdminOrderDetail,
   NewOrder |-> NewOrder, CustomersPage |-> CustomersPage,
   Drawer |-> CustomerDetailDrawer, Inventory |-> Inventory,
   BatchDetail |-> BatchDetail, Alerts |-> Alerts,
   Appointments |-> AdminAppointments, Invoices |-> InvoicesList,
   Team |-> Team, Stores |-> AdminStores, Billing |-> AdminBilling,
   Ledger |-> Ledger, Buttons |-> AdminButtons, Settings |-> Settings]

PosPages ==
  [Counter |-> PosCounter, PosOrders |-> PosOrders,
   PosOrderDetail |-> PosOrderDetail, Workshop |-> Workshop]

PlatformPages ==
  [Metrics |-> PlatformDashboard, Tenants |-> Tenants,
   TenantDetail |-> [TenantDetail EXCEPT !.does = Together({@, PlanForms})],
   Plans |-> Plans, Audit |-> Audit, Admins |-> PlatformAdmins]

PwaPages ==
  [MyOrders |-> MyOrders, OrderTracking |-> OrderTracking,
   Measurements |-> Measurements, Profile |-> Profile]

Pages == Together({AdminPages, PosPages, PlatformPages, PwaPages})

ASSUME NoPageIsNone == NoPage \notin DOMAIN Pages

\* The page a detail page is opened from.
From == [OrderDetail |-> "Orders", BatchDetail |-> "Inventory",
         PosOrderDetail |-> "PosOrders"]

-----------------------------------------------------------------------------
Selected == store \in Stores

\* The header every call carries: none under "All stores", and none from the
\* console and the customers' app.
Header == IF Selected THEN store ELSE NoStore

\* What the device knows it may offer.  Only the tablet looks at permissions,
\* the back office at hq_admin alone, the console at the admin level.
Tokens(who, a, s) ==
  CASE who.kind = "staff" /\ a = "admin" -> IF who.hq THEN {"hq"} ELSE {}
    [] who.kind = "staff" /\ a = "pos" -> RightsIn(who, s)
    [] who.kind = "platform" -> {who.level}
    [] OTHER -> {}

\* The mutant: the tabs are not looked at.
Fault_EveryTab(to, s) ==
  app = "pos" \/ to = {} \/ to \cap Tokens(held, app, s) # {}

Offers(to, s) == to = {} \/ to \cap Tokens(held, app, s) # {}

\* The tablet sends a page that is not for this person to Orders; the
\* dashboard shows the organization's figures when no store is chosen.
Landing(p, s) ==
  CASE app = "pos" /\ ~Offers(Pages[p].to, s) -> "PosOrders"
    [] p \in {"Dashboard", "HqDashboard"} ->
         IF s = All THEN "HqDashboard" ELSE "Dashboard"
    [] OTHER -> p

Home == [admin |-> "Dashboard", pos |-> "Counter", platform |-> "Metrics",
         pwa |-> "MyOrders"]

Unpressed ==
  [name |-> <<"no page", "none">>, tries |-> 0, calls |-> <<>>, took |-> 0]

\* The page asks for its rows unless it waits for a store to be chosen.
AskFor(p, s) ==
  IF "needs store" \in Pages[p].ways /\ s \notin Stores
  THEN {} ELSE {IF s \in Stores THEN s ELSE NoStore}

ScreensTypeOK ==
  /\ rights \in Roster /\ held \in Roster
  /\ store \in Stores \cup {All, NoStore}
  /\ screen \in DOMAIN Pages \cup {NoPage}
  /\ subject \in Stores \cup {NoStore} /\ listed \in Stores \cup {NoStore}
  /\ asked \subseteq Stores \cup {NoStore}
  /\ press.tries \in 0..2 /\ Len(press.calls) <= 2
  /\ changes \in 0..MaxChanges

ScreensInit ==
  /\ rights \in Roster
  /\ held = rights
  /\ app = "none" /\ store = NoStore /\ screen = NoPage
  /\ subject = NoStore /\ listed = NoStore /\ asked = {}
  /\ press = Unpressed /\ last = NoAnswer /\ changes = 0

-----------------------------------------------------------------------------
\* A page comes up: what the one before was waiting for is forgotten.
ComeUp(p, s, about) ==
  /\ screen' = Landing(p, s)
  /\ subject' = about
  /\ listed' = NoStore
  /\ asked' = AskFor(Landing(p, s), s)

FrontEnds(who) ==
  CASE who.kind = "staff" -> {"admin", "pos"}
    [] who.kind = "platform" -> {"platform"}
    [] OTHER -> {"pwa"}

\* A sign-in brings the rights along; HQ starts on "All stores" in the back
\* office, everybody else in one of the person's stores.
FirstStore(who, a) ==
  CASE who.kind # "staff" -> {NoStore}
    [] who.kind = "staff" /\ who.hq /\ a = "admin" -> {All}
    [] who.kind = "staff" /\ who.hq /\ a = "pos" -> Stores
    [] OTHER -> {s \in Stores : who.roles[s] # NoRole}

SignIn ==
  /\ screen = NoPage
  /\ \E a \in FrontEnds(rights) : \E s \in FirstStore(rights, a) :
       /\ app' = a /\ store' = s
       /\ held' = rights
       /\ screen' = IF a = "pos"
                    /\ Pages.Counter.to \cap Tokens(rights, a, s) = {}
                  THEN "PosOrders"
                  ELSE IF s = All THEN "HqDashboard" ELSE Home[a]
       /\ asked' = AskFor(screen', s)
  /\ subject' = NoStore /\ listed' = NoStore
  /\ last' = NoAnswer
  /\ UNCHANGED <<rights, press, changes>>

SignOut ==
  /\ screen # NoPage /\ press = Unpressed
  /\ app' = "none" /\ store' = NoStore /\ screen' = NoPage
  /\ subject' = NoStore /\ listed' = NoStore /\ asked' = {}
  /\ press' = Unpressed /\ last' = NoAnswer
  /\ UNCHANGED <<rights, held, changes>>

\* Somebody gives the person other rights; the device is not told.
ChangeRights ==
  /\ changes < MaxChanges
  /\ \E r \in Roster : r.kind = rights.kind /\ r # rights /\ rights' = r
  /\ changes' = changes + 1
  /\ last' = NoAnswer
  /\ UNCHANGED <<held, app, store, screen, subject, listed, asked, press>>

\* A menu entry, or a row of a list.  Bound: nobody leaves a page with a call
\* of theirs under way (such a call is carried out as it would have been).
Open ==
  /\ screen # NoPage /\ press = Unpressed
  /\ \E p \in DOMAIN Pages :
       /\ Pages[p].app = app
       /\ p # screen /\ Offers(Pages[p].to, store)
       /\ p \in DOMAIN From => screen = From[p] /\ listed # NoStore
       /\ ComeUp(p, store, IF p \in DOMAIN From THEN listed ELSE NoStore)
  /\ last' = NoAnswer
  /\ UNCHANGED <<rights, held, app, store, press, changes>>

\* The switcher.  Pages that follow it ask again, and keep what they show
\* until the answer is there; the others notice nothing.
SwitchStore ==
  /\ screen # NoPage /\ held.kind = "staff"
  /\ \E s \in IF held.hq THEN Stores \cup (IF app = "admin" THEN {All} ELSE {})
              ELSE {t \in Stores : held.roles[t] # NoRole} :
       /\ s # store
       /\ store' = s
       /\ IF Landing(screen, s) # screen
          THEN ComeUp(screen, s, NoStore)
          ELSE /\ asked' = IF "follows store" \in Pages[screen].ways
                           THEN asked \cup AskFor(screen, s) ELSE asked
               /\ UNCHANGED <<screen, subject, listed>>
  /\ last' = NoAnswer
  /\ UNCHANGED <<rights, held, app, press, changes>>

\* The workshop tablet asks again every 20 seconds.
Poll ==
  /\ screen # NoPage /\ "polls" \in Pages[screen].ways
  /\ asked' = asked \cup AskFor(screen, store)
  /\ last' = NoAnswer
  /\ UNCHANGED <<rights, held, app, store, screen, subject, listed, press,
                 changes>>

Answer(r, c) ==
  [page |-> screen, route |-> r, header |-> c.header, row |-> c.row,
   verdict |-> Verdict(rights, r, c.header, c.row),
   fresh |-> rights = held]

\* The rows arrive, whatever store is chosen by then; a load fails as a
\* whole when one of its routes does.
Loaded ==
  /\ screen # NoPage
  /\ \E h \in asked, r \in Pages[screen].loads :
       LET c == [header |-> h, row |-> subject]
           failed == {q \in Pages[screen].loads :
                        Verdict(rights, q, h, subject)
                          \in {"forbidden", "not found"}}
       IN /\ failed # {} => r \in failed
          /\ last' = Answer(r, c)
          /\ asked' = asked \ {h}
          /\ IF failed # {} \/ Pages[screen].kind = "plain"
             THEN listed' = listed
             ELSE IF Pages[screen].kind = "detail" THEN listed' = subject
             ELSE listed' \in IF h = NoStore THEN Stores ELSE {h}
  /\ UNCHANGED <<rights, held, app, store, screen, subject, press, changes>>

\* A button is pressed, for the first time or impatiently once more.
PressButton ==
  /\ screen # NoPage
  /\ "needs store" \in Pages[screen].ways => Selected
  /\ \E b \in DOMAIN Pages[screen].does :
       LET act == Pages[screen].does[b] IN
       /\ Offers(act.to, store)
       /\ "store" \in act.ways => Selected
       /\ "row" \in act.ways => listed # NoStore
       /\ \/ press = Unpressed
          \/ /\ press.name = <<screen, b>> /\ Len(press.calls) = 1
             /\ press.tries = 1 /\ "busy" \notin act.ways
       /\ press' = [name |-> <<screen, b>>, tries |-> press.tries + 1,
                    calls |-> Append(press.calls,
                      [header |-> Header,
                       row |-> IF "row" \in act.ways THEN listed
                               ELSE NoStore]),
                    took |-> press.took]
  /\ last' = NoAnswer
  /\ UNCHANGED <<rights, held, app, store, screen, subject, listed, asked,
                 changes>>

\* The server answers the older call of the button: one route after another,
\* until one of them is refused.
Served ==
  /\ press.calls # <<>>
  /\ LET act == Pages[press.name[1]].does[press.name[2]]
         c == Head(press.calls)
         says(r) == Verdict(rights, r, c.header, c.row)
         failed == {r \in act.calls : says(r) \in {"forbidden", "not found"}}
         counts == failed = {}
           /\ \E r \in act.calls :
                \/ Routes[r].twice = "again"
                \/ press.took = 0 /\ Routes[r].twice # "reads"
         races == failed = {} /\ \E r \in act.calls : Routes[r].twice = "races"
     IN /\ \E r \in act.calls :
             /\ failed # {} => r \in failed
             /\ last' = [Answer(r, c) EXCEPT !.page = press.name[1]]
        /\ \E took \in {press.took, press.took + 1} :
             /\ took = press.took => ~counts
             /\ took # press.took => counts \/ races
             /\ press' = [press EXCEPT !.calls = Tail(@), !.took = took]
  /\ UNCHANGED <<rights, held, app, store, screen, subject, listed, asked,
                 changes>>

\* The form closes, or the list is read again.
Done ==
  /\ press # Unpressed /\ press.calls = <<>>
  /\ press' = Unpressed /\ last' = NoAnswer
  /\ UNCHANGED <<rights, held, app, store, screen, subject, listed, asked,
                 changes>>

ScreensNext ==
  SignIn \/ SignOut \/ ChangeRights \/ Open \/ SwitchStore \/ Poll
    \/ Loaded \/ PressButton \/ Served \/ Done

ScreensSpec == ScreensInit /\ [][ScreensNext]_screenVars

-----------------------------------------------------------------------------
\* Pages that offer more than the guards allow, by design or oversight: the
\* back office shows the same menu and buttons to every store role, the
\* console lets every level open the audit log, the plans and the form of a
\* new tenant, and the workshop tablet shows "move" to who may only look.
Overoffers ==
  {<<"Tenants", "tenants_create">>, <<"Plans", "plans_upsert">>,
   <<"Audit", "audit">>, <<"Workshop", "station">>}

\* What each page of the tablet calls for beyond the permission that shows it: the
\* tabs look at use_pos and view_workshop alone.
Unasked ==
  [Counter |-> {"view_customers", "view_inventory", "manage_customers",
                "manage_measurements", "pos_checkout"},
   PosOrders |-> {"view_orders"}, PosOrderDetail |-> {"view_orders"},
   Workshop |-> {"view_measurements"}]

\* Overrides of the person's role in store s have left the page short of that.
LeftShort(who, page, s) ==
  /\ who.roles[s].grant \cup who.roles[s].revoke # {}
  /\ ~(Unasked[page] \subseteq RightsIn(who, s))

\* A person on fresh rights is refused by a guard only where a page is known
\* to offer too much, or on the tablet where an override took away, or never gave,
\* what the tab does not look at: no role as it is designed, nothing HQ does and
\* nothing else on the console reads as a broken page.  The code behaviour:
\* "Hiding the tab ... keeps that role boundary from reading as a broken page
\* full of 403 toasts".
RefusalsExplained ==
  last # NoAnswer /\ last.verdict = "forbidden" =>
    \/ ~last.fresh
    \/ /\ held.kind = "staff" /\ ~held.hq
       /\ \/ last.page \in DOMAIN AdminPages
          \/ last.page \in DOMAIN PosPages /\ LeftShort(held, last.page, last.header)
    \/ <<last.page, last.route>> \in Overoffers

\* Buttons that stay enabled and whose second request takes effect again.
TwiceTaken ==
  {<<"OrderDetail", "pay">>, <<"BatchDetail", "adjust">>,
   <<"Inventory", "transfer">>, <<"Stores", "create">>, <<"Team", "invite">>,
   <<"TenantDetail", "charge">>, <<"TenantDetail", "assist">>,
   <<"Workshop", "move">>}

\* An impatient second press does nothing that the first did not, but for the
\* buttons named above: every other one is disabled while its call is under
\* way, or its route takes the second request for the first even when both are
\* carried out at once.  "Move" is named: its cloth leaves the roll twice.
TakesEffectOnce == press.took > 1 => press.name \in TwiceTaken

\* A store role's call that is carried out on a row a page showed is about a
\* row of the store whose permissions were checked, although lists stay on
\* the screen after the switcher moved and late answers replace newer ones:
\* only the invoice routes look no store up, and the transfer, which takes
\* from any store of the organization.  And a store's route is asked without
\* a store (HQ under "All stores", where the query runs over every store)
\* only by the pages that do not wait for one to be chosen.
RowsAnswerToTheirStore ==
  last # NoAnswer =>
    /\ last.verdict = "done" /\ last.row # NoStore /\ rights.kind = "staff"
         /\ ~rights.hq =>
           \/ last.header = last.row
           \/ last.route \in DOMAIN InvoiceRoutes \cup {"transfer"}
    /\ last.verdict = "unscoped" =>
         last.page \in {"NewOrder", "OrderDetail", "BatchDetail"}

=============================================================================
