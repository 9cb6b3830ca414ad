------------------------------ MODULE Routes ------------------------------
(***************************************************************************)
(* What the API asks of a caller: the permissions of each role, the guard  *)
(* in front of each route, and whether the route looks its row up in the   *)
(* store the X-Store-Id header names ("store"), in the organization of the *)
(* caller ("org") or by its id alone ("id").  A route is a field of a      *)
(* controller's record; "twice" says what a second, identical request does: *)
(*    "reads"    nothing is written                                        *)
(*    "same"     the row already has that value                            *)
(*    "races"    so it is, unless both were read before either was written *)
(*    "refused"  a unique key or a status table turns it away              *)
(*    "again"    it takes effect a second time                             *)
(***************************************************************************)
EXTENDS FiniteSets

CONSTANTS Stores, NoStore, NoRole

ASSUME StoresAreStores == NoStore \notin Stores

\* One table of several that have no entry in common.
Together(tables) ==
  [x \in UNION {DOMAIN t : t \in tables} |->
     (CHOOSE t \in tables : x \in DOMAIN t)[x]]

Levels == {"super_admin", "billing", "support"}

Staff(perms, scope, twice) ==
  [guard |-> "staff", needs |-> perms, scope |-> scope, twice |-> twice]

Platform(levels, twice) ==
  [guard |-> "platform", needs |-> levels, scope |-> "none", twice |-> twice]

Customer(twice) ==
  [guard |-> "customer", needs |-> {}, scope |-> "none", twice |-> twice]

-----------------------------------------------------------------------------
\* The roles.

PERMISSIONS ==
  {"view_dashboard", "view_orders", "create_orders", "manage_orders",
   "update_order_status", "process_payments", "view_customers",
   "manage_customers", "view_measurements", "view_measurement_history",
   "manage_measurements", "view_inventory", "manage_inventory",
   "select_batches", "transfer_inventory", "manage_appointments",
   "manage_roles", "manage_stores", "manage_organization", "use_pos",
   "pos_checkout", "pos_settle", "view_workshop", "manage_workshop"}

ROLE_DEFAULT_PERMISSIONS ==
  [regional_manager |->
     {"view_dashboard", "view_orders", "view_inventory", "view_customers",
      "manage_customers", "view_measurements", "view_measurement_history",
      "view_workshop"},
   store_manager |->
     PERMISSIONS \ {"transfer_inventory", "manage_roles", "manage_stores",
                    "manage_organization"},
   tailor |->
     {"view_orders", "update_order_status", "select_batches",
      "view_measurements", "view_measurement_history", "view_inventory",
      "view_workshop", "manage_workshop"},
   cashier |->
     {"view_orders", "create_orders", "process_payments", "view_customers",
      "manage_customers", "view_measurements", "manage_measurements",
      "view_inventory", "use_pos", "pos_checkout", "pos_settle"}]

\* Grants are added to the role's defaults, then revokes taken away.
computeEffectivePermissions(a) ==
  (ROLE_DEFAULT_PERMISSIONS[a.role] \cup a.grant) \ a.revoke

\* A role in one store, with the person's overrides.
Assignment ==
  [role : DOMAIN ROLE_DEFAULT_PERMISSIONS,
   grant : SUBSET PERMISSIONS, revoke : SUBSET PERMISSIONS]

ASSUME NoRoleIsNone == NoRole \notin Assignment

\* Staff are HQ or have roles in stores; the platform's own people have a
\* level; customers have neither.
Person ==
  [kind : {"staff"}, hq : BOOLEAN,
   roles : [Stores -> Assignment \cup {NoRole}]]
    \cup [kind : {"platform"}, level : Levels]
    \cup [kind : {"customer"}]

\* What a person may do in store s, as the database has it.
RightsIn(who, s) ==
  CASE who.hq -> PERMISSIONS
    [] ~who.hq /\ s \in Stores /\ who.roles[s] # NoRole ->
         computeEffectivePermissions(who.roles[s])
    [] OTHER -> {}

-----------------------------------------------------------------------------
\* The controllers.

InventoryRoutes ==
  [batches_create |-> Staff({"manage_inventory"}, "store", "refused"),
   sellable |-> Staff({"view_inventory"}, "store", "reads"),
   batches_list |-> Staff({"view_inventory"}, "store", "reads"),
   batch |-> Staff({"view_inventory"}, "store", "reads"),
   movements |-> Staff({"view_inventory"}, "store", "reads"),
   adjust |-> Staff({"manage_inventory"}, "store", "again"),
   transfer |-> Staff({"transfer_inventory"}, "org", "again"),
   alerts |-> Staff({"view_inventory"}, "store", "reads"),
   alert_set |-> Staff({"manage_inventory"}, "store", "same"),
   reorder_list |-> Staff({"view_inventory"}, "store", "reads"),
   reorder_set |-> Staff({"manage_inventory"}, "store", "same")]

OrderRoutes ==
  [orders_create |-> Staff({"create_orders"}, "store", "again"),
   orders_list |-> Staff({"view_orders"}, "store", "reads"),
   order |-> Staff({"view_orders"}, "store", "reads"),
   order_status |-> Staff({"update_order_status"}, "store", "refused"),
   payments |-> Staff({"process_payments"}, "store", "again")]

InvoiceRoutes ==
  [invoices_list |-> Staff({"view_orders"}, "store", "reads"),
   invoice_create |-> Staff({"process_payments"}, "id", "same"),
   invoice_download |-> Staff({"view_orders"}, "org", "reads")]

PosRoutes ==
  [pos_customers |-> Staff({"use_pos", "view_customers"}, "org", "reads"),
   pos_profile |-> Staff({"use_pos", "view_customers"}, "org", "reads"),
   pos_yield |-> Staff({"use_pos"}, "id", "reads"),
   pos_orders |-> Staff({"pos_checkout"}, "store", "again"),
   settle |-> Staff({"pos_settle"}, "store", "again")]

\* The mutant: a ticket looked up by its id alone.
Fault_AnyStore == Staff({"manage_workshop"}, "id", "races")

\* moveTicket reads the ticket, deducts the cloth and writes the station in three
\* transactions: two requests at once both find the ticket where it was.
MoveTicket == Staff({"manage_workshop"}, "store", "races")

WorkshopRoutes ==
  [ticket_measurements |->
     Staff({"view_workshop", "view_measurements"}, "store", "reads"),
   board |-> Staff({"view_workshop"}, "store", "reads"),
   by_code |-> Staff({"view_workshop"}, "store", "reads"),
   station |-> MoveTicket]

CustomerRoutes ==
  [customers_list |-> Staff({"view_customers"}, "org", "reads"),
   customer |-> Staff({"view_customers"}, "org", "reads"),
   customers_create |-> Staff({"manage_customers"}, "org", "refused"),
   measurements_active |-> Staff({"view_measurements"}, "org", "reads"),
   measurements_history |->
     Staff({"view_measurement_history"}, "org", "reads"),
   measurements_add |-> Staff({"manage_measurements"}, "org", "again")]

AppointmentRoutes ==
  [appointments_list |-> Staff({"manage_appointments"}, "store", "reads"),
   appointment_set |-> Staff({"manage_appointments"}, "store", "same")]

DashboardRoutes ==
  [dashboard_hq |-> Staff({"view_dashboard"}, "org", "reads"),
   dashboard_store |-> Staff({"view_dashboard"}, "store", "reads")]

LedgerRoutes ==
  [bootstrap |-> Staff({"manage_stores"}, "org", "same"),
   trial_balance |-> Staff({"view_dashboard"}, "org", "reads"),
   statement |-> Staff({"view_dashboard"}, "org", "reads")]

\* GET /stores has no permission, only the sign-in.
StoreRoutes ==
  [stores_list |-> Staff({}, "org", "reads"),
   stores_create |-> Staff({"manage_stores"}, "org", "again"),
   store_set |-> Staff({"manage_stores"}, "org", "same")]

ButtonRoutes ==
  [buttons_list |-> Staff({"use_pos"}, "org", "reads"),
   buttons_create |-> Staff({"manage_organization"}, "org", "refused"),
   button_set |-> Staff({"manage_organization"}, "org", "same")]

TeamRoutes ==
  [users_list |-> Staff({"manage_roles"}, "org", "reads"),
   invite |-> Staff({"manage_roles"}, "org", "again"),
   user_status |-> Staff({"manage_roles"}, "org", "same")]

OrganizationRoutes ==
  [organization |-> Staff({"manage_organization"}, "org", "reads"),
   organization_set |-> Staff({"manage_organization"}, "org", "same")]

ZatcaRoutes ==
  [onboarding |-> Staff({"manage_organization"}, "org", "reads"),
   compliance_csid |-> Staff({"manage_organization"}, "org", "again"),
   compliance_checks |-> Staff({"manage_organization"}, "org", "again"),
   production_csid |-> Staff({"manage_organization"}, "org", "again"),
   renew |-> Staff({"manage_organization"}, "org", "again"),
   revoke |-> Staff({"manage_organization"}, "org", "same")]

BillingRoutes ==
  [plans_offered |-> Staff({"manage_organization"}, "org", "reads"),
   subscription |-> Staff({"manage_organization"}, "org", "reads"),
   checkout |-> Staff({"manage_organization"}, "org", "again"),
   portal |-> Staff({"manage_organization"}, "org", "again"),
   stripe_invoices |-> Staff({"manage_organization"}, "org", "reads"),
   admin_checkout |-> Platform({"super_admin", "billing"}, "again"),
   admin_portal |-> Platform({"super_admin", "billing"}, "again"),
   admin_invoices |-> Platform({"super_admin", "billing"}, "reads")]

PlatformRoutes ==
  [metrics |-> Platform(Levels, "reads"),
   tenants |-> Platform(Levels, "reads"),
   tenant |-> Platform(Levels, "reads"),
   tenants_create |-> Platform({"super_admin"}, "refused"),
   tenant_set |-> Platform({"super_admin"}, "same"),
   plan_change |-> Platform({"super_admin", "billing"}, "same"),
   plans |-> Platform(Levels, "reads"),
   plans_upsert |-> Platform({"super_admin"}, "same"),
   impersonate |-> Platform({"super_admin", "support"}, "again"),
   admins |-> Platform({"super_admin"}, "reads"),
   admins_create |-> Platform({"super_admin"}, "refused"),
   admin_set |-> Platform({"super_admin"}, "same"),
   audit |-> Platform({"super_admin", "support"}, "reads")]

PwaRoutes ==
  [my_orders |-> Customer("reads"), my_order |-> Customer("reads"),
   my_measurements |-> Customer("reads"), my_points |-> Customer("reads"),
   push_key |-> Customer("reads"), devices |-> Customer("same")]

Routes ==
  Together({InventoryRoutes, OrderRoutes, InvoiceRoutes, PosRoutes,
            WorkshopRoutes, CustomerRoutes, AppointmentRoutes,
            DashboardRoutes, LedgerRoutes, StoreRoutes, ButtonRoutes,
            TeamRoutes, OrganizationRoutes, ZatcaRoutes, BillingRoutes,
            PlatformRoutes, PwaRoutes})

-----------------------------------------------------------------------------
\* The guards.

\* PermissionsGuard: HQ may name any store of the organization or none; a
\* store role must name a store it is assigned to and hold every permission.
StaffMay(who, route, header) ==
  /\ who.kind = "staff"
  /\ \/ route.needs = {}
     \/ who.hq
     \/ /\ header \in Stores
        /\ who.roles[header] # NoRole
        /\ route.needs \subseteq RightsIn(who, header)

\* PlatformAdminGuard reads the level from the table on every call;
\* CustomerGuard asks only for a customer's token.
Admits(who, route, header) ==
  CASE route.guard = "staff" -> StaffMay(who, route, header)
    [] route.guard = "platform" ->
         who.kind = "platform" /\ who.level \in route.needs
    [] OTHER -> who.kind = "customer"

\* What becomes of a call: the guard's refusal, a row that is not in the
\* store named, or the answer.  A store's route asked with no store (HQ under
\* "All stores") runs without the store in its where clause.
Verdict(who, r, header, row) ==
  LET route == Routes[r] IN
  CASE ~Admits(who, route, header) -> "forbidden"
    [] Admits(who, route, header) /\ route.scope = "store"
         /\ header = NoStore -> "unscoped"
    [] Admits(who, route, header) /\ route.scope = "store"
         /\ header # NoStore /\ row \notin {NoStore, header} -> "not found"
    [] OTHER -> "done"

=============================================================================
