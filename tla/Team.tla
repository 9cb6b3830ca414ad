--------------------------------- MODULE Team ----------------------------------
(***************************************************************************)
(* TeamService and StoresService of one tenant: invitations, accounts,     *)
(* rights, branches, and the plan's limits on them, which may change.      *)
(*                                                                         *)
(* A request reads (the guard's look at the actor, the checks) and writes  *)
(* later; other requests run in between.                                   *)
(***************************************************************************)
EXTENDS Integers, Sequences, FiniteSets

CONSTANTS
    People,      \* e-mail addresses
    Founder,     \* the HQ admin that createOrganization has made
    Requests,    \* requests served at the same time
    Limits,      \* subscription_plans: max_users and max_stores of a plan
    MaxInvites,  \* bound: invitations
    MaxBranches, \* bound: stores ever created
    MaxActs      \* bound: requests that write

ASSUME TeamAssumption ==
    /\ Founder \in People
    /\ Limits \subseteq [seats : Nat \ {0}, stores : Nat \ {0}]
    /\ {MaxInvites, MaxBranches, MaxActs} \subseteq Nat \ {0}

VARIABLES
    user,      \* users, by e-mail
    invites,   \* invitations
    branches,  \* stores: open or closed
    limits,    \* those of the tenant's plan
    request,   \* per request: what it has checked and will write
    acts,      \* counted against MaxActs
    crowd,     \* history: accounts past the plan's seats
    extra,     \* history: stores past the plan's stores
    farewell   \* history: how the last HQ admin went

teamVars == <<user, invites, branches, limits, request, acts, crowd, extra, farewell>>

\* "manages": a store role of theirs grants manage_roles, which only hq_admin has
\* by default.
Account == [active : BOOLEAN, hq : BOOLEAN, manages : BOOLEAN]
NoAccount == [active |-> FALSE]

Invitation == [email : People, hq : BOOLEAN, status : {"pending", "accepted"}]

Idle == [op |-> "none"]
\* "counted" and "limit": what the request has checked against each other.
InviteRequest == [op : {"invite", "create"}, email : People, hq : BOOLEAN,
                  counted : Nat, limit : Nat]
AcceptRequest == [op : {"accept"}, invite : 1 .. MaxInvites]
AccountRequest == [op : {"roles", "status"}, actor : People, user : People,
                   to : Account]
StoreRequest == [op : {"store"}, counted : Nat, limit : Nat]

TeamTypeOK ==
    /\ user \in [People -> Account \cup {NoAccount}]
    /\ invites \in Seq(Invitation)
    /\ branches \in Seq({"open", "closed"})
    /\ limits \in Limits
    /\ request \in [Requests -> InviteRequest \cup AcceptRequest \cup AccountRequest
                                    \cup StoreRequest \cup {Idle}]
    /\ acts \in 0 .. MaxActs
    /\ crowd \subseteq People
    /\ extra \subseteq DOMAIN branches
    /\ farewell \in {"none", "own hand", "crossed", "manager"}

TeamInit ==
    /\ user = [p \in People |-> IF p = Founder
                                THEN [active |-> TRUE, hq |-> TRUE, manages |-> FALSE]
                                ELSE NoAccount]
    /\ invites = <<>>
    /\ branches = <<"open">>
    /\ limits \in Limits
    /\ request = [r \in Requests |-> Idle]
    /\ acts = 0
    /\ crowd = {}
    /\ extra = {}
    /\ farewell = "none"

Exists(p) == user[p] # NoAccount
Active == {p \in People : user[p].active}
HqAdmins == {p \in Active : user[p].hq}
Open == {b \in DOMAIN branches : branches[b] = "open"}

\* PermissionsGuard for manage_roles.
MayManage(p) == user[p].active /\ (user[p].hq \/ user[p].manages)

Starts(r, what) ==
    /\ request[r] = Idle
    /\ acts < MaxActs
    /\ acts' = acts + 1
    /\ request' = [request EXCEPT ![r] = what]

Ends(r) == request' = [request EXCEPT ![r] = Idle]

\* At the write: others came in since the count, or the plan has become smaller.
Overtaken(q, number, limit) == number > q.counted \/ limit < q.limit

-----------------------------------------------------------------------------
(* Invitations.                                                            *)

\* Fault: one more than the plan allows.
Fault_OneMore(n, limit) == n <= limit
\* "Your plan allows N": the count is below the limit.
Room(n, limit) == n < limit

\* invite's checks: the rights, the address, the seats that active accounts hold.
\* "create": with a password, createDirectly.
Invite(r, actor, email, hq, op) ==
    /\ MayManage(actor)
    /\ hq => user[actor].hq
    /\ ~Exists(email)
    /\ Room(Cardinality(Active), limits.seats)
    /\ Starts(r, [op |-> op, email |-> email, hq |-> hq,
                  counted |-> Cardinality(Active), limit |-> limits.seats])
    /\ UNCHANGED <<user, invites, branches, limits, crowd, extra, farewell>>

WriteInvitation(r) ==
    /\ request[r].op = "invite"
    /\ Len(invites) < MaxInvites
    /\ invites' = Append(invites, [email |-> request[r].email, hq |-> request[r].hq,
                                   status |-> "pending"])
    /\ Ends(r)
    /\ UNCHANGED <<user, branches, limits, acts, crowd, extra, farewell>>

\* The address is unique: the account is made, or the request fails.
NewAccount(email, hq) ==
    \E manages \in BOOLEAN :
        user' = [user EXCEPT ![email] = [active |-> TRUE, hq |-> hq, manages |-> manages]]

CreateDirectly(r) ==
    /\ request[r].op = "create"
    /\ IF Exists(request[r].email) THEN UNCHANGED <<user, crowd>>
       ELSE /\ NewAccount(request[r].email, request[r].hq)
            /\ crowd' = IF Overtaken(request[r], Cardinality(Active), limits.seats)
                        THEN crowd \cup {request[r].email} ELSE crowd
    /\ Ends(r)
    /\ UNCHANGED <<invites, branches, limits, acts, extra, farewell>>

\* acceptInvite reads the invitation (it may have expired), and does not count seats.
Accept(r, i) ==
    /\ invites[i].status = "pending"
    /\ Starts(r, [op |-> "accept", invite |-> i])
    /\ UNCHANGED <<user, invites, branches, limits, crowd, extra, farewell>>

Join(r) ==
    /\ request[r].op = "accept"
    /\ LET i == request[r].invite
       IN IF Exists(invites[i].email) THEN UNCHANGED <<user, invites, crowd>>
          ELSE /\ NewAccount(invites[i].email, invites[i].hq)
               /\ invites' = [invites EXCEPT ![i].status = "accepted"]
               /\ crowd' = IF Cardinality(Active) >= limits.seats
                           THEN crowd \cup {invites[i].email} ELSE crowd
    /\ Ends(r)
    /\ UNCHANGED <<branches, limits, acts, extra, farewell>>

-----------------------------------------------------------------------------
(* Rights and status.                                                      *)

\* updateRoles: the new rights replace the old ones; only making an HQ admin asks
\* for one.
UpdateRoles(r, actor, p) ==
    /\ MayManage(actor)
    /\ Exists(p)
    /\ \E hq, manages \in BOOLEAN :
          /\ hq /\ ~user[p].hq => user[actor].hq
          /\ Starts(r, [op |-> "roles", actor |-> actor, user |-> p,
                        to |-> [active |-> TRUE, hq |-> hq, manages |-> manages]])
    /\ UNCHANGED <<user, invites, branches, limits, crowd, extra, farewell>>

\* "You cannot change your own active status."
NotOwn(actor, p) == actor # p

UpdateStatus(r, actor, p) ==
    /\ MayManage(actor)
    /\ NotOwn(actor, p)
    /\ Exists(p)
    /\ \E active \in BOOLEAN :
          Starts(r, [op |-> "status", actor |-> actor, user |-> p,
                     to |-> [active |-> active, hq |-> FALSE, manages |-> FALSE]])
    /\ UNCHANGED <<user, invites, branches, limits, crowd, extra, farewell>>

\* How this write takes the last HQ admin away, if it does.
Parting(actor, p, after) ==
    CASE HqAdmins # {p} \/ (after.active /\ after.hq) -> farewell
      [] HqAdmins = {p} /\ actor = p /\ after.active /\ ~after.hq -> "own hand"
      [] HqAdmins = {p} /\ actor # p /\ ~MayManage(actor) -> "crossed"
      [] HqAdmins = {p} /\ actor # p /\ MayManage(actor) -> "manager"
      [] OTHER -> farewell

\* The write, whatever has become of the actor since the guard.
WriteAccount(r) ==
    /\ request[r].op \in {"roles", "status"}
    /\ LET p == request[r].user
           after == IF request[r].op = "roles"
                    THEN [request[r].to EXCEPT !.active = user[p].active]
                    ELSE [user[p] EXCEPT !.active = request[r].to.active]
       IN /\ user' = [user EXCEPT ![p] = after]
          /\ crowd' = IF ~after.active THEN crowd \ {p}
                      ELSE IF ~user[p].active /\ Cardinality(Active) >= limits.seats
                      THEN crowd \cup {p} ELSE crowd
          /\ farewell' = Parting(request[r].actor, p, after)
    /\ Ends(r)
    /\ UNCHANGED <<invites, branches, limits, acts, extra>>

-----------------------------------------------------------------------------
(* Stores.                                                                 *)

\* create: the plan's limit on stores that are not closed.
CreateStore(r) ==
    /\ Room(Cardinality(Open), limits.stores)
    /\ Starts(r, [op |-> "store", counted |-> Cardinality(Open), limit |-> limits.stores])
    /\ UNCHANGED <<user, invites, branches, limits, crowd, extra, farewell>>

WriteStore(r) ==
    /\ request[r].op = "store"
    /\ Len(branches) < MaxBranches
    /\ branches' = Append(branches, "open")
    /\ extra' = IF Overtaken(request[r], Cardinality(Open), limits.stores)
                THEN extra \cup {Len(branches) + 1} ELSE extra
    /\ Ends(r)
    /\ UNCHANGED <<user, invites, limits, acts, crowd, farewell>>

\* update: any status, with no look at the plan.
UpdateStore(b) ==
    /\ acts < MaxActs
    /\ acts' = acts + 1
    /\ branches' = [branches EXCEPT ![b] = IF @ = "open" THEN "closed" ELSE "open"]
    /\ extra' = IF branches[b] = "open" THEN extra \ {b}
                ELSE IF Cardinality(Open) >= limits.stores THEN extra \cup {b} ELSE extra
    /\ UNCHANGED <<user, invites, limits, request, crowd, farewell>>

-----------------------------------------------------------------------------
(* The plan.                                                               *)

\* Which of a set are too many for a limit: none, or as many as leave the limit.
TooMany(S, limit) ==
    {out \in SUBSET S : \/ out = {} /\ Cardinality(S) <= limit
                        \/ Cardinality(S \ out) = limit}

\* changeSubscription, syncSubscription and upsertPlan give the tenant another plan,
\* or its plan other limits, and look at no account and no store.
ChangePlan ==
    /\ acts < MaxActs
    /\ acts' = acts + 1
    /\ limits' \in Limits \ {limits}
    /\ \E out \in TooMany(Active \ crowd, limits'.seats) : crowd' = crowd \cup out
    /\ \E out \in TooMany(Open \ extra, limits'.stores) : extra' = extra \cup out
    /\ UNCHANGED <<user, invites, branches, request, farewell>>

TeamNext ==
    \/ \E r \in Requests :
          \/ \E actor, p \in People :
                \/ \E hq \in BOOLEAN, op \in {"invite", "create"} : Invite(r, actor, p, hq, op)
                \/ UpdateRoles(r, actor, p)
                \/ UpdateStatus(r, actor, p)
          \/ \E i \in DOMAIN invites : Accept(r, i)
          \/ WriteInvitation(r) \/ CreateDirectly(r) \/ Join(r) \/ WriteAccount(r)
          \/ CreateStore(r) \/ WriteStore(r)
    \/ \E b \in DOMAIN branches : UpdateStore(b)
    \/ ChangePlan

TeamSpec == TeamInit /\ [][TeamNext]_teamVars

-----------------------------------------------------------------------------
(* Properties.                                                             *)

SeatsWithinPlan == Cardinality(Active \ crowd) <= limits.seats

StoresWithinPlan == Cardinality(Open \ extra) <= limits.stores

\* The limits of the plan the tenant has now hold.  Past them are only: accounts and
\* stores that were there when the plan became smaller, accounts that an invitation
\* let in or that were switched on again when the seats were taken, stores opened
\* again when there was no room, and what requests bring in that counted the same
\* last place or were checked under a bigger plan.
PlanLimitsHold == SeatsWithinPlan /\ StoresWithinPlan

\* A tenant loses its last HQ admin, whom nobody could appoint again, in three ways
\* only: they gave the role away, two people removed each other at once, or somebody
\* who was granted manage_roles in a store removed them.
LastAdminGoesBy == HqAdmins = {} => farewell # "none"
===============================================================================
