------------------------------ MODULE FabricStock ------------------------------
(***************************************************************************)
(* The fabric rolls of apps/api/src/inventory: rows of inventory_batches,  *)
(* the holds of fabric_reservations and the signed total of each roll's    *)
(* inventory_movements, under concurrent requests.  A movement row stores  *)
(* its metres without a sign (adjustBatch: the absolute delta) between the *)
(* balances before and after; its signed metres are their difference.      *)
(*                                                                         *)
(* Granularity.  A transaction that locks its rows with SELECT ... FOR     *)
(* UPDATE before it reads them is one action.  Two operations read before  *)
(* they lock and are split there: consumeForOrderItem finds the live holds *)
(* without a lock, and transfer reads the destination row without one.     *)
(* A statement that breaks a CHECK of the table aborts its transaction.    *)
(*                                                                         *)
(* Metres are whole units; every roll is of one fabric name.               *)
(***************************************************************************)
EXTENDS Integers, FiniteSets, FiniteSetsExt

CONSTANTS
    Rolls,         \* the (store_id, batch_code) pairs that may hold a row
    Items,         \* order items; each holds cloth of at most one roll
    Workers,       \* requests the API serves at the same time
    StoreOf,       \* the store of a roll
    CodeOf,        \* the batch code of a roll: transfers merge equal codes
    Age,           \* the rank of a roll's purchase date, oldest first
    MinUsable,     \* min_usable_meters
    Quantities,    \* metres a request may name
    MaxMetres,     \* bound: metres on one roll
    MaxTransfers,  \* bound: transfers started in one behaviour
    None           \* no row, no request in flight

ASSUME StockAssumption ==
    /\ StoreOf \in [Rolls -> STRING]
    /\ CodeOf \in [Rolls -> STRING]
    /\ Age \in [Rolls -> Nat]
    /\ \A r, s \in Rolls : Age[r] = Age[s] => r = s \/ StoreOf[r] # StoreOf[s]
    /\ MinUsable \in Nat
    /\ MaxMetres \in Nat
    /\ MaxTransfers \in Nat
    /\ Quantities \subseteq 1 .. MaxMetres

VARIABLES
    status,            \* status of each row, "absent" where there is none
    currentQuantity,   \* metres physically on the roll
    reservedQuantity,  \* metres promised to production orders
    reservation,       \* the fabric_reservations row of each item, or None
    movements,         \* sum of the roll's inventory_movements, + in and - out
    cutting,           \* per worker: the item whose live hold it has read
    moving,            \* per worker: the transfer that holds the source lock
    transfers,         \* transfers started so far (see MaxTransfers)
    cuts,              \* history: times an item's metres left the roll
    staleMerges        \* history: rolls overwritten from an outdated balance

rollVars == <<status, currentQuantity, movements>>
vars == <<status, currentQuantity, reservedQuantity, reservation, movements,
          cutting, moving, transfers, cuts, staleMerges>>

Metres == 0 .. MaxMetres

Reservation ==
    [roll : Rolls, metres : Quantities, status : {"reserved", "consumed"}]

\* What a transfer carries from the locked read to the merge; "seen" is the
\* destination's balance as findUnique returned it, None for no row.
Transfer ==
    [src : Rolls, dst : Rolls, quantity : Quantities, seen : Metres \cup {None}]

ASSUME NoneAssumption ==
    /\ None \notin Items
    /\ None \notin Metres
    /\ None \notin Reservation
    /\ None \notin Transfer

TypeOK ==
    /\ status \in [Rolls -> {"absent", "available", "depleted"}]
    /\ currentQuantity \in [Rolls -> Metres]
    /\ reservedQuantity \in [Rolls -> Metres]
    /\ reservation \in [Items -> Reservation \cup {None}]
    /\ movements \in [Rolls -> Int]
    /\ cutting \in [Workers -> Items \cup {None}]
    /\ moving \in [Workers -> Transfer \cup {None}]
    /\ transfers \in 0 .. MaxTransfers
    /\ cuts \in [Items -> Nat]
    /\ staleMerges \subseteq Rolls

Init ==
    /\ status = [r \in Rolls |-> "absent"]
    /\ currentQuantity = [r \in Rolls |-> 0]
    /\ reservedQuantity = [r \in Rolls |-> 0]
    /\ reservation = [i \in Items |-> None]
    /\ movements = [r \in Rolls |-> 0]
    /\ cutting = [w \in Workers |-> None]
    /\ moving = [w \in Workers |-> None]
    /\ transfers = 0
    /\ cuts = [i \in Items |-> 0]
    /\ staleMerges = {}

-----------------------------------------------------------------------------
(* Rows, locks and checks.                                                 *)

Exists(r) == status[r] # "absent"

\* CHECK (reserved_quantity >= 0 AND reserved_quantity <= current_quantity)
RowOK(current, reserved) == 0 <= reserved /\ reserved <= current

\* A transfer keeps its source row locked until it commits.
Locked(r) == \E w \in Workers : moving[w] # None /\ moving[w].src = r

Idle(w) == cutting[w] = None /\ moving[w] = None

\* The status a write leaves: an empty roll is depleted, another keeps its own.
StatusAfter(old, balance) == IF balance = 0 THEN "depleted" ELSE old

\* Fault: metres promised to other orders are counted as available.
CanCutPhysical(current, reserved, required) == current - required >= MinUsable

\* YieldService.canCutFrom: what remains sellable must stay above the minimum.
CanCutFrom(current, reserved, required) ==
    current - reserved - required >= MinUsable

\* Metres of the live holds on a roll.
LiveHolds(r) ==
    LET live == {i \in Items : /\ reservation[i] # None
                               /\ reservation[i].roll = r
                               /\ reservation[i].status = "reserved"}
    IN MapThenSumSet(LAMBDA i : reservation[i].metres, live)

-----------------------------------------------------------------------------
(* Purchases, checkouts and walk-in sales.                                 *)

\* InventoryService.createBatch: the row and its purchase_in movement.
CreateBatch(r, quantity) ==
    /\ ~Exists(r)
    /\ status' = [status EXCEPT ![r] = "available"]
    /\ currentQuantity' = [currentQuantity EXCEPT ![r] = quantity]
    /\ movements' = [movements EXCEPT ![r] = @ + quantity]
    /\ UNCHANGED <<reservedQuantity, reservation, cutting, moving, transfers,
                   cuts, staleMerges>>

\* ReservationService.reserve, as a checkout calls it for one order item.
Reserve(i, r, metres) ==
    /\ reservation[i] = None
    /\ status[r] = "available"
    /\ ~Locked(r)
    /\ CanCutFrom(currentQuantity[r], reservedQuantity[r], metres)
    /\ reservedQuantity' = [reservedQuantity EXCEPT ![r] = @ + metres]
    /\ reservation' = [reservation EXCEPT ![i] =
            [roll |-> r, metres |-> metres, status |-> "reserved"]]
    /\ UNCHANGED <<status, currentQuantity, movements, cutting, moving,
                   transfers, cuts, staleMerges>>

\* The rows FifoService.consume locks for a store.
FifoShelf(s) ==
    {r \in Rolls : /\ StoreOf[r] = s
                   /\ status[r] = "available"
                   /\ currentQuantity[r] > 0}

\* The metres its loop takes from each roll: the oldest is emptied first.
FifoTake(s, quantity, take) ==
    /\ \A r \in Rolls : take[r] <= currentQuantity[r]
    /\ \A r \in Rolls : take[r] > 0 => r \in FifoShelf(s)
    /\ \A old, new \in FifoShelf(s) :
          Age[old] < Age[new] /\ take[new] > 0 => take[old] = currentQuantity[old]
    /\ MapThenSumSet(LAMBDA r : take[r], Rolls) = quantity

\* A walk-in order takes metres off rolls, whoever they are promised to; only
\* the CHECK stops it.
TakeFromRolls(take) ==
    /\ \A r \in Rolls : RowOK(currentQuantity[r] - take[r], reservedQuantity[r])
    /\ currentQuantity' = [r \in Rolls |-> currentQuantity[r] - take[r]]
    /\ status' = [r \in Rolls |->
            IF take[r] > 0 THEN StatusAfter(status[r], currentQuantity[r] - take[r])
                           ELSE status[r]]
    /\ movements' = [r \in Rolls |-> movements[r] - take[r]]
    /\ UNCHANGED <<reservedQuantity, reservation, cutting, moving, transfers,
                   cuts, staleMerges>>

\* FifoService.consume inside OrdersService.create.
FifoConsume(s, quantity) ==
    /\ \A r \in FifoShelf(s) : ~Locked(r)
    /\ \E take \in [Rolls -> 0 .. quantity] :
          /\ FifoTake(s, quantity, take)
          /\ TakeFromRolls(take)

\* OrdersService.consumeExplicit: the clerk names the roll.
ConsumeExplicit(r, quantity) ==
    /\ status[r] = "available"
    /\ ~Locked(r)
    /\ currentQuantity[r] >= quantity
    /\ TakeFromRolls([x \in Rolls |-> IF x = r THEN quantity ELSE 0])

\* InventoryService.adjustBatch: the status follows from the new balance alone;
\* the sign of the movement is in its two balances.
AdjustBatch(r, delta) ==
    LET newBalance == currentQuantity[r] + delta
    IN /\ Exists(r)
       /\ ~Locked(r)
       /\ newBalance >= 0
       /\ newBalance <= MaxMetres
       /\ RowOK(newBalance, reservedQuantity[r])
       /\ currentQuantity' = [currentQuantity EXCEPT ![r] = newBalance]
       /\ status' = [status EXCEPT ![r] = StatusAfter("available", newBalance)]
       /\ movements' = [movements EXCEPT ![r] = @ + delta]
       /\ UNCHANGED <<reservedQuantity, reservation, cutting, moving, transfers,
                      cuts, staleMerges>>

-----------------------------------------------------------------------------
(* The cut: consumeForOrderItem, one item of one moveTicket request.       *)

\* findMany of the item's live holds, which takes no lock.
CutRead(w, i) ==
    /\ Idle(w)
    /\ reservation[i] # None
    /\ reservation[i].status = "reserved"
    /\ cutting' = [cutting EXCEPT ![w] = i]
    /\ UNCHANGED <<status, currentQuantity, reservedQuantity, reservation,
                   movements, moving, transfers, cuts, staleMerges>>

\* Decimal.max(reserved - metres, 0)
ReservedAfterCut(reserved, metres) ==
    IF reserved > metres THEN reserved - metres ELSE 0

\* Fault: the cut deducts the metres and forgets that they were reserved.
CutKeepingHold(i) ==
    LET r == reservation[i].roll
    IN [current |-> currentQuantity[r] - reservation[i].metres,
        reserved |-> reservedQuantity[r]]

\* Fault: the cut takes the metres off the promise twice.
CutReleasingTwice(i) ==
    LET r == reservation[i].roll
        m == reservation[i].metres
    IN [current |-> currentQuantity[r] - m,
        reserved |-> ReservedAfterCut(ReservedAfterCut(reservedQuantity[r], m), m)]

\* The hold is a row the worker read earlier: its status is not looked at again.
CutBalances(i) ==
    LET r == reservation[i].roll
        m == reservation[i].metres
    IN [current |-> currentQuantity[r] - m,
        reserved |-> ReservedAfterCut(reservedQuantity[r], m)]

\* Lock the roll, deduct, write the movement, mark the hold consumed.
CutCommit(w) ==
    /\ cutting[w] # None
    /\ LET i == cutting[w]
           r == reservation[i].roll
           after == CutBalances(i)
       IN /\ ~Locked(r)
          /\ RowOK(after.current, after.reserved)
          /\ currentQuantity' = [currentQuantity EXCEPT ![r] = after.current]
          /\ reservedQuantity' = [reservedQuantity EXCEPT ![r] = after.reserved]
          /\ status' = [status EXCEPT ![r] = StatusAfter(@, after.current)]
          /\ movements' = [movements EXCEPT ![r] = @ - reservation[i].metres]
          /\ reservation' = [reservation EXCEPT ![i] =
                [roll |-> r, metres |-> reservation[i].metres,
                 status |-> "consumed"]]
          /\ cuts' = [cuts EXCEPT ![i] = @ + 1]
    /\ cutting' = [cutting EXCEPT ![w] = None]
    /\ UNCHANGED <<moving, transfers, staleMerges>>

\* A CHECK of the row fails: the transaction rolls back and moveTicket throws.
CutRejected(w) ==
    /\ cutting[w] # None
    /\ LET after == CutBalances(cutting[w])
       IN /\ ~Locked(reservation[cutting[w]].roll)
          /\ ~RowOK(after.current, after.reserved)
    /\ cutting' = [cutting EXCEPT ![w] = None]
    /\ UNCHANGED <<status, currentQuantity, reservedQuantity, reservation,
                   movements, moving, transfers, cuts, staleMerges>>

-----------------------------------------------------------------------------
(* Transfers between stores.                                               *)

\* Lock and decrement the source, then read the destination without a lock.
\* The decrement is not visible to others before the merge commits.
TransferRead(w, src, dst, quantity) ==
    /\ Idle(w)
    /\ Exists(src)
    /\ ~Locked(src)
    /\ StoreOf[dst] # StoreOf[src]
    /\ CodeOf[dst] = CodeOf[src]
    /\ currentQuantity[src] >= quantity
    /\ RowOK(currentQuantity[src] - quantity, reservedQuantity[src])
    /\ currentQuantity[dst] + quantity <= MaxMetres
    /\ transfers < MaxTransfers
    /\ transfers' = transfers + 1
    /\ moving' = [moving EXCEPT ![w] =
            [src |-> src, dst |-> dst, quantity |-> quantity,
             seen |-> IF Exists(dst) THEN currentQuantity[dst] ELSE None]]
    /\ UNCHANGED <<status, currentQuantity, reservedQuantity, reservation,
                   movements, cutting, cuts, staleMerges>>

\* Fault: the metres sent replace the destination's balance.
ReplacedBalance(t) == t.quantity

\* The destination's balance as the transfer computes it: from what it read.
MergedBalance(t) == (IF t.seen = None THEN 0 ELSE t.seen) + t.quantity

\* The insert needs the row to be absent still; the update finds it present.
MergeAllowed(t) ==
    IF t.seen = None THEN ~Exists(t.dst)
                     ELSE RowOK(MergedBalance(t), reservedQuantity[t.dst])

TransferMerge(w) ==
    /\ moving[w] # None
    /\ LET t == moving[w]
           left == currentQuantity[t.src] - t.quantity
       IN /\ ~Locked(t.dst)
          /\ MergeAllowed(t)
          /\ currentQuantity' = [currentQuantity EXCEPT ![t.src] = left,
                                                        ![t.dst] = MergedBalance(t)]
          /\ status' = [status EXCEPT ![t.src] = StatusAfter(@, left),
                                      ![t.dst] = "available"]
          /\ movements' = [movements EXCEPT ![t.src] = @ - t.quantity,
                                            ![t.dst] = @ + t.quantity]
          /\ staleMerges' = IF t.seen \in {None, currentQuantity[t.dst]}
                            THEN staleMerges
                            ELSE staleMerges \cup {t.dst}
    /\ moving' = [moving EXCEPT ![w] = None]
    /\ UNCHANGED <<reservedQuantity, reservation, cutting, transfers, cuts>>

\* The insert meets a row another request created, or the update breaks the
\* CHECK: the transaction rolls back and the source is unlocked untouched.
TransferRejected(w) ==
    /\ moving[w] # None
    /\ ~Locked(moving[w].dst)
    /\ ~MergeAllowed(moving[w])
    /\ moving' = [moving EXCEPT ![w] = None]
    /\ UNCHANGED <<status, currentQuantity, reservedQuantity, reservation,
                   movements, cutting, transfers, cuts, staleMerges>>

\* w waits for the row that x keeps locked.
WaitsFor(w, x) ==
    moving[w] # None /\ moving[x] # None /\ moving[w].dst = moving[x].src

\* Fault: nobody detects the cycle.
DeadlockUndetected(w) == FALSE

\* PostgreSQL breaks a cycle of waiting transfers by aborting one of them.
TransferDeadlock(w) ==
    /\ \E cycle \in SUBSET Workers :
          /\ w \in cycle
          /\ \A x \in cycle : \E y \in cycle : WaitsFor(x, y)
          /\ \A y \in cycle : \E x \in cycle : WaitsFor(x, y)
    /\ moving' = [moving EXCEPT ![w] = None]
    /\ UNCHANGED <<status, currentQuantity, reservedQuantity, reservation,
                   movements, cutting, transfers, cuts, staleMerges>>

-----------------------------------------------------------------------------

CutStep(w) == CutCommit(w) \/ CutRejected(w)
MergeStep(w) == TransferMerge(w) \/ TransferRejected(w)

Next ==
    \/ \E r \in Rolls, q \in Quantities : CreateBatch(r, q)
    \/ \E i \in Items, r \in Rolls, m \in Quantities : Reserve(i, r, m)
    \/ \E s \in {StoreOf[r] : r \in Rolls}, q \in Quantities : FifoConsume(s, q)
    \/ \E r \in Rolls, q \in Quantities : ConsumeExplicit(r, q)
    \/ \E r \in Rolls, q \in Quantities : AdjustBatch(r, q) \/ AdjustBatch(r, -q)
    \/ \E w \in Workers, i \in Items : CutRead(w, i)
    \/ \E w \in Workers : CutCommit(w)
    \/ \E w \in Workers : CutRejected(w)
    \/ \E w \in Workers, src, dst \in Rolls, q \in Quantities :
          TransferRead(w, src, dst, q)
    \/ \E w \in Workers : TransferMerge(w)
    \/ \E w \in Workers : TransferRejected(w)
    \/ \E w \in Workers : TransferDeadlock(w)

\* A request whose lock wait ends runs on: lock queues are first come, first
\* served, so a waiter that is unblocked again and again gets its turn.
\* Nothing makes a client send a request, so the other actions are not fair.
Fairness ==
    /\ \A w \in Workers : SF_vars(CutStep(w)) /\ SF_vars(MergeStep(w))
    /\ WF_vars(\E w \in Workers : TransferDeadlock(w))

Spec == Init /\ [][Next]_vars /\ Fairness

-----------------------------------------------------------------------------
(* Properties.                                                             *)

\* A roll carries stock exactly while it is on sale: the row says depleted if
\* and only if no metre is left, whatever mix of sales, cuts, adjustments and
\* merges wrote it (each of them computes the status on its own).
DepletedIffEmpty ==
    \A r \in Rolls : Exists(r) => (status[r] = "depleted" <=> currentQuantity[r] = 0)

\* Metres promised never exceed metres on the roll.
ReservedWithinRoll ==
    \A r \in Rolls : RowOK(currentQuantity[r], reservedQuantity[r])

\* An item of the roll was cut twice by racing requests.
Recut(r) ==
    \E i \in Items : reservation[i] # None /\ reservation[i].roll = r /\ cuts[i] > 1

\* reserved_quantity of a roll is the sum of its live holds as long as no item
\* of it was cut twice by racing requests.
HoldsExactUnlessRecut ==
    \A r \in Rolls : ~Recut(r) => reservedQuantity[r] = LiveHolds(r)

\* Even then a roll never promises metres that no live hold stands for.  That a
\* hold itself may stay live for ever, its order cancelled, is OrderLifecycle's
\* CancelReleasesCloth.
NoPhantomHold ==
    \A r \in Rolls : reservedQuantity[r] <= LiveHolds(r)

\* The movements of a roll add up to its balance, unless a transfer merged into
\* the roll from a balance that had changed since it read it.
MovementsExplainBalance ==
    \A r \in Rolls \ staleMerges : movements[r] = currentQuantity[r]

Margin(r) == currentQuantity[r] - reservedQuantity[r]

\* Production alone never eats into the usable margin: a step that makes a hold
\* or cuts a live one leaves a roll that was above its minimum above it.
ProductionKeepsMargin ==
    [][reservation' # reservation =>
          \A r \in Rolls : Margin(r) >= MinUsable /\ ~Recut(r)
                              => Margin(r)' >= MinUsable]_vars

\* Every cut and every transfer ends, in spite of opposite transfers that wait
\* for each other's roll.
RequestsEnd == \A w \in Workers : ~Idle(w) ~> Idle(w)

================================================================================
