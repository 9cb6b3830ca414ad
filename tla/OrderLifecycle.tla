---------------------------- MODULE OrderLifecycle ----------------------------
(***************************************************************************)
(* Orders and their production tickets: OrdersService.updateStatus and     *)
(* create, the delivery at PosService.settle, PosService.checkout's        *)
(* tickets, and WorkshopService.moveTicket with checkOrderReady.           *)
(*                                                                         *)
(* Every handler reads the row it is about to change outside the           *)
(* transaction that writes it, and writes unconditionally.  A request is   *)
(* therefore a record of what it has read and of the step that comes next, *)
(* and other requests run between any two steps.  A request may die        *)
(* between steps (the process stops or the database is lost).              *)
(*                                                                         *)
(* Metres are FabricStock's subject: here a garment's hold is reserved     *)
(* until it is consumed.                                                   *)
(***************************************************************************)
EXTENDS Integers, FiniteSets

CONSTANTS
    Orders,
    Items,      \* the garments; each has one ticket
    OrderOf,    \* the order of a garment
    Workers,    \* requests the API serves at the same time
    None        \* no request

ASSUME LifecycleAssumption ==
    /\ OrderOf \in [Items -> Orders]
    /\ \A o \in Orders : \E i \in Items : OrderOf[i] = o

VARIABLES
    status,      \* order status, "absent" before the order exists
    station,     \* station of each garment's ticket, "none" without a ticket
    hold,        \* "none", "reserved" or "consumed" cloth of each garment
    request,     \* per worker: the request in flight
    announced,   \* orders whose "ready" event was handed to the queue
    disturbed    \* history: orders a request died on, lost an event of, or wrote
                 \* a stale status to

vars == <<status, station, hold, request, announced, disturbed>>

OrderStatus == {"pending", "cutting", "sewing", "fitting", "ready",
                "delivered", "cancelled"}

\* packages/shared: ORDER_STATUS_TRANSITIONS
Successors ==
    [pending   |-> {"cutting", "cancelled"},
     cutting   |-> {"sewing", "cancelled"},
     sewing    |-> {"fitting", "cancelled"},
     fitting   |-> {"ready", "sewing", "cancelled"},
     ready     |-> {"delivered", "cancelled"},
     delivered |-> {},
     cancelled |-> {}]

CanTransition(from, to) == to \in Successors[from]

Station == {"queued", "cutting", "stitching", "quality", "ready"}

\* STATION_ORDER.indexOf
StationIndex ==
    [queued |-> 0, cutting |-> 1, stitching |-> 2, quality |-> 3, ready |-> 4]

\* checkout's transaction has committed; the tickets are next.
TicketsRequest == [op : {"tickets"}, order : Orders]

\* updateStatus, or a settlement that delivers; "seen" is the status it read.
StatusRequest ==
    [op : {"status"}, order : Orders, seen : OrderStatus, to : OrderStatus,
     step : {"write", "publish"}]

\* moveTicket; "from" is the station it read.
MoveRequest ==
    [op : {"move"}, item : Items, from : Station, to : Station,
     step : {"cut", "write"}]

\* moveTicket's checkOrderReady; "seen" is the order status it read.
CheckRequest ==
    [op : {"check"}, order : Orders, step : {"tickets", "order"}]
MarkRequest == [op : {"mark"}, order : Orders, seen : OrderStatus]

Request ==
    TicketsRequest \cup StatusRequest \cup MoveRequest \cup CheckRequest
        \cup MarkRequest

ASSUME NoneAssumption == None \notin Request

TypeOK ==
    /\ status \in [Orders -> OrderStatus \cup {"absent"}]
    /\ station \in [Items -> Station \cup {"none"}]
    /\ hold \in [Items -> {"none", "reserved", "consumed"}]
    /\ request \in [Workers -> Request \cup {None}]
    /\ announced \subseteq Orders
    /\ disturbed \subseteq Orders

Init ==
    /\ status = [o \in Orders |-> "absent"]
    /\ station = [i \in Items |-> "none"]
    /\ hold = [i \in Items |-> "none"]
    /\ request = [w \in Workers |-> None]
    /\ announced = {}
    /\ disturbed = {}

ItemsOf(o) == {i \in Items : OrderOf[i] = o}

\* The order a request works on.
Target(r) == IF r.op = "move" THEN OrderOf[r.item] ELSE r.order

InFlight(o) == \E w \in Workers : request[w] # None /\ Target(request[w]) = o

AllReady(o) == \A i \in ItemsOf(o) : station[i] = "ready"

Goto(w, r) == request' = [request EXCEPT ![w] = r]
Done(w) == Goto(w, None)

\* A write of a status that follows from an outdated read is remembered.
WriteStatus(o, seen, to) ==
    /\ status' = [status EXCEPT ![o] = to]
    /\ disturbed' = IF status[o] = seen THEN disturbed ELSE disturbed \cup {o}

-----------------------------------------------------------------------------
(* Taking orders.                                                          *)

\* PosService.checkout: the order and the holds of the garments that are made
\* of the shop's cloth commit together; the tickets follow in another one.
Checkout(w, o, shopCloth) ==
    /\ request[w] = None
    /\ status[o] = "absent"
    /\ shopCloth \subseteq ItemsOf(o)
    /\ status' = [status EXCEPT ![o] = "pending"]
    /\ hold' = [i \in Items |-> IF i \in shopCloth THEN "reserved" ELSE hold[i]]
    /\ Goto(w, [op |-> "tickets", order |-> o])
    /\ UNCHANGED <<station, announced, disturbed>>

\* WorkshopService.createTicketsForOrder: all tickets of the order or none.
CreateTickets(w) ==
    /\ request[w] # None
    /\ request[w].op = "tickets"
    /\ LET o == request[w].order
       IN station' = [i \in Items |-> IF OrderOf[i] = o THEN "queued" ELSE station[i]]
    /\ Done(w)
    /\ UNCHANGED <<status, hold, announced, disturbed>>

\* OrdersService.create: cloth leaves the rolls at once, no ticket is made.
CreateOrder(o) ==
    /\ status[o] = "absent"
    /\ status' = [status EXCEPT ![o] = "pending"]
    /\ UNCHANGED <<station, hold, request, announced, disturbed>>

-----------------------------------------------------------------------------
(* Status changes from the counter.                                        *)

\* updateStatus reads the order and checks the table; settle does the same for
\* "delivered" and leaves the status alone when the table forbids it.
StatusRead(w, o, to) ==
    /\ request[w] = None
    /\ status[o] # "absent"
    /\ CanTransition(status[o], to)
    /\ Goto(w, [op |-> "status", order |-> o, seen |-> status[o], to |-> to,
                step |-> "write"])
    /\ UNCHANGED <<status, station, hold, announced, disturbed>>

StatusWrite(w) ==
    /\ request[w] # None
    /\ request[w].op = "status"
    /\ request[w].step = "write"
    /\ WriteStatus(request[w].order, request[w].seen, request[w].to)
    /\ Goto(w, [request[w] EXCEPT !.step = "publish"])
    /\ UNCHANGED <<station, hold, announced>>

\* publishStatusChanged runs after the commit; of the events only "ready" is
\* kept here.
StatusPublish(w) ==
    /\ request[w] # None
    /\ request[w].op = "status"
    /\ request[w].step = "publish"
    /\ announced' = IF request[w].to = "ready"
                    THEN announced \cup {request[w].order} ELSE announced
    /\ Done(w)
    /\ UNCHANGED <<status, station, hold, disturbed>>

\* The queue is down: the error is logged and swallowed.
PublishFails(w) ==
    /\ request[w] # None
    /\ request[w].op = "status"
    /\ request[w].step = "publish"
    /\ disturbed' = disturbed \cup {request[w].order}
    /\ Done(w)
    /\ UNCHANGED <<status, station, hold, announced>>

-----------------------------------------------------------------------------
(* The workshop.                                                           *)

\* Fault: a ticket may be dragged to any station.
MayMoveAnywhere(from, to) == from # to

\* Forward one step, or back any number for rework.
MayMove(from, to) ==
    from # to /\ StationIndex[to] <= StationIndex[from] + 1

LeavesCutting(from, to) ==
    from = "cutting" /\ StationIndex[to] > StationIndex[from]

MoveRead(w, i, to) ==
    /\ request[w] = None
    /\ station[i] # "none"
    /\ MayMove(station[i], to)
    /\ Goto(w, [op |-> "move", item |-> i, from |-> station[i], to |-> to,
                step |-> IF LeavesCutting(station[i], to) THEN "cut" ELSE "write"])
    /\ UNCHANGED <<status, station, hold, announced, disturbed>>

\* consumeForOrderItem, a transaction of its own: a garment without a live hold
\* is let through.
MoveCut(w) ==
    /\ request[w] # None
    /\ request[w].op = "move"
    /\ request[w].step = "cut"
    /\ LET i == request[w].item
       IN hold' = [hold EXCEPT ![i] = IF @ = "reserved" THEN "consumed" ELSE @]
    /\ Goto(w, [request[w] EXCEPT !.step = "write"])
    /\ UNCHANGED <<status, station, announced, disturbed>>

\* It throws (the roll's CHECK failed): the ticket stays where it is.
MoveCutRejected(w) ==
    /\ request[w] # None
    /\ request[w].op = "move"
    /\ request[w].step = "cut"
    /\ hold[request[w].item] # "none"
    /\ Done(w)
    /\ UNCHANGED <<status, station, hold, announced, disturbed>>

\* Fault: the station is saved and the order is not looked at afterwards.
MoveWithoutCheck(w) ==
    /\ request[w] # None
    /\ request[w].op = "move"
    /\ request[w].step = "write"
    /\ station' = [station EXCEPT ![request[w].item] = request[w].to]
    /\ Done(w)
    /\ UNCHANGED <<status, hold, announced, disturbed>>

\* The station is written whatever it is by now.
MoveWrite(w) ==
    /\ request[w] # None
    /\ request[w].op = "move"
    /\ request[w].step = "write"
    /\ LET r == request[w]
       IN /\ station' = [station EXCEPT ![r.item] = r.to]
          /\ IF r.to = "ready"
             THEN Goto(w, [op |-> "check", order |-> OrderOf[r.item],
                           step |-> "tickets"])
             ELSE Done(w)
    /\ UNCHANGED <<status, hold, announced, disturbed>>

\* checkOrderReady: first the tickets ...
CheckTickets(w) ==
    /\ request[w] # None
    /\ request[w].op = "check"
    /\ request[w].step = "tickets"
    /\ IF AllReady(request[w].order)
       THEN Goto(w, [request[w] EXCEPT !.step = "order"])
       ELSE Done(w)
    /\ UNCHANGED <<status, station, hold, announced, disturbed>>

\* Fault: a delivered order is marked ready again.
OnlyReadyIsThrough(s) == s = "ready"

\* The statuses checkOrderReady leaves alone.
AlreadyThrough(s) == s \in {"ready", "delivered"}

\* ... then the order ...
CheckOrder(w) ==
    /\ request[w] # None
    /\ request[w].op = "check"
    /\ request[w].step = "order"
    /\ LET o == request[w].order
       IN IF AlreadyThrough(status[o])
          THEN Done(w)
          ELSE Goto(w, [op |-> "mark", order |-> o, seen |-> status[o]])
    /\ UNCHANGED <<status, station, hold, announced, disturbed>>

\* ... then the write, past canTransition and without an event.
MarkReady(w) ==
    /\ request[w] # None
    /\ request[w].op = "mark"
    /\ WriteStatus(request[w].order, request[w].seen, "ready")
    /\ Done(w)
    /\ UNCHANGED <<station, hold, announced>>

\* A request dies between two of its steps.
RequestDies(w) ==
    /\ request[w] # None
    /\ disturbed' = disturbed \cup {Target(request[w])}
    /\ Done(w)
    /\ UNCHANGED <<status, station, hold, announced>>

-----------------------------------------------------------------------------

Next ==
    \/ \E w \in Workers, o \in Orders : \E c \in SUBSET Items : Checkout(w, o, c)
    \/ \E o \in Orders : CreateOrder(o)
    \/ \E w \in Workers : CreateTickets(w)
    \/ \E w \in Workers, o \in Orders, to \in OrderStatus : StatusRead(w, o, to)
    \/ \E w \in Workers : StatusWrite(w)
    \/ \E w \in Workers : StatusPublish(w)
    \/ \E w \in Workers : PublishFails(w)
    \/ \E w \in Workers, i \in Items, to \in Station : MoveRead(w, i, to)
    \/ \E w \in Workers : MoveCut(w)
    \/ \E w \in Workers : MoveCutRejected(w)
    \/ \E w \in Workers : MoveWrite(w)
    \/ \E w \in Workers : CheckTickets(w)
    \/ \E w \in Workers : CheckOrder(w)
    \/ \E w \in Workers : MarkReady(w)
    \/ \E w \in Workers : RequestDies(w)

Spec == Init /\ [][Next]_vars

-----------------------------------------------------------------------------
(* Properties.                                                             *)

\* moveTicket: "Skipping ahead would bypass cutting and leave fabric reserved
\* but never deducted".  No ticket is past cutting while its hold is live,
\* whichever requests race and wherever they die.
CutBeforeStitching ==
    \A i \in Items : station[i] \in {"stitching", "quality", "ready"}
                        => hold[i] # "reserved"

\* w is about to write a status of o that it chose from an outdated read.
StaleWriter(w, o) ==
    /\ request[w] # None
    /\ request[w].op \in {"status", "mark"}
    /\ request[w].order = o
    /\ request[w].seen # status[o]

\* Status changes follow the table, but for the workshop's jump to ready, which
\* starts from every status but delivered (from cancelled, too, which the table calls
\* final: checkOrderReady leaves only ready and delivered orders alone), and for
\* writes that lost a race.  So nothing that was delivered is ever taken back but by
\* a request that read its status earlier.
StatusFollowsTable ==
    [][\A o \in Orders :
          \/ status'[o] = status[o]
          \/ status[o] = "absent" /\ status'[o] = "pending"
          \/ status[o] \in OrderStatus /\ CanTransition(status[o], status'[o])
          \/ status'[o] = "ready" /\ status[o] # "delivered"
          \/ \E w \in Workers : StaleWriter(w, o) /\ request'[w] # request[w]]_vars

\* The last garment of an order to become ready is noticed although the movers
\* of two tickets race: once no request is at work on an order whose tickets are
\* all ready, its status says so, unless a request died or a race was lost.
AllReadyNoticed ==
    \A o \in Orders \ disturbed :
        status[o] # "absent" /\ AllReady(o) /\ ~InFlight(o)
            => status[o] \in {"ready", "delivered", "cancelled"}

\* checkOrderReady's comment: the order becoming ready "is what triggers the
\* customer's ready for collection WhatsApp".
ReadyIsAnnounced ==
    \A o \in Orders \ disturbed :
        status[o] = "ready" /\ ~InFlight(o) => o \in announced

\* releaseForOrder's comment, "Cancellation: metres go back to the sellable pool",
\* and ENGINEERING-DECISIONS: "Cancellation releases the hold".  A cancelled order
\* that no request is at work on keeps no cloth.
CancelReleasesCloth ==
    \A o \in Orders \ disturbed :
        status[o] = "cancelled" /\ ~InFlight(o)
            => \A i \in ItemsOf(o) : hold[i] # "reserved"
================================================================================
