----------------------------- MODULE Appointments ------------------------------
(***************************************************************************)
(* AppointmentsService and AvailabilityService of one store, and the       *)
(* booking page of the customer's app.                                     *)
(*                                                                         *)
(* Time is counted in slots of SLOT_MINUTES.  A request checks the slot,   *)
(* then writes; no transaction holds the two together.  The page asks for  *)
(* the slots of a day and shows the answer that came last.                 *)
(***************************************************************************)
EXTENDS Integers, Sequences, FiniteSets, FiniteSetsExt

CONSTANTS
    Clients,      \* customers with the booking page open
    Calls,        \* requests served at the same time
    Days,         \* days that can be chosen
    DayLength,    \* slots of a day
    Opens, Closes,\* operating hours, in slots of a day
    Durations,    \* durationMinutes, in slots; the page's bookings take 1
    MaxBookings,  \* bound: appointments
    MaxEdits,     \* bound: requests to move or cancel, changes by the staff
    MaxTurns,     \* bound: days chosen on the page
    MaxNow        \* bound: the clock

ASSUME AppointmentsAssumption ==
    /\ {Days, DayLength, Closes} \subseteq Nat \ {0}
    /\ {Opens, MaxBookings, MaxEdits, MaxTurns, MaxNow} \subseteq Nat
    /\ Durations \subseteq Nat \ {0}
    /\ 1 \in Durations
    /\ Closes <= DayLength

VARIABLES
    appointments, \* appointments of the store
    call,         \* per request: what it has checked and will write
    page,         \* per customer: the booking page
    now,
    edits,
    excused       \* history: appointments that stand where another one stood

apptVars == <<appointments, call, page, now, edits, excused>>

Times == 0 .. Days * DayLength - 1
Day(t) == t \div DayLength

Statuses == {"scheduled", "confirmed", "in_progress", "completed", "cancelled", "no_show"}
Live == {"scheduled", "confirmed", "in_progress"}

Appointment == [customer : Clients, at : Times, len : Durations, status : Statuses]

NoCall == [op |-> "none"]

\* "clear", "tangled", "shown" and "mispicked" are history: whether the slot was free
\* when it was checked, whether two appointments overlapped by then, the day the page
\* showed when the button was pressed, and whether the slot came from another day's
\* list.  A request that no page sent shows the day it asks for.
BookCall == [op : {"book"}, new : Appointment, clear : BOOLEAN, tangled : BOOLEAN,
             shown : 0 .. Days - 1, mispicked : BOOLEAN]
MoveCall == [op : {"move"}, id : 1 .. MaxBookings, at : Times, clear : BOOLEAN,
             tangled : BOOLEAN]
CancelCall == [op : {"cancel"}, id : 1 .. MaxBookings]

NoSlot == -1
Page == [date : 0 .. Days - 1, asked : SUBSET (0 .. Days - 1), slots : SUBSET Times,
         slot : Times \cup {NoSlot}, mispicked : BOOLEAN, turns : 0 .. MaxTurns]

ApptTypeOK ==
    /\ appointments \in Seq(Appointment)
    /\ call \in [Calls -> BookCall \cup MoveCall \cup CancelCall \cup {NoCall}]
    /\ page \in [Clients -> Page]
    /\ now \in 0 .. MaxNow
    /\ edits \in 0 .. MaxEdits
    /\ excused \subseteq DOMAIN appointments

\* The page opens on today and asks for its slots.
ApptInit ==
    /\ appointments = <<>>
    /\ call = [k \in Calls |-> NoCall]
    /\ page = [c \in Clients |-> [date |-> 0, asked |-> {0}, slots |-> {},
                                  slot |-> NoSlot, mispicked |-> FALSE, turns |-> 0]]
    /\ now = 0
    /\ edits = 0
    /\ excused = {}

-----------------------------------------------------------------------------
(* Availability.                                                           *)

Ids == DOMAIN appointments
LiveIds == {i \in Ids : appointments[i].status \in Live}

End(a) == a.at + a.len
Meets(a, t, len) == t < End(a) /\ a.at < t + len
Overlap(i, j) == Meets(appointments[i], appointments[j].at, appointments[j].len)
Clashes(t, len, except) ==
    {i \in LiveIds \ except : Meets(appointments[i], t, len)}
Tangled == \E i, j \in LiveIds : i # j /\ Overlap(i, j)

\* getSlots: of the appointments, those that start within the hours of the day.
Offered(d) ==
    LET from == d * DayLength + Opens
        to == d * DayLength + Closes
        existing == {i \in LiveIds : appointments[i].at \in from .. to - 1}
    IN {t \in from .. to - 1 :
            t > now /\ \A i \in existing : ~Meets(appointments[i], t, 1)}

\* Fault: appointments that start within the slot are not looked at.
Fault_StartsBefore(a, t, len) == a.at <= t
\* scheduledAt < end.
StartsBefore(a, t, len) == a.at < t + len

\* assertSlotFree: of the live appointments that start before the slot ends, the
\* one that starts last has ended by then.  Which of two that start together the
\* database returns is open.
SlotFree(t, len, except) ==
    LET earlier == {i \in LiveIds \ except : StartsBefore(appointments[i], t, len)}
        last == {i \in earlier : \A j \in earlier : appointments[j].at <= appointments[i].at}
    IN earlier = {} \/ \E i \in last : End(appointments[i]) <= t

-----------------------------------------------------------------------------
(* The booking page.                                                       *)

\* Fault: the slot stays chosen.
Fault_SlotKept(p) == p.slot
\* setSlot(null).
SlotAfterDate(p) == NoSlot

\* Another day: the list on show stays until the answer comes.
ChooseDate(c, d) ==
    /\ page[c].date # d
    /\ page[c].turns < MaxTurns
    /\ page' = [page EXCEPT ![c].turns = @ + 1,
                            ![c].date = d,
                            ![c].asked = @ \cup {d},
                            ![c].slot = SlotAfterDate(page[c])]
    /\ UNCHANGED <<appointments, call, now, edits, excused>>

\* An answer comes, in any order; it is shown whichever day it is for.
ShowSlots(c, d) ==
    /\ page' = [page EXCEPT ![c].asked = @ \ {d}, ![c].slots = Offered(d)]
    /\ UNCHANGED <<appointments, call, now, edits, excused>>

PickSlot(c, t) ==
    /\ page' = [page EXCEPT ![c].slot = t, ![c].mispicked = Day(t) # page[c].date]
    /\ UNCHANGED <<appointments, call, now, edits, excused>>

-----------------------------------------------------------------------------
(* Requests.                                                               *)

Request(k, what) ==
    /\ call[k] = NoCall
    /\ call' = [call EXCEPT ![k] = what]

Free == Cardinality({k \in Calls : call[k].op = "book"}) + Len(appointments) < MaxBookings

\* book up to its write.
Book(k, c, t, len, shown, mispicked) ==
    /\ Free
    /\ t >= now
    /\ SlotFree(t, len, {})
    /\ Request(k, [op |-> "book",
                   new |-> [customer |-> c, at |-> t, len |-> len, status |-> "scheduled"],
                   clear |-> Clashes(t, len, {}) = {}, tangled |-> Tangled,
                   shown |-> shown, mispicked |-> mispicked])

\* The button of the page.  It stays while the request is under way.
Confirm(k, c) ==
    /\ page[c].slot # NoSlot
    /\ Book(k, c, page[c].slot, 1, page[c].date, page[c].mispicked)
    /\ UNCHANGED <<appointments, page, now, edits, excused>>

\* Another client of the API may ask for any time and length: book does not look at
\* the operating hours.
BookAnyTime(k, c, t, len) ==
    /\ Book(k, c, t, len, Day(t), FALSE)
    /\ UNCHANGED <<appointments, page, now, edits, excused>>

\* The slot has been taken by others since the check, or had been before.
Excuses(i, k) ==
    IF Clashes(appointments'[i].at, appointments'[i].len, {i}) # {}
       /\ (call[k].clear \/ call[k].tangled)
    THEN excused \cup {i} ELSE excused

\* The page closes its panel when the answer comes, which chooses no other slot.
WriteBooking(k) ==
    /\ call[k].op = "book"
    /\ appointments' = Append(appointments, call[k].new)
    /\ excused' = Excuses(Len(appointments) + 1, k)
    /\ call' = [call EXCEPT ![k] = NoCall]
    /\ UNCHANGED <<page, now, edits>>

Edit == edits < MaxEdits /\ edits' = edits + 1

Changeable(i) == appointments[i].status \in {"scheduled", "confirmed"}

\* updateForCustomer up to its write: the customer cancels, or moves.
AskCancel(k, i) ==
    /\ Edit
    /\ Changeable(i)
    /\ Request(k, [op |-> "cancel", id |-> i])
    /\ UNCHANGED <<appointments, page, now, excused>>

AskMove(k, i, t) ==
    /\ Edit
    /\ Changeable(i)
    /\ t >= now
    /\ SlotFree(t, appointments[i].len, {i})
    /\ Request(k, [op |-> "move", id |-> i, at |-> t,
                   clear |-> Clashes(t, appointments[i].len, {i}) = {},
                   tangled |-> Tangled])
    /\ UNCHANGED <<appointments, page, now, excused>>

WriteCancel(k) ==
    /\ call[k].op = "cancel"
    /\ appointments' = [appointments EXCEPT ![call[k].id].status = "cancelled"]
    /\ excused' = excused \ {call[k].id}
    /\ call' = [call EXCEPT ![k] = NoCall]
    /\ UNCHANGED <<page, now, edits>>

\* The status is "scheduled" again, whatever it has become since it was read.
WriteMove(k) ==
    /\ call[k].op = "move"
    /\ appointments' = [appointments EXCEPT ![call[k].id].at = call[k].at,
                                            ![call[k].id].status = "scheduled"]
    /\ excused' = Excuses(call[k].id, k)
    /\ call' = [call EXCEPT ![k] = NoCall]
    /\ UNCHANGED <<page, now, edits>>

\* updateForStaff: any status follows any other, with no look at the slot.
UpdateForStaff(i, status) ==
    /\ Edit
    /\ appointments[i].status # status
    /\ appointments' = [appointments EXCEPT ![i].status = status]
    /\ excused' = CASE status \notin Live -> excused \ {i}
                    [] status \in Live /\ i \notin LiveIds -> excused \cup {i}
                    [] OTHER -> excused
    /\ UNCHANGED <<call, page, now>>

Tick ==
    /\ now < MaxNow
    /\ now' = now + 1
    /\ UNCHANGED <<appointments, call, page, edits, excused>>

ApptNext ==
    \/ \E c \in Clients :
          \/ \E d \in 0 .. Days - 1 : ChooseDate(c, d)
          \/ \E d \in page[c].asked : ShowSlots(c, d)
          \/ \E t \in page[c].slots : PickSlot(c, t)
          \/ \E k \in Calls :
                \/ Confirm(k, c)
                \/ \E t \in Times, len \in Durations : BookAnyTime(k, c, t, len)
    \/ \E k \in Calls :
          \/ WriteBooking(k) \/ WriteCancel(k) \/ WriteMove(k)
          \/ \E i \in Ids : \/ AskCancel(k, i)
                            \/ \E t \in Times : AskMove(k, i, t)
    \/ \E i \in Ids, status \in Statuses : UpdateForStaff(i, status)
    \/ Tick

ApptSpec == ApptInit /\ [][ApptNext]_apptVars

-----------------------------------------------------------------------------
(* Properties.                                                             *)

\* Two live appointments of a store overlap only where one of them was checked
\* before the other was written, was brought back to life by the staff, or was let
\* through while two others overlapped already.
NoDoubleBooking ==
    \A i, j \in LiveIds : i # j /\ Overlap(i, j) => {i, j} \cap excused # {}

\* What the page books is on the day it shows, unless the slot was picked from the
\* list of another day that was still, or again, on show.
BooksTheDayShown ==
    \A k \in Calls : call[k].op = "book" =>
        Day(call[k].new.at) = call[k].shown \/ call[k].mispicked
===============================================================================
