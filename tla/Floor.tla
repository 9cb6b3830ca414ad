------------------------------- MODULE Floor -------------------------------
(***************************************************************************)
(* The workshop tablets: a board that is polled, a barcode scan that opens *)
(* a ticket and asks for its measurements in a second request, and the      *)
(* button that moves a ticket on from the station the screen shows.         *)
(* Requests are answered, and their answers arrive, in any order.           *)
(***************************************************************************)
EXTENDS Naturals, FiniteSets

CONSTANTS
  Tablets, Tickets, NoTicket,
  OrderedAt,     \* the measurement version each ticket's line was ordered with
  MaxVersion,    \* bound: versions of the customer's measurements
  MaxCalls,      \* bound: requests of one tablet under way
  MaxTaps        \* bound: scans and moves of one tablet

ASSUME FloorAssumption ==
  /\ NoTicket \notin Tickets
  /\ OrderedAt \in [Tickets -> Nat]
  /\ MaxVersion \in Nat \ {0}
  /\ {MaxCalls, MaxTaps} \subseteq Nat

VARIABLES
  station,       \* station of each ticket
  active,        \* the customer's active measurement version
  columns,       \* per tablet: the stations its board shows
  scanned,       \* per tablet: the ticket in the modal, with its station
  measure,       \* per tablet: the figures in the modal
  requests,         \* per tablet: requests, and answers on their way
  taps,
  raced          \* history: the ticket was opened while the figures of
                 \* another one were still being fetched

floorVars ==
  <<station, active, columns, scanned, measure, requests, taps, raced>>

Queued == 0
Ready == 4
STATION_ORDER == Queued..Ready

Unanswered == [ticket |-> NoTicket, station |-> Queued, version |-> 0,
               newer |-> FALSE]

Ask(k, t, s) == [kind |-> k, ticket |-> t, to |-> s, says |-> Unanswered,
                 board |-> [u \in Tickets |-> Ready], served |-> FALSE]

FloorInit ==
  /\ station \in [Tickets -> {Queued, Ready - 1}]
  /\ active = 1
  /\ columns = [w \in Tablets |-> [t \in Tickets |-> Ready]]
  /\ scanned = [w \in Tablets |-> Unanswered]
  /\ measure = [w \in Tablets |-> Unanswered]
  /\ requests = [w \in Tablets |-> {}]
  /\ taps = [w \in Tablets |-> 0]
  /\ raced = [w \in Tablets |-> FALSE]

FloorTypeOK ==
  /\ station \in [Tickets -> STATION_ORDER] /\ active \in 1..MaxVersion
  /\ columns \in [Tablets -> [Tickets -> STATION_ORDER]]
  /\ \A w \in Tablets : scanned[w].ticket \in Tickets \cup {NoTicket}
  /\ \A w \in Tablets : Cardinality(requests[w]) <= MaxCalls
  /\ taps \in [Tablets -> 0..MaxTaps]

Send(w, c) == requests' = [requests EXCEPT ![w] = @ \cup {c}]

-----------------------------------------------------------------------------
\* The tablet.

\* Every 20 seconds, and on "Refresh".
Load(w) ==
  /\ Cardinality(requests[w]) < MaxCalls
  /\ Send(w, Ask("board", NoTicket, Queued))
  /\ UNCHANGED <<station, active, columns, scanned, measure, taps, raced>>

\* A scanner types the code of a garment in hand; a tap on a card does too.
Scan(w, t) ==
  /\ Cardinality(requests[w]) < MaxCalls /\ taps[w] < MaxTaps
  /\ taps' = [taps EXCEPT ![w] = @ + 1]
  /\ Send(w, Ask("scan", t, Queued))
  /\ UNCHANGED <<station, active, columns, scanned, measure, raced>>

\* Close the modal.
Cancel(w) ==
  /\ scanned[w].ticket # NoTicket
  /\ scanned' = [scanned EXCEPT ![w] = Unanswered]
  /\ measure' = [measure EXCEPT ![w] = Unanswered]
  /\ UNCHANGED <<station, active, columns, requests, taps, raced>>

\* "Complete": on to the station after the one the card or the modal shows.
Shows(w, t) ==
  {s \in STATION_ORDER \ {Ready} :
     s = columns[w][t] \/ (scanned[w].ticket = t /\ scanned[w].station = s)}

Move(w, t) ==
  /\ Cardinality(requests[w]) < MaxCalls /\ taps[w] < MaxTaps
  /\ taps' = [taps EXCEPT ![w] = @ + 1]
  /\ \E s \in Shows(w, t) : Send(w, Ask("move", t, s + 1))
  /\ UNCHANGED <<station, active, columns, scanned, measure, raced>>

-----------------------------------------------------------------------------
\* The server.

\* What the garment is cut to is the version its order line points at; a
\* newer one is only reported.
forTicket(t) ==
  [ticket |-> t, station |-> station[t], version |-> OrderedAt[t],
   newer |-> active > OrderedAt[t]]

\* One station forward, or back for rework; a ticket already there stays.
moveTicket(t, to) ==
  IF to > station[t] + 1 THEN station ELSE [station EXCEPT ![t] = to]

Serve(w, c) ==
  /\ c \in requests[w] /\ ~c.served
  /\ requests' = [requests EXCEPT ![w] = (@ \ {c}) \cup
       {[c EXCEPT !.served = TRUE, !.board = station,
           !.says = IF c.ticket = NoTicket THEN @
                    ELSE IF c.kind = "move" /\ c.to > station[c.ticket] + 1
                    THEN Unanswered
                    ELSE forTicket(c.ticket)]}]
  /\ station' = IF c.kind = "move" THEN moveTicket(c.ticket, c.to)
                ELSE station
  /\ UNCHANGED <<active, columns, scanned, measure, taps, raced>>

\* The counter measures the customer again.
Remeasure ==
  /\ active < MaxVersion /\ active' = active + 1
  /\ UNCHANGED <<station, columns, scanned, measure, requests, taps, raced>>

-----------------------------------------------------------------------------
\* The answers.

Arrives(w, c, k) == c \in requests[w] /\ c.served /\ c.kind = k

BoardLoaded(w, c) ==
  /\ Arrives(w, c, "board")
  /\ columns' = [columns EXCEPT ![w] = c.board]
  /\ requests' = [requests EXCEPT ![w] = @ \ {c}]
  /\ UNCHANGED <<station, active, scanned, measure, taps, raced>>

\* The mutant: the figures of the ticket before stay until the new ones come.
Fault_FiguresKept(w) == measure[w]

\* A ticket is opened without figures ...
FiguresOnOpen(w) == Unanswered

\* ... and they are asked for while it is already shown.
TicketOpened(w, c) ==
  /\ Arrives(w, c, "scan")
  /\ scanned' = [scanned EXCEPT ![w] = c.says]
  /\ measure' = [measure EXCEPT ![w] = FiguresOnOpen(w)]
  /\ requests' = [requests EXCEPT ![w] =
       (@ \ {c}) \cup {Ask("figures", c.ticket, Queued)}]
  /\ raced' = [raced EXCEPT ![w] =
       \E d \in requests[w] : d.kind = "figures" /\ d.ticket # c.ticket]
  /\ UNCHANGED <<station, active, columns, taps>>

\* Whatever ticket is open by now.
FiguresLoaded(w, c) ==
  /\ Arrives(w, c, "figures")
  /\ measure' = [measure EXCEPT ![w] = c.says]
  /\ requests' = [requests EXCEPT ![w] = @ \ {c}]
  /\ UNCHANGED <<station, active, columns, scanned, taps, raced>>

\* The request for the figures fails.
FiguresFailed(w, c) ==
  /\ c \in requests[w] /\ c.kind = "figures"
  /\ measure' = [measure EXCEPT ![w] = Unanswered]
  /\ requests' = [requests EXCEPT ![w] = @ \ {c}]
  /\ UNCHANGED <<station, active, columns, scanned, taps, raced>>

\* A move that went through closes the modal, whichever ticket it shows, and
\* reads the board again; a refused one leaves everything as it is.
Moved(w, c) ==
  /\ Arrives(w, c, "move")
  /\ IF c.says = Unanswered
     THEN /\ requests' = [requests EXCEPT ![w] = @ \ {c}]
          /\ UNCHANGED scanned
     ELSE /\ requests' = [requests EXCEPT ![w] =
               (@ \ {c}) \cup {Ask("board", NoTicket, Queued)}]
          /\ scanned' = [scanned EXCEPT ![w] = Unanswered]
  /\ UNCHANGED <<station, active, columns, measure, taps, raced>>

FloorNext ==
  \/ Remeasure
  \/ \E w \in Tablets :
       \/ Load(w) \/ Cancel(w)
       \/ \E t \in Tickets : Scan(w, t) \/ Move(w, t)
       \/ \E c \in requests[w] :
            \/ Serve(w, c) \/ BoardLoaded(w, c) \/ TicketOpened(w, c)
            \/ FiguresLoaded(w, c) \/ FiguresFailed(w, c) \/ Moved(w, c)

FloorSpec == FloorInit /\ [][FloorNext]_floorVars

-----------------------------------------------------------------------------
\* The figures under an open ticket are the ones that ticket was ordered with,
\* however often the customer is measured again and whatever was open before;
\* another ticket's can be there only when the worker opened two tickets
\* faster than their figures came.
FiguresFitTheTicket ==
  \A w \in Tablets :
    scanned[w].ticket # NoTicket /\ measure[w].ticket # NoTicket =>
      \/ /\ measure[w].ticket = scanned[w].ticket
         /\ measure[w].version = OrderedAt[scanned[w].ticket]
      \/ raced[w]

=============================================================================
