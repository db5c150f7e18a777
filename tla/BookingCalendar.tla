--------------------------- MODULE BookingCalendar ---------------------------
(***************************************************************************)
(* What the booking service promises, without its calls, its clock and its *)
(* database: a calendar of bookings, changed one entry at a time.  An      *)
(* active booking has its room to itself; a booking keeps its room; who    *)
(* leaves the calendar does not come back, nor change the reason.          *)
(***************************************************************************)
EXTENDS Naturals

CONSTANTS Bookings, Rooms, Times, Nothing

VARIABLE calendar

Active == {"PENDING", "CONFIRMED"}

IsActive(b) == calendar[b] # Nothing /\ calendar[b].status \in Active

Overlap(x, y) == x.room = y.room /\ x.start < y.end /\ y.start < x.end

\* Nobody else's active booking is in the way of x.
FreeFor(b, x) ==
  \A c \in Bookings \ {b} : IsActive(c) => ~Overlap(calendar[c], x)

Enter(b, x) ==
  /\ x.start < x.end
  /\ FreeFor(b, x)
  /\ calendar' = [calendar EXCEPT ![b] = x]

SetStatus(b, status) == calendar' = [calendar EXCEPT ![b].status = status]

Init == calendar = [b \in Bookings |-> Nothing]

Book(b) ==
  /\ calendar[b] = Nothing
  /\ \E r \in Rooms, s, e \in Times :
       Enter(b, [room |-> r, start |-> s, end |-> e, status |-> "PENDING"])

Move(b) ==
  /\ IsActive(b)
  /\ \E s, e \in Times : Enter(b, [calendar[b] EXCEPT !.start = s, !.end = e])

Confirm(b) ==
  /\ calendar[b] # Nothing
  /\ calendar[b].status = "PENDING"
  /\ SetStatus(b, "CONFIRMED")

Cancel(b) == IsActive(b) /\ SetStatus(b, "CANCELLED")

Finish(b) ==
  /\ calendar[b] # Nothing
  /\ calendar[b].status = "CONFIRMED"
  /\ \E status \in {"COMPLETED", "NO_SHOW"} : SetStatus(b, status)

Next == \E b \in Bookings : Book(b) \/ Move(b) \/ Confirm(b) \/ Cancel(b) \/ Finish(b)

Spec == Init /\ [][Next]_calendar
=============================================================================
