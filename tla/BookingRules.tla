---------------------------- MODULE BookingRules ----------------------------
(***************************************************************************)
(* The rules of a reservation, as pure operators: statuses, overlap,       *)
(* duration, operating hours, and the time windows of each operation       *)
(* (reservations.service.ts, access.service.ts, scheduler.service.ts).     *)
(* Time is counted in abstract units; the leads and durations the code     *)
(* writes as minutes are constants.                                        *)
(***************************************************************************)
EXTENDS Integers

CONSTANTS
  Users, Rooms,
  Capacity,      \* Capacity[r]: room.capacity
  Hours,         \* Hours[r]: room.operatingHours, [weekdays, opens, closes]
  Minute,        \* the units of one minute of the clock (a Date has milliseconds)
  DayLength,     \* the units of one calendar day
  MinDuration,   \* 30 minutes
  MaxDuration,   \* 480 minutes
  UpdateLead,    \* an update is refused later than 60 minutes before start
  CancelLead,    \* a cancellation is refused later than 30 minutes before start
  TokenLead,     \* a token can be had from 10 minutes before start
  TokenLife,     \* ... until 30 minutes after it, when it also expires
  NoShowGrace,   \* a no-show is declared later than 10 minutes after start
  NoRow          \* what a query without a result returns

(* The windows of the code, with no more order among them than the proofs   *)
(* use: tokens open (10) after cancellations (30) and updates (60) close.   *)
ASSUME WindowAssumption ==
  /\ Minute \in Nat \ {0}
  /\ DayLength \in Nat \ {0}
  /\ DayLength % Minute = 0
  /\ MinDuration \in Nat \ {0}
  /\ MaxDuration \in Nat
  /\ {UpdateLead, CancelLead, TokenLead, TokenLife, NoShowGrace} \subseteq Nat
  /\ TokenLead < CancelLead
  /\ TokenLead < UpdateLead
  /\ MaxDuration <= 6 * DayLength   \* no slot reaches its weekday of the next week

\* operatingHours as a room may be created with: one number or more are weekdays,
\* the two times are clock times, in minutes.
ClockTimes == 0 .. (DayLength \div Minute) - 1
OperatingHours == [weekdays : (SUBSET Int) \ {{}}, opens : ClockTimes, closes : ClockTimes]

ASSUME RoomAssumption ==
  /\ Capacity \in [Rooms -> Nat]
  /\ Hours \in [Rooms -> OperatingHours]

Active == {"PENDING", "CONFIRMED"}
Closed == {"CANCELLED", "COMPLETED", "NO_SHOW"}
Statuses == Active \cup Closed

\* The columns of a reservation that a rule of the services reads.
Row == [user : Users, room : Rooms, start : Nat, end : Nat,
        attendees : Nat, status : Statuses]

ASSUME NoRowAssumption == NoRow \notin Row

-----------------------------------------------------------------------------
Weekday(t) == (t \div DayLength) % 7

\* getHours() * 60 + getMinutes(): what is left of a minute is dropped.
MinuteOfDay(t) == (t % DayLength) \div Minute

DurationOK(s, e) ==
  /\ s < e
  /\ e - s >= MinDuration
  /\ e - s <= MaxDuration

\* validateOperatingHours: the weekdays and the clock times are compared,
\* not the dates.
WithinOperatingHours(r, s, e) ==
  /\ Weekday(s) = Weekday(e)
  /\ Weekday(s) \in Hours[r].weekdays
  /\ MinuteOfDay(s) >= Hours[r].opens
  /\ MinuteOfDay(e) <= Hours[r].closes

ValidSlot(r, s, e) == DurationOK(s, e) /\ WithinOperatingHours(r, s, e)

\* Mutant: a pending reservation does not hold its slot.
BlocksConfirmed(row, r, s, e) ==
  /\ row # NoRow
  /\ row.room = r
  /\ row.status = "CONFIRMED"
  /\ row.start < e
  /\ row.end > s

\* The WHERE clause of both conflict queries: half-open intervals overlap.
Blocks(row, r, s, e) ==
  /\ row # NoRow
  /\ row.room = r
  /\ row.status \in Active
  /\ row.start < e
  /\ row.end > s

\* Mutant: the hour before the start is not refused.
MayUpdateLate(row, t) == row.status \notin {"CANCELLED", "COMPLETED"} /\ t = t

MayUpdate(row, t) ==
  /\ row.status \notin {"CANCELLED", "COMPLETED"}
  /\ t <= row.start - UpdateLead

\* Mutant: the half hour before the start is not refused.
MayCancelLate(row, t) == row.status # "CANCELLED" /\ t = t

MayCancel(row, t) ==
  /\ row.status # "CANCELLED"
  /\ t <= row.start - CancelLead

\* Mutant: the status is not looked at.
TokenWindowOfAny(row, t) ==
  row.start - TokenLead <= t /\ t <= row.start + TokenLife

TokenWindow(row, t) ==
  /\ row.status = "CONFIRMED"
  /\ row.start - TokenLead <= t
  /\ t <= row.start + TokenLife

NoShowDue(row, t) ==
  /\ row.status = "CONFIRMED"
  /\ row.start < t - NoShowGrace

\* Mutant: the wrong column.
CompletionDueAtStart(row, t) == row.status = "CONFIRMED" /\ row.start < t

CompletionDue(row, t) ==
  /\ row.status = "CONFIRMED"
  /\ row.end < t

-----------------------------------------------------------------------------
(* What the rules amount to, stated with the days: a slot of a permitted    *)
(* length that lies in the opening hours of one open day, but that the      *)
(* minute of closing counts as open to its end.                             *)
ProperSlot(r, s, e) ==
  /\ e - s \in MinDuration .. MaxDuration
  /\ \E d \in 0 .. e : /\ d % 7 \in Hours[r].weekdays
                       /\ d * DayLength + Hours[r].opens * Minute <= s
                       /\ e < d * DayLength + (Hours[r].closes + 1) * Minute
=============================================================================
