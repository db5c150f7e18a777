---------------------------- MODULE RoomService ----------------------------
(***************************************************************************)
(* The server: reservation calls, access calls and the two cron handlers   *)
(* over one database and one clock.  MaxInFlight bounds how many of them   *)
(* are under way together: with 1 every call runs alone, which is what the *)
(* code is written for; with 2 every pair of them interleaves.             *)
(***************************************************************************)
EXTENDS Reservations, Access, Scheduler

CONSTANTS
  MaxInFlight,  \* bound of the calls under way together
  Prompt        \* TRUE: no call takes as long as a unit of the clock

ASSUME BoundAssumption ==
  /\ MaxInFlight \in Nat
  /\ Prompt \in BOOLEAN
  /\ Doors \cap (Requests \cup Jobs) = {}

vars == <<store, req, acc, granted, job>>

Init == ResInit /\ AccInit /\ JobInit

InFlight == {p \in Requests : req[p].pc # "idle"}
            \cup {d \in Doors : acc[d].pc # "idle"}
            \cup {j \in Jobs : job[j].pc # "idle"}

Free == Cardinality(InFlight) < MaxInFlight

Request == /\ \E p \in Requests : (Free /\ ResBegin(p)) \/ ResStep(p)
           /\ UNCHANGED <<acc, granted, job>>

Entry == /\ \E d \in Doors : (Free /\ AccNew(d)) \/ AccStep(d)
         /\ UNCHANGED <<req, job>>

Cron == /\ \E j \in Jobs : (Free /\ JobNew(j)) \/ JobStep(j)
        /\ UNCHANGED <<req, acc, granted>>

Time == /\ Clock
        /\ Prompt => InFlight = {}
        /\ UNCHANGED <<req, acc, granted, job>>

Next == \/ Time
        \/ Request
        \/ Entry
        \/ Cron

Spec == Init /\ [][Next]_vars

(* Time passes; every call returns or fails; cron fires again and again; a  *)
(* statement of a cron handler that is tried again and again succeeds once. *)
Fairness ==
  /\ WF_vars(Time)
  /\ \A p \in Requests : WF_vars(ResStep(p) /\ UNCHANGED <<acc, granted, job>>)
  /\ \A d \in Doors : WF_vars(AccStep(d) /\ UNCHANGED <<req, job>>)
  /\ \A j \in Jobs :
       /\ WF_vars(Free /\ JobNew(j) /\ UNCHANGED <<req, acc, granted>>)
       /\ SF_vars(JobDecide(j) /\ UNCHANGED <<req, acc, granted>>)
       /\ SF_vars(JobLoad(j) /\ UNCHANGED <<req, acc, granted>>)
       /\ SF_vars(JobWrite(j) /\ UNCHANGED <<req, acc, granted>>)

LiveSpec == Spec /\ Fairness

TypeOK == ResTypeOK /\ AccTypeOK /\ JobTypeOK

-----------------------------------------------------------------------------
(* Two active reservations of one room in overlapping slots.                *)
Clash(i, j) ==
  /\ i # j
  /\ rows[i] # NoRow
  /\ rows[i].status \in Active
  /\ Blocks(rows[j], rows[i].room, rows[i].start, rows[i].end)

(* No room is promised twice for one moment (README.md:557, "해당 시간대에 다른  *)
(* 예약이 없어야 함"): the rule create and update are to keep between them.     *)
NoDoubleBooking == \A i, j \in Ids : ~Clash(i, j)

(* A token lives as long as its reservation's start says, whatever happened *)
(* to the reservation since it was made: no update moves a start from under *)
(* a token.                                                                 *)
TokenFollowsStart ==
  \A k \in TokenIds : tokens[k] # NoToken =>
    tokens[k].expires = rows[tokens[k].res].start + TokenLife

(* No token of a cancelled reservation opens the door.                      *)
CancelledHasNoKey ==
  \A k \in TokenIds :
    tokens[k] # NoToken /\ ~tokens[k].used /\ now <= tokens[k].expires
      => rows[tokens[k].res].status # "CANCELLED"

(* What the cron handlers have closed lies in the past, and stays there.    *)
ClosedInThePast ==
  \A i \in Ids : rows[i] # NoRow =>
    /\ rows[i].status = "COMPLETED" => rows[i].end < now
    /\ rows[i].status = "NO_SHOW" => rows[i].start + NoShowGrace < now

(* The door opens only inside the window of the token that opened it: not   *)
(* before tokens are given out, not after they expire.                      *)
EntryInWindow ==
  \A k \in TokenIds : tokens[k] # NoToken /\ tokens[k].time # NoTime =>
    tokens[k].time \in (tokens[k].expires - TokenLife - TokenLead) .. tokens[k].expires

(* Whom getCurrentRoomStatus shows in a room is one reservation's guests (it *)
(* answers with the first record's reservation), and they did come in: no   *)
(* record was spent without an entry.                                       *)
OneOccupant ==
  \A r \in Rooms : \A k, l \in CurrentRecords(r) :
    tokens[k].res = tokens[l].res /\ tokens[k].time # NoTime

(* A closed reservation is never opened again, nor closed for another       *)
(* reason.                                                                  *)
ClosedIsFinal ==
  [][\A i \in Ids : rows[i] # NoRow /\ rows[i].status \in Closed
       => rows'[i].status = rows[i].status]_vars

(* Who entered is not a no-show.                                            *)
Attended(i) == \E k \in AccessRecords(i) : tokens[k].time # NoTime

AttendedNotNoShow ==
  [][\A i \in Ids : rows[i] # NoRow /\ rows'[i].status = "NO_SHOW" /\ Attended(i)
       => rows[i].status = "NO_SHOW"]_vars

-----------------------------------------------------------------------------
(* The reservations table as the calendar of the bookings.                  *)
Booking(row) ==
  IF row = NoRow THEN NoRow
  ELSE [room |-> row.room, start |-> row.start, end |-> row.end, status |-> row.status]

\* The null value is not a booking either.
ASSUME BookingAssumption ==
  NoRow \notin [room : Rooms, start : Nat, end : Nat, status : Statuses]

Calendar == INSTANCE BookingCalendar
              WITH Bookings <- Ids, Times <- Starts \cup Ends, Nothing <- NoRow,
                   calendar <- [i \in Ids |-> Booking(rows[i])]

(* When calls run one at a time the services, with their crashes, windows   *)
(* and cron handlers, do to the reservations what the calendar allows and   *)
(* nothing else.                                                            *)
ImplementsCalendar == Calendar!Spec

-----------------------------------------------------------------------------
\* Writer w's call ends in the write of this step.
Wrote(w) ==
  \/ w \in Requests /\ req[w].pc \in {"insert", "write"} /\ req'[w] # req[w]
  \/ w \in Jobs /\ job[w].pc = "write" /\ job'[w] # job[w]

(* The conflict check misses nothing that was there: two reservations come  *)
(* to clash only through a call that one of them was written behind, after  *)
(* the call had begun.                                                      *)
ClashOnlyIfOvertaken ==
  [][\A i, j \in Ids : ~Clash(i, j) /\ Clash(i, j)' =>
       \E w \in Writers : Wrote(w) /\ ~({i, j} \subseteq untouched[w])]_vars

\* The changes of status the guards of the handlers leave open.
Moves == {<<"PENDING", "CONFIRMED">>, <<"CONFIRMED", "COMPLETED">>,
          <<"CONFIRMED", "NO_SHOW">>}
         \cup (Statuses \ {"CANCELLED"}) \X {"CANCELLED"}

(* A status leaves the life cycle only through a call whose reservation was *)
(* written behind its back.                                                 *)
MoveOnlyIfOvertaken ==
  [][\A i \in Ids : rows[i] # NoRow /\ rows'[i].status # rows[i].status =>
       \/ <<rows[i].status, rows'[i].status>> \in Moves
       \/ \E w \in Writers : Wrote(w) /\ i \notin untouched[w]]_vars

\* The rules update shares with create: one open day, a permitted length, no
\* more attendees than the room holds.
Lawful(row) ==
  /\ ProperSlot(row.room, row.start, row.end)
  /\ row.attendees <= Capacity[row.room]

(* A reservation comes to break these rules only in a save whose call was   *)
(* overtaken in it, and mixes columns of two intervals: each call checks    *)
(* the interval it means to write, and none the one that is written.        *)
BreaksOnlyIfOvertaken ==
  [][\A i \in Ids :
       rows'[i] # NoRow /\ ~Lawful(rows'[i]) /\ (rows[i] # NoRow => Lawful(rows[i]))
         => \E w \in Writers : Wrote(w) /\ i \notin untouched[w]]_vars

-----------------------------------------------------------------------------
(* Once a token has opened the door, no further device takes it up: whoever *)
(* still opens with it had read it before, and no save gives it back.       *)
SpentForGood ==
  [][\A k \in TokenIds, d \in Doors :
       granted[k] >= 1 /\ acc'[d].tok = k => acc[d].tok = k]_vars

\* The calls that have found no token of reservation i and are to make one.
Making(i) == {d \in Doors : acc[d].pc = "insert" /\ acc[d].mem.res = i}

(* While all unused tokens of a reservation live, its tokens and the calls  *)
(* about to make one do not grow in number: a second token comes only from  *)
(* a call that had looked before the first was there (the lookup is to see  *)
(* to that, CLAUDE.ACCESS.md:111, "기존 유효 토큰 재사용").                     *)
TokensDoNotMultiply ==
  [][\A i \in Ids :
       UnusedTokens(i) # {} /\ (\A k \in UnusedTokens(i) : now < tokens[k].expires)
         => Cardinality(UnusedTokens(i)') + Cardinality(Making(i)')
              <= Cardinality(UnusedTokens(i)) + Cardinality(Making(i))]_vars

-----------------------------------------------------------------------------
(* A confirmed reservation does not stay so for ever: the cron handlers     *)
(* close it, unless it is cancelled.                                        *)
ConfirmedIsClosed ==
  \A i \in Ids : (rows[i] # NoRow /\ rows[i].status = "CONFIRMED")
                    ~> (rows[i] # NoRow /\ rows[i].status \in Closed)
=============================================================================
