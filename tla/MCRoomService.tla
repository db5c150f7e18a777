--------------------------- MODULE MCRoomService ---------------------------
(***************************************************************************)
(* RoomService for TLC: one unit of time is about ten minutes to half an   *)
(* hour; the windows keep the order they have in the code                  *)
(* (10 < 30 < 60 minutes).  The clock shows two units as one minute, so    *)
(* that a slot may end within the minute of closing.  All of a day is      *)
(* opening time but its ends, and the second of three days is closed.      *)
(***************************************************************************)
EXTENDS RoomService, TLC

MCCapacity == [r \in Rooms |-> 1]
MCHours == [r \in Rooms |-> [weekdays |-> {0, 2}, opens |-> 1, closes |-> 3]]
MCJobs == {NoShows, AutoCompletion}

Symmetry == Permutations(Ids) \cup Permutations(TokenIds)
            \cup Permutations(Requests) \cup Permutations(Doors)

-----------------------------------------------------------------------------
(* Bounds of the runs with two reservations and many calls at once.         *)
Made == {i \in Ids : rows[i] # NoRow}

NoTokens == \A k \in TokenIds : tokens[k] = NoToken

NoGuests == NoTokens /\ \A d \in Doors : acc[d].pc = "idle"

\* Closing: while there are two reservations no token is about.
Closings == Cardinality(Made) <= 1 \/ NoGuests

ClosingsSpec == Init /\ [][Next /\ Closings']_vars /\ Fairness

EndsInUse == {rows[i].end : i \in Made}
             \cup {req[p].mem.end : p \in {q \in Requests : req[q].mem # NoRow}}

FirstEnd == CHOOSE e \in Ends : \A x \in Ends : e <= x
LastEnd == CHOOSE e \in Ends : \A x \in Ends : x <= e

\* Pairs: either one reservation at most and all that can befall it, its slot
\* drawn out but never short, or two that are made, moved and cancelled at
\* once, their slots short enough to lie side by side.
OneByItself == Cardinality(Made) <= 1 /\ FirstEnd \notin EndsInUse

TwoAtOnce ==
  /\ now = 0
  /\ NoGuests
  /\ LastEnd \notin EndsInUse
  /\ \A i \in Made : rows[i].status # "CONFIRMED"

CouplesSpec == Init /\ [][Next /\ (OneByItself' \/ TwoAtOnce')]_vars
=============================================================================
