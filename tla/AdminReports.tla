---------------------------- MODULE AdminReports ----------------------------
(***************************************************************************)
(* AdminService beside the services whose table it reads: an administrator *)
(* goes through the listing of the reservations page by page, or asks for  *)
(* the statistics.  Each page, each count and each figure is a statement   *)
(* of its own; the calls and cron handlers of RoomService go on between.   *)
(***************************************************************************)
EXTENDS RoomService, Listing

CONSTANTS
  Queries,      \* the filters asked for
  Limits        \* the rows of a page asked for

ASSUME ReportAssumption ==
  /\ Queries \subseteq ReservationQuery(Statuses, Rooms, Users, Starts)
  /\ Limits \subseteq Nat \ {0}
  /\ \A i, j \in Ids : IdOrder[i] \in Nat /\ (i # j => IdOrder[i] # IdOrder[j])

VARIABLES
  walk,      \* the listing the administrator goes through
  figures    \* the statistics asked for

reportVars == <<vars, walk, figures>>

Stored == [i \in {j \in Ids : rows[j] # NoRow} |-> rows[i]]

Listed(query) == ListedReservations(Stored, query)

\* seen: how often a row has been on a page.  History: base, the rows that were
\* listed throughout and where they were; shifted, whether another row has left
\* its place; added, whether one has come.
Walk == [pc : {"page", "count"}, query : Queries, limit : Limits,
         page : Nat \ {0}, seen : [Ids -> Nat], base : SUBSET Ids,
         shifted : BOOLEAN, added : BOOLEAN]

Figures == [pc : {"byStatus", "rest"}, total : Nat, byStatus : [Statuses -> Nat]]

Absent == [pc |-> "idle"]

ReportTypeOK ==
  /\ walk \in Walk \cup {Absent}
  /\ figures \in Figures \cup {Absent}

ReportInit == Init /\ walk = Absent /\ figures = Absent

\* The administrator does one thing at a time (a bound).
AtDesk == walk.pc = "idle" /\ figures.pc = "idle"

-----------------------------------------------------------------------------
(* getAllReservations, called for one page after the other until the last:  *)
(* findAndCount selects the rows of the page, then counts them all.         *)
\* Mutant: the first page is page 0.
WalkBeginZero(query, limit) ==
  /\ AtDesk
  /\ walk' = [pc |-> "page", query |-> query, limit |-> limit, page |-> 0,
              seen |-> [i \in Ids |-> 0], base |-> Listed(query),
              shifted |-> FALSE, added |-> FALSE]
  /\ UNCHANGED figures

WalkBegin(query, limit) ==
  /\ AtDesk
  /\ walk' = [pc |-> "page", query |-> query, limit |-> limit, page |-> 1,
              seen |-> [i \in Ids |-> 0], base |-> Listed(query),
              shifted |-> FALSE, added |-> FALSE]
  /\ UNCHANGED figures

WalkPage ==
  /\ walk.pc = "page"
  /\ LET shown == Page(Stored, Listed(walk.query), walk.page, walk.limit)
     IN  walk' = [walk EXCEPT !.pc = "count",
                              !.seen = [i \in Ids |-> IF i \in shown THEN @[i] + 1 ELSE @[i]]]
  /\ UNCHANGED figures

WalkCount ==
  /\ walk.pc = "count"
  /\ walk' = IF walk.page >= TotalPages(Cardinality(Listed(walk.query)), walk.limit)
             THEN Absent
             ELSE [walk EXCEPT !.pc = "page", !.page = @ + 1]
  /\ UNCHANGED figures

\* What a step of the services does to the rows an administrator goes through.
Followed ==
  IF walk = Absent THEN UNCHANGED walk
  ELSE LET listed == Listed(walk.query)
           later == ListedReservations(Stored', walk.query)
           left == {i \in listed : i \notin later \/ rows'[i].start # rows[i].start}
       IN  walk' = [walk EXCEPT !.base = @ \ left,
                                !.shifted = @ \/ left # {},
                                !.added = @ \/ ~(later \subseteq listed)]

-----------------------------------------------------------------------------
(* getStatistics, as far as it is about reservations: its total and its     *)
(* breakdown by status are statements of their own.                         *)
FiguresTotal ==
  /\ AtDesk
  /\ figures' = [pc |-> "byStatus", total |-> Cardinality(DOMAIN Stored),
                 byStatus |-> [st \in Statuses |-> 0]]
  /\ UNCHANGED walk

With(status) == {i \in DOMAIN Stored : rows[i].status = status}

\* Mutant: the overview is counted after the breakdown.
FiguresTotalLater ==
  /\ figures.pc = "byStatus"
  /\ figures' = [figures EXCEPT !.pc = "rest", !.total = Cardinality(DOMAIN Stored)]
  /\ UNCHANGED walk

FiguresByStatus ==
  /\ figures.pc = "byStatus"
  /\ figures' = [figures EXCEPT !.pc = "rest",
                                !.byStatus = [st \in Statuses |-> Cardinality(With(st))]]
  /\ UNCHANGED walk

\* The figures of rooms, days and the month; then the result is stored.
FiguresRest ==
  /\ figures.pc = "rest"
  /\ figures' = Absent
  /\ UNCHANGED walk

-----------------------------------------------------------------------------
Desk ==
  \/ \E query \in Queries, limit \in Limits : WalkBegin(query, limit)
  \/ WalkPage
  \/ WalkCount
  \/ FiguresTotal
  \/ FiguresByStatus
  \/ FiguresRest

ReportNext ==
  \/ Next /\ Followed /\ UNCHANGED figures
  \/ Desk /\ UNCHANGED vars

ReportSpec == ReportInit /\ [][ReportNext]_reportVars

-----------------------------------------------------------------------------
(* Who has gone through the pages of the listing has seen every reservation *)
(* that stayed in it and in its place, unless another one left its place    *)
(* meanwhile and drew those behind it forward (pages are cut by offset);    *)
(* and has seen it once, unless one came.                                   *)
WalkMissesNothing ==
  [][walk # Absent /\ walk' = Absent /\ ~walk.shifted =>
       \A i \in walk.base :
         IF walk.added THEN walk.seen[i] >= 1 ELSE walk.seen[i] = 1]_reportVars

(* The statistics are read at several moments: the overview never shows     *)
(* more reservations than are counted by status, these never more than      *)
(* there are, and what was counted as closed is found closed for the same   *)
(* reason whenever it is counted again.                                     *)
FiguresAddUp ==
  figures.pc = "rest" =>
    LET counted == figures.byStatus["PENDING"] + figures.byStatus["CONFIRMED"]
                     + figures.byStatus["CANCELLED"] + figures.byStatus["COMPLETED"]
                     + figures.byStatus["NO_SHOW"]
    IN  /\ figures.total <= counted
        /\ counted <= Cardinality(DOMAIN Stored)
        /\ \A st \in Closed : figures.byStatus[st] <= Cardinality(With(st))
=============================================================================
