------------------------------ MODULE Listing ------------------------------
(***************************************************************************)
(* The listing of reservations of AdminService: filters, order and pages,  *)
(* as operators on a table.  A page is cut out of the filtered rows in the *)
(* order of the query; rows equal in it come in the order of their ids,    *)
(* which TypeORM adds to the order of a page cut from a query with joins.  *)
(***************************************************************************)
EXTENDS Integers, FiniteSets

CONSTANTS
  NoFilter,   \* a filter that is not given
  IdOrder     \* IdOrder[i]: where the id i comes in the order of ids

\* The filters of AdminReservationQueryDto.
ReservationQuery(statuses, rooms, users, dates) ==
  [status : statuses \cup {NoFilter}, room : rooms \cup {NoFilter}, user : users \cup {NoFilter},
   startDate : dates \cup {NoFilter}, endDate : dates \cup {NoFilter}]

Passes(filter, value) == filter = NoFilter \/ filter = value

\* Between(from, to) of TypeORM: both ends belong to it.  A date is its first
\* moment, so of the last day only that moment does; without one of the ends
\* the years 2000 and 2100 stand for it, beyond every start.
InDates(query, start) ==
  /\ query.startDate # NoFilter => query.startDate <= start
  /\ query.endDate # NoFilter => start <= query.endDate

ListedReservations(table, query) ==
  {i \in DOMAIN table : /\ Passes(query.status, table[i].status)
                        /\ Passes(query.room, table[i].room)
                        /\ Passes(query.user, table[i].user)
                        /\ InDates(query, table[i].start)}

-----------------------------------------------------------------------------
\* Mutant: pages are counted from 0.
SkipFromZero(page, limit) == page * limit

Skip(page, limit) == (page - 1) * limit

\* Math.ceil(total / limit).
TotalPages(total, limit) == (total + limit - 1) \div limit

\* How many of the rows come before row i: the later start first.
Position(table, listed, i) ==
  Cardinality({j \in listed : \/ table[j].start > table[i].start
                              \/ table[j].start = table[i].start /\ IdOrder[j] < IdOrder[i]})

Page(table, listed, page, limit) ==
  {i \in listed : Position(table, listed, i) - Skip(page, limit) \in 0 .. limit - 1}
=============================================================================
