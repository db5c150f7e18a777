------------------------ MODULE AdminReports_proofs ------------------------
(***************************************************************************)
(* Proofs about AdminReports: what an administrator reads from a table     *)
(* that changes between his statements.                                    *)
(***************************************************************************)
EXTENDS AdminReports, Serial_proofs

IdsFinite == IsFiniteSet(Ids)

\* The services go on under the administrator as they do without him.
LEMMA ReportsAreServices == ReportSpec => Spec
<1>1. ReportInit => Init
  BY DEF ReportInit
<1>2. [ReportNext]_reportVars => [Next]_vars
  BY DEF ReportNext, reportVars
<1> QED BY <1>1, <1>2, PTL DEF ReportSpec, Spec

LEMMA CountGrows ==
  ASSUME IdsFinite, NEW T \in SUBSET Ids, NEW S \in SUBSET T
  PROVE  /\ IsFiniteSet(S) /\ Cardinality(S) \in Nat
         /\ Cardinality(T) \in Nat /\ Cardinality(S) <= Cardinality(T)
<1>1. IsFiniteSet(T)
  BY FS_Subset DEF IdsFinite
<1>2. IsFiniteSet(S) /\ Cardinality(S) <= Cardinality(T)
  BY <1>1, FS_Subset
<1> QED BY <1>1, <1>2, FS_CardinalityType

LEMMA StoredAreIds ==
  /\ DOMAIN Stored = {j \in Ids : rows[j] # NoRow}
  /\ \A i \in DOMAIN Stored : Stored[i] = rows[i]
  /\ \A query : Listed(query) \in SUBSET Ids
  /\ \A query : Listed(query) \in SUBSET DOMAIN Stored
BY DEF Stored, Listed, ListedReservations

LEMMA StoredAreIdsNext ==
  /\ DOMAIN Stored' = {j \in Ids : rows'[j] # NoRow}
  /\ \A i \in DOMAIN Stored' : Stored'[i] = rows'[i]
  /\ \A query : ListedReservations(Stored', query) \in SUBSET Ids
  /\ \A query : ListedReservations(Stored', query) \in SUBSET DOMAIN Stored'
BY DEF Stored, ListedReservations

-----------------------------------------------------------------------------
LEMMA WalkIsNotAbsent ==
  /\ walk \in Walk \cup {Absent} => (walk.pc # "idle" <=> walk \in Walk)
  /\ walk \in Walk \cup {Absent} => (walk # Absent <=> walk \in Walk)
BY DEF Walk, Absent

LEMMA FiguresAreNotAbsent ==
  figures \in Figures \cup {Absent} => (figures.pc # "idle" <=> figures \in Figures)
BY DEF Figures, Absent

LEMMA WalkTypes ==
  ASSUME ReportTypeOK, [ReportNext]_reportVars
  PROVE  walk' \in Walk \cup {Absent}
<1>0. walk \in Walk \cup {Absent}
  BY DEF ReportTypeOK
<1>1. CASE \E query \in Queries, limit \in Limits : WalkBegin(query, limit)
  <2> PICK query \in Queries, limit \in Limits : WalkBegin(query, limit)
    BY <1>1
  <2>1. Listed(query) \in SUBSET Ids
    BY StoredAreIds
  <2> QED BY <2>1 DEF WalkBegin, Walk
<1>2. CASE WalkPage
  <2>1. walk \in Walk
    BY <1>0, <1>2, WalkIsNotAbsent DEF WalkPage
  <2>2. PICK shown : walk' = [walk EXCEPT !.pc = "count",
                                !.seen = [i \in Ids |-> IF i \in shown THEN @[i] + 1 ELSE @[i]]]
    BY <1>2 DEF WalkPage
  <2>3. [i \in Ids |-> IF i \in shown THEN walk.seen[i] + 1 ELSE walk.seen[i]] \in [Ids -> Nat]
    BY <2>1 DEF Walk
  <2> QED BY <2>1, <2>2, <2>3 DEF Walk
<1>3. CASE WalkCount
  <2>1. walk \in Walk
    BY <1>0, <1>3, WalkIsNotAbsent DEF WalkCount
  <2>2. CASE walk' = Absent
    BY <2>2
  <2>3. CASE walk' = [walk EXCEPT !.pc = "page", !.page = @ + 1]
    <3>1. walk.page + 1 \in Nat \ {0}
      BY <2>1 DEF Walk
    <3> QED BY <2>1, <2>3, <3>1 DEF Walk
  <2> QED BY <1>3, <2>2, <2>3 DEF WalkCount
<1>4. CASE Followed
  <2>1. CASE walk = Absent
    BY <1>4, <2>1 DEF Followed
  <2>2. CASE walk # Absent
    <3>0. walk \in Walk
      BY <1>0, <2>2
    <3>1. PICK left, x, y : walk' = [walk EXCEPT !.base = @ \ left,
                                                 !.shifted = @ \/ x # {},
                                                 !.added = @ \/ ~y]
      BY <1>4, <2>2 DEF Followed
    <3> QED BY <3>0, <3>1 DEF Walk
  <2> QED BY <2>1, <2>2
<1>5. CASE walk' = walk
  BY <1>0, <1>5
<1> QED BY <1>1, <1>2, <1>3, <1>4, <1>5
        DEF ReportNext, Desk, FiguresTotal, FiguresByStatus, FiguresRest, reportVars

LEMMA FigureTypes ==
  ASSUME IdsFinite, ReportTypeOK, [ReportNext]_reportVars
  PROVE  figures' \in Figures \cup {Absent}
<1>0. figures \in Figures \cup {Absent}
  BY DEF ReportTypeOK
<1>1. CASE FiguresTotal
  <2>1. Cardinality(DOMAIN Stored) \in Nat
    BY CountGrows, StoredAreIds
  <2> QED BY <1>1, <2>1 DEF FiguresTotal, Figures
<1>2. CASE FiguresByStatus
  <2>1. figures \in Figures
    BY <1>0, <1>2, FiguresAreNotAbsent DEF FiguresByStatus
  <2>2. \A st \in Statuses : Cardinality(With(st)) \in Nat
    BY CountGrows, StoredAreIds DEF With
  <2> QED BY <1>2, <2>1, <2>2 DEF FiguresByStatus, Figures
<1>3. CASE FiguresRest \/ figures' = figures
  BY <1>0, <1>3 DEF FiguresRest
<1> QED BY <1>1, <1>2, <1>3 DEF ReportNext, Desk, WalkBegin, WalkPage, WalkCount, reportVars

(* What the administrator holds keeps its form.                             *)
THEOREM ReportTypeCorrect ==
  ASSUME IdsFinite
  PROVE  ReportSpec => []ReportTypeOK
<1>1. ReportInit => ReportTypeOK
  BY DEF ReportInit, ReportTypeOK
<1>2. ReportTypeOK /\ [ReportNext]_reportVars => ReportTypeOK'
  BY WalkTypes, FigureTypes DEF ReportTypeOK
<1> QED BY <1>1, <1>2, PTL DEF ReportSpec

-----------------------------------------------------------------------------
(* The statistics.                                                          *)
LEMMA RowsStay ==
  ASSUME Inv, [Next]_vars, NEW i \in Ids, rows[i] # NoRow
  PROVE  rows'[i] # NoRow
<1>0. rows \in [Ids -> Row \cup {NoRow}] /\ Row \cap {NoRow} = {}
  BY NoRowAssumption DEF Inv, TypeInv, TypeOK, ResTypeOK, StoreTypeOK
<1>1. CASE rows' = rows
  BY <1>1
<1>2. CASE \E p \in Requests : SaveWrite(p) \/ \E k \in Ids : CreateInsert(p, k)
  BY <1>0, <1>2, RequestTypes, MergeRowType DEF SaveWrite, CreateInsert, WriteRow, Held
<1>3. CASE \E j \in Jobs : JobWrite(j)
  BY <1>0, <1>3, JobTypes, MergeRowType DEF JobWrite, WriteRow, Held
<1> QED BY <1>1, <1>2, <1>3, WritingStep

LEMMA DisjointCount ==
  ASSUME NEW S, NEW T, IsFiniteSet(S), IsFiniteSet(T), S \cap T = {}
  PROVE  IsFiniteSet(S \cup T) /\ Cardinality(S \cup T) = Cardinality(S) + Cardinality(T)
<1>1. Cardinality(S \cap T) = 0
  BY FS_EmptySet
<1>2. Cardinality(S) \in Nat /\ Cardinality(T) \in Nat
  BY FS_CardinalityType
<1>3. /\ IsFiniteSet(S \cup T)
      /\ Cardinality(S \cup T) = Cardinality(S) + Cardinality(T) - Cardinality(S \cap T)
  BY FS_Union
<1> QED BY <1>1, <1>2, <1>3

\* Every stored reservation has one of the five statuses.
LEMMA StatusesSplit ==
  ASSUME IdsFinite, Inv
  PROVE  Cardinality(DOMAIN Stored)
           = Cardinality(With("PENDING")) + Cardinality(With("CONFIRMED"))
               + Cardinality(With("CANCELLED")) + Cardinality(With("COMPLETED"))
               + Cardinality(With("NO_SHOW"))
<1> DEFINE A == With("PENDING")
           B == With("CONFIRMED")
           C == With("CANCELLED")
           D == With("COMPLETED")
           E == With("NO_SHOW")
<1>1. /\ IsFiniteSet(A) /\ IsFiniteSet(B) /\ IsFiniteSet(C) /\ IsFiniteSet(D) /\ IsFiniteSet(E)
      /\ Cardinality(A) \in Nat /\ Cardinality(B) \in Nat /\ Cardinality(C) \in Nat
      /\ Cardinality(D) \in Nat /\ Cardinality(E) \in Nat
  BY CountGrows, StoredAreIds DEF With
<1>2. /\ A \cap B = {} /\ (A \cup B) \cap C = {}
      /\ (A \cup B \cup C) \cap D = {} /\ (A \cup B \cup C \cup D) \cap E = {}
  BY DEF With
<1>3. DOMAIN Stored = A \cup B \cup C \cup D \cup E
  <2>1. \A i \in DOMAIN Stored : rows[i].status \in Statuses
    BY StoredAreIds DEF Inv, TypeInv, TypeOK, ResTypeOK, StoreTypeOK, Row
  <2> QED BY <2>1 DEF With, Statuses, Active, Closed
<1> HIDE DEF A, B, C, D, E
<1>4. IsFiniteSet(A \cup B) /\ Cardinality(A \cup B) = Cardinality(A) + Cardinality(B)
  BY <1>1, <1>2, DisjointCount
<1>5. /\ IsFiniteSet(A \cup B \cup C)
      /\ Cardinality(A \cup B \cup C) = Cardinality(A \cup B) + Cardinality(C)
  BY <1>1, <1>2, <1>4, DisjointCount
<1>6. /\ IsFiniteSet(A \cup B \cup C \cup D)
      /\ Cardinality(A \cup B \cup C \cup D) = Cardinality(A \cup B \cup C) + Cardinality(D)
  BY <1>1, <1>2, <1>5, DisjointCount
<1>7. Cardinality(A \cup B \cup C \cup D \cup E)
        = Cardinality(A \cup B \cup C \cup D) + Cardinality(E)
  BY <1>1, <1>2, <1>6, DisjointCount
<1> QED BY <1>1, <1>3, <1>4, <1>5, <1>6, <1>7 DEF A, B, C, D, E

\* Between two statements of the administrator reservations may come, and
\* close, but none goes and none is opened again.
LEMMA CountsGrow ==
  ASSUME IdsFinite, Safe, [Next]_vars
  PROVE  /\ Cardinality(DOMAIN Stored) <= Cardinality(DOMAIN Stored)'
         /\ Cardinality(DOMAIN Stored) \in Nat /\ Cardinality(DOMAIN Stored)' \in Nat
         /\ \A st \in Closed : /\ Cardinality(With(st)) <= Cardinality(With(st))'
                               /\ Cardinality(With(st)) \in Nat
                               /\ Cardinality(With(st))' \in Nat
<1>0. Inv /\ Alone /\ Past
  BY DEF Safe
<1>1. DOMAIN Stored \subseteq DOMAIN Stored'
  BY <1>0, StoredAreIds, StoredAreIdsNext, RowsStay
<1>2. ASSUME NEW st \in Closed
      PROVE  With(st) \subseteq With(st)'
  <2> SUFFICES ASSUME NEW i \in With(st)
               PROVE  i \in With(st)'
    OBVIOUS
  <2>1. i \in Ids /\ rows[i] # NoRow /\ rows[i].status = st /\ i \in DOMAIN Stored
    BY StoredAreIds DEF With
  <2>2. rows'[i].status = st
    BY <1>0, <2>1, ClosedStays
  <2> QED BY <1>1, <2>1, <2>2 DEF With
<1>3. DOMAIN Stored' \in SUBSET Ids
  BY StoredAreIdsNext
<1>4. \A st : With(st)' \in SUBSET Ids
  BY <1>3 DEF With
<1> QED BY <1>1, <1>2, <1>3, <1>4, CountGrows

(* The overview is no larger than what there is to count.                   *)
FiguresInv ==
  /\ figures.pc = "byStatus" => figures.total <= Cardinality(DOMAIN Stored)
  /\ FiguresAddUp

LEMMA NextFigures ==
  ASSUME IdsFinite, Safe, ReportTypeOK, FiguresInv, [ReportNext]_reportVars
  PROVE  FiguresInv'
<1>0. Inv /\ figures \in Figures \cup {Absent}
  BY DEF Safe, ReportTypeOK
<1>1. CASE figures' = figures
  <2>1. [Next]_vars
    BY DEF ReportNext, reportVars
  <2>2. CASE figures = Absent
    BY <1>1, <2>2 DEF FiguresInv, FiguresAddUp, Absent
  <2>3. CASE figures \in Figures
    <3>1. figures.total \in Nat /\ \A st \in Statuses : figures.byStatus[st] \in Nat
      BY <2>3 DEF Figures
    <3>2. /\ figures'.pc = "byStatus" => figures'.total <= Cardinality(DOMAIN Stored)'
      BY <1>1, <2>1, <3>1, CountsGrow DEF FiguresInv
    <3>3. FiguresAddUp'
      BY <1>1, <2>1, <3>1, CountsGrow DEF FiguresInv, FiguresAddUp, Statuses, Active, Closed
    <3> QED BY <3>2, <3>3 DEF FiguresInv
  <2> QED BY <1>0, <2>2, <2>3
<1>2. CASE FiguresTotal /\ UNCHANGED vars
  <2>1. /\ Cardinality(DOMAIN Stored) \in Nat
        /\ Cardinality(DOMAIN Stored)' = Cardinality(DOMAIN Stored)
    BY <1>2, CountGrows, StoredAreIds DEF Stored, vars, store
  <2> QED BY <1>2, <2>1 DEF FiguresTotal, FiguresInv, FiguresAddUp
<1>3. CASE FiguresByStatus /\ UNCHANGED vars
  <2>1. figures \in Figures
    BY <1>0, <1>3, FiguresAreNotAbsent DEF FiguresByStatus
  <2>2. /\ figures'.pc = "rest" /\ figures'.total = figures.total
        /\ \A st \in Statuses : figures'.byStatus[st] = Cardinality(With(st))
    BY <1>3, <2>1 DEF FiguresByStatus, Figures
  <2>3. figures.total <= Cardinality(DOMAIN Stored)
    BY <1>3 DEF FiguresByStatus, FiguresInv
  <2>4. /\ Cardinality(DOMAIN Stored)' = Cardinality(DOMAIN Stored)
        /\ \A st \in Statuses : Cardinality(With(st))' = Cardinality(With(st))
    BY <1>3 DEF With, Stored, vars, store
  <2>5. /\ Cardinality(DOMAIN Stored) \in Nat
        /\ \A st \in Statuses : Cardinality(With(st)) \in Nat
    BY CountGrows, StoredAreIds DEF With
  <2> QED BY <1>0, <2>2, <2>3, <2>4, <2>5, StatusesSplit
          DEF FiguresInv, FiguresAddUp, Statuses, Active, Closed
<1>4. CASE FiguresRest
  BY <1>4 DEF FiguresRest, FiguresInv, FiguresAddUp, Absent
<1> QED BY <1>1, <1>2, <1>3, <1>4
        DEF ReportNext, Desk, WalkBegin, WalkPage, WalkCount, reportVars

(* When calls run one at a time the figures of the statistics add up in     *)
(* the order they are read, though the table changes in between.            *)
THEOREM AloneFiguresAddUp ==
  ASSUME IdsFinite, ProcessesFinite, MaxInFlight <= 1
  PROVE  ReportSpec => []FiguresAddUp
<1>1. ReportInit => FiguresInv
  BY DEF ReportInit, FiguresInv, FiguresAddUp, Absent
<1>2. Safe /\ ReportTypeOK /\ FiguresInv /\ [ReportNext]_reportVars => FiguresInv'
  BY NextFigures
<1>3. FiguresInv => FiguresAddUp
  BY DEF FiguresInv
<1> QED BY <1>1, <1>2, <1>3, ReportsAreServices, SafeInvariant, ReportTypeCorrect, PTL
        DEF ReportSpec

-----------------------------------------------------------------------------
(* The pages.  A row's place is how many rows come before it: it moves back *)
(* when rows come, and only then if none leaves its place.                  *)
LEMMA PlaceGrows ==
  ASSUME IdsFinite, NEW t, NEW u, NEW L \in SUBSET Ids, NEW M \in SUBSET Ids, L \subseteq M,
         \A j \in L : t[j].start = u[j].start, NEW i \in L
  PROVE  /\ Position(t, L, i) \in Nat /\ Position(u, M, i) \in Nat
         /\ Position(t, L, i) <= Position(u, M, i)
         /\ M = L => Position(t, L, i) = Position(u, M, i)
<1> DEFINE A == {j \in L : \/ t[j].start > t[i].start
                           \/ t[j].start = t[i].start /\ IdOrder[j] < IdOrder[i]}
           B == {j \in M : \/ u[j].start > u[i].start
                           \/ u[j].start = u[i].start /\ IdOrder[j] < IdOrder[i]}
<1>1. A \subseteq B /\ B \in SUBSET Ids /\ (M = L => A = B)
  OBVIOUS
<1>2. Position(t, L, i) = Cardinality(A) /\ Position(u, M, i) = Cardinality(B)
  BY DEF Position
<1> HIDE DEF A, B
<1> QED BY <1>1, <1>2, CountGrows

LEMMA PlaceBelow ==
  ASSUME IdsFinite, NEW t, NEW L \in SUBSET Ids, NEW i \in L, t[i].start \in Nat
  PROVE  Position(t, L, i) < Cardinality(L)
<1> DEFINE A == {j \in L : \/ t[j].start > t[i].start
                           \/ t[j].start = t[i].start /\ IdOrder[j] < IdOrder[i]}
<1>1. A \subseteq L \ {i}
  BY ReportAssumption
<1>2. Position(t, L, i) = Cardinality(A)
  BY DEF Position
<1>3. IsFiniteSet(L) /\ Cardinality(L) \in Nat
  BY CountGrows
<1>4. Cardinality(L \ {i}) = Cardinality(L) - 1
  BY <1>3, FS_RemoveElement
<1>5. Cardinality(A) \in Nat /\ Cardinality(A) <= Cardinality(L \ {i})
  <2>1. L \ {i} \in SUBSET Ids
    OBVIOUS
  <2> HIDE DEF A
  <2> QED BY <1>1, <2>1, CountGrows
<1> QED BY <1>2, <1>3, <1>4, <1>5

\* The last page reaches to the end.
LEMMA PagesSuffice ==
  ASSUME NEW total \in Nat, NEW limit \in Nat \ {0}, NEW page \in Nat,
         page >= TotalPages(total, limit)
  PROVE  total <= page * limit
<1>1. PICK n \in Nat : n = total + limit - 1
  OBVIOUS
<1>2. PICK q \in Nat, m \in 0 .. limit - 1 : q = n \div limit /\ m = n % limit
  BY DayOf
<1>3. n = limit * q + m
  BY <1>2, SMTT(30)
<1>4. q <= page
  BY <1>1, <1>2 DEF TotalPages
<1>5. limit * q <= page * limit
  BY <1>4, SMTT(30)
<1>6. limit * q \in Nat /\ page * limit \in Nat
  OBVIOUS
<1> QED BY <1>1, <1>3, <1>5, <1>6

\* How many rows the pages shown so far have covered.
Covered == (IF walk.pc = "page" THEN walk.page - 1 ELSE walk.page) * walk.limit

Place(i) == Position(Stored, Listed(walk.query), i)

(* As long as no row leaves its place, the rows that were there at the      *)
(* beginning are, and those on the pages shown have been seen; as long as   *)
(* none comes either, nothing else has, and nothing twice.                  *)
WalkInv ==
  walk # Absent /\ ~walk.shifted =>
    /\ walk.base \subseteq Listed(walk.query)
    /\ \A i \in walk.base : walk.seen[i] >= 1 \/ Place(i) >= Covered
    /\ ~walk.added =>
         /\ Listed(walk.query) \subseteq walk.base
         /\ \A i \in walk.base : walk.seen[i] = IF Place(i) < Covered THEN 1 ELSE 0

LEMMA PlaceTypes ==
  ASSUME IdsFinite, Inv, NEW i \in Listed(walk.query)
  PROVE  /\ Place(i) \in Nat /\ Place(i) < Cardinality(Listed(walk.query))
         /\ Cardinality(Listed(walk.query)) \in Nat
<1>1. Listed(walk.query) \in SUBSET Ids
  BY StoredAreIds
<1>2. Stored[i].start \in Nat
  BY StoredAreIds DEF Inv, TypeInv, TypeOK, ResTypeOK, StoreTypeOK, Row
<1> QED BY <1>1, <1>2, PlaceGrows, PlaceBelow, CountGrows DEF Place

LEMMA CoveredTypes ==
  ASSUME walk \in Walk
  PROVE  /\ walk.page * walk.limit \in Nat /\ (walk.page - 1) * walk.limit \in Nat
         /\ walk.page * walk.limit = (walk.page - 1) * walk.limit + walk.limit
         /\ walk.limit \in Nat \ {0} /\ walk.page \in Nat \ {0}
<1>1. walk.limit \in Nat \ {0} /\ walk.page \in Nat \ {0}
  BY ReportAssumption DEF Walk
<1> DEFINE n == walk.page
           l == walk.limit
<1> HIDE DEF n, l
<1>2. n * l \in Nat /\ (n - 1) * l \in Nat /\ n * l = (n - 1) * l + l
  <2>1. n \in Nat \ {0} /\ l \in Nat \ {0}
    BY <1>1 DEF n, l
  <2>2. n - 1 \in Nat
    BY <2>1
  <2> QED BY <2>1, <2>2, SMTT(30)
<1> QED BY <1>1, <1>2 DEF n, l

-----------------------------------------------------------------------------
LEMMA BeginWalkInv ==
  ASSUME IdsFinite, Inv, NEW query \in Queries, NEW limit \in Limits,
         WalkBegin(query, limit), UNCHANGED vars
  PROVE  WalkInv'
<1>1. /\ walk'.query = query /\ walk'.pc = "page" /\ walk'.page = 1 /\ walk'.limit = limit
      /\ walk'.base = Listed(query) /\ \A i \in Ids : walk'.seen[i] = 0
  BY DEF WalkBegin
<1>2. Stored' = Stored /\ Listed(query)' = Listed(query)
  BY DEF Stored, Listed, vars, store
<1>3. Covered' = 0
  BY <1>1, ReportAssumption DEF Covered
<1>4. \A i \in Listed(query) : Place(i)' \in Nat
  <2>1. Listed(query) \in SUBSET Ids
    BY StoredAreIds
  <2>2. \A i \in Listed(query) : Position(Stored, Listed(query), i) \in Nat
    BY <2>1, PlaceGrows
  <2> QED BY <1>1, <1>2, <2>2 DEF Place
<1>5. Listed(query) \in SUBSET Ids
  BY StoredAreIds
<1>6. Listed(walk.query)' = Listed(query)
  BY <1>1, <1>2 DEF Listed
<1> QED BY <1>1, <1>3, <1>4, <1>5, <1>6 DEF WalkInv

LEMMA PageWalkInv ==
  ASSUME IdsFinite, Inv, walk \in Walk, WalkInv, WalkPage, UNCHANGED vars
  PROVE  WalkInv'
<1> DEFINE L == Listed(walk.query)
           shown == Page(Stored, L, walk.page, walk.limit)
<1>1. /\ walk' = [walk EXCEPT !.pc = "count",
                              !.seen = [i \in Ids |-> IF i \in shown THEN @[i] + 1 ELSE @[i]]]
      /\ walk.pc = "page"
  BY DEF WalkPage
<1> HIDE DEF shown
<1>2. /\ walk'.pc = "count" /\ walk'.query = walk.query /\ walk'.page = walk.page
      /\ walk'.limit = walk.limit /\ walk'.base = walk.base /\ walk'.shifted = walk.shifted
      /\ walk'.added = walk.added
      /\ \A i \in Ids : walk'.seen[i] = IF i \in shown THEN walk.seen[i] + 1 ELSE walk.seen[i]
  BY <1>1 DEF Walk
<1>3. Listed(walk.query)' = L /\ \A i : Place(i)' = Place(i)
  <2>1. Stored' = Stored
    BY DEF Stored, vars, store
  <2> QED BY <1>2, <2>1 DEF Listed, Place
<1>4. Covered = (walk.page - 1) * walk.limit /\ Covered' = walk.page * walk.limit
  BY <1>1, <1>2 DEF Covered
<1>5. Covered \in Nat /\ Covered' = Covered + walk.limit /\ walk.limit \in Nat \ {0}
  BY <1>4, CoveredTypes
<1>6. \A i \in L : i \in shown <=> Covered <= Place(i) /\ Place(i) < Covered'
  <2>1. \A i \in L : i \in shown <=> Place(i) - Covered \in 0 .. walk.limit - 1
    BY <1>4 DEF Page, Skip, Place, shown
  <2>2. \A i \in L : Place(i) \in Nat
    BY PlaceTypes
  <2> QED BY <1>5, <2>1, <2>2
<1> HIDE DEF L
<1>7. L \in SUBSET Ids /\ \A i \in L : Place(i) \in Nat /\ walk.seen[i] \in Nat
  BY StoredAreIds, PlaceTypes DEF L, Walk
<1>8. ASSUME ~walk.shifted
      PROVE  /\ walk.base \subseteq L
             /\ \A i \in walk.base : walk'.seen[i] >= 1 \/ Place(i) >= Covered'
             /\ ~walk.added =>
                  /\ L \subseteq walk.base
                  /\ \A i \in walk.base : walk'.seen[i] = IF Place(i) < Covered' THEN 1 ELSE 0
  <2>1. /\ walk.base \subseteq L
        /\ \A i \in walk.base : walk.seen[i] >= 1 \/ Place(i) >= Covered
        /\ ~walk.added =>
             /\ L \subseteq walk.base
             /\ \A i \in walk.base : walk.seen[i] = IF Place(i) < Covered THEN 1 ELSE 0
    BY <1>8, WalkIsNotAbsent DEF WalkInv, L
  <2> QED BY <1>2, <1>5, <1>6, <1>7, <2>1
<1> QED BY <1>2, <1>3, <1>8 DEF WalkInv

\* A step that shows no page, leaves the rows listed where they are, and says
\* so when others come.
LEMMA QuietWalkInv ==
  ASSUME IdsFinite, WalkInv, walk \in Walk,
         walk'.query = walk.query, walk'.seen = walk.seen, walk'.base = walk.base,
         Covered' = Covered, ~walk.shifted,
         Listed(walk.query) \subseteq Listed(walk.query)',
         \A i \in Listed(walk.query) : Stored[i].start = Stored'[i].start,
         ~walk'.added => ~walk.added /\ Listed(walk.query)' = Listed(walk.query)
  PROVE  WalkInv'
<1> DEFINE L == Listed(walk.query)
           M == Listed(walk.query)'
<1>1. L \in SUBSET Ids /\ M \in SUBSET Ids
  <2>1. M = ListedReservations(Stored', walk.query)
    BY DEF Listed
  <2> QED BY <2>1, StoredAreIds, StoredAreIdsNext
<1>2. /\ \A i \in L : Place(i) \in Nat /\ Place(i)' \in Nat /\ Place(i) <= Place(i)'
      /\ M = L => \A i \in L : Place(i) = Place(i)'
  <2>1. \A i : Place(i) = Position(Stored, L, i) /\ Place(i)' = Position(Stored', M, i)
    BY DEF Place
  <2> HIDE DEF L, M
  <2>2. L \subseteq M /\ \A i \in L : Stored[i].start = Stored'[i].start
    BY DEF L, M
  <2> QED BY <1>1, <2>1, <2>2, PlaceGrows
<1>3. Covered \in Nat
  BY CoveredTypes DEF Covered
<1>4. walk # Absent
  BY WalkIsNotAbsent
<1> QED BY <1>1, <1>2, <1>3, <1>4 DEF WalkInv

LEMMA FollowedWalkInv ==
  ASSUME IdsFinite, WalkInv, walk \in Walk, Followed
  PROVE  WalkInv'
<1> DEFINE listed == Listed(walk.query)
           later == ListedReservations(Stored', walk.query)
           left == {i \in listed : i \notin later \/ rows'[i].start # rows[i].start}
<1>1. walk' = [walk EXCEPT !.base = @ \ left,
                           !.shifted = @ \/ left # {},
                           !.added = @ \/ ~(later \subseteq listed)]
  BY WalkIsNotAbsent DEF Followed
<1> HIDE DEF left, later, listed
<1>2. /\ walk'.query = walk.query /\ walk'.seen = walk.seen /\ walk'.pc = walk.pc
      /\ walk'.page = walk.page /\ walk'.limit = walk.limit
      /\ walk'.base = walk.base \ left
      /\ walk'.shifted = (walk.shifted \/ left # {})
      /\ walk'.added = (walk.added \/ ~(later \subseteq listed))
  BY <1>1 DEF Walk
<1>3. Covered' = Covered
  BY <1>2 DEF Covered
<1>4. Listed(walk.query)' = later
  BY <1>2 DEF Listed, later
<1>5. CASE walk'.shifted
  BY <1>5 DEF WalkInv
<1>6. CASE ~walk'.shifted
  <2>1. left = {} /\ ~walk.shifted
    BY <1>2, <1>6
  <2>2. listed \subseteq later /\ \A i \in listed : rows'[i].start = rows[i].start
    BY <2>1 DEF left
  <2>3. \A i \in listed : Stored[i] = rows[i] /\ Stored'[i] = rows'[i]
    <3>1. listed \subseteq DOMAIN Stored /\ later \subseteq DOMAIN Stored'
      BY StoredAreIds, StoredAreIdsNext DEF listed, later
    <3> QED BY <2>2, <3>1, StoredAreIds, StoredAreIdsNext
  <2>4. ~walk'.added => ~walk.added /\ later = listed
    BY <1>2, <2>2
  <2>5. walk'.base = walk.base
    BY <1>2, <2>1
  <2> QED BY <1>2, <1>3, <1>4, <2>1, <2>2, <2>3, <2>4, <2>5, QuietWalkInv DEF listed
<1> QED BY <1>5, <1>6

LEMMA StillWalkInv ==
  ASSUME IdsFinite, WalkInv, walk \in Walk, UNCHANGED vars,
         walk' = walk \/ (walk.pc = "count" /\ walk' = [walk EXCEPT !.pc = "page", !.page = @ + 1])
  PROVE  WalkInv'
<1>1. /\ walk'.query = walk.query /\ walk'.seen = walk.seen /\ walk'.base = walk.base
      /\ walk'.shifted = walk.shifted /\ walk'.added = walk.added
  BY DEF Walk
<1>2. Covered' = Covered
  <2>1. CASE walk' = walk
    BY <2>1 DEF Covered
  <2>2. CASE walk.pc = "count" /\ walk' = [walk EXCEPT !.pc = "page", !.page = @ + 1]
    <3>1. walk'.pc = "page" /\ walk'.page = walk.page + 1 /\ walk'.limit = walk.limit
      BY <2>2 DEF Walk
    <3>2. walk'.page - 1 = walk.page
      BY <3>1, CoveredTypes
    <3>3. Covered' = (walk'.page - 1) * walk'.limit
      BY <3>1 DEF Covered
    <3>4. Covered = walk.page * walk.limit
      BY <2>2 DEF Covered
    <3> QED BY <3>1, <3>2, <3>3, <3>4
  <2> QED BY <2>1, <2>2
<1>3. Stored' = Stored /\ Listed(walk.query)' = Listed(walk.query)
  <2>1. Stored' = Stored
    BY DEF Stored, vars, store
  <2> QED BY <1>1, <2>1 DEF Listed
<1>4. CASE walk.shifted
  BY <1>1, <1>4 DEF WalkInv
<1>5. CASE ~walk.shifted
  BY <1>1, <1>2, <1>3, <1>5, QuietWalkInv
<1> QED BY <1>4, <1>5

LEMMA NextWalk ==
  ASSUME IdsFinite, Inv, ReportTypeOK, WalkInv, [ReportNext]_reportVars
  PROVE  WalkInv'
<1>0. walk \in Walk \cup {Absent}
  BY DEF ReportTypeOK
<1>1. CASE walk' = Absent
  BY <1>1 DEF WalkInv
<1>2. CASE /\ \E query \in Queries, limit \in Limits : WalkBegin(query, limit)
           /\ UNCHANGED vars
  BY <1>2, BeginWalkInv
<1>3. CASE WalkPage /\ UNCHANGED vars
  <2>1. walk \in Walk
    BY <1>0, <1>3, WalkIsNotAbsent DEF WalkPage
  <2> QED BY <1>3, <2>1, PageWalkInv
<1>4. CASE WalkCount /\ UNCHANGED vars
  <2>1. walk \in Walk
    BY <1>0, <1>4, WalkIsNotAbsent DEF WalkCount
  <2> QED BY <1>1, <1>4, <2>1, StillWalkInv DEF WalkCount
<1>5. CASE Followed
  <2>1. CASE walk = Absent
    BY <1>1, <1>5, <2>1 DEF Followed
  <2> QED BY <1>0, <1>5, <2>1, FollowedWalkInv
<1>6. CASE walk' = walk /\ UNCHANGED vars
  <2>1. CASE walk = Absent
    BY <1>1, <1>6, <2>1
  <2> QED BY <1>0, <1>6, <2>1, StillWalkInv
<1> QED BY <1>2, <1>3, <1>4, <1>5, <1>6
        DEF ReportNext, Desk, FiguresTotal, FiguresByStatus, FiguresRest, reportVars

\* The walk ends when the pages shown cover all there is.
LEMMA EndOfWalk ==
  ASSUME IdsFinite, Inv, ReportTypeOK, WalkInv, [ReportNext]_reportVars,
         walk # Absent, walk' = Absent, ~walk.shifted, NEW i \in walk.base
  PROVE  IF walk.added THEN walk.seen[i] >= 1 ELSE walk.seen[i] = 1
<1>0. walk \in Walk
  BY DEF ReportTypeOK
<1>1. Absent \notin Walk
  BY DEF Walk, Absent
<1>2. WalkCount
  <2>1. ~Followed
    <3>1. ASSUME NEW left, NEW x, NEW y,
                 walk' = [walk EXCEPT !.base = @ \ left, !.shifted = @ \/ x # {}, !.added = @ \/ ~y]
          PROVE  walk'.pc = walk.pc
      BY <1>0, <3>1 DEF Walk
    <3>2. walk'.pc # walk.pc
      BY <1>0 DEF Walk, Absent
    <3> QED BY <3>1, <3>2 DEF Followed
  <2>2. ~WalkPage
    BY <1>0 DEF WalkPage, Walk, Absent
  <2>3. \A query \in Queries, limit \in Limits : ~WalkBegin(query, limit)
    BY DEF WalkBegin, Absent
  <2>4. walk' # walk
    OBVIOUS
  <2> QED BY <2>1, <2>2, <2>3, <2>4
          DEF ReportNext, Desk, FiguresTotal, FiguresByStatus, FiguresRest, reportVars
<1>3. walk.page >= TotalPages(Cardinality(Listed(walk.query)), walk.limit)
  <2>1. ASSUME walk' = [walk EXCEPT !.pc = "page", !.page = @ + 1]
        PROVE  walk'.pc = "page"
    BY <1>0, <2>1 DEF Walk
  <2>2. walk'.pc = "idle"
    BY DEF Absent
  <2> QED BY <1>2, <2>1, <2>2 DEF WalkCount
<1>4. i \in Listed(walk.query) /\ Listed(walk.query) \in SUBSET Ids /\ i \in Ids
  BY StoredAreIds DEF WalkInv
<1>5. /\ Place(i) \in Nat /\ Place(i) < Cardinality(Listed(walk.query))
      /\ Cardinality(Listed(walk.query)) \in Nat
  BY <1>4, PlaceTypes
<1>6. Covered = walk.page * walk.limit
  BY <1>2 DEF WalkCount, Covered
<1>7. Cardinality(Listed(walk.query)) <= Covered
  BY <1>0, <1>3, <1>5, <1>6, CoveredTypes, PagesSuffice
<1>8. Covered \in Nat /\ Place(i) < Covered
  BY <1>0, <1>5, <1>6, <1>7, CoveredTypes
<1> QED BY <1>5, <1>8 DEF WalkInv

(* Who goes through the pages of the listing misses none that stayed in its *)
(* place, unless a row left its own meanwhile, and sees none twice unless   *)
(* one came: however the calls of the services interleave with his.         *)
THEOREM WalksMissNothing ==
  ASSUME IdsFinite
  PROVE  ReportSpec => WalkMissesNothing
<1> DEFINE Step == walk # Absent /\ walk' = Absent /\ ~walk.shifted =>
              \A i \in walk.base :
                IF walk.added THEN walk.seen[i] >= 1 ELSE walk.seen[i] = 1
<1>1. ReportInit => WalkInv
  BY DEF ReportInit, WalkInv
<1>2. Inv /\ ReportTypeOK /\ WalkInv /\ [ReportNext]_reportVars => WalkInv'
  BY NextWalk
<1>3. Inv /\ ReportTypeOK /\ WalkInv /\ [ReportNext]_reportVars => [Step]_reportVars
  BY EndOfWalk
<1>4. ReportSpec => [][Step]_reportVars
  BY <1>1, <1>2, <1>3, ReportsAreServices, Invariance, ReportTypeCorrect, PTL DEF ReportSpec
<1> QED BY <1>4 DEF WalkMissesNothing
=============================================================================
