------------------------- MODULE RoomService_proofs -------------------------
(***************************************************************************)
(* Proofs about RoomService, for any number of reservations, tokens, rooms *)
(* and calls in flight, and for any lengths of the windows.                *)
(***************************************************************************)
EXTENDS RoomService, TLAPS

(* What a call in flight holds: the entity it writes exists in the table    *)
(* and, by the time it is written, in the memory of the call twice.         *)
Held(c) ==
  /\ c.pc \in {"lock", "insert"} => c.id = NoId /\ c.mem \in Row
  /\ c.pc \in {"slot", "tokens", "load", "write"} =>
       c.id \in Ids /\ c.mem \in Row /\ rows[c.id] \in Row
  /\ c.pc = "write" => c.seen \in Row

RequestsHold == \A p \in Requests : Held(req[p])

JobsHold ==
  \A j \in Jobs :
    /\ Held(job[j])
    /\ \A i \in Ids : job[j].todo[i] # NoRow => rows[i] \in Row

EntriesHold ==
  \A d \in Doors :
    /\ acc[d].pc \in {"lookup", "insert"} => acc[d].mem \in Token
    /\ acc[d].pc \in {"load", "write"} =>
         /\ acc[d].tok \in TokenIds
         /\ acc[d].mem \in Token
         /\ tokens[acc[d].tok] \in Token
    /\ acc[d].pc = "write" => acc[d].seen \in Token

(* The inductive form of the type invariant: a save merges two entities the *)
(* call holds into a row of the table, so all three must be there.          *)
TypeInv == TypeOK /\ RequestsHold /\ JobsHold /\ EntriesHold

-----------------------------------------------------------------------------
(* What a call has made sure of, as far as nobody has written behind it.    *)
RequestFresh(p) ==
  LET c == req[p]
  IN  /\ c.pc = "insert" =>
           \A k \in untouched[p] : ~Blocks(rows[k], c.mem.room, c.mem.start, c.mem.end)
      /\ c.pc = "tokens" => c.mem.status = "CANCELLED"
      /\ c.pc \in {"slot", "tokens", "load", "write"} /\ c.id \in untouched[p] =>
           /\ c.mem.room = rows[c.id].room
           /\ c.mem.status \in Active => rows[c.id].status \in Active
           /\ \/ c.mem.status = rows[c.id].status
              \/ <<rows[c.id].status, c.mem.status>> \in Moves
      /\ c.pc \in {"load", "write"} /\ c.id \in untouched[p] /\ c.mem.status \in Active =>
           \A k \in untouched[p] \ {c.id} :
             Blocks(rows[k], c.mem.room, c.mem.start, c.mem.end)
               => Blocks(rows[k], rows[c.id].room, rows[c.id].start, rows[c.id].end)
      /\ c.pc = "write" /\ c.id \in untouched[p] => c.seen = rows[c.id]

JobFresh(j) ==
  LET c == job[j]
  IN  /\ \A i \in Ids : c.todo[i] # NoRow /\ i \in untouched[j] =>
           c.todo[i] = rows[i] /\ rows[i].status = "CONFIRMED"
      /\ c.pc \in {"load", "write"} =>
           /\ c.mem.status \in {"COMPLETED", "NO_SHOW"}
           /\ c.id \in untouched[j] =>
                rows[c.id].status = "CONFIRMED" /\ c.mem.room = rows[c.id].room
      /\ c.pc = "write" /\ c.id \in untouched[j] => c.seen = rows[c.id]

Fresh == (\A p \in Requests : RequestFresh(p)) /\ (\A j \in Jobs : JobFresh(j))

Inv == TypeInv /\ Fresh

-----------------------------------------------------------------------------
LEMMA MergeRowType ==
  ASSUME NEW row \in Row, NEW mem \in Row, NEW seen \in Row
  PROVE  MergeRow(row, mem, seen) \in Row
BY DEF MergeRow, Column, Row

\* A save that is not overtaken writes what the call has in memory.
LEMMA MergeFresh ==
  ASSUME NEW row \in Row, NEW mem \in Row
  PROVE  /\ MergeRow(row, mem, row).start = mem.start
         /\ MergeRow(row, mem, row).end = mem.end
         /\ MergeRow(row, mem, row).status = mem.status
         /\ MergeRow(row, mem, row).room = row.room
BY DEF MergeRow, Column, Row

LEMMA MergeAttendees ==
  ASSUME NEW row \in Row, NEW mem \in Row
  PROVE  MergeRow(row, mem, row).attendees = mem.attendees
BY DEF MergeRow, Column, Row

LEMMA MergeTokenType ==
  ASSUME NEW row \in Token, NEW mem \in Token, NEW seen \in Token
  PROVE  MergeToken(row, mem, seen) \in Token
BY DEF MergeToken, Column, Token

LEMMA IdleType == Idle \in Call /\ Held(Idle)
BY DEF Idle, Call, Pcs, Held

LEMMA JobIdleType == JobIdle \in Run /\ Held(JobIdle)
BY DEF JobIdle, EmptyList, Run, Held

\* What a call has made sure of outlives every step of the others that
\* leaves alone the rows it still counts as untouched.
LEMMA RequestFreshKept ==
  ASSUME NEW p \in Requests, RequestFresh(p),
         req'[p] = req[p],
         untouched'[p] \subseteq untouched[p],
         \A k \in untouched'[p] : rows'[k] = rows[k]
  PROVE  RequestFresh(p)'
BY DEF RequestFresh, Blocks

LEMMA JobFreshKept ==
  ASSUME NEW j \in Jobs, JobFresh(j),
         job'[j] = job[j],
         untouched'[j] \subseteq untouched[j],
         \A k \in untouched'[j] : rows'[k] = rows[k]
  PROVE  JobFresh(j)'
BY DEF JobFresh

\* No row leaves the table.
RowsKept == \A k \in Ids : rows[k] \in Row => rows'[k] \in Row

\* Nor a token, and all stay well-typed.
TokensKept == /\ tokens' \in [TokenIds -> Token \cup {NoToken}]
              /\ \A k \in TokenIds : tokens[k] \in Token => tokens'[k] \in Token

LEMMA EntriesHeldKept ==
  ASSUME EntriesHold, TokensKept, acc' = acc
  PROVE  EntriesHold'
BY DEF EntriesHold, TokensKept

LEMMA RequestHeldKept ==
  ASSUME NEW p \in Requests, Held(req[p]), req'[p] = req[p], RowsKept
  PROVE  Held(req[p])'
BY DEF Held, RowsKept

LEMMA JobHeldKept ==
  ASSUME NEW j \in Jobs, job'[j] = job[j], RowsKept,
         Held(job[j]),
         \A i \in Ids : job[j].todo[i] # NoRow => rows[i] \in Row
  PROVE  /\ Held(job[j])'
         /\ \A i \in Ids : job'[j].todo[i] # NoRow => rows'[i] \in Row
BY DEF Held, RowsKept

-----------------------------------------------------------------------------
(* A step of request p that writes no reservation.                          *)
LEMMA RequestQuiet ==
  ASSUME Inv, NEW p \in Requests, NEW c \in Call, NEW S \in SUBSET Ids,
         UNCHANGED <<now, rows, acc, granted, job>>, TokensKept,
         req' = [req EXCEPT ![p] = c],
         untouched' = [untouched EXCEPT ![p] = S],
         Held(c),
         RequestFresh(p)'
  PROVE  Inv'
<1> USE DEF Inv, TypeInv, Fresh
<1>0. /\ untouched \in [Writers -> SUBSET Ids]
      /\ req \in [Requests -> Call]
      /\ Requests \cap Jobs = {}
  BY StoreAssumption DEF TypeOK, ResTypeOK, StoreTypeOK
<1>1. TypeOK'
  BY <1>0 DEF TypeOK, ResTypeOK, StoreTypeOK, AccTypeOK, JobTypeOK, Writers, TokensKept
<1>2. RowsKept
  BY DEF RowsKept
<1>3. RequestsHold'
  <2> SUFFICES ASSUME NEW q \in Requests PROVE Held(req[q])'
    BY DEF RequestsHold
  <2>1. CASE q = p
    BY <2>1, <1>0 DEF Held
  <2>2. CASE q # p
    BY <2>2, <1>0, <1>2, RequestHeldKept DEF RequestsHold
  <2> QED BY <2>1, <2>2
<1>4. JobsHold'
  BY <1>2, JobHeldKept DEF JobsHold
<1>5. EntriesHold'
  BY EntriesHeldKept
<1>6. ASSUME NEW q \in Requests PROVE RequestFresh(q)'
  <2>1. CASE q = p
    BY <2>1
  <2>2. CASE q # p
    BY <2>2, <1>0, RequestFreshKept DEF Writers
  <2> QED BY <2>1, <2>2
<1>7. ASSUME NEW j \in Jobs PROVE JobFresh(j)'
  BY <1>0, JobFreshKept DEF Writers
<1> QED BY <1>1, <1>3, <1>4, <1>5, <1>6, <1>7

(* A step in which request p writes reservation i, and is over.             *)
LEMMA RequestWrites ==
  ASSUME Inv, NEW p \in Requests, NEW i \in Ids, NEW r \in Row,
         UNCHANGED <<now, tokens, acc, granted, job>>,
         req' = [req EXCEPT ![p] = Idle],
         rows' = [rows EXCEPT ![i] = r],
         OvertakeOthers(p, i)
  PROVE  Inv'
<1> USE DEF Inv, TypeInv, Fresh
<1>0. /\ untouched \in [Writers -> SUBSET Ids]
      /\ rows \in [Ids -> Row \cup {NoRow}]
      /\ req \in [Requests -> Call]
      /\ Requests \cap Jobs = {}
  BY StoreAssumption DEF TypeOK, ResTypeOK, StoreTypeOK
<1>a. \A x \in Writers : untouched'[x] \subseteq untouched[x] \ {i}
  BY <1>0 DEF OvertakeOthers
<1>b. untouched' \in [Writers -> SUBSET Ids]
  BY <1>0 DEF OvertakeOthers
<1>1. TypeOK'
  BY <1>0, <1>b, IdleType
  DEF TypeOK, ResTypeOK, StoreTypeOK, AccTypeOK, JobTypeOK
<1>2. RowsKept
  BY <1>0 DEF RowsKept
<1>3. RequestsHold'
  <2> SUFFICES ASSUME NEW q \in Requests PROVE Held(req[q])'
    BY DEF RequestsHold
  <2>1. CASE q = p
    BY <2>1, <1>0 DEF Held, Idle
  <2>2. CASE q # p
    BY <2>2, <1>0, <1>2, RequestHeldKept DEF RequestsHold
  <2> QED BY <2>1, <2>2
<1>4. JobsHold'
  BY <1>2, JobHeldKept DEF JobsHold
<1>5. EntriesHold'
  BY DEF EntriesHold
<1>6. ASSUME NEW q \in Requests PROVE RequestFresh(q)'
  <2>1. CASE q = p
    BY <2>1, <1>0 DEF RequestFresh, Idle
  <2>2. CASE q # p
    BY <2>2, <1>0, <1>a, RequestFreshKept DEF Writers
  <2> QED BY <2>1, <2>2
<1>7. ASSUME NEW j \in Jobs PROVE JobFresh(j)'
  BY <1>0, <1>a, JobFreshKept DEF Writers
<1> QED BY <1>1, <1>3, <1>4, <1>5, <1>6, <1>7

(* A step of job j that writes no reservation.                              *)
LEMMA JobQuiet ==
  ASSUME Inv, NEW j \in Jobs, NEW c \in Run, NEW S \in SUBSET Ids,
         UNCHANGED <<now, rows, tokens, req, acc, granted>>,
         job' = [job EXCEPT ![j] = c],
         untouched' = [untouched EXCEPT ![j] = S],
         Held(c), \A i \in Ids : c.todo[i] # NoRow => rows[i] \in Row,
         JobFresh(j)'
  PROVE  Inv'
<1> USE DEF Inv, TypeInv, Fresh
<1>0. /\ untouched \in [Writers -> SUBSET Ids]
      /\ job \in [Jobs -> Run]
      /\ Requests \cap Jobs = {}
  BY StoreAssumption DEF TypeOK, ResTypeOK, StoreTypeOK, JobTypeOK
<1>1. TypeOK'
  BY <1>0 DEF TypeOK, ResTypeOK, StoreTypeOK, AccTypeOK, JobTypeOK, Writers
<1>2. RowsKept
  BY DEF RowsKept
<1>3. RequestsHold'
  BY <1>2, RequestHeldKept DEF RequestsHold
<1>4. JobsHold'
  <2> SUFFICES ASSUME NEW l \in Jobs
               PROVE  /\ Held(job[l])'
                      /\ \A i \in Ids : job'[l].todo[i] # NoRow => rows'[i] \in Row
    BY DEF JobsHold
  <2>1. CASE l = j
    BY <2>1, <1>0 DEF Held
  <2>2. CASE l # j
    BY <2>2, <1>0, <1>2, JobHeldKept DEF JobsHold
  <2> QED BY <2>1, <2>2
<1>5. EntriesHold'
  BY DEF EntriesHold
<1>6. ASSUME NEW q \in Requests PROVE RequestFresh(q)'
  BY <1>0, RequestFreshKept DEF Writers
<1>7. ASSUME NEW l \in Jobs PROVE JobFresh(l)'
  <2>1. CASE l = j
    BY <2>1
  <2>2. CASE l # j
    BY <2>2, <1>0, JobFreshKept DEF Writers
  <2> QED BY <2>1, <2>2
<1> QED BY <1>1, <1>3, <1>4, <1>5, <1>6, <1>7

(* A step in which job j writes reservation i and goes on to the next.      *)
LEMMA JobWrites ==
  ASSUME Inv, NEW j \in Jobs, NEW i \in Ids, NEW r \in Row, NEW c \in Run,
         UNCHANGED <<now, tokens, req, acc, granted>>,
         job' = [job EXCEPT ![j] = c],
         rows' = [rows EXCEPT ![i] = r],
         untouched' \in [Writers -> SUBSET Ids],
         \A x \in Writers : untouched'[x] \subseteq untouched[x] \ {i},
         c.pc \in {"idle", "next"},
         \A k \in Ids : c.todo[k] # NoRow => c.todo[k] = job[j].todo[k]
  PROVE  Inv'
<1> USE DEF Inv, TypeInv, Fresh
<1>0. /\ untouched \in [Writers -> SUBSET Ids]
      /\ rows \in [Ids -> Row \cup {NoRow}]
      /\ job \in [Jobs -> Run]
      /\ Requests \cap Jobs = {}
  BY StoreAssumption DEF TypeOK, ResTypeOK, StoreTypeOK, JobTypeOK
<1>1. TypeOK'
  BY <1>0 DEF TypeOK, ResTypeOK, StoreTypeOK, AccTypeOK, JobTypeOK
<1>2. RowsKept
  BY <1>0 DEF RowsKept
<1>3. RequestsHold'
  BY <1>2, RequestHeldKept DEF RequestsHold
<1>4. JobsHold'
  <2> SUFFICES ASSUME NEW l \in Jobs
               PROVE  /\ Held(job[l])'
                      /\ \A k \in Ids : job'[l].todo[k] # NoRow => rows'[k] \in Row
    BY DEF JobsHold
  <2>1. CASE l = j
    <3>1. Held(job[l])'
      BY <2>1, <1>0 DEF Held
    <3>2. \A k \in Ids : job'[l].todo[k] # NoRow => rows'[k] \in Row
      BY <2>1, <1>0, <1>2 DEF JobsHold, RowsKept
    <3> QED BY <3>1, <3>2
  <2>2. CASE l # j
    BY <2>2, <1>0, <1>2, JobHeldKept DEF JobsHold
  <2> QED BY <2>1, <2>2
<1>5. EntriesHold'
  BY DEF EntriesHold
<1>6. ASSUME NEW q \in Requests PROVE RequestFresh(q)'
  BY <1>0, RequestFreshKept DEF Writers
<1>7. ASSUME NEW l \in Jobs PROVE JobFresh(l)'
  <2>1. CASE l = j
    <3>1. \A k \in Ids : c.todo[k] # NoRow /\ k \in untouched'[j] =>
             c.todo[k] = rows'[k] /\ rows'[k].status = "CONFIRMED"
      BY <1>0 DEF JobFresh, Writers
    <3> QED BY <2>1, <3>1, <1>0 DEF JobFresh
  <2>2. CASE l # j
    BY <2>2, <1>0, JobFreshKept DEF Writers
  <2> QED BY <2>1, <2>2
<1> QED BY <1>1, <1>3, <1>4, <1>5, <1>6, <1>7

(* A step of AccessService: the reservations are only read.                 *)
LEMMA EntrySteps ==
  ASSUME Inv, UNCHANGED <<now, rows, untouched, req, job>>,
         tokens' \in [TokenIds -> Token \cup {NoToken}],
         AccTypeOK', EntriesHold'
  PROVE  Inv'
<1> USE DEF Inv, TypeInv, Fresh
<1>1. TypeOK'
  BY DEF TypeOK, ResTypeOK, StoreTypeOK, JobTypeOK
<1>2. RowsKept
  BY DEF RowsKept
<1>3. RequestsHold' /\ JobsHold'
  BY <1>2, RequestHeldKept, JobHeldKept DEF RequestsHold, JobsHold
<1>4. Fresh'
  BY RequestFreshKept, JobFreshKept
<1> QED BY <1>1, <1>3, <1>4

-----------------------------------------------------------------------------
(* The steps of the requests, one by one.                                   *)
LEMMA RequestTypes ==
  ASSUME Inv, NEW p \in Requests
  PROVE  /\ now \in Nat
         /\ rows \in [Ids -> Row \cup {NoRow}]
         /\ tokens \in [TokenIds -> Token \cup {NoToken}]
         /\ untouched \in [Writers -> SUBSET Ids]
         /\ p \in Writers
         /\ req \in [Requests -> Call]
         /\ Held(req[p])
         /\ RequestFresh(p)
         /\ TypeInv
BY DEF Inv, TypeInv, TypeOK, ResTypeOK, StoreTypeOK, RequestsHold, Fresh, Writers

\* The beginning of a call on a reservation that is in the table.
LEMMA BeginOn ==
  ASSUME Inv, NEW p \in Requests, NEW i \in Ids, NEW m \in Row,
         NEW pc \in {"slot", "tokens", "load"},
         rows[i] # NoRow,
         Begin(p, pc, i, m),
         m.room = rows[i].room,
         m.status \in Active => rows[i].status \in Active,
         m.status = rows[i].status \/ <<rows[i].status, m.status>> \in Moves,
         pc = "tokens" => m.status = "CANCELLED",
         pc = "load" => m.start = rows[i].start /\ m.end = rows[i].end,
         UNCHANGED <<acc, granted, job>>
  PROVE  Inv'
<1> DEFINE c == [pc |-> pc, id |-> i, mem |-> m, seen |-> NoRow]
<1>1. c \in Call
  BY DEF Call, Pcs
<1>2. Held(c)
  BY RequestTypes DEF Held
<1>3. req'[p] = c /\ untouched'[p] = Ids
  BY RequestTypes DEF Begin, Watch
<1>4. RequestFresh(p)'
  BY <1>3 DEF RequestFresh, Begin, Blocks
<1>5. TokensKept
  BY RequestTypes DEF TokensKept, Begin
<1> HIDE DEF c
<1> QED BY <1>1, <1>2, <1>4, <1>5, RequestQuiet DEF Begin, Watch, c

LEMMA CreateBeginInv ==
  ASSUME Inv, NEW p \in Requests,
         NEW u \in Users, NEW r \in Rooms, NEW s \in Starts, NEW e \in Ends,
         NEW n \in Parties,
         CreateBegin(p, u, r, s, e, n), UNCHANGED <<acc, granted, job>>
  PROVE  Inv'
<1> DEFINE m == [user |-> u, room |-> r, start |-> s, end |-> e,
                 attendees |-> n, status |-> "PENDING"]
           c == [pc |-> "lock", id |-> NoId, mem |-> m, seen |-> NoRow]
<1>1. m \in Row
  BY InputAssumption DEF Row, Statuses, Active
<1>2. c \in Call /\ Held(c)
  BY <1>1 DEF Call, Pcs, Held
<1>3. req' = [req EXCEPT ![p] = c]
  BY DEF CreateBegin, Begin
<1>4. RequestFresh(p)'
  BY <1>3, RequestTypes DEF RequestFresh
<1>5. TokensKept
  BY RequestTypes DEF TokensKept, CreateBegin, Begin
<1> HIDE DEF c, m
<1> QED BY <1>2, <1>3, <1>4, <1>5, RequestQuiet DEF CreateBegin, Begin, Watch

LEMMA UpdateTimesInv ==
  ASSUME Inv, NEW p \in Requests, NEW u \in Users, NEW i \in Ids,
         rows[i] # NoRow,
         NEW s \in Starts \cup {rows[i].start}, NEW e \in Ends \cup {rows[i].end},
         NEW n \in Parties,
         UpdateTimes(p, u, i, s, e, n), UNCHANGED <<acc, granted, job>>
  PROVE  Inv'
<1> DEFINE m == [rows[i] EXCEPT !.start = s, !.end = e, !.attendees = n]
<1>1. rows[i] \in Row
  BY RequestTypes
<1>2. m \in Row /\ m.room = rows[i].room /\ m.status = rows[i].status
  BY <1>1, InputAssumption DEF Row
<1> HIDE DEF m
<1> QED BY <1>2, BeginOn DEF UpdateTimes, m

LEMMA UpdateDetailsInv ==
  ASSUME Inv, NEW p \in Requests, NEW u \in Users, NEW i \in Ids,
         NEW n \in Parties,
         UpdateDetails(p, u, i, n), UNCHANGED <<acc, granted, job>>
  PROVE  Inv'
<1> DEFINE m == [rows[i] EXCEPT !.attendees = n]
<1>1. rows[i] \in Row
  BY RequestTypes DEF UpdateDetails
<1>2. /\ m \in Row /\ m.room = rows[i].room /\ m.status = rows[i].status
      /\ m.start = rows[i].start /\ m.end = rows[i].end
  BY <1>1, InputAssumption DEF Row
<1> HIDE DEF m
<1> QED BY <1>2, BeginOn DEF UpdateDetails, m

LEMMA CancelBeginInv ==
  ASSUME Inv, NEW p \in Requests, NEW u \in Users, NEW i \in Ids,
         CancelBegin(p, u, i), UNCHANGED <<acc, granted, job>>
  PROVE  Inv'
<1> DEFINE m == [rows[i] EXCEPT !.status = "CANCELLED"]
<1>1. rows[i] \in Row
  BY RequestTypes DEF CancelBegin
<1>2. /\ m \in Row /\ m.room = rows[i].room /\ m.status = "CANCELLED"
      /\ rows[i].status # "CANCELLED" => <<rows[i].status, m.status>> \in Moves
  BY <1>1 DEF Row, Statuses, Active, Closed, Moves
<1> HIDE DEF m
<1> QED BY <1>2, BeginOn DEF CancelBegin, MayCancel, Active, m

LEMMA ConfirmBeginInv ==
  ASSUME Inv, NEW p \in Requests, NEW i \in Ids,
         ConfirmBegin(p, i), UNCHANGED <<acc, granted, job>>
  PROVE  Inv'
<1> DEFINE m == [rows[i] EXCEPT !.status = "CONFIRMED"]
<1>1. rows[i] \in Row
  BY RequestTypes DEF ConfirmBegin
<1>2. /\ m \in Row /\ m.room = rows[i].room
      /\ m.start = rows[i].start /\ m.end = rows[i].end
      /\ <<rows[i].status, m.status>> \in Moves
      /\ rows[i].status \in Active
  BY <1>1 DEF Row, Statuses, Active, Moves, ConfirmBegin
<1> HIDE DEF m
<1> QED BY <1>2, BeginOn DEF ConfirmBegin, m

LEMMA RejectInv ==
  ASSUME Inv, NEW p \in Requests, Reject(p), UNCHANGED <<acc, granted, job>>
  PROVE  Inv'
<1>1. RequestFresh(p)'
  BY RequestTypes DEF Reject, RequestFresh, Idle
<1>2. TokensKept
  BY RequestTypes DEF TokensKept, Reject
<1>3. /\ req' = [req EXCEPT ![p] = Idle]
      /\ untouched' = [untouched EXCEPT ![p] = {}]
      /\ UNCHANGED <<now, rows, acc, granted, job>>
  BY DEF Reject, Unwatch
<1>4. {} \in SUBSET Ids
  OBVIOUS
<1> QED BY <1>1, <1>2, <1>3, <1>4, IdleType, RequestQuiet

\* The conflict query has found nothing: the call goes on to pc.
LEMMA SlotFreeInv ==
  ASSUME Inv, NEW p \in Requests, NEW pc \in {"insert", "load"},
         req[p].pc = IF pc = "insert" THEN "lock" ELSE "slot",
         SlotFree(p), Goto(p, pc), UNCHANGED <<acc, granted, job>>
  PROVE  Inv'
<1> DEFINE c == [req[p] EXCEPT !.pc = pc]
<1>1. c \in Call /\ Held(c)
  BY RequestTypes DEF Call, Pcs, Held
<1>2. req' = [req EXCEPT ![p] = c] /\ req'[p] = c
  BY RequestTypes DEF Goto
<1>3. \A k \in Ids \ {req[p].id} :
         ~Blocks(rows[k], req[p].mem.room, req[p].mem.start, req[p].mem.end)
  BY DEF SlotFree, Conflicts
<1>4. RequestFresh(p)'
  <2>1. CASE pc = "insert"
    BY <2>1, <1>2, <1>3, RequestTypes, StoreAssumption
    DEF RequestFresh, Held, Goto, store, Call, Blocks
  <2>2. CASE pc = "load"
    BY <2>2, <1>2, <1>3, RequestTypes
    DEF RequestFresh, Held, Goto, store, Call, Blocks
  <2> QED BY <2>1, <2>2
<1>5. TokensKept
  BY RequestTypes DEF TokensKept, Goto, store
<1>6. untouched[p] \in SUBSET Ids /\ untouched' = [untouched EXCEPT ![p] = untouched[p]]
  BY RequestTypes DEF Goto, store
<1> HIDE DEF c
<1> QED BY <1>1, <1>2, <1>4, <1>5, <1>6, RequestQuiet DEF Goto, store

LEMMA CreateInsertInv ==
  ASSUME Inv, NEW p \in Requests, NEW i \in Ids,
         CreateInsert(p, i), UNCHANGED <<acc, granted, job>>
  PROVE  Inv'
<1>1. req[p].mem \in Row
  BY RequestTypes DEF CreateInsert, Held
<1> QED BY <1>1, RequestWrites DEF CreateInsert, WriteRow

LEMMA CancelTokensInv ==
  ASSUME Inv, NEW p \in Requests, CancelTokens(p), UNCHANGED <<acc, granted, job>>
  PROVE  Inv'
<1> DEFINE c == [req[p] EXCEPT !.pc = "load"]
<1>1. c \in Call /\ Held(c)
  BY RequestTypes DEF Call, Pcs, Held, CancelTokens
<1>2. req' = [req EXCEPT ![p] = c] /\ req'[p] = c
  BY RequestTypes DEF CancelTokens
<1>3. RequestFresh(p)'
  BY <1>2, RequestTypes DEF RequestFresh, CancelTokens, Active, Call
<1>4. TokensKept
  BY RequestTypes, ZenonT(40) DEF TokensKept, CancelTokens, Token, UnusedTokens, AccessRecords
<1>5. untouched[p] \in SUBSET Ids /\ untouched' = [untouched EXCEPT ![p] = untouched[p]]
  BY RequestTypes DEF CancelTokens
<1> HIDE DEF c
<1> QED BY <1>1, <1>2, <1>3, <1>4, <1>5, RequestQuiet DEF CancelTokens

LEMMA SaveLoadInv ==
  ASSUME Inv, NEW p \in Requests, SaveLoad(p), UNCHANGED <<acc, granted, job>>
  PROVE  Inv'
<1> DEFINE c == [req[p] EXCEPT !.pc = "write", !.seen = rows[req[p].id]]
<1>1. c \in Call /\ Held(c)
  BY RequestTypes DEF Call, Pcs, Held, SaveLoad
<1>2. req' = [req EXCEPT ![p] = c] /\ req'[p] = c
  BY RequestTypes DEF SaveLoad
<1>3. RequestFresh(p)'
  <2>1. /\ c.pc = "write" /\ c.id = req[p].id /\ c.mem = req[p].mem
        /\ c.seen = rows[req[p].id] /\ req[p].pc = "load"
        /\ untouched' = untouched /\ rows' = rows
    BY RequestTypes DEF SaveLoad, store, Call
  <2> HIDE DEF c
  <2> QED BY <1>2, <2>1, RequestTypes DEF RequestFresh, Blocks
<1>4. TokensKept
  BY RequestTypes DEF TokensKept, SaveLoad, store
<1>5. untouched[p] \in SUBSET Ids /\ untouched' = [untouched EXCEPT ![p] = untouched[p]]
  BY RequestTypes DEF SaveLoad, store
<1> HIDE DEF c
<1> QED BY <1>1, <1>2, <1>3, <1>4, <1>5, RequestQuiet DEF SaveLoad, store

LEMMA SaveWriteInv ==
  ASSUME Inv, NEW p \in Requests, SaveWrite(p), UNCHANGED <<acc, granted, job>>
  PROVE  Inv'
<1> DEFINE r == MergeRow(rows[req[p].id], req[p].mem, req[p].seen)
<1>1. req[p].id \in Ids /\ r \in Row
  BY RequestTypes, MergeRowType DEF SaveWrite, Held
<1>2. rows' = [rows EXCEPT ![req[p].id] = r] /\ OvertakeOthers(p, req[p].id)
  BY DEF SaveWrite, WriteRow
<1> HIDE DEF r
<1> QED BY <1>1, <1>2, RequestWrites DEF SaveWrite

LEMMA RequestInv == Inv /\ Request => Inv'
<1> SUFFICES ASSUME Inv, NEW p \in Requests, ResBegin(p) \/ ResStep(p),
                    UNCHANGED <<acc, granted, job>>
             PROVE  Inv'
  BY DEF Request
<1>1. CASE ResBegin(p)
  BY <1>1, CreateBeginInv, UpdateTimesInv, UpdateDetailsInv, CancelBeginInv,
     ConfirmBeginInv DEF ResBegin
<1>2. CASE CreateCheck(p) \/ UpdateCheck(p)
  BY <1>2, SlotFreeInv, RejectInv DEF CreateCheck, UpdateCheck
<1>3. CASE ResStep(p) /\ ~(CreateCheck(p) \/ UpdateCheck(p))
  BY <1>3, CreateInsertInv, CancelTokensInv, SaveLoadInv, SaveWriteInv, RejectInv
  DEF ResStep, Abort
<1> QED BY <1>1, <1>2, <1>3

-----------------------------------------------------------------------------
(* The steps of the access calls.                                           *)
LEMMA EntryTypes ==
  ASSUME Inv, NEW d \in Doors
  PROVE  /\ now \in Nat
         /\ rows \in [Ids -> Row \cup {NoRow}]
         /\ tokens \in [TokenIds -> Token \cup {NoToken}]
         /\ acc \in [Doors -> AccCall]
         /\ granted \in [TokenIds -> Nat]
         /\ EntriesHold
BY DEF Inv, TypeInv, TypeOK, ResTypeOK, StoreTypeOK, AccTypeOK

\* A step of call d that writes no token.
LEMMA EntryQuiet ==
  ASSUME Inv, NEW d \in Doors, NEW c \in AccCall,
         UNCHANGED <<store, granted, req, job>>,
         acc' = [acc EXCEPT ![d] = c],
         c.pc \in {"lookup", "insert"} => c.mem \in Token,
         c.pc \in {"load", "write"} =>
           c.tok \in TokenIds /\ c.mem \in Token /\ tokens[c.tok] \in Token,
         c.pc = "write" => c.seen \in Token
  PROVE  Inv'
<1>1. AccTypeOK' /\ EntriesHold'
  BY EntryTypes DEF AccTypeOK, EntriesHold, store
<1> QED BY <1>1, EntryTypes, EntrySteps DEF store

\* A step of call d that writes token k and is over.
LEMMA EntryWrites ==
  ASSUME Inv, NEW d \in Doors, NEW k \in TokenIds, NEW t \in Token,
         UNCHANGED <<now, rows, untouched, req, job>>,
         acc' = [acc EXCEPT ![d] = AccIdle],
         tokens' = [tokens EXCEPT ![k] = t],
         granted' \in [TokenIds -> Nat]
  PROVE  Inv'
<1>1. AccIdle \in AccCall
  BY DEF AccIdle, AccCall
<1>2. AccTypeOK'
  BY <1>1, EntryTypes DEF AccTypeOK
<1>3. EntriesHold'
  BY EntryTypes DEF EntriesHold, AccIdle
<1> QED BY <1>2, <1>3, EntryTypes, EntrySteps

LEMMA GenerateBeginInv ==
  ASSUME Inv, NEW d \in Doors, NEW u \in Users, NEW i \in Ids,
         GenerateBegin(d, u, i), UNCHANGED <<req, job>>
  PROVE  Inv'
<1> DEFINE m == [res |-> i, expires |-> rows[i].start + TokenLife,
                 used |-> FALSE, time |-> NoTime]
           c == [pc |-> "lookup", tok |-> NoId, mem |-> m, seen |-> NoToken]
<1>1. m \in Token
  BY EntryTypes, WindowAssumption DEF GenerateBegin, Token, Row
<1>2. c \in AccCall /\ c.pc = "lookup" /\ c.mem \in Token
  BY <1>1 DEF AccCall
<1>3. acc' = [acc EXCEPT ![d] = c] /\ UNCHANGED <<store, granted>>
  BY DEF GenerateBegin, AccBegin
<1> HIDE DEF c
<1> QED BY <1>2, <1>3, EntryQuiet

LEMMA VerifyBeginInv ==
  ASSUME Inv, NEW d \in Doors, NEW k \in TokenIds,
         VerifyBegin(d, k), UNCHANGED <<req, job>>
  PROVE  Inv'
<1> DEFINE m == [tokens[k] EXCEPT !.used = TRUE, !.time = now]
           c == [pc |-> "load", tok |-> k, mem |-> m, seen |-> NoToken]
<1>1. tokens[k] \in Token /\ m \in Token
  BY EntryTypes DEF VerifyBegin, Token
<1>2. c \in AccCall /\ c.pc = "load" /\ c.mem \in Token /\ c.tok = k
  BY <1>1 DEF AccCall
<1>3. acc' = [acc EXCEPT ![d] = c] /\ UNCHANGED <<store, granted>>
  BY DEF VerifyBegin, AccBegin
<1> HIDE DEF c
<1> QED BY <1>1, <1>2, <1>3, EntryQuiet

LEMMA EntryInv == Inv /\ Entry => Inv'
<1> SUFFICES ASSUME Inv, NEW d \in Doors, AccNew(d) \/ AccStep(d),
                    UNCHANGED <<req, job>>
             PROVE  Inv'
  BY DEF Entry
<1>0. AccIdle \in AccCall /\ AccIdle.pc = "idle"
  BY DEF AccIdle, AccCall
<1>1. CASE AccNew(d)
  BY <1>1, GenerateBeginInv, VerifyBeginInv DEF AccNew
<1>2. CASE GenerateReuse(d) \/ AccAbort(d)
  BY <1>2, <1>0, EntryQuiet DEF GenerateReuse, AccAbort, AccDone
<1>3. CASE GenerateNew(d)
  <2> DEFINE c == [acc[d] EXCEPT !.pc = "insert"]
  <2>1. c \in AccCall /\ c.pc = "insert" /\ c.mem \in Token
    BY <1>3, EntryTypes DEF GenerateNew, AccCall, EntriesHold
  <2>2. acc' = [acc EXCEPT ![d] = c]
    BY <1>3, EntryTypes DEF GenerateNew
  <2> HIDE DEF c
  <2> QED BY <1>3, <2>1, <2>2, EntryQuiet DEF GenerateNew
<1>4. CASE \E k \in TokenIds : GenerateInsert(d, k)
  <2> PICK k \in TokenIds : GenerateInsert(d, k)
    BY <1>4
  <2>1. acc[d].mem \in Token
    BY EntryTypes DEF GenerateInsert, EntriesHold
  <2>2. granted' \in [TokenIds -> Nat]
    BY EntryTypes DEF GenerateInsert
  <2> QED BY <2>1, <2>2, EntryWrites DEF GenerateInsert, AccDone
<1>5. CASE VerifyLoad(d)
  <2> DEFINE c == [acc[d] EXCEPT !.pc = "write", !.seen = tokens[acc[d].tok]]
  <2>1. /\ c \in AccCall /\ c.pc = "write" /\ c.mem \in Token
        /\ c.tok \in TokenIds /\ tokens[c.tok] \in Token /\ c.seen \in Token
    BY <1>5, EntryTypes DEF VerifyLoad, AccCall, EntriesHold
  <2>2. acc' = [acc EXCEPT ![d] = c]
    BY <1>5, EntryTypes DEF VerifyLoad
  <2> HIDE DEF c
  <2> QED BY <1>5, <2>1, <2>2, EntryQuiet DEF VerifyLoad
<1>6. CASE VerifyWrite(d)
  <2>1. /\ acc[d].tok \in TokenIds
        /\ MergeToken(tokens[acc[d].tok], acc[d].mem, acc[d].seen) \in Token
    BY <1>6, EntryTypes, MergeTokenType DEF VerifyWrite, EntriesHold
  <2>2. granted' \in [TokenIds -> Nat]
    BY <1>6, <2>1, EntryTypes DEF VerifyWrite
  <2> QED BY <1>6, <2>1, <2>2, EntryWrites DEF VerifyWrite, AccDone
<1> QED BY <1>1, <1>2, <1>3, <1>4, <1>5, <1>6 DEF AccStep

-----------------------------------------------------------------------------
(* The steps of the cron handlers.                                          *)
LEMMA JobTypes ==
  ASSUME Inv, NEW j \in Jobs
  PROVE  /\ rows \in [Ids -> Row \cup {NoRow}]
         /\ untouched \in [Writers -> SUBSET Ids]
         /\ j \in Writers
         /\ job \in [Jobs -> Run]
         /\ Held(job[j])
         /\ \A i \in Ids : job[j].todo[i] # NoRow => rows[i] \in Row
         /\ JobFresh(j)
BY DEF Inv, TypeInv, TypeOK, ResTypeOK, StoreTypeOK, JobTypeOK, JobsHold, Fresh, Writers

LEMMA ScanInv ==
  ASSUME Inv, NEW j \in Jobs, NEW due \in SUBSET Ids,
         \A i \in due : rows[i] # NoRow /\ rows[i].status = "CONFIRMED",
         Scan(j, due), UNCHANGED <<req, acc, granted>>
  PROVE  Inv'
<1>1. CASE due = {}
  <2>1. UNCHANGED vars
    BY <1>1 DEF Scan, vars, store
  <2> QED BY <2>1, EntrySteps, EntryTypes
       DEF vars, store, Inv, TypeInv, TypeOK, ResTypeOK, StoreTypeOK, AccTypeOK, EntriesHold
<1>2. CASE due # {}
  <2> DEFINE list == [i \in Ids |-> IF i \in due THEN rows[i] ELSE NoRow]
             c == [job[j] EXCEPT !.pc = "next", !.todo = list]
  <2>1. list \in [Ids -> Row \cup {NoRow}]
    BY JobTypes
  <2>2. c \in Run /\ c.pc = "next" /\ c.todo = list
    BY <2>1, JobTypes, ZenonT(40) DEF Run
  <2>3. job' = [job EXCEPT ![j] = c] /\ job'[j] = c
    BY <1>2, JobTypes DEF Scan
  <2>4. /\ untouched' = [untouched EXCEPT ![j] = Ids]
        /\ UNCHANGED <<now, rows, tokens>>
    BY <1>2 DEF Scan, Watch
  <2>5. \A i \in Ids : c.todo[i] # NoRow =>
           c.todo[i] = rows[i] /\ rows[i] \in Row /\ rows[i].status = "CONFIRMED"
    BY <2>2, JobTypes
  <2> HIDE DEF c
  <2>6. Held(c)
    BY <2>2 DEF Held
  <2>7. JobFresh(j)'
    BY <2>2, <2>3, <2>4, <2>5 DEF JobFresh
  <2> QED BY <2>2, <2>3, <2>4, <2>5, <2>6, <2>7, JobQuiet
<1> QED BY <1>1, <1>2

LEMMA MarkInv ==
  ASSUME Inv, NEW j \in Jobs, NEW i \in Ids, NEW status \in {"COMPLETED", "NO_SHOW"},
         job[j].todo[i] # NoRow,
         Mark(j, i, status), UNCHANGED <<req, acc, granted>>
  PROVE  Inv'
<1> DEFINE m == [job[j].todo[i] EXCEPT !.status = status]
           c == [job[j] EXCEPT !.pc = "load", !.id = i, !.mem = m]
<1>1. job[j].todo[i] \in Row /\ rows[i] \in Row
  BY JobTypes DEF Run
<1>2. m \in Row /\ m.status = status /\ m.room = job[j].todo[i].room
  BY <1>1 DEF Row, Statuses, Active, Closed
<1> HIDE DEF m
<1>3. /\ c \in Run /\ c.pc = "load" /\ c.id = i /\ c.mem = m
      /\ c.todo = job[j].todo
  BY <1>2, JobTypes DEF Run
<1>4. job' = [job EXCEPT ![j] = c] /\ job'[j] = c
  BY JobTypes DEF Mark, m
<1> HIDE DEF c
<1>5. Held(c)
  BY <1>1, <1>2, <1>3 DEF Held
<1>6. /\ untouched[j] \in SUBSET Ids
      /\ untouched' = [untouched EXCEPT ![j] = untouched[j]]
      /\ UNCHANGED <<now, rows, tokens, untouched>>
  BY JobTypes DEF Mark, store
<1>7. JobFresh(j)'
  BY <1>2, <1>3, <1>4, <1>6, JobTypes DEF JobFresh
<1> QED BY <1>3, <1>4, <1>5, <1>6, <1>7, JobTypes, JobQuiet

\* The run after it is done with a reservation.
LEMMA AfterType ==
  ASSUME Inv, NEW j \in Jobs, NEW i \in Ids
  PROVE  /\ After(j, i) \in Run
         /\ After(j, i).pc \in {"idle", "next"}
         /\ \A k \in Ids : After(j, i).todo[k] # NoRow =>
               After(j, i).todo[k] = job[j].todo[k]
BY JobTypes DEF After, Others, JobIdle, EmptyList, Run

LEMMA NoShowSkipInv ==
  ASSUME Inv, NoShows \in Jobs, NEW i \in Ids,
         NoShowSkip(i), UNCHANGED <<req, acc, granted>>
  PROVE  Inv'
<1> DEFINE c == After(NoShows, i)
           S == IF Others(NoShows, i) = EmptyList THEN {} ELSE untouched[NoShows]
<1>1. /\ c \in Run /\ c.pc \in {"idle", "next"}
      /\ \A k \in Ids : c.todo[k] # NoRow => c.todo[k] = job[NoShows].todo[k]
  BY AfterType
<1>2. /\ job' = [job EXCEPT ![NoShows] = c] /\ job'[NoShows] = c
      /\ UNCHANGED <<now, rows, tokens>>
  BY JobTypes DEF NoShowSkip
<1>3. /\ S \in SUBSET Ids
      /\ untouched' = [untouched EXCEPT ![NoShows] = S]
      /\ untouched'[NoShows] \subseteq untouched[NoShows]
  BY JobTypes DEF NoShowSkip, Unwatch
<1> HIDE DEF c, S
<1>4. Held(c)
  BY <1>1 DEF Held
<1>5. JobFresh(NoShows)'
  BY <1>1, <1>2, <1>3, JobTypes DEF JobFresh
<1>6. \A k \in Ids : c.todo[k] # NoRow => rows[k] \in Row
  BY <1>1, JobTypes
<1> QED BY <1>1, <1>2, <1>3, <1>4, <1>5, <1>6, JobQuiet

LEMMA JobLoadInv ==
  ASSUME Inv, NEW j \in Jobs, JobLoad(j), UNCHANGED <<req, acc, granted>>
  PROVE  Inv'
<1> DEFINE c == [job[j] EXCEPT !.pc = "write", !.seen = rows[job[j].id]]
<1>1. /\ job[j].pc = "load" /\ job[j].id \in Ids
      /\ job[j].mem \in Row /\ rows[job[j].id] \in Row
  BY JobTypes DEF JobLoad, Held
<1>2. /\ c \in Run /\ c.pc = "write" /\ c.id = job[j].id /\ c.mem = job[j].mem
      /\ c.todo = job[j].todo /\ c.seen = rows[job[j].id]
  BY <1>1, JobTypes DEF Run
<1>3. job' = [job EXCEPT ![j] = c] /\ job'[j] = c
  BY JobTypes DEF JobLoad
<1> HIDE DEF c
<1>4. Held(c)
  BY <1>1, <1>2 DEF Held
<1>5. /\ untouched[j] \in SUBSET Ids
      /\ untouched' = [untouched EXCEPT ![j] = untouched[j]]
      /\ UNCHANGED <<now, rows, tokens, untouched>>
  BY JobTypes DEF JobLoad, store
<1>6. JobFresh(j)'
  BY <1>1, <1>2, <1>3, <1>5, JobTypes DEF JobFresh
<1> QED BY <1>2, <1>3, <1>4, <1>5, <1>6, JobTypes, JobQuiet

LEMMA JobWriteInv ==
  ASSUME Inv, NEW j \in Jobs, JobWrite(j), UNCHANGED <<req, acc, granted>>
  PROVE  Inv'
<1> DEFINE i == job[j].id
           r == MergeRow(rows[i], job[j].mem, job[j].seen)
           c == After(j, i)
<1>1. i \in Ids /\ r \in Row
  BY JobTypes, MergeRowType DEF JobWrite, Held
<1>2. /\ c \in Run /\ c.pc \in {"idle", "next"}
      /\ \A k \in Ids : c.todo[k] # NoRow => c.todo[k] = job[j].todo[k]
  BY <1>1, AfterType
<1>3. /\ untouched' \in [Writers -> SUBSET Ids]
      /\ \A x \in Writers : untouched'[x] \subseteq untouched[x] \ {i}
  BY JobTypes DEF JobWrite, OvertakeOthers, Overtake
<1>4. /\ rows' = [rows EXCEPT ![i] = r]
      /\ job' = [job EXCEPT ![j] = c]
      /\ UNCHANGED <<now, tokens>>
  BY DEF JobWrite, WriteRow
<1> HIDE DEF c, r, i
<1> QED BY <1>1, <1>2, <1>3, <1>4, JobWrites

LEMMA JobAbortInv ==
  ASSUME Inv, NEW j \in Jobs, JobAbort(j), UNCHANGED <<req, acc, granted>>
  PROVE  Inv'
<1>1. /\ job' = [job EXCEPT ![j] = JobIdle] /\ job'[j] = JobIdle
      /\ untouched' = [untouched EXCEPT ![j] = {}]
      /\ {} \in SUBSET Ids
      /\ UNCHANGED <<now, rows, tokens>>
  BY JobTypes DEF JobAbort, Unwatch
<1>2. \A i \in Ids : JobIdle.todo[i] = NoRow
  BY DEF JobIdle, EmptyList
<1>3. JobFresh(j)'
  BY <1>1, <1>2 DEF JobFresh, JobIdle
<1> QED BY <1>1, <1>2, <1>3, JobIdleType, JobQuiet

LEMMA CronInv == Inv /\ Cron => Inv'
<1> SUFFICES ASSUME Inv, NEW j \in Jobs, JobNew(j) \/ JobStep(j),
                    UNCHANGED <<req, acc, granted>>
             PROVE  Inv'
  BY DEF Cron
<1>1. CASE JobNew(j)
  <2> DEFINE noShows == {i \in Ids : rows[i] # NoRow /\ NoShowDue(rows[i], now)}
             over == {i \in Ids : rows[i] # NoRow /\ CompletionDue(rows[i], now)}
  <2>1. /\ noShows \in SUBSET Ids /\ over \in SUBSET Ids
        /\ \A i \in noShows \cup over : rows[i] # NoRow /\ rows[i].status = "CONFIRMED"
    BY DEF NoShowDue, CompletionDue
  <2>2. Scan(j, noShows) \/ Scan(j, over)
    BY <1>1 DEF JobNew, NoShowScan, CompletionScan
  <2> HIDE DEF noShows, over
  <2> QED BY <2>1, <2>2, ScanInv
<1>2. CASE JobDecide(j)
  <2> PICK i \in Ids :
             \/ j = NoShows /\ (NoShowMark(i) \/ NoShowSkip(i))
             \/ j = AutoCompletion /\ CompletionMark(i)
    BY <1>2 DEF JobDecide
  <2>1. CASE j = NoShows /\ NoShowMark(i)
    BY <2>1, MarkInv DEF NoShowMark
  <2>2. CASE j = NoShows /\ NoShowSkip(i)
    BY <2>2, NoShowSkipInv
  <2>3. CASE j = AutoCompletion /\ CompletionMark(i)
    BY <2>3, MarkInv DEF CompletionMark
  <2> QED BY <2>1, <2>2, <2>3
<1>3. CASE JobLoad(j) \/ JobWrite(j) \/ JobAbort(j)
  BY <1>3, JobLoadInv, JobWriteInv, JobAbortInv
<1> QED BY <1>1, <1>2, <1>3 DEF JobStep

-----------------------------------------------------------------------------
LEMMA QuietInv ==
  ASSUME Inv, now' \in Nat, UNCHANGED <<rows, tokens, untouched, req, acc, granted, job>>
  PROVE  Inv'
<1> USE DEF Inv, TypeInv, Fresh
<1>1. TypeOK'
  BY DEF TypeOK, ResTypeOK, StoreTypeOK, AccTypeOK, JobTypeOK
<1>2. RowsKept
  BY DEF RowsKept
<1>3. RequestsHold' /\ JobsHold' /\ EntriesHold'
  BY <1>2, RequestHeldKept, JobHeldKept DEF RequestsHold, JobsHold, EntriesHold
<1>4. Fresh'
  BY RequestFreshKept, JobFreshKept
<1> QED BY <1>1, <1>3, <1>4

LEMMA InitInv == Init => Inv
<1> SUFFICES ASSUME Init PROVE Inv
  OBVIOUS
<1> USE DEF Init, ResInit, StoreInit, AccInit, JobInit
<1>1. TypeOK
  BY IdleType, JobIdleType
  DEF TypeOK, ResTypeOK, StoreTypeOK, AccTypeOK, JobTypeOK, AccIdle, AccCall
<1>2. RequestsHold
  BY IdleType DEF RequestsHold
<1>3. JobsHold
  BY JobIdleType DEF JobsHold, JobIdle, EmptyList
<1>4. EntriesHold
  BY DEF EntriesHold, AccIdle
<1>5. Fresh
  BY DEF Fresh, RequestFresh, JobFresh, Idle, JobIdle, EmptyList
<1> QED BY <1>1, <1>2, <1>3, <1>4, <1>5 DEF Inv, TypeInv

LEMMA NextInv == Inv /\ [Next]_vars => Inv'
<1> SUFFICES ASSUME Inv, [Next]_vars PROVE Inv'
  OBVIOUS
<1>0. now \in Nat
  BY DEF Inv, TypeInv, TypeOK, ResTypeOK, StoreTypeOK
<1>1. CASE Time
  BY <1>0, <1>1, QuietInv DEF Time, Clock, Tick
<1>2. CASE Request
  BY <1>2, RequestInv
<1>3. CASE Entry
  BY <1>3, EntryInv
<1>4. CASE Cron
  BY <1>4, CronInv
<1>5. CASE UNCHANGED vars
  BY <1>0, <1>5, QuietInv DEF vars, store
<1> QED BY <1>1, <1>2, <1>3, <1>4, <1>5 DEF Next

\* The inductive invariant holds of every behaviour.
THEOREM Invariance == Spec => []Inv
BY InitInv, NextInv, PTL DEF Spec

(* Every table, call and history keeps its type: no save ever merges an     *)
(* entity the call does not hold into a row that is not there.              *)
THEOREM TypeCorrect == Spec => []TypeOK
<1>1. Inv => TypeOK
  BY DEF Inv, TypeInv
<1> QED BY <1>1, Invariance, PTL

-----------------------------------------------------------------------------
(* What a write does to the table, if nobody has overtaken the writer.      *)
LEMMA ClashSymmetric ==
  ASSUME Inv, NEW i \in Ids, NEW j \in Ids
  PROVE  Clash(i, j) => Clash(j, i)
<1>1. rows \in [Ids -> Row \cup {NoRow}]
  BY DEF Inv, TypeInv, TypeOK, ResTypeOK, StoreTypeOK
<1> QED BY <1>1 DEF Clash, Blocks, Row

\* Only row k is written, and it clashes with neither i nor j unless it has
\* clashed with them before.
LEMMA WriteClash ==
  ASSUME Inv, Inv', NEW k \in Ids, NEW i \in Ids, NEW j \in Ids,
         \A x \in Ids \ {k} : rows'[x] = rows[x],
         \A l \in {i, j} \ {k} :
           /\ rows'[k].status \in Active
           /\ Blocks(rows[l], rows'[k].room, rows'[k].start, rows'[k].end)
           => Clash(k, l),
         Clash(i, j)'
  PROVE  Clash(i, j)
<1>0. /\ rows \in [Ids -> Row \cup {NoRow}]
      /\ rows' \in [Ids -> Row \cup {NoRow}]
  BY DEF Inv, TypeInv, TypeOK, ResTypeOK, StoreTypeOK
<1>1. CASE i # k /\ j # k
  BY <1>0, <1>1 DEF Clash, Blocks
<1>2. CASE i = k
  BY <1>0, <1>2 DEF Clash, Blocks
<1>3. CASE j = k
  <2>1. Clash(j, i)'
    BY <1>0 DEF Clash, Blocks, Row
  <2>2. Clash(j, i)
    BY <1>0, <1>3, <2>1 DEF Clash, Blocks
  <2> QED BY <2>2, ClashSymmetric
<1> QED BY <1>1, <1>2, <1>3

\* The three writes, each by a writer that no one has overtaken in i and j.
LEMMA InsertClash ==
  ASSUME Inv, Inv', NEW p \in Requests, NEW k \in Ids, CreateInsert(p, k),
         NEW i \in Ids, NEW j \in Ids, {i, j} \subseteq untouched[p],
         Clash(i, j)'
  PROVE  Clash(i, j)
<1> DEFINE r == req[p].mem
<1>1. \A l \in {i, j} : ~Blocks(rows[l], r.room, r.start, r.end)
  BY RequestTypes DEF RequestFresh, CreateInsert
<1>2. rows'[k] = r /\ \A x \in Ids \ {k} : rows'[x] = rows[x]
  BY RequestTypes DEF CreateInsert, WriteRow
<1> QED BY <1>1, <1>2, WriteClash

LEMMA SaveClash ==
  ASSUME Inv, Inv', NEW p \in Requests, SaveWrite(p),
         NEW i \in Ids, NEW j \in Ids, {i, j} \subseteq untouched[p],
         Clash(i, j)'
  PROVE  Clash(i, j)
<1> DEFINE k == req[p].id
           m == req[p].mem
<1>1. /\ req[p].pc = "write" /\ k \in Ids /\ m \in Row /\ rows[k] \in Row
      /\ rows'[k] = MergeRow(rows[k], m, req[p].seen)
      /\ \A x \in Ids \ {k} : rows'[x] = rows[x]
  BY RequestTypes DEF SaveWrite, WriteRow, Held
<1>2. CASE k \notin {i, j}
  BY <1>1, <1>2 DEF Clash, Blocks
<1>3. CASE k \in untouched[p]
  <2>1. req[p].seen = rows[k]
    BY <1>1, <1>3, RequestTypes DEF RequestFresh
  <2>2. /\ rows'[k].start = m.start /\ rows'[k].end = m.end
        /\ rows'[k].status = m.status /\ rows'[k].room = rows[k].room
    BY <1>1, <2>1, MergeFresh
  <2>3. /\ m.room = rows[k].room
        /\ m.status \in Active => rows[k].status \in Active
        /\ m.status \in Active =>
             \A l \in {i, j} \ {k} : Blocks(rows[l], m.room, m.start, m.end)
               => Blocks(rows[l], rows[k].room, rows[k].start, rows[k].end)
    BY <1>1, <1>3, RequestTypes DEF RequestFresh
  <2>4. \A l \in {i, j} \ {k} :
           /\ rows'[k].status \in Active
           /\ Blocks(rows[l], rows'[k].room, rows'[k].start, rows'[k].end)
           => Clash(k, l)
    BY <1>1, <2>2, <2>3, NoRowAssumption DEF Clash
  <2> HIDE DEF k, m
  <2> QED BY <1>1, <2>4, WriteClash
<1> QED BY <1>2, <1>3

\* A job need not even look at the others: what it writes is closed.
LEMMA JobClash ==
  ASSUME Inv, Inv', NEW w \in Jobs, JobWrite(w),
         NEW i \in Ids, NEW j \in Ids,
         job[w].id \in {i, j} => job[w].id \in untouched[w],
         Clash(i, j)'
  PROVE  Clash(i, j)
<1> DEFINE k == job[w].id
           m == job[w].mem
<1>1. /\ job[w].pc = "write" /\ k \in Ids /\ m \in Row /\ rows[k] \in Row
      /\ rows'[k] = MergeRow(rows[k], m, job[w].seen)
      /\ \A x \in Ids \ {k} : rows'[x] = rows[x]
  BY JobTypes DEF JobWrite, WriteRow, Held
<1>2. CASE k \notin {i, j}
  BY <1>1, <1>2 DEF Clash, Blocks
<1>3. CASE k \in untouched[w]
  <2>1. job[w].seen = rows[k] /\ m.status \notin Active
    BY <1>1, <1>3, JobTypes DEF JobFresh, Active
  <2>2. rows'[k].status \notin Active
    BY <1>1, <2>1, MergeFresh
  <2> HIDE DEF k, m
  <2> QED BY <1>1, <2>2, WriteClash
<1> QED BY <1>2, <1>3

\* Which steps write the reservations, and who is their writer.
LEMMA WritingStep ==
  ASSUME Inv, [Next]_vars, rows' # rows
  PROVE  \/ \E p \in Requests : /\ Wrote(p)
                                /\ SaveWrite(p) \/ \E k \in Ids : CreateInsert(p, k)
         \/ \E j \in Jobs : Wrote(j) /\ JobWrite(j)
<1>1. CASE Request
  <2> PICK p \in Requests : ResBegin(p) \/ ResStep(p)
    BY <1>1 DEF Request
  <2>1. SaveWrite(p) \/ \E k \in Ids : CreateInsert(p, k)
    BY ZenonT(40) DEF ResBegin, ResStep, CreateBegin, UpdateTimes, UpdateDetails, CancelBegin,
           ConfirmBegin, Begin, CreateCheck, UpdateCheck, Goto, Reject, CancelTokens,
           SaveLoad, Abort, store
  <2>2. Wrote(p)
    BY <2>1, RequestTypes DEF Wrote, SaveWrite, CreateInsert, Idle
  <2> QED BY <2>1, <2>2
<1>2. CASE Cron
  <2> PICK j \in Jobs : JobNew(j) \/ JobStep(j)
    BY <1>2 DEF Cron
  <2>1. JobWrite(j)
    BY DEF JobNew, JobStep, JobDecide, NoShowScan, CompletionScan, Scan, NoShowMark,
           NoShowSkip, CompletionMark, Mark, JobLoad, JobAbort, store
  <2>2. After(j, job[j].id).pc \in {"idle", "next"}
    BY <2>1, JobTypes, AfterType DEF JobWrite, Held
  <2>3. Wrote(j)
    BY <2>1, <2>2, JobTypes DEF Wrote, JobWrite
  <2> QED BY <2>1, <2>3
<1>3. CASE Entry
  BY <1>3 DEF Entry, AccNew, AccStep, GenerateBegin, VerifyBegin, AccBegin, GenerateReuse,
     GenerateNew, GenerateInsert, VerifyLoad, VerifyWrite, AccAbort, store
<1>4. CASE Time \/ UNCHANGED vars
  BY <1>4 DEF Time, Clock, Tick, vars, store
<1> QED BY <1>1, <1>2, <1>3, <1>4 DEF Next

(* The conflict check misses nothing that was there: whatever two calls do  *)
(* to each other, two reservations come to clash only through a call that   *)
(* one of them was written behind after the call had begun.                 *)
THEOREM ClashesOnlyIfOvertaken == Spec => ClashOnlyIfOvertaken
<1> DEFINE Step == \A i, j \in Ids : ~Clash(i, j) /\ Clash(i, j)' =>
              \E w \in Writers : Wrote(w) /\ ~({i, j} \subseteq untouched[w])
<1>1. Inv /\ [Next]_vars => Step
  <2> SUFFICES ASSUME Inv, [Next]_vars, NEW i \in Ids, NEW j \in Ids,
                      ~Clash(i, j), Clash(i, j)'
               PROVE  \E w \in Writers : Wrote(w) /\ ~({i, j} \subseteq untouched[w])
    OBVIOUS
  <2>1. Inv'
    BY NextInv
  <2>2. rows' # rows
    BY DEF Clash, Blocks
  <2>3. CASE \E p \in Requests : /\ Wrote(p)
                                 /\ SaveWrite(p) \/ \E k \in Ids : CreateInsert(p, k)
    <3>1. PICK p \in Requests : /\ Wrote(p)
                                /\ SaveWrite(p) \/ \E k \in Ids : CreateInsert(p, k)
      BY <2>3
    <3>2. ~({i, j} \subseteq untouched[p])
      BY <2>1, <3>1, InsertClash, SaveClash
    <3> QED BY <3>1, <3>2 DEF Writers
  <2>4. CASE \E w \in Jobs : Wrote(w) /\ JobWrite(w)
    BY <2>1, <2>4, JobClash DEF Writers
  <2> QED BY <2>2, <2>3, <2>4, WritingStep
<1>2. Inv /\ [Next]_vars => [Step]_vars
  BY <1>1
<1> QED BY <1>2, Invariance, PTL DEF Spec, ClashOnlyIfOvertaken

-----------------------------------------------------------------------------
LEMMA MoveStep ==
  ASSUME Inv, [Next]_vars, NEW i \in Ids,
         rows[i] # NoRow, rows'[i].status # rows[i].status
  PROVE  \/ <<rows[i].status, rows'[i].status>> \in Moves
         \/ \E w \in Writers : Wrote(w) /\ i \notin untouched[w]
<1>1. CASE \E p \in Requests : /\ Wrote(p)
                               /\ SaveWrite(p) \/ \E k \in Ids : CreateInsert(p, k)
  <2> PICK p \in Requests : /\ Wrote(p)
                            /\ SaveWrite(p) \/ \E k \in Ids : CreateInsert(p, k)
    BY <1>1
  <2>1. SUFFICES ASSUME i \in untouched[p]
                 PROVE  <<rows[i].status, rows'[i].status>> \in Moves
    BY DEF Writers
  <2>2. CASE \E k \in Ids : CreateInsert(p, k)
    BY <2>2, RequestTypes DEF CreateInsert, WriteRow
  <2>3. CASE SaveWrite(p)
    <3> DEFINE k == req[p].id
               m == req[p].mem
    <3>1. /\ req[p].pc = "write" /\ k \in Ids /\ m \in Row /\ rows[k] \in Row
          /\ rows'[k] = MergeRow(rows[k], m, req[p].seen)
          /\ \A x \in Ids \ {k} : rows'[x] = rows[x]
      BY <2>3, RequestTypes DEF SaveWrite, WriteRow, Held
    <3>2. k = i
      BY <3>1
    <3>3. req[p].seen = rows[k]
      BY <2>1, <3>1, <3>2, RequestTypes DEF RequestFresh
    <3>4. rows'[k].status = m.status
      BY <3>1, <3>3, MergeFresh
    <3>5. m.status = rows[k].status \/ <<rows[k].status, m.status>> \in Moves
      BY <2>1, <3>1, <3>2, RequestTypes DEF RequestFresh
    <3> QED BY <3>2, <3>4, <3>5
  <2> QED BY <2>2, <2>3
<1>2. CASE \E w \in Jobs : Wrote(w) /\ JobWrite(w)
  <2> PICK w \in Jobs : Wrote(w) /\ JobWrite(w)
    BY <1>2
  <2>1. SUFFICES ASSUME i \in untouched[w]
                 PROVE  <<rows[i].status, rows'[i].status>> \in Moves
    BY DEF Writers
  <2> DEFINE k == job[w].id
             m == job[w].mem
  <2>2. /\ job[w].pc = "write" /\ k \in Ids /\ m \in Row /\ rows[k] \in Row
        /\ rows'[k] = MergeRow(rows[k], m, job[w].seen)
        /\ \A x \in Ids \ {k} : rows'[x] = rows[x]
    BY JobTypes DEF JobWrite, WriteRow, Held
  <2>3. k = i
    BY <2>2
  <2>4. /\ job[w].seen = rows[k] /\ rows[k].status = "CONFIRMED"
        /\ m.status \in {"COMPLETED", "NO_SHOW"}
    BY <2>1, <2>2, <2>3, JobTypes DEF JobFresh
  <2>5. rows'[k].status = m.status
    BY <2>2, <2>4, MergeFresh
  <2> QED BY <2>3, <2>4, <2>5 DEF Moves
<1>3. rows' # rows
  OBVIOUS
<1> QED BY <1>1, <1>2, <1>3, WritingStep

(* The guards of the handlers keep the life cycle: a status changes against *)
(* it only through a call whose reservation was written behind its back.    *)
THEOREM MovesOnlyIfOvertaken == Spec => MoveOnlyIfOvertaken
<1> DEFINE Step == \A i \in Ids : rows[i] # NoRow /\ rows'[i].status # rows[i].status =>
              \/ <<rows[i].status, rows'[i].status>> \in Moves
              \/ \E w \in Writers : Wrote(w) /\ i \notin untouched[w]
<1>1. Inv /\ [Next]_vars => [Step]_vars
  BY MoveStep
<1> QED BY <1>1, Invariance, PTL DEF Spec, MoveOnlyIfOvertaken

-----------------------------------------------------------------------------
(* The tokens.  Each was made inside its window, and is stamped inside it.  *)
Stamped(t) ==
  t.time # NoTime => t.time \in (t.expires - TokenLife - TokenLead) .. t.expires

Opened(t) == t.expires - TokenLife - TokenLead <= now

WindowInv ==
  /\ \A k \in TokenIds : tokens[k] # NoToken => Opened(tokens[k]) /\ Stamped(tokens[k])
  /\ \A d \in Doors :
       /\ acc[d].pc \in {"lookup", "insert"} =>
            Opened(acc[d].mem) /\ Stamped(acc[d].mem)
       /\ acc[d].pc \in {"load", "write"} =>
            /\ acc[d].mem.expires = tokens[acc[d].tok].expires
            /\ Stamped(acc[d].mem)

LEMMA WindowInit == Init => WindowInv
BY DEF Init, ResInit, StoreInit, AccInit, AccIdle, WindowInv

\* A step that does not touch the calls of AccessService, and leaves every
\* token its times.
LEMMA WindowKept ==
  ASSUME Inv, Inv', WindowInv, now' >= now, acc' = acc,
         \A k \in TokenIds :
           \/ tokens'[k] = tokens[k]
           \/ /\ tokens[k] \in Token
              /\ tokens'[k].expires = tokens[k].expires
              /\ tokens'[k].time = tokens[k].time
  PROVE  WindowInv'
<1>1. /\ now \in Nat /\ now' \in Nat
      /\ tokens \in [TokenIds -> Token \cup {NoToken}]
      /\ EntriesHold
  BY DEF Inv, TypeInv, TypeOK, ResTypeOK, StoreTypeOK
<1>2. ASSUME NEW k \in TokenIds, tokens'[k] # NoToken
      PROVE  Opened(tokens[k])' /\ Stamped(tokens[k])'
  <2>1. tokens[k] \in Token
    BY <1>1, <1>2
  <2>2. Opened(tokens[k]) /\ Stamped(tokens[k])
    BY <2>1, NoTokenAssumption DEF WindowInv
  <2> QED BY <1>1, <2>1, <2>2, WindowAssumption DEF Opened, Stamped, Token
<1>3. ASSUME NEW d \in Doors, acc'[d].pc \in {"lookup", "insert"}
      PROVE  Opened(acc[d].mem)' /\ Stamped(acc[d].mem)'
  <2>1. acc[d].mem \in Token /\ Opened(acc[d].mem) /\ Stamped(acc[d].mem)
    BY <1>1, <1>3 DEF WindowInv, EntriesHold
  <2> QED BY <1>1, <2>1, WindowAssumption DEF Opened, Stamped, Token
<1>4. ASSUME NEW d \in Doors, acc'[d].pc \in {"load", "write"}
      PROVE  /\ acc'[d].mem.expires = tokens'[acc'[d].tok].expires
             /\ Stamped(acc[d].mem)'
  BY <1>1, <1>4 DEF WindowInv, EntriesHold, Stamped
<1> QED BY <1>2, <1>3, <1>4 DEF WindowInv

\* A step of the access call d that leaves the tokens alone.
LEMMA WindowQuiet ==
  ASSUME Inv, WindowInv, NEW d \in Doors, NEW c,
         UNCHANGED <<now, tokens>>, acc' = [acc EXCEPT ![d] = c],
         c.pc \in {"lookup", "insert"} => Opened(c.mem) /\ Stamped(c.mem),
         c.pc \in {"load", "write"} =>
           c.mem.expires = tokens[c.tok].expires /\ Stamped(c.mem)
  PROVE  WindowInv'
<1>1. acc \in [Doors -> AccCall]
  BY EntryTypes
<1>2. acc'[d] = c /\ \A x \in Doors \ {d} : acc'[x] = acc[x]
  BY <1>1
<1> QED BY <1>2 DEF WindowInv, Opened, Stamped

\* A step of the access call d that writes token k.
LEMMA WindowWrites ==
  ASSUME Inv, WindowInv, NEW d \in Doors, NEW k \in TokenIds, NEW t \in Token,
         UNCHANGED now, acc' = [acc EXCEPT ![d] = AccIdle],
         tokens' = [tokens EXCEPT ![k] = t],
         Opened(t), Stamped(t),
         tokens[k] # NoToken => t.expires = tokens[k].expires
  PROVE  WindowInv'
<1>1. /\ acc \in [Doors -> AccCall]
      /\ tokens \in [TokenIds -> Token \cup {NoToken}]
      /\ EntriesHold
  BY EntryTypes
<1>2. /\ acc'[d] = AccIdle /\ \A x \in Doors \ {d} : acc'[x] = acc[x]
      /\ tokens'[k] = t /\ \A x \in TokenIds \ {k} : tokens'[x] = tokens[x]
  BY <1>1
<1>3. \A x \in TokenIds : tokens'[x] # NoToken =>
         Opened(tokens[x])' /\ Stamped(tokens[x])'
  BY <1>2 DEF WindowInv, Opened, Stamped
<1>4. ASSUME NEW x \in Doors, acc'[x].pc \in {"lookup", "insert"}
      PROVE  Opened(acc[x].mem)' /\ Stamped(acc[x].mem)'
  BY <1>2, <1>4 DEF WindowInv, Opened, Stamped, AccIdle
<1>5. ASSUME NEW x \in Doors, acc'[x].pc \in {"load", "write"}
      PROVE  /\ acc'[x].mem.expires = tokens'[acc'[x].tok].expires
             /\ Stamped(acc[x].mem)'
  <2>1. x # d /\ acc'[x] = acc[x]
    BY <1>2, <1>5 DEF AccIdle
  <2>2. /\ acc[x].tok \in TokenIds /\ tokens[acc[x].tok] # NoToken
        /\ acc[x].mem.expires = tokens[acc[x].tok].expires
        /\ Stamped(acc[x].mem)
    BY <1>1, <1>5, <2>1, NoTokenAssumption DEF WindowInv, EntriesHold
  <2> QED BY <1>2, <2>1, <2>2 DEF Stamped
<1> QED BY <1>3, <1>4, <1>5 DEF WindowInv

LEMMA WindowEntry ==
  ASSUME Inv, WindowInv, Entry
  PROVE  WindowInv'
<1> SUFFICES ASSUME NEW d \in Doors, AccNew(d) \/ AccStep(d)
             PROVE  WindowInv'
  BY DEF Entry
<1>0. /\ now \in Nat
      /\ rows \in [Ids -> Row \cup {NoRow}]
      /\ tokens \in [TokenIds -> Token \cup {NoToken}]
      /\ acc \in [Doors -> AccCall]
      /\ EntriesHold
  BY EntryTypes
<1>1. CASE \E i \in Ids, u \in Users : GenerateBegin(d, u, i)
  <2> PICK i \in Ids, u \in Users : GenerateBegin(d, u, i)
    BY <1>1
  <2> DEFINE m == [res |-> i, expires |-> rows[i].start + TokenLife,
                   used |-> FALSE, time |-> NoTime]
             c == [pc |-> "lookup", tok |-> NoId, mem |-> m, seen |-> NoToken]
  <2>1. rows[i] \in Row /\ rows[i].start - TokenLead <= now
    BY <1>0 DEF GenerateBegin, TokenWindow
  <2>2. Opened(m) /\ Stamped(m)
    BY <1>0, <2>1, WindowAssumption DEF Opened, Stamped, Row
  <2>3. UNCHANGED <<now, tokens>> /\ acc' = [acc EXCEPT ![d] = c]
    BY DEF GenerateBegin, AccBegin, store
  <2>4. c.pc = "lookup" /\ c.mem = m
    OBVIOUS
  <2> HIDE DEF c, m
  <2> QED BY <2>2, <2>3, <2>4, WindowQuiet
<1>2. CASE \E k \in TokenIds : VerifyBegin(d, k)
  <2> PICK k \in TokenIds : VerifyBegin(d, k)
    BY <1>2
  <2> DEFINE m == [tokens[k] EXCEPT !.used = TRUE, !.time = now]
             c == [pc |-> "load", tok |-> k, mem |-> m, seen |-> NoToken]
  <2>1. tokens[k] \in Token /\ now <= tokens[k].expires /\ Opened(tokens[k])
    BY <1>0 DEF VerifyBegin, WindowInv
  <2>2. m.expires = tokens[k].expires /\ m.time = now
    BY <2>1 DEF Token
  <2>3. Stamped(m)
    BY <1>0, <2>1, <2>2, WindowAssumption DEF Opened, Stamped, Token
  <2>4. UNCHANGED <<now, tokens>> /\ acc' = [acc EXCEPT ![d] = c]
    BY DEF VerifyBegin, AccBegin, store
  <2>5. c.pc = "load" /\ c.mem = m /\ c.tok = k
    OBVIOUS
  <2> HIDE DEF c, m
  <2> QED BY <2>2, <2>3, <2>4, <2>5, WindowQuiet
<1>3. CASE GenerateReuse(d) \/ AccAbort(d)
  <2>1. UNCHANGED <<now, tokens>> /\ acc' = [acc EXCEPT ![d] = AccIdle]
    BY <1>3 DEF GenerateReuse, AccAbort, AccDone, store
  <2>2. AccIdle.pc = "idle"
    BY DEF AccIdle
  <2> QED BY <2>1, <2>2, WindowQuiet
<1>4. CASE GenerateNew(d)
  <2> DEFINE c == [acc[d] EXCEPT !.pc = "insert"]
  <2>1. c.pc = "insert" /\ c.mem = acc[d].mem
    BY <1>0 DEF AccCall
  <2>2. UNCHANGED <<now, tokens>> /\ acc' = [acc EXCEPT ![d] = c]
    BY <1>0, <1>4 DEF GenerateNew, store
  <2>3. Opened(acc[d].mem) /\ Stamped(acc[d].mem)
    BY <1>4 DEF GenerateNew, WindowInv
  <2> HIDE DEF c
  <2> QED BY <2>1, <2>2, <2>3, WindowQuiet
<1>5. CASE \E k \in TokenIds : GenerateInsert(d, k)
  <2> PICK k \in TokenIds : GenerateInsert(d, k)
    BY <1>5
  <2>1. acc[d].mem \in Token /\ Opened(acc[d].mem) /\ Stamped(acc[d].mem)
    BY <1>0 DEF GenerateInsert, EntriesHold, WindowInv
  <2> QED BY <2>1, WindowWrites DEF GenerateInsert, AccDone
<1>6. CASE VerifyLoad(d)
  <2> DEFINE c == [acc[d] EXCEPT !.pc = "write", !.seen = tokens[acc[d].tok]]
  <2>1. c.pc = "write" /\ c.mem = acc[d].mem /\ c.tok = acc[d].tok
    BY <1>0 DEF AccCall
  <2>2. UNCHANGED <<now, tokens>> /\ acc' = [acc EXCEPT ![d] = c]
    BY <1>0, <1>6 DEF VerifyLoad, store
  <2>3. acc[d].mem.expires = tokens[acc[d].tok].expires /\ Stamped(acc[d].mem)
    BY <1>6 DEF VerifyLoad, WindowInv
  <2> HIDE DEF c
  <2> QED BY <2>1, <2>2, <2>3, WindowQuiet
<1>7. CASE VerifyWrite(d)
  <2> DEFINE k == acc[d].tok
             t == MergeToken(tokens[k], acc[d].mem, acc[d].seen)
  <2>1. /\ k \in TokenIds /\ tokens[k] \in Token /\ acc[d].mem \in Token
        /\ acc[d].seen \in Token
        /\ acc[d].mem.expires = tokens[k].expires /\ Stamped(acc[d].mem)
        /\ Opened(tokens[k]) /\ Stamped(tokens[k])
    BY <1>0, <1>7, NoTokenAssumption DEF VerifyWrite, EntriesHold, WindowInv
  <2>2. /\ t \in Token /\ t.expires = tokens[k].expires
        /\ t.time \in {tokens[k].time, acc[d].mem.time}
    BY <2>1, MergeTokenType DEF MergeToken, Column
  <2>3. Opened(t) /\ Stamped(t)
    BY <2>1, <2>2 DEF Opened, Stamped
  <2>4. /\ UNCHANGED now /\ acc' = [acc EXCEPT ![d] = AccIdle]
        /\ tokens' = [tokens EXCEPT ![k] = t]
    BY <1>7 DEF VerifyWrite, AccDone
  <2> HIDE DEF k, t
  <2> QED BY <2>1, <2>2, <2>3, <2>4, WindowWrites
<1> QED BY <1>1, <1>2, <1>3, <1>4, <1>5, <1>6, <1>7 DEF AccNew, AccStep

LEMMA WindowRequest ==
  ASSUME Inv, Inv', WindowInv, Request
  PROVE  WindowInv'
<1> PICK p \in Requests : ResBegin(p) \/ ResStep(p)
  BY DEF Request
<1>1. /\ now \in Nat
      /\ tokens \in [TokenIds -> Token \cup {NoToken}]
      /\ acc' = acc
  BY RequestTypes DEF Request
<1>2. CASE CancelTokens(p)
  <2>1. ASSUME NEW k \in TokenIds
        PROVE  \/ tokens'[k] = tokens[k]
               \/ /\ tokens[k] \in Token
                  /\ tokens'[k].expires = tokens[k].expires
                  /\ tokens'[k].time = tokens[k].time
    BY <1>1, <1>2 DEF CancelTokens, UnusedTokens, AccessRecords, Token
  <2> QED BY <1>1, <1>2, <2>1, WindowKept DEF CancelTokens
<1>3. CASE ~CancelTokens(p)
  <2>1. UNCHANGED <<now, tokens>>
    BY <1>3, ZenonT(40) DEF ResBegin, ResStep, CreateBegin, UpdateTimes, UpdateDetails, CancelBegin,
       ConfirmBegin, Begin, CreateCheck, CreateInsert, UpdateCheck, Goto, Reject,
       SaveLoad, SaveWrite, Abort, store
  <2> QED BY <1>1, <2>1, WindowKept
<1> QED BY <1>2, <1>3

(* The door opens only inside the window of the token that opened it,       *)
(* however the calls interleave and however long they take.                 *)
THEOREM EntriesInWindow == Spec => []EntryInWindow
<1>1. ASSUME Inv, Inv', WindowInv, [Next]_vars
      PROVE  WindowInv'
  <2>0. now \in Nat
    BY <1>1 DEF Inv, TypeInv, TypeOK, ResTypeOK, StoreTypeOK
  <2>1. CASE Time \/ UNCHANGED vars
    <3>1. now' >= now /\ UNCHANGED <<tokens, acc>>
      BY <2>0, <2>1 DEF Time, Clock, Tick, vars, store
    <3> QED BY <1>1, <3>1, WindowKept
  <2>2. CASE Request
    BY <1>1, <2>2, WindowRequest
  <2>3. CASE Entry
    BY <1>1, <2>3, WindowEntry
  <2>4. CASE Cron
    <3>1. UNCHANGED <<now, tokens, acc>>
      BY <2>4 DEF Cron, JobNew, JobStep, JobDecide, NoShowScan, CompletionScan, Scan,
         NoShowMark, NoShowSkip, CompletionMark, Mark, JobLoad, JobWrite, JobAbort, store
    <3> QED BY <1>1, <2>0, <3>1, WindowKept
  <2> QED BY <1>1, <2>1, <2>2, <2>3, <2>4 DEF Next
<1>2. WindowInv => EntryInWindow
  BY DEF WindowInv, EntryInWindow, Stamped
<1> QED BY <1>1, <1>2, WindowInit, Invariance, PTL DEF Spec

-----------------------------------------------------------------------------
(* The rules of a slot.  A moment is a day and a time of day.               *)
LEMMA DayOf ==
  ASSUME NEW t \in Nat, NEW D \in Nat \ {0}
  PROVE  t \div D \in Nat /\ t % D \in 0 .. D - 1
OBVIOUS

LEMMA DayAndTime ==
  ASSUME NEW t \in Nat, NEW D \in Nat \ {0},
         NEW d, NEW m, d = t \div D, m = t % D
  PROVE  t = D * d + m
BY SMTT(30)

LEMMA DayUnique ==
  ASSUME NEW t \in Nat, NEW D \in Nat \ {0}, NEW d \in Nat, NEW m \in 0 .. D - 1,
         t = d * D + m
  PROVE  t \div D = d /\ t % D = m
BY SMTT(30)

\* Two days of one weekday, less than a week apart.
LEMMA SameWeekday ==
  ASSUME NEW a \in Nat, NEW b \in Nat, a <= b, b < a + 7, a % 7 = b % 7
  PROVE  a = b
OBVIOUS

LEMMA DaysOrdered ==
  ASSUME NEW D \in Nat \ {0}, NEW d \in Int, NEW e \in Int, NEW x \in Int, d * D <= e * D + x
  PROVE  x < D => d <= e
<1> SUFFICES ASSUME x < D, d >= e + 1
             PROVE  FALSE
  OBVIOUS
<1>1. d * D >= (e + 1) * D
  BY SMTT(30)
<1>2. (e + 1) * D = e * D + D
  BY SMTT(30)
<1> QED BY <1>1, <1>2

\* The minute a moment of the day falls into: what truncation does to bounds.
LEMMA Quotient ==
  ASSUME NEW m \in Nat, NEW M \in Nat \ {0}
  PROVE  /\ m \div M \in Nat
         /\ (m \div M) * M <= m
         /\ m < (m \div M) * M + M
<1> DEFINE q == m \div M
           x == m % M
<1>1. q \in Nat /\ x \in 0 .. M - 1
  BY DayOf
<1>2. m = M * q + x
  BY DayAndTime
<1>3. M * q = q * M
  BY <1>1, SMTT(30)
<1> HIDE DEF q, x
<1>4. q * M <= m /\ m < q * M + M
  BY <1>1, <1>2, <1>3
<1> QED BY <1>1, <1>4 DEF q

LEMMA NotBefore ==
  ASSUME NEW m \in Nat, NEW M \in Nat \ {0}, NEW o \in Nat
  PROVE  m \div M >= o <=> o * M <= m
<1> DEFINE q == m \div M
<1>1. q \in Nat /\ q * M <= m /\ m < q * M + M
  BY Quotient
<1> HIDE DEF q
<1>2. ASSUME q >= o PROVE o * M <= m
  <2>1. o * M <= q * M
    BY <1>1, <1>2, SMTT(30)
  <2> QED BY <1>1, <2>1
<1>3. ASSUME o * M <= m PROVE q >= o
  <2>1. o * M <= q * M + (M - 1)
    BY <1>1, <1>3
  <2> QED BY <1>1, <2>1, DaysOrdered
<1> QED BY <1>2, <1>3 DEF q

LEMMA NotAfter ==
  ASSUME NEW m \in Nat, NEW M \in Nat \ {0}, NEW c \in Nat
  PROVE  m \div M <= c <=> m < (c + 1) * M
<1>1. m \div M >= c + 1 <=> (c + 1) * M <= m
  BY NotBefore
<1> QED BY <1>1, Quotient

\* The clock times of a room lie within the day.
LEMMA RuleConstants ==
  ASSUME NEW r \in Rooms
  PROVE  /\ DayLength \in Nat \ {0} /\ Minute \in Nat \ {0}
         /\ MinDuration \in Nat \ {0} /\ MaxDuration \in Nat
         /\ MaxDuration <= 6 * DayLength
         /\ Hours[r].opens \in Nat /\ Hours[r].closes \in Nat
         /\ (Hours[r].closes + 1) * Minute <= DayLength
<1>1. /\ DayLength \in Nat \ {0} /\ Minute \in Nat \ {0}
      /\ MinDuration \in Nat \ {0} /\ MaxDuration \in Nat
      /\ MaxDuration <= 6 * DayLength
  BY WindowAssumption
<1> DEFINE q == DayLength \div Minute
<1>2. q \in Nat /\ q * Minute <= DayLength
  BY <1>1, Quotient
<1>3. Hours[r].opens \in 0 .. q - 1 /\ Hours[r].closes \in 0 .. q - 1
  BY RoomAssumption DEF OperatingHours, ClockTimes
<1> HIDE DEF q
<1>4. (Hours[r].closes + 1) * Minute <= q * Minute
  BY <1>1, <1>2, <1>3, SMTT(30)
<1>5. (Hours[r].closes + 1) * Minute \in Int /\ q * Minute \in Int
  BY <1>1, <1>2, <1>3
<1> QED BY <1>1, <1>2, <1>3, <1>4, <1>5

LEMMA ValidIsProper ==
  ASSUME NEW r \in Rooms, NEW s \in Nat, NEW e \in Nat, ValidSlot(r, s, e)
  PROVE  ProperSlot(r, s, e)
<1> DEFINE ds == s \div DayLength
           ms == s % DayLength
           de == e \div DayLength
           me == e % DayLength
           open == Hours[r].opens * Minute
           close == (Hours[r].closes + 1) * Minute
<1>0. /\ DayLength \in Nat \ {0} /\ MinDuration \in Nat \ {0} /\ MaxDuration \in Nat
      /\ MaxDuration <= 6 * DayLength
      /\ open \in Nat /\ close \in Nat
  BY RuleConstants
<1>1. ds \in Nat /\ ms \in 0 .. DayLength - 1 /\ de \in Nat /\ me \in 0 .. DayLength - 1
  BY <1>0, DayOf
<1>2. s = DayLength * ds + ms /\ e = DayLength * de + me
  BY <1>0, DayAndTime
<1>3. /\ s < e /\ e - s >= MinDuration /\ e - s <= MaxDuration
      /\ ds % 7 = de % 7 /\ ds % 7 \in Hours[r].weekdays
      /\ ms \div Minute >= Hours[r].opens /\ me \div Minute <= Hours[r].closes
  BY DEF ValidSlot, DurationOK, WithinOperatingHours, Weekday, MinuteOfDay
<1> HIDE DEF ds, ms, de, me
<1>4. open <= ms /\ me < close
  <2>0. /\ ms \in Nat /\ me \in Nat
        /\ Minute \in Nat \ {0} /\ Hours[r].opens \in Nat /\ Hours[r].closes \in Nat
    BY <1>0, <1>1, RuleConstants
  <2>1. ms \div Minute >= Hours[r].opens <=> open <= ms
    BY <2>0, NotBefore
  <2>2. me \div Minute <= Hours[r].closes <=> me < close
    BY <2>0, NotAfter
  <2> QED BY <1>3, <2>1, <2>2
<1> HIDE DEF open, close
<1>5. ds = de
  <2>1. ds <= de
    <3>1. ds * DayLength <= de * DayLength + (me - ms)
      BY <1>0, <1>1, <1>2, <1>3
    <3> QED BY <1>0, <1>1, <3>1, DaysOrdered
  <2>2. de <= ds + 6
    <3>1. de * DayLength <= (ds + 6) * DayLength + (ms - me)
      <4>1. (ds + 6) * DayLength = ds * DayLength + 6 * DayLength
        BY <1>0, <1>1
      <4> QED BY <1>0, <1>1, <1>2, <1>3, <4>1
    <3> QED BY <1>0, <1>1, <3>1, DaysOrdered
  <2> QED BY <1>1, <1>3, <2>1, <2>2, SameWeekday
<1>6. de \in 0 .. e
  BY <1>0, <1>1, <1>2, SMTT(30)
<1>7. /\ de * DayLength + open <= s
      /\ e < de * DayLength + close
  BY <1>0, <1>1, <1>2, <1>4, <1>5
<1> QED BY <1>0, <1>3, <1>5, <1>6, <1>7 DEF ProperSlot, open, close

LEMMA ProperIsValid ==
  ASSUME NEW r \in Rooms, NEW s \in Nat, NEW e \in Nat, ProperSlot(r, s, e)
  PROVE  ValidSlot(r, s, e)
<1> DEFINE open == Hours[r].opens * Minute
           close == (Hours[r].closes + 1) * Minute
<1>0. /\ DayLength \in Nat \ {0} /\ MinDuration \in Nat \ {0} /\ MaxDuration \in Nat
      /\ open \in Nat /\ close \in Nat /\ close <= DayLength
  BY RuleConstants
<1>1. PICK d \in 0 .. e : /\ d % 7 \in Hours[r].weekdays
                          /\ d * DayLength + open <= s
                          /\ e < d * DayLength + close
  BY DEF ProperSlot
<1>2. s < e /\ e - s >= MinDuration /\ e - s <= MaxDuration
  BY <1>0 DEF ProperSlot
<1>3. d * DayLength \in Nat
  BY <1>0
<1> DEFINE ms == s - d * DayLength
           me == e - d * DayLength
<1> HIDE DEF open, close
<1>4. /\ ms \in 0 .. DayLength - 1 /\ me \in 0 .. DayLength - 1
      /\ s = d * DayLength + ms /\ e = d * DayLength + me
      /\ open <= ms /\ me < close
  BY <1>0, <1>1, <1>2, <1>3
<1> HIDE DEF ms, me
<1>5. /\ s \div DayLength = d /\ s % DayLength = ms
      /\ e \div DayLength = d /\ e % DayLength = me
  <2>0. d \in Nat
    OBVIOUS
  <2>1. s \div DayLength = d /\ s % DayLength = ms
    BY <1>0, <1>4, <2>0, DayUnique
  <2>2. e \div DayLength = d /\ e % DayLength = me
    BY <1>0, <1>4, <2>0, DayUnique
  <2> QED BY <2>1, <2>2
<1>6. ms \div Minute >= Hours[r].opens /\ me \div Minute <= Hours[r].closes
  <2>0. /\ ms \in Nat /\ me \in Nat
        /\ Minute \in Nat \ {0} /\ Hours[r].opens \in Nat /\ Hours[r].closes \in Nat
    BY <1>0, <1>4, RuleConstants
  <2>1. ms \div Minute >= Hours[r].opens <=> open <= ms
    BY <2>0, NotBefore DEF open
  <2>2. me \div Minute <= Hours[r].closes <=> me < close
    BY <2>0, NotAfter DEF close
  <2> QED BY <1>4, <2>1, <2>2
<1> QED BY <1>1, <1>2, <1>5, <1>6
        DEF ValidSlot, DurationOK, WithinOperatingHours, Weekday, MinuteOfDay

(* The rules of a slot, which compare weekdays and whole minutes of the     *)
(* clock, amount to a slot of a permitted length on one open day, not       *)
(* before opening and not after the minute of closing.                      *)
THEOREM RulesAreProper ==
  \A r \in Rooms : \A s, e \in Nat : ValidSlot(r, s, e) <=> ProperSlot(r, s, e)
BY ValidIsProper, ProperIsValid

-----------------------------------------------------------------------------
(* What a call means to write keeps the rules if what it has read does, as  *)
(* far as nobody has written behind it.                                     *)
MeansWell(c, w) ==
  /\ c.pc \in {"lock", "insert"} => Lawful(c.mem)
  /\ c.pc \in {"slot", "tokens", "load", "write"} /\ c.id \in untouched[w] =>
       (Lawful(rows[c.id]) => Lawful(c.mem))

RulesInv == /\ \A p \in Requests : MeansWell(req[p], p)
            /\ \A j \in Jobs : MeansWell(job[j], j)

LEMMA RulesInit == Init => RulesInv
BY DEF Init, ResInit, StoreInit, JobInit, Idle, JobIdle, RulesInv, MeansWell

\* A step of writer w, as the others see it.
LEMMA RulesStep ==
  ASSUME RulesInv, NEW w \in Writers,
         \A x \in Writers \ {w} : /\ untouched'[x] \subseteq untouched[x]
                                  /\ \A k \in untouched'[x] : rows'[k] = rows[k],
         \A p \in Requests \ {w} : req'[p] = req[p],
         \A j \in Jobs \ {w} : job'[j] = job[j],
         w \in Requests => MeansWell(req[w], w)',
         w \in Jobs => MeansWell(job[w], w)'
  PROVE  RulesInv'
<1>1. ASSUME NEW p \in Requests PROVE MeansWell(req[p], p)'
  <2>1. CASE p = w
    BY <2>1 DEF MeansWell
  <2>2. CASE p # w
    BY <2>2 DEF RulesInv, MeansWell, Writers
  <2> QED BY <2>1, <2>2
<1>2. ASSUME NEW j \in Jobs PROVE MeansWell(job[j], j)'
  <2>1. CASE j = w
    BY <2>1 DEF MeansWell
  <2>2. CASE j # w
    BY <2>2 DEF RulesInv, MeansWell, Writers
  <2> QED BY <2>1, <2>2
<1> QED BY <1>1, <1>2 DEF RulesInv

\* Row m differs from row l, which it replaces, in nothing the rules read.
LEMMA LawfulCopy ==
  ASSUME NEW l, NEW m, m.room = l.room, m.start = l.start, m.end = l.end,
         m.attendees = l.attendees
  PROVE  Lawful(m) <=> Lawful(l)
BY DEF Lawful

LEMMA RulesRequest ==
  ASSUME Inv, RulesInv, NEW p \in Requests, ResBegin(p) \/ ResStep(p),
         UNCHANGED <<acc, granted, job>>
  PROVE  RulesInv'
<1>0. /\ rows \in [Ids -> Row \cup {NoRow}]
      /\ untouched \in [Writers -> SUBSET Ids]
      /\ req \in [Requests -> Call]
      /\ p \in Writers /\ p \notin Jobs
      /\ Held(req[p]) /\ RequestFresh(p) /\ MeansWell(req[p], p)
  BY RequestTypes, StoreAssumption DEF RulesInv
\* It remains to look at the call itself, once the rows the others still
\* count as untouched are.
<1>1. ASSUME NEW c,
             req' = [req EXCEPT ![p] = c], MeansWell(c, p)',
             \/ rows' = rows /\ \E S : untouched' = [untouched EXCEPT ![p] = S]
             \/ \E i \in Ids : \E r : rows' = [rows EXCEPT ![i] = r] /\ OvertakeOthers(p, i)
      PROVE  RulesInv'
  <2>1. \A x \in Writers \ {p} : /\ untouched'[x] \subseteq untouched[x]
                                 /\ \A k \in untouched'[x] : rows'[k] = rows[k]
    <3>1. CASE rows' = rows /\ \E S : untouched' = [untouched EXCEPT ![p] = S]
      BY <1>0, <3>1
    <3>2. CASE \E i \in Ids : \E r : rows' = [rows EXCEPT ![i] = r] /\ OvertakeOthers(p, i)
      BY <1>0, <3>2 DEF OvertakeOthers
    <3> QED BY <1>1, <3>1, <3>2
  <2>2. MeansWell(req[p], p)'
    BY <1>0, <1>1 DEF MeansWell
  <2> QED BY <1>0, <1>1, <2>1, <2>2, RulesStep
<1>2. ASSUME Reject(p) PROVE RulesInv'
  <2>1. MeansWell(Idle, p)'
    BY DEF MeansWell, Idle
  <2> QED BY <1>1, <1>2, <2>1 DEF Reject, Unwatch
<1>3. CASE ResBegin(p)
  <2>1. ASSUME NEW u \in Users, NEW r \in Rooms, NEW s \in Starts, NEW e \in Ends,
               NEW n \in Parties, CreateBegin(p, u, r, s, e, n)
        PROVE  RulesInv'
    <3> DEFINE m == [user |-> u, room |-> r, start |-> s, end |-> e,
                     attendees |-> n, status |-> "PENDING"]
               c == [pc |-> "lock", id |-> NoId, mem |-> m, seen |-> NoRow]
    <3>1. s \in Nat /\ e \in Nat
      BY InputAssumption
    <3>2. Lawful(m)
      BY <2>1, <3>1, RulesAreProper DEF CreateBegin, Lawful
    <3>3. c.pc = "lock" /\ c.mem = m
      OBVIOUS
    <3>4. req' = [req EXCEPT ![p] = c]
      BY <2>1 DEF CreateBegin, Begin
    <3> HIDE DEF m, c
    <3>5. MeansWell(c, p)'
      BY <3>2, <3>3 DEF MeansWell, Lawful
    <3> QED BY <1>1, <2>1, <3>4, <3>5 DEF CreateBegin, Begin, Watch
  \* The other calls begin on a row of the table, in a state that changes none.
  <2>2. ASSUME NEW i \in Ids, NEW pc \in {"slot", "tokens", "load"}, NEW m,
               Begin(p, pc, i, m), Lawful(rows[i]) => Lawful(m)
        PROVE  RulesInv'
    <3> DEFINE c == [pc |-> pc, id |-> i, mem |-> m, seen |-> NoRow]
    <3>1. c.pc = pc /\ c.id = i /\ c.mem = m
      OBVIOUS
    <3>2. /\ req' = [req EXCEPT ![p] = c] /\ rows' = rows
          /\ untouched' = [untouched EXCEPT ![p] = Ids]
      BY <2>2 DEF Begin, Watch
    <3> HIDE DEF c
    <3>3. MeansWell(c, p)'
      BY <2>2, <3>1, <3>2 DEF MeansWell, Lawful
    <3> QED BY <1>1, <3>2, <3>3
  <2>3. ASSUME NEW i \in Ids, NEW u \in Users, NEW s, NEW e, NEW n \in Parties,
               rows[i] # NoRow,
               s \in Starts \cup {rows[i].start}, e \in Ends \cup {rows[i].end},
               UpdateTimes(p, u, i, s, e, n)
        PROVE  RulesInv'
    <3> DEFINE m == [rows[i] EXCEPT !.start = s, !.end = e, !.attendees = n]
    <3>1. rows[i] \in Row /\ s \in Nat /\ e \in Nat /\ rows[i].room \in Rooms
      BY <1>0, <2>3, InputAssumption DEF Row
    <3>2. /\ m.room = rows[i].room /\ m.start = s /\ m.end = e /\ m.attendees = n
      BY <3>1 DEF Row
    <3>3. /\ ValidSlot(rows[i].room, s, e) /\ n <= Capacity[rows[i].room]
          /\ Begin(p, "slot", i, m)
      BY <2>3 DEF UpdateTimes
    <3> HIDE DEF m
    <3>4. Lawful(m)
      BY <3>1, <3>2, <3>3, RulesAreProper DEF Lawful
    <3> QED BY <2>2, <3>3, <3>4
  <2>4. ASSUME NEW i \in Ids, NEW u \in Users, NEW n \in Parties, UpdateDetails(p, u, i, n)
        PROVE  RulesInv'
    <3> DEFINE m == [rows[i] EXCEPT !.attendees = n]
    <3>1. rows[i] \in Row /\ n <= Capacity[rows[i].room] /\ Begin(p, "load", i, m)
      BY <1>0, <2>4 DEF UpdateDetails
    <3>2. /\ m.room = rows[i].room /\ m.start = rows[i].start /\ m.end = rows[i].end
          /\ m.attendees = n
      BY <3>1 DEF Row
    <3> HIDE DEF m
    <3>3. Lawful(rows[i]) => Lawful(m)
      BY <3>1, <3>2 DEF Lawful
    <3> QED BY <2>2, <3>1, <3>3
  <2>5. ASSUME NEW i \in Ids, NEW status, NEW pc \in {"tokens", "load"}, rows[i] # NoRow,
               Begin(p, pc, i, [rows[i] EXCEPT !.status = status])
        PROVE  RulesInv'
    <3> DEFINE m == [rows[i] EXCEPT !.status = status]
    <3>1. /\ m.room = rows[i].room /\ m.start = rows[i].start /\ m.end = rows[i].end
          /\ m.attendees = rows[i].attendees
      BY <1>0, <2>5 DEF Row
    <3> HIDE DEF m
    <3>2. Lawful(rows[i]) => Lawful(m)
      BY <3>1, LawfulCopy
    <3> QED BY <2>2, <2>5, <3>2 DEF m
  <2>6. ASSUME NEW i \in Ids, NEW u \in Users, CancelBegin(p, u, i) PROVE RulesInv'
    BY <2>5, <2>6 DEF CancelBegin
  <2>7. ASSUME NEW i \in Ids, ConfirmBegin(p, i) PROVE RulesInv'
    BY <2>5, <2>7 DEF ConfirmBegin
  <2> QED BY <1>3, <2>1, <2>3, <2>4, <2>6, <2>7 DEF ResBegin
\* A call that goes on with the entity it holds, and no row is written.
<1>4. ASSUME NEW c, req' = [req EXCEPT ![p] = c], rows' = rows, untouched' = untouched,
             c.id = req[p].id, c.mem = req[p].mem,
             c.pc = "insert" => req[p].pc = "lock",
             c.pc \in {"insert", "load", "write"},
             c.pc # "insert" => req[p].pc \in {"slot", "tokens", "load"}
      PROVE  RulesInv'
  <2>1. MeansWell(c, p)'
    BY <1>0, <1>4 DEF MeansWell, Lawful
  <2>2. untouched' = [untouched EXCEPT ![p] = untouched[p]]
    BY <1>0, <1>4
  <2> QED BY <1>1, <1>4, <2>1, <2>2
<1>5. ASSUME NEW pc \in {"insert", "load"}, req' = [req EXCEPT ![p].pc = pc],
             rows' = rows, untouched' = untouched,
             pc = "insert" => req[p].pc = "lock",
             pc = "load" => req[p].pc \in {"slot", "tokens"}
      PROVE  RulesInv'
  <2> DEFINE c == [req[p] EXCEPT !.pc = pc]
  <2>1. c.pc = pc /\ c.id = req[p].id /\ c.mem = req[p].mem
    BY <1>0 DEF Call
  <2>2. req' = [req EXCEPT ![p] = c]
    BY <1>0, <1>5
  <2> HIDE DEF c
  <2> QED BY <1>4, <1>5, <2>1, <2>2
<1>6. CASE CreateCheck(p) \/ UpdateCheck(p)
  BY <1>2, <1>5, <1>6 DEF CreateCheck, UpdateCheck, Goto, store
<1>7. CASE CancelTokens(p)
  BY <1>5, <1>7 DEF CancelTokens
<1>8. CASE SaveLoad(p)
  <2> DEFINE c == [req[p] EXCEPT !.pc = "write", !.seen = rows[req[p].id]]
  <2>1. c.pc = "write" /\ c.id = req[p].id /\ c.mem = req[p].mem
    BY <1>0 DEF Call
  <2>2. req' = [req EXCEPT ![p] = c]
    BY <1>0, <1>8 DEF SaveLoad
  <2> HIDE DEF c
  <2> QED BY <1>4, <1>8, <2>1, <2>2 DEF SaveLoad, store
<1>9. CASE SaveWrite(p) \/ \E i \in Ids : CreateInsert(p, i)
  <2>1. MeansWell(Idle, p)'
    BY DEF MeansWell, Idle
  <2>2. \E i \in Ids : \E r : rows' = [rows EXCEPT ![i] = r] /\ OvertakeOthers(p, i)
    BY <1>0, <1>9 DEF SaveWrite, CreateInsert, WriteRow, Held
  <2>3. req' = [req EXCEPT ![p] = Idle]
    BY <1>9 DEF SaveWrite, CreateInsert
  <2> QED BY <1>1, <2>1, <2>2, <2>3
<1> QED BY <1>2, <1>3, <1>6, <1>7, <1>8, <1>9 DEF ResStep, Abort

LEMMA RulesCron ==
  ASSUME Inv, RulesInv, NEW j \in Jobs, JobNew(j) \/ JobStep(j),
         UNCHANGED <<req, acc, granted>>
  PROVE  RulesInv'
<1>0. /\ rows \in [Ids -> Row \cup {NoRow}]
      /\ untouched \in [Writers -> SUBSET Ids]
      /\ job \in [Jobs -> Run]
      /\ j \in Writers /\ j \notin Requests
      /\ JobFresh(j) /\ MeansWell(job[j], j)
      /\ Held(job[j])
      /\ \A i \in Ids : job[j].todo[i] # NoRow => rows[i] \in Row
  BY JobTypes, StoreAssumption DEF RulesInv
<1>1. ASSUME NEW c, job' = [job EXCEPT ![j] = c],
             \/ c.pc \in {"idle", "next"}
             \/ /\ c.id \in untouched[j] => (Lawful(rows[c.id]) => Lawful(c.mem))
                /\ c.pc \in {"load", "write"} /\ rows' = rows /\ untouched' = untouched,
             \A x \in Writers \ {j} : /\ untouched'[x] \subseteq untouched[x]
                                      /\ \A k \in untouched'[x] : rows'[k] = rows[k]
      PROVE  RulesInv'
  <2>1. MeansWell(job[j], j)'
    <3>1. job'[j] = c
      BY <1>0, <1>1
    <3>2. CASE c.pc \in {"idle", "next"}
      BY <3>1, <3>2 DEF MeansWell
    <3>3. CASE c.pc \in {"load", "write"}
      BY <1>1, <3>1, <3>3 DEF MeansWell, Lawful
    <3> QED BY <1>1, <3>2, <3>3
  <2>2. /\ \A p \in Requests \ {j} : req'[p] = req[p]
        /\ \A l \in Jobs \ {j} : job'[l] = job[l]
    BY <1>0, <1>1
  <2> QED BY <1>0, <1>1, <2>1, <2>2, RulesStep
<1>2. ASSUME rows' = rows, \E S : untouched' = [untouched EXCEPT ![j] = S]
      PROVE  \A x \in Writers \ {j} : /\ untouched'[x] \subseteq untouched[x]
                                      /\ \A k \in untouched'[x] : rows'[k] = rows[k]
  BY <1>0, <1>2
<1>3. untouched' = untouched => untouched' = [untouched EXCEPT ![j] = untouched[j]]
  BY <1>0
<1>4. ASSUME NEW due, Scan(j, due) PROVE RulesInv'
  <2>1. CASE due = {}
    BY <1>0, <2>1, <1>4 DEF Scan, store, RulesInv, MeansWell, Lawful
  <2>2. CASE due # {}
    <3> DEFINE c == [job[j] EXCEPT !.pc = "next",
                                   !.todo = [i \in Ids |-> IF i \in due
                                                           THEN rows[i] ELSE NoRow]]
    <3>1. c.pc = "next" /\ job' = [job EXCEPT ![j] = c]
      BY <1>0, <1>4, <2>2 DEF Scan, Run
    <3> HIDE DEF c
    <3> QED BY <1>1, <1>2, <1>4, <2>2, <3>1 DEF Scan, Watch
  <2> QED BY <2>1, <2>2
<1>5. ASSUME NEW i \in Ids, NEW status, job[j].todo[i] # NoRow, Mark(j, i, status)
      PROVE  RulesInv'
  <2> DEFINE l == job[j].todo[i]
             m == [l EXCEPT !.status = status]
             c == [job[j] EXCEPT !.pc = "load", !.id = i, !.mem = m]
  <2>1. l \in Row
    BY <1>0, <1>5 DEF Run
  <2>2. i \in untouched[j] => l = rows[i]
    BY <1>0, <1>5 DEF JobFresh
  <2>3. m.room = l.room /\ m.start = l.start /\ m.end = l.end /\ m.attendees = l.attendees
    BY <2>1 DEF Row
  <2> HIDE DEF l
  <2>4. job' = [job EXCEPT ![j] = c]
    BY <1>0, <1>5 DEF Mark, l
  <2> HIDE DEF m
  <2>5. c.pc = "load" /\ c.id = i /\ c.mem = m
    BY <1>0 DEF Run
  <2> HIDE DEF c
  <2>6. rows' = rows /\ untouched' = untouched
    BY <1>5 DEF Mark, store
  <2>7. Lawful(m) <=> Lawful(l)
    BY <2>3, LawfulCopy
  <2>8. c.id \in untouched[j] => (Lawful(rows[c.id]) => Lawful(c.mem))
    BY <2>2, <2>5, <2>7
  <2> QED BY <1>1, <1>2, <1>3, <2>4, <2>5, <2>6, <2>8
<1>6. CASE NoShows = j /\ \E i \in Ids : NoShowSkip(i)
  <2> PICK i \in Ids : NoShowSkip(i)
    BY <1>6
  <2>1. After(j, i).pc \in {"idle", "next"}
    BY AfterType
  <2>2. /\ job' = [job EXCEPT ![j] = After(j, i)] /\ rows' = rows
        /\ \E S : untouched' = [untouched EXCEPT ![j] = S]
    BY <1>6, <1>3 DEF NoShowSkip, Unwatch
  <2> QED BY <1>1, <1>2, <2>1, <2>2
<1>7. CASE JobLoad(j)
  <2> DEFINE c == [job[j] EXCEPT !.pc = "write", !.seen = rows[job[j].id]]
  <2>1. c.pc = "write" /\ c.id = job[j].id /\ c.mem = job[j].mem
    BY <1>0 DEF Run
  <2>2. job' = [job EXCEPT ![j] = c] /\ rows' = rows /\ untouched' = untouched
    BY <1>0, <1>7 DEF JobLoad, store
  <2> HIDE DEF c
  <2>3. c.id \in untouched[j] => (Lawful(rows[c.id]) => Lawful(c.mem))
    BY <1>0, <1>7, <2>1 DEF JobLoad, MeansWell
  <2> QED BY <1>1, <1>2, <1>3, <2>1, <2>2, <2>3
<1>8. CASE JobWrite(j)
  <2> DEFINE i == job[j].id
  <2>1. i \in Ids /\ After(j, i).pc \in {"idle", "next"}
    BY <1>0, <1>8, AfterType DEF JobWrite, Held
  <2>2. job' = [job EXCEPT ![j] = After(j, i)]
    BY <1>8 DEF JobWrite
  <2>3. /\ \A x \in Writers \ {j} : untouched'[x] = untouched[x] \ {i}
        /\ \A k \in Ids \ {i} : rows'[k] = rows[k]
    BY <1>0, <1>8, <2>1 DEF JobWrite, OvertakeOthers, Overtake, WriteRow
  <2>4. \A x \in Writers \ {j} : /\ untouched'[x] \subseteq untouched[x]
                                 /\ \A k \in untouched'[x] : rows'[k] = rows[k]
    BY <1>0, <2>3
  <2> HIDE DEF i
  <2> QED BY <1>1, <2>1, <2>2, <2>4
<1>9. CASE JobAbort(j)
  <2>1. JobIdle.pc = "idle"
    BY DEF JobIdle
  <2> QED BY <1>1, <1>2, <1>9, <2>1 DEF JobAbort, Unwatch
<1>10. CASE JobNew(j)
  BY <1>4, <1>10 DEF JobNew, NoShowScan, CompletionScan
<1>11. CASE JobDecide(j)
  BY <1>5, <1>6, <1>11 DEF JobDecide, NoShowMark, CompletionMark
<1> QED BY <1>7, <1>8, <1>9, <1>10, <1>11 DEF JobStep

LEMMA RulesNext == Inv /\ RulesInv /\ [Next]_vars => RulesInv'
<1> SUFFICES ASSUME Inv, RulesInv, [Next]_vars PROVE RulesInv'
  OBVIOUS
<1>1. CASE Request
  BY <1>1, RulesRequest DEF Request
<1>2. CASE Cron
  BY <1>2, RulesCron DEF Cron
<1>3. CASE Time \/ Entry \/ UNCHANGED vars
  <2>1. UNCHANGED <<rows, untouched, req, job>>
    BY <1>3 DEF Time, Clock, Tick, Entry, AccNew, AccStep, GenerateBegin, VerifyBegin,
       AccBegin, GenerateReuse, GenerateNew, GenerateInsert, VerifyLoad, VerifyWrite,
       AccAbort, vars, store
  <2> QED BY <2>1 DEF RulesInv, MeansWell, Lawful
<1> QED BY <1>1, <1>2, <1>3 DEF Next

LEMMA BreakStep ==
  ASSUME Inv, RulesInv, [Next]_vars, NEW i \in Ids,
         rows'[i] # NoRow, ~Lawful(rows'[i]), rows[i] # NoRow => Lawful(rows[i])
  PROVE  \E w \in Writers : Wrote(w) /\ i \notin untouched[w]
<1>0. /\ rows \in [Ids -> Row \cup {NoRow}]
      /\ rows'[i] # rows[i] /\ rows' # rows
  BY DEF Inv, TypeInv, TypeOK, ResTypeOK, StoreTypeOK
\* What a save writes of the entity in memory, if no one has overtaken it.
<1>1. ASSUME NEW c, NEW w \in Writers, i \in untouched[w],
             MeansWell(c, w), c.pc = "write", c.id \in Ids,
             c.mem \in Row, rows[c.id] \in Row,
             c.id \in untouched[w] => c.seen = rows[c.id] /\ c.mem.room = rows[c.id].room,
             rows' = [rows EXCEPT ![c.id] = MergeRow(rows[c.id], c.mem, c.seen)]
      PROVE  FALSE
  <2>1. c.id = i
    BY <1>0, <1>1
  <2>2. rows'[i] = MergeRow(rows[i], c.mem, rows[i])
    BY <1>0, <1>1, <2>1
  <2>3. Lawful(c.mem)
    BY <1>1, <2>1, NoRowAssumption DEF MeansWell
  <2>4. /\ rows'[i].start = c.mem.start /\ rows'[i].end = c.mem.end
        /\ rows'[i].attendees = c.mem.attendees /\ rows'[i].room = c.mem.room
    BY <1>1, <2>1, <2>2, MergeFresh, MergeAttendees
  <2> QED BY <2>3, <2>4, LawfulCopy
<1>2. ASSUME NEW p \in Requests, Wrote(p), i \in untouched[p],
             SaveWrite(p) \/ \E k \in Ids : CreateInsert(p, k)
      PROVE  FALSE
  <2>0. MeansWell(req[p], p) /\ Held(req[p]) /\ RequestFresh(p) /\ p \in Writers
    BY RequestTypes DEF RulesInv
  <2>1. CASE SaveWrite(p)
    <3>1. /\ req[p].pc = "write"
          /\ rows' = [rows EXCEPT ![req[p].id] =
                        MergeRow(rows[req[p].id], req[p].mem, req[p].seen)]
      BY <2>1 DEF SaveWrite, WriteRow
    <3>2. /\ req[p].id \in Ids /\ req[p].mem \in Row /\ rows[req[p].id] \in Row
          /\ req[p].id \in untouched[p] =>
               req[p].seen = rows[req[p].id] /\ req[p].mem.room = rows[req[p].id].room
      BY <2>0, <3>1 DEF Held, RequestFresh
    <3> QED BY <1>1, <1>2, <2>0, <3>1, <3>2
  <2>2. CASE \E k \in Ids : CreateInsert(p, k)
    <3>1. req[p].pc = "insert" /\ rows'[i] = req[p].mem
      BY <1>0, <2>2 DEF CreateInsert, WriteRow
    <3> QED BY <1>0, <2>0, <3>1 DEF MeansWell
  <2> QED BY <1>2, <2>1, <2>2
<1>3. ASSUME NEW w \in Jobs, JobWrite(w), i \in untouched[w] PROVE FALSE
  <2>0. MeansWell(job[w], w) /\ Held(job[w]) /\ JobFresh(w) /\ w \in Writers
    BY JobTypes DEF RulesInv
  <2>1. /\ job[w].pc = "write"
        /\ rows' = [rows EXCEPT ![job[w].id] =
                      MergeRow(rows[job[w].id], job[w].mem, job[w].seen)]
    BY <1>3 DEF JobWrite, WriteRow
  <2>2. /\ job[w].id \in Ids /\ job[w].mem \in Row /\ rows[job[w].id] \in Row
        /\ job[w].id \in untouched[w] =>
             job[w].seen = rows[job[w].id] /\ job[w].mem.room = rows[job[w].id].room
    BY <2>0, <2>1 DEF Held, JobFresh
  <2> QED BY <1>1, <1>3, <2>0, <2>1, <2>2
<1>4. CASE \E p \in Requests : /\ Wrote(p)
                               /\ SaveWrite(p) \/ \E k \in Ids : CreateInsert(p, k)
  BY <1>2, <1>4 DEF Writers
<1>5. CASE \E w \in Jobs : Wrote(w) /\ JobWrite(w)
  BY <1>3, <1>5 DEF Writers
<1> QED BY <1>0, <1>4, <1>5, WritingStep

(* A reservation comes to break the rules of its room only in a save that   *)
(* was overtaken in it: whatever else interleaves, the checks of create and *)
(* update hold of what is stored.                                           *)
THEOREM BreaksOnlyOvertaken == Spec => BreaksOnlyIfOvertaken
<1> DEFINE Step == \A i \in Ids :
              rows'[i] # NoRow /\ ~Lawful(rows'[i]) /\ (rows[i] # NoRow => Lawful(rows[i]))
                => \E w \in Writers : Wrote(w) /\ i \notin untouched[w]
<1>1. Inv /\ RulesInv /\ [Next]_vars => [Step]_vars
  BY BreakStep
<1> QED BY <1>1, Invariance, RulesInit, RulesNext, PTL DEF Spec, BreaksOnlyIfOvertaken
=============================================================================
