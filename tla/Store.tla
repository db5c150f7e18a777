------------------------------- MODULE Store -------------------------------
(***************************************************************************)
(* The database the services share, and the clock they all read.           *)
(*                                                                         *)
(* Each SELECT, INSERT or UPDATE is one atomic step (READ COMMITTED, one   *)
(* statement per transaction but for create's).  repository.save(entity)   *)
(* of TypeORM is two: it first SELECTs the stored row, then UPDATEs the    *)
(* columns in which the entity in memory differs from what it has read.    *)
(* MergeRow and MergeToken say what such an UPDATE leaves in the row.      *)
(***************************************************************************)
EXTENDS BookingRules, FiniteSets

CONSTANTS
  Ids,        \* ids of reservations
  TokenIds,   \* ids of room_accesses records
  Requests,   \* in-flight calls of ReservationsService
  Jobs,       \* the cron handlers
  NoToken, NoTime, NoId

ASSUME StoreAssumption ==
  /\ NoTime \notin Nat
  /\ NoId \notin Ids \cup TokenIds
  /\ Requests \cap Jobs = {}

VARIABLES
  now,        \* the clock behind every new Date()
  rows,       \* the reservations table
  tokens,     \* the room_accesses table
  untouched   \* history: the reservations no one has written since the
              \* writer's call began ({} while no call is in flight)

store == <<now, rows, tokens, untouched>>

Writers == Requests \cup Jobs

Token == [res : Ids, expires : Nat, used : BOOLEAN, time : Nat \cup {NoTime}]

ASSUME NoTokenAssumption == NoToken \notin Token

StoreTypeOK ==
  /\ now \in Nat
  /\ rows \in [Ids -> Row \cup {NoRow}]
  /\ tokens \in [TokenIds -> Token \cup {NoToken}]
  /\ untouched \in [Writers -> SUBSET Ids]

StoreInit ==
  /\ now = 0
  /\ rows = [i \in Ids |-> NoRow]
  /\ tokens = [k \in TokenIds |-> NoToken]
  /\ untouched = [w \in Writers |-> {}]

-----------------------------------------------------------------------------
\* A column of the row after a save: the entity's value where it differs from
\* the value the save has read, else what the table holds by now.
Column(stored, mem, seen) == IF mem # seen THEN mem ELSE stored

MergeRow(row, mem, seen) ==
  [user |-> row.user,
   room |-> row.room,
   start |-> Column(row.start, mem.start, seen.start),
   end |-> Column(row.end, mem.end, seen.end),
   attendees |-> Column(row.attendees, mem.attendees, seen.attendees),
   status |-> Column(row.status, mem.status, seen.status)]

MergeToken(row, mem, seen) ==
  [res |-> row.res,
   expires |-> row.expires,
   used |-> Column(row.used, mem.used, seen.used),
   time |-> Column(row.time, mem.time, seen.time)]

\* The reservations a conflict query for a slot returns.
Conflicts(r, s, e, except) ==
  {j \in Ids \ {except} : Blocks(rows[j], r, s, e)}

AccessRecords(i) == {k \in TokenIds : tokens[k] # NoToken /\ tokens[k].res = i}

UnusedTokens(i) == {k \in AccessRecords(i) : ~tokens[k].used}

-----------------------------------------------------------------------------
\* The first read of writer w's call: from here it may be overtaken.
Watch(w) == untouched' = [untouched EXCEPT ![w] = Ids]

Unwatch(w) == untouched' = [untouched EXCEPT ![w] = {}]

WriteRow(i, row) == rows' = [rows EXCEPT ![i] = row]

\* Every call in flight is overtaken in reservation i; w's own is over.
OvertakeOthers(w, i) ==
  untouched' = [x \in Writers |-> IF x = w THEN {} ELSE untouched[x] \ {i}]

Overtake(i) == untouched' = [x \in Writers |-> untouched[x] \ {i}]

Tick == now' = now + 1 /\ UNCHANGED <<rows, tokens, untouched>>
=============================================================================
