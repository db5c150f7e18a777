---------------------------- MODULE Reservations ----------------------------
(***************************************************************************)
(* ReservationsService: create, update, cancel and confirm, each cut at    *)
(* its awaits.  A call p holds the entity it has read (mem), and what the  *)
(* SELECT of its save has read (seen).  Calls of different processes       *)
(* interleave at every step; any of them may be lost (Abort: an exception  *)
(* of the database, or the server going down).                             *)
(***************************************************************************)
EXTENDS Store

CONSTANTS
  Starts, Ends,   \* the times a client asks for
  Parties,        \* the numbers of attendees a client asks for
  MaxTime         \* bound of the clock

ASSUME InputAssumption ==
  Starts \subseteq Nat /\ Ends \subseteq Nat /\ Parties \subseteq Nat

VARIABLE req      \* the call each process is in

resVars == <<store, req>>

Pcs == {"idle", "lock", "insert", "slot", "tokens", "load", "write"}

Call == [pc : Pcs, id : Ids \cup {NoId},
         mem : Row \cup {NoRow}, seen : Row \cup {NoRow}]

Idle == [pc |-> "idle", id |-> NoId, mem |-> NoRow, seen |-> NoRow]

ResTypeOK == StoreTypeOK /\ req \in [Requests -> Call]

ResInit == StoreInit /\ req = [p \in Requests |-> Idle]

-----------------------------------------------------------------------------
\* p's call has read reservation i and means to make it m.
Begin(p, pc, i, m) ==
  /\ req[p].pc = "idle"
  /\ req' = [req EXCEPT ![p] = [pc |-> pc, id |-> i, mem |-> m, seen |-> NoRow]]
  /\ Watch(p)
  /\ UNCHANGED <<now, rows, tokens>>

Goto(p, pc) == req' = [req EXCEPT ![p].pc = pc] /\ UNCHANGED store

\* p's call returns or throws without another write.
Reject(p) ==
  /\ req' = [req EXCEPT ![p] = Idle]
  /\ Unwatch(p)
  /\ UNCHANGED <<now, rows, tokens>>

-----------------------------------------------------------------------------
(* create: validation, then a transaction of the locking conflict query and *)
(* the INSERT.  FOR UPDATE locks the rows the query returns: a call it lets *)
(* through has locked nothing, one that it stops rolls back at once.        *)
CreateBegin(p, u, r, s, e, n) ==
  /\ s > now
  /\ ValidSlot(r, s, e)
  /\ n <= Capacity[r]
  /\ Begin(p, "lock", NoId,
           [user |-> u, room |-> r, start |-> s, end |-> e,
            attendees |-> n, status |-> "PENDING"])

SlotFree(p) ==
  LET m == req[p].mem IN Conflicts(m.room, m.start, m.end, req[p].id) = {}

\* Mutant: the slot is not looked up.
CreateUnchecked(p) == req[p].pc = "lock" /\ Goto(p, "insert")

CreateCheck(p) ==
  /\ req[p].pc = "lock"
  /\ IF SlotFree(p) THEN Goto(p, "insert") ELSE Reject(p)

CreateInsert(p, i) ==
  /\ req[p].pc = "insert"
  /\ rows[i] = NoRow
  /\ WriteRow(i, req[p].mem)
  /\ OvertakeOthers(p, i)
  /\ req' = [req EXCEPT ![p] = Idle]
  /\ UNCHANGED <<now, tokens>>

(* update: the entity is read and checked; new times are checked against    *)
(* the other reservations by a query of its own, without lock; then save.   *)
\* Mutant: a reservation that is moved has to be confirmed again.
UpdateTimesPending(p, u, i, s, e, n) ==
  /\ rows[i] # NoRow
  /\ rows[i].user = u
  /\ MayUpdate(rows[i], now)
  /\ ValidSlot(rows[i].room, s, e)
  /\ n <= Capacity[rows[i].room]
  /\ Begin(p, "slot", i, [rows[i] EXCEPT !.start = s, !.end = e, !.attendees = n,
                                         !.status = "PENDING"])

\* Mutant: the rules are checked only where both times are given.
UpdateTimesOfBoth(p, u, i, s, e, n) ==
  /\ rows[i] # NoRow
  /\ rows[i].user = u
  /\ MayUpdate(rows[i], now)
  /\ s # rows[i].start /\ e # rows[i].end => ValidSlot(rows[i].room, s, e)
  /\ n <= Capacity[rows[i].room]
  /\ Begin(p, "slot", i,
           [rows[i] EXCEPT !.start = s, !.end = e, !.attendees = n])

UpdateTimes(p, u, i, s, e, n) ==
  /\ rows[i] # NoRow
  /\ rows[i].user = u
  /\ MayUpdate(rows[i], now)
  /\ ValidSlot(rows[i].room, s, e)
  /\ n <= Capacity[rows[i].room]
  /\ Begin(p, "slot", i,
           [rows[i] EXCEPT !.start = s, !.end = e, !.attendees = n])

UpdateDetails(p, u, i, n) ==
  /\ rows[i] # NoRow
  /\ rows[i].user = u
  /\ MayUpdate(rows[i], now)
  /\ n <= Capacity[rows[i].room]
  /\ Begin(p, "load", i, [rows[i] EXCEPT !.attendees = n])

UpdateCheck(p) ==
  /\ req[p].pc = "slot"
  /\ IF SlotFree(p) THEN Goto(p, "load") ELSE Reject(p)

\* Mutant: a status the enum does not have.
CancelMisspelt(p, u, i) ==
  /\ rows[i] # NoRow
  /\ rows[i].user = u
  /\ MayCancel(rows[i], now)
  /\ Begin(p, "tokens", i, [rows[i] EXCEPT !.status = "CANCELED"])

(* cancel: the unused tokens are spent first, the status is saved after.    *)
CancelBegin(p, u, i) ==
  /\ rows[i] # NoRow
  /\ rows[i].user = u
  /\ MayCancel(rows[i], now)
  /\ Begin(p, "tokens", i, [rows[i] EXCEPT !.status = "CANCELLED"])

CancelTokens(p) ==
  /\ req[p].pc = "tokens"
  /\ tokens' = [k \in TokenIds |-> IF k \in UnusedTokens(req[p].id)
                                   THEN [tokens[k] EXCEPT !.used = TRUE]
                                   ELSE tokens[k]]
  /\ req' = [req EXCEPT ![p].pc = "load"]
  /\ UNCHANGED <<now, rows, untouched>>

\* Mutant: whatever is not confirmed can be.
ConfirmAny(p, i) ==
  /\ rows[i] # NoRow
  /\ rows[i].status # "CONFIRMED"
  /\ Begin(p, "load", i, [rows[i] EXCEPT !.status = "CONFIRMED"])

(* confirm: an administrator's; the time is not looked at.                  *)
ConfirmBegin(p, i) ==
  /\ rows[i] # NoRow
  /\ rows[i].status = "PENDING"
  /\ Begin(p, "load", i, [rows[i] EXCEPT !.status = "CONFIRMED"])

(* The save of update, cancel and confirm.                                  *)
SaveLoad(p) ==
  /\ req[p].pc = "load"
  /\ req' = [req EXCEPT ![p].pc = "write", ![p].seen = rows[req[p].id]]
  /\ UNCHANGED store

SaveWrite(p) ==
  /\ req[p].pc = "write"
  /\ LET i == req[p].id
     IN  /\ WriteRow(i, MergeRow(rows[i], req[p].mem, req[p].seen))
         /\ OvertakeOthers(p, i)
  /\ req' = [req EXCEPT ![p] = Idle]
  /\ UNCHANGED <<now, tokens>>

Abort(p) == req[p].pc # "idle" /\ Reject(p)

-----------------------------------------------------------------------------
ResBegin(p) ==
  \/ \E u \in Users, r \in Rooms, s \in Starts, e \in Ends, n \in Parties :
       CreateBegin(p, u, r, s, e, n)
  \/ \E i \in Ids, u \in Users :
       \/ CancelBegin(p, u, i)
       \/ \E n \in Parties : UpdateDetails(p, u, i, n)
       \/ /\ rows[i] # NoRow
          /\ \E s \in Starts \cup {rows[i].start},
                e \in Ends \cup {rows[i].end}, n \in Parties :
               UpdateTimes(p, u, i, s, e, n)
  \/ \E i \in Ids : ConfirmBegin(p, i)

ResStep(p) ==
  \/ CreateCheck(p)
  \/ \E i \in Ids : CreateInsert(p, i)
  \/ UpdateCheck(p)
  \/ CancelTokens(p)
  \/ SaveLoad(p)
  \/ SaveWrite(p)
  \/ Abort(p)

Clock == now < MaxTime /\ Tick

ResNext ==
  \/ Clock /\ UNCHANGED req
  \/ \E p \in Requests : ResBegin(p) \/ ResStep(p)

ResSpec == ResInit /\ [][ResNext]_resVars
=============================================================================
