---------------------------- MODULE RoomsService ----------------------------
(***************************************************************************)
(* RoomsService: the rooms table behind a read-through cache.  Each call   *)
(* is cut at its awaits: every statement and every request to the cache is *)
(* a step.  A call may be lost before any of them (Abort).                 *)
(***************************************************************************)
EXTENDS Cache, FiniteSets

CONSTANTS
  RoomIds, Dates,
  Numbers,      \* roomNumber, a unique column
  HoursValues,  \* operatingHours, standing for all columns a PATCH may set
  Clients,      \* the calls under way
  MaxInFlight,  \* bound of the calls under way together
  Prompt,       \* TRUE: no call takes as long as a unit of the clock
  MayFail,      \* TRUE: a call may be lost
  NoRoom, NoId, Same

VARIABLES
  rooms,        \* the rooms table
  call,         \* the call each client is in
  current,      \* history: the calls whose data nobody has changed since
  tainted,      \* history: the keys filled too late, or not deleted after a write
  since         \* history: the time since a room was written, up to Forever

roomsVars == <<cache, rooms, call, current, tainted, since>>

Room == [number : Numbers, hours : HoursValues, isActive : BOOLEAN]

ASSUME NullAssumption ==
  /\ NoRoom \notin Room
  /\ NoId \notin RoomIds
  /\ Same \notin Numbers \cup HoursValues \cup BOOLEAN
  /\ MaxInFlight \in Nat
  /\ {Prompt, MayFail} \subseteq BOOLEAN

-----------------------------------------------------------------------------
RoomKey(i) == <<"room", i>>
ListKey == <<"rooms:list">>
AvailabilityKey(i) == <<"room:availability", i>>
DatedKey(i, d) == <<"room:availability", i, d>>

Keys == {RoomKey(i) : i \in RoomIds} \cup {ListKey}
          \cup {AvailabilityKey(i) : i \in RoomIds}
          \cup {DatedKey(i, d) : i \in RoomIds, d \in Dates}

\* UpdateRoomDto, or what remove sets: Same where a column is left alone.
Patch == [number : Numbers \cup {Same}, hours : HoursValues \cup {Same},
          isActive : BOOLEAN \cup {Same}]

Nothing == [number |-> Same, hours |-> Same, isActive |-> Same]

\* The updates asked for: one column each (a bound).
Updates == {[Nothing EXCEPT !.number = n] : n \in Numbers}
             \cup {[Nothing EXCEPT !.hours = h] : h \in HoursValues}
             \cup {[Nothing EXCEPT !.isActive = TRUE]}

Removal == [Nothing EXCEPT !.isActive = FALSE]

Set(value, column) == IF value = Same THEN column ELSE value

\* Object.assign(room, updateRoomDto).
Patched(room, patch) ==
  [number |-> Set(patch.number, room.number),
   hours |-> Set(patch.hours, room.hours),
   isActive |-> Set(patch.isActive, room.isActive)]

\* The UPDATE of save: the columns in which the entity differs from the row read.
Column(stored, mem, seen) == IF mem # seen THEN mem ELSE stored

MergeRoom(row, mem, seen) ==
  [number |-> Column(row.number, mem.number, seen.number),
   hours |-> Column(row.hours, mem.hours, seen.hours),
   isActive |-> Column(row.isActive, mem.isActive, seen.isActive)]

Listing == SUBSET (RoomIds \X Room)

ActiveRooms ==
  {<<i, rooms[i]>> : i \in {j \in RoomIds : rooms[j] # NoRoom /\ rooms[j].isActive}}

NumberTaken(n, except) ==
  \E j \in RoomIds \ {except} : rooms[j] # NoRoom /\ rooms[j].number = n

Call == [pc : {"idle", "find", "select", "fill", "check", "load", "write", "forget",
               "forgetDates", "forgetList", "store", "insert", "selectList", "fillList"},
         op : {"none", "read", "update", "availability", "list", "create"},
         id : RoomIds \cup {NoId}, date : Dates \cup {NoId}, patch : Patch,
         mem : Room \cup {NoRoom}, seen : Room \cup {NoRoom}, listing : Listing]

Idle == [pc |-> "idle", op |-> "none", id |-> NoId, date |-> NoId, patch |-> Nothing,
         mem |-> NoRoom, seen |-> NoRoom, listing |-> {}]

Forever == LongTTL + ShortTTL

RoomsTypeOK ==
  /\ rooms \in [RoomIds -> Room \cup {NoRoom}]
  /\ call \in [Clients -> Call]
  /\ DOMAIN cache = Keys
  /\ \A i \in RoomIds : cache[RoomKey(i)] \in Entry(Room) \cup {NoEntry}
  /\ \A i \in RoomIds, d \in Dates :
       cache[DatedKey(i, d)] \in Entry(HoursValues) \cup {NoEntry}
  /\ cache[ListKey] \in Entry(Listing) \cup {NoEntry}
  /\ since \in [RoomIds -> 0 .. Forever]
  /\ current \subseteq Clients
  /\ tainted \subseteq Keys

RoomsInit ==
  /\ cache = [k \in Keys |-> NoEntry]
  /\ rooms = [i \in RoomIds |-> NoRoom]
  /\ call = [p \in Clients |-> Idle]
  /\ current = {}
  /\ tainted = {}
  /\ since = [i \in RoomIds |-> Forever]

-----------------------------------------------------------------------------
InFlight == {p \in Clients : call[p].pc # "idle"}

Free(p) == call[p].pc = "idle" /\ Cardinality(InFlight) < MaxInFlight

\* p's call becomes c; its data is the table's (fresh), or may not be.
Become(p, c, fresh) ==
  /\ call' = [call EXCEPT ![p] = c]
  /\ current' = IF fresh /\ c # Idle THEN current \cup {p} ELSE current \ {p}

\* p's call goes on with the data it has.
Advance(p, c) == Become(p, c, p \in current)

Finish(p) == Become(p, Idle, FALSE)

\* Mutant: an update of a room puts what the client leaves out to its default.
ReturnedPut(c, room) ==
  IF c.op = "update"
  THEN [c EXCEPT !.pc = "load",
                 !.mem = [Patched(room, c.patch) EXCEPT !.isActive = Set(c.patch.isActive, TRUE)]]
  ELSE IF c.op = "read" THEN Idle ELSE [c EXCEPT !.pc = "store", !.mem = room]

\* The call c after findOne has returned room.
Returned(c, room) ==
  CASE c.op = "read" -> Idle
    [] c.op = "availability" -> [c EXCEPT !.pc = "store", !.mem = room]
    [] c.op = "update" ->
         [c EXCEPT !.pc = IF c.patch.number \in {Same, room.number} THEN "load"
                          ELSE "check",
                   !.mem = Patched(room, c.patch)]

(* findOne: the cache, else the table, and then the cache again.            *)
Find(p, c) ==
  /\ LET k == RoomKey(c.id)
     IN  IF Cached(k)
         THEN Become(p, Returned(c, cache[k].val), cache[k].val = rooms[c.id])
         ELSE Become(p, [c EXCEPT !.pc = "select"], FALSE)
  /\ UNCHANGED <<cache, rooms, tainted, since>>

FindSelect(p) ==
  /\ call[p].pc = "select"
  /\ LET room == rooms[call[p].id]
     IN  IF room = NoRoom THEN Finish(p)
         ELSE Become(p, [call[p] EXCEPT !.pc = "fill", !.mem = room], TRUE)
  /\ UNCHANGED <<cache, rooms, tainted, since>>

Fill(p, k, v, ttl) ==
  /\ Put(k, v, ttl)
  /\ tainted' = IF p \in current THEN tainted \ {k} ELSE tainted \cup {k}

FindFill(p) ==
  /\ call[p].pc = "fill"
  /\ Fill(p, RoomKey(call[p].id), call[p].mem, LongTTL)
  /\ Advance(p, Returned(call[p], call[p].mem))
  /\ UNCHANGED <<rooms, since>>

ReadBegin(p, i) ==
  Free(p) /\ Find(p, [Idle EXCEPT !.op = "read", !.id = i])

(* update and remove: findOne, the check of a new number, save, and the     *)
(* three keys one after the other.                                          *)
UpdateBegin(p, i, patch) ==
  Free(p) /\ Find(p, [Idle EXCEPT !.op = "update", !.id = i, !.patch = patch])

CheckNumber(p) ==
  /\ call[p].pc = "check"
  /\ IF NumberTaken(call[p].patch.number, NoId) THEN Finish(p)
     ELSE Advance(p, [call[p] EXCEPT !.pc = "load"])
  /\ UNCHANGED <<cache, rooms, tainted, since>>

SaveLoad(p) ==
  /\ call[p].pc = "load"
  /\ Advance(p, [call[p] EXCEPT !.pc = "write", !.seen = rooms[call[p].id]])
  /\ UNCHANGED <<cache, rooms, tainted, since>>

\* The calls that hold data of room i.
Holders(i) == {q \in Clients : call[q].id = i \/ call[q].op = "list"}

\* Room i becomes room by p's statement; p goes on at pc.
WriteRoom(p, i, room, pc) ==
  /\ rooms' = [rooms EXCEPT ![i] = room]
  /\ call' = [call EXCEPT ![p] = [Idle EXCEPT !.pc = pc, !.op = call[p].op, !.id = i]]
  /\ IF room = rooms[i]
     THEN current' = current \ {p} /\ UNCHANGED since
     ELSE /\ current' = current \ (Holders(i) \cup {p})
          /\ since' = [since EXCEPT ![i] = 0]

SaveWrite(p) ==
  /\ call[p].pc = "write"
  /\ LET i == call[p].id
         room == MergeRoom(rooms[i], call[p].mem, call[p].seen)
     IN  IF NumberTaken(room.number, i)
         THEN Finish(p) /\ UNCHANGED <<rooms, since>>
         ELSE WriteRoom(p, i, room, "forget")
  /\ UNCHANGED <<cache, tainted>>

Forget(p, k) == Del(k) /\ tainted' = tainted \ {k}

ForgetRoom(p) ==
  /\ call[p].pc = "forget"
  /\ Forget(p, RoomKey(call[p].id))
  /\ Advance(p, [call[p] EXCEPT !.pc = "forgetDates"])
  /\ UNCHANGED <<rooms, since>>

ForgetDates(p) ==
  /\ call[p].pc = "forgetDates"
  /\ Forget(p, AvailabilityKey(call[p].id))
  /\ Advance(p, [call[p] EXCEPT !.pc = "forgetList"])
  /\ UNCHANGED <<rooms, since>>

ForgetList(p) ==
  /\ call[p].pc = "forgetList"
  /\ Forget(p, ListKey)
  /\ Finish(p)
  /\ UNCHANGED <<rooms, since>>

(* getAvailability: a cache of its own over the cache of rooms.             *)
AvailabilityBegin(p, i, d) ==
  /\ Free(p)
  /\ ~Cached(DatedKey(i, d))
  /\ Become(p, [Idle EXCEPT !.pc = "find", !.op = "availability", !.id = i, !.date = d],
            FALSE)
  /\ UNCHANGED <<cache, rooms, tainted, since>>

AvailabilityFind(p) == call[p].pc = "find" /\ Find(p, call[p])

\* Mutant: the lifetime of a room, not of an availability.
AvailabilityStoreLong(p) ==
  /\ call[p].pc = "store"
  /\ Put(DatedKey(call[p].id, call[p].date), call[p].mem.hours, LongTTL)
  /\ Finish(p)
  /\ UNCHANGED <<rooms, tainted, since>>

AvailabilityStore(p) ==
  /\ call[p].pc = "store"
  /\ Put(DatedKey(call[p].id, call[p].date), call[p].mem.hours, ShortTTL)
  /\ Finish(p)
  /\ UNCHANGED <<rooms, tainted, since>>

(* findAll without filters.                                                 *)
ListBegin(p) ==
  /\ Free(p)
  /\ ~Cached(ListKey)
  /\ Become(p, [Idle EXCEPT !.pc = "selectList", !.op = "list"], FALSE)
  /\ UNCHANGED <<cache, rooms, tainted, since>>

ListSelect(p) ==
  /\ call[p].pc = "selectList"
  /\ Become(p, [call[p] EXCEPT !.pc = "fillList", !.listing = ActiveRooms], TRUE)
  /\ UNCHANGED <<cache, rooms, tainted, since>>

ListFill(p) ==
  /\ call[p].pc = "fillList"
  /\ Fill(p, ListKey, call[p].listing, MediumTTL)
  /\ Finish(p)
  /\ UNCHANGED <<rooms, since>>

(* create: the number is looked up, the room inserted, the list forgotten.  *)
(* The room is active, the default (a bound on what is asked for).          *)
CreateBegin(p, n, h) ==
  /\ Free(p)
  /\ ~NumberTaken(n, NoId)
  /\ Become(p, [Idle EXCEPT !.pc = "insert", !.op = "create",
                            !.mem = [number |-> n, hours |-> h, isActive |-> TRUE]],
            FALSE)
  /\ UNCHANGED <<cache, rooms, tainted, since>>

\* Mutant: the list is not told of the new room.
CreateUnlisted(p, i) ==
  /\ call[p].pc = "insert"
  /\ rooms[i] = NoRoom
  /\ ~NumberTaken(call[p].mem.number, NoId)
  /\ WriteRoom(p, i, call[p].mem, "idle")
  /\ UNCHANGED <<cache, tainted>>

CreateInsert(p, i) ==
  /\ call[p].pc = "insert"
  /\ rooms[i] = NoRoom
  /\ ~NumberTaken(call[p].mem.number, NoId)
  /\ WriteRoom(p, i, call[p].mem, "forgetList")
  /\ UNCHANGED <<cache, tainted>>

\* The unique column refuses the row (or RoomIds, a bound, is exhausted).
CreateRefused(p) ==
  /\ call[p].pc = "insert"
  /\ NumberTaken(call[p].mem.number, NoId) \/ \A i \in RoomIds : rooms[i] # NoRoom
  /\ Finish(p)
  /\ UNCHANGED <<cache, rooms, tainted, since>>

\* What p's call was still to delete.
ToForget(p) ==
  CASE call[p].pc = "forget" -> {RoomKey(call[p].id), ListKey}
    [] call[p].pc \in {"forgetDates", "forgetList"} -> {ListKey}
    [] OTHER -> {}

Abort(p) ==
  /\ MayFail
  /\ call[p].pc # "idle"
  /\ tainted' = tainted \cup {k \in ToForget(p) : Cached(k)}
  /\ Finish(p)
  /\ UNCHANGED <<cache, rooms, since>>

-----------------------------------------------------------------------------
Begin(p) ==
  \/ \E i \in RoomIds : \/ ReadBegin(p, i)
                        \/ \E patch \in Updates \cup {Removal} : UpdateBegin(p, i, patch)
                        \/ \E d \in Dates : AvailabilityBegin(p, i, d)
  \/ \E n \in Numbers, h \in HoursValues : CreateBegin(p, n, h)
  \/ ListBegin(p)

Step(p) ==
  \/ FindSelect(p)
  \/ FindFill(p)
  \/ CheckNumber(p)
  \/ SaveLoad(p)
  \/ SaveWrite(p)
  \/ ForgetRoom(p)
  \/ ForgetDates(p)
  \/ ForgetList(p)
  \/ AvailabilityFind(p)
  \/ AvailabilityStore(p)
  \/ ListSelect(p)
  \/ ListFill(p)
  \/ \E i \in RoomIds : CreateInsert(p, i)
  \/ CreateRefused(p)
  \/ Abort(p)

Time ==
  /\ Prompt => InFlight = {}
  /\ Age
  /\ tainted' = {k \in tainted : cache'[k] # NoEntry}
  /\ since' = [i \in RoomIds |-> IF since[i] = Forever THEN Forever ELSE since[i] + 1]
  /\ UNCHANGED <<rooms, call, current>>

Next == Time \/ \E p \in Clients : Begin(p) \/ Step(p)

Spec == RoomsInit /\ [][Next]_roomsVars

-----------------------------------------------------------------------------
\* What the cache holds is not what a reader of the table would put there.
RoomStale(i) == Cached(RoomKey(i)) /\ cache[RoomKey(i)].val # rooms[i]

ListStale == Cached(ListKey) /\ cache[ListKey].val # ActiveRooms

AvailabilityStale(i, d) ==
  Cached(DatedKey(i, d)) /\ cache[DatedKey(i, d)].val # rooms[i].hours

(* A room or the list in the cache differs from the table only while the    *)
(* call that wrote is about to delete it, or because that call was lost, or *)
(* because it was filled with data that had been written over meanwhile.    *)
StaleOnlyIfTainted ==
  /\ \A i \in RoomIds : RoomStale(i) =>
       RoomKey(i) \in tainted \/ \E p \in Clients : RoomKey(i) \in ToForget(p)
  /\ ListStale => ListKey \in tainted \/ \E p \in Clients : ListKey \in ToForget(p)

(* However a value became stale, it is gone one lifetime after the write    *)
(* that made it so; an availability, computed from a room that may itself   *)
(* come from the cache, after the lifetimes of both.                        *)
StaleBounded ==
  /\ \A i \in RoomIds : RoomStale(i) => cache[RoomKey(i)].left + since[i] <= LongTTL
  /\ ListStale => \E i \in RoomIds : cache[ListKey].left + since[i] <= MediumTTL
  /\ \A i \in RoomIds, d \in Dates : AvailabilityStale(i, d) =>
       cache[DatedKey(i, d)].left + since[i] < LongTTL + ShortTTL

(* An update changes what it was asked to and nothing else, unless it began *)
(* from data that was no longer the table's.                                *)
LostOnlyIfStale ==
  [][\A i \in RoomIds : rooms[i] # NoRoom /\ rooms'[i] # rooms[i] =>
       \E p \in Clients : /\ call[p].pc = "write" /\ call[p].id = i
                          /\ \/ p \notin current
                             \/ rooms'[i] = Patched(rooms[i], call[p].patch)]_roomsVars

(* After an update nothing of the room's is left in the cache               *)
(* (CLAUDE.ROOMS.md:346, "room:{id}, room:{id}:availability:*, rooms 모두     *)
(* 무효화"), as long as calls run alone and none is lost.                     *)
AvailabilityCurrent ==
  InFlight = {} => \A i \in RoomIds, d \in Dates : ~AvailabilityStale(i, d)
=============================================================================
