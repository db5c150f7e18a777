------------------------ MODULE RoomsService_proofs ------------------------
(***************************************************************************)
(* Proofs about RoomsService, for any number of rooms, dates and calls     *)
(* under way, and for any lifetimes.                                       *)
(***************************************************************************)
EXTENDS RoomsService, TLAPS

\* What a call holds at each of its steps.
CallHolds(c) ==
  /\ c.pc \in {"find", "select", "fill", "check", "load", "write", "store",
               "forget", "forgetDates"} => c.id \in RoomIds
  /\ c.pc \in {"select", "fill"} => c.op \in {"read", "update", "availability"}
  /\ c.pc \in {"fill", "check", "load", "write", "store"} =>
       c.mem \in Room /\ rooms[c.id] \in Room
  /\ c.pc = "check" => c.patch.number \in Numbers
  /\ c.pc = "write" => c.seen \in Room
  /\ c.pc = "insert" => c.mem \in Room
  /\ c.pc \in {"find", "store"} => c.op = "availability"
  /\ c.pc \in {"check", "load", "write", "insert"} => c.op # "availability"
  /\ c.pc # "idle" /\ c.op = "availability" => c.date \in Dates
  /\ c.pc \in {"selectList", "fillList"} => c.op = "list"

CallsHold == \A p \in Clients : CallHolds(call[p])

\* What is true of the data of a call as long as nobody has changed it.
CallFresh(c) ==
  /\ c.pc = "fill" => c.mem = rooms[c.id]
  /\ c.pc \in {"check", "load", "write"} => c.mem = Patched(rooms[c.id], c.patch)
  /\ c.pc = "write" => c.seen = rooms[c.id]
  /\ c.pc = "fillList" => c.listing = ActiveRooms

Fresh == \A p \in current : CallFresh(call[p])

\* No room is in the cache before it is in the table.
CachedExist == \A i \in RoomIds : Cached(RoomKey(i)) => rooms[i] \in Room

Inv == RoomsTypeOK /\ CallsHold /\ Fresh /\ CachedExist /\ StaleOnlyIfTainted

-----------------------------------------------------------------------------
LEMMA KeysApart ==
  /\ \A i, j \in RoomIds : RoomKey(i) = RoomKey(j) => i = j
  /\ \A i \in RoomIds : RoomKey(i) # ListKey
  /\ \A i, j \in RoomIds : RoomKey(i) # AvailabilityKey(j)
  /\ \A i, j \in RoomIds, d \in Dates : RoomKey(i) # DatedKey(j, d)
  /\ \A i \in RoomIds, d \in Dates : ListKey # DatedKey(i, d)
  /\ \A i \in RoomIds : ListKey # AvailabilityKey(i)
  /\ \A i, j \in RoomIds, d \in Dates : AvailabilityKey(i) # DatedKey(j, d)
  /\ \A i, j \in RoomIds, d, e \in Dates :
       DatedKey(i, d) = DatedKey(j, e) => i = j /\ d = e
BY DEF RoomKey, ListKey, AvailabilityKey, DatedKey

LEMMA KeysAre ==
  /\ ListKey \in Keys
  /\ \A i \in RoomIds : RoomKey(i) \in Keys /\ AvailabilityKey(i) \in Keys
  /\ \A i \in RoomIds, d \in Dates : DatedKey(i, d) \in Keys
BY DEF Keys

LEMMA PutOnly ==
  ASSUME DOMAIN cache = Keys, NEW k \in Keys, NEW v, NEW t, Put(k, v, t)
  PROVE  /\ DOMAIN cache' = Keys
         /\ cache'[k] = [val |-> v, left |-> t]
         /\ \A j \in Keys \ {k} : cache'[j] = cache[j]
BY DEF Put

LEMMA DelOnly ==
  ASSUME DOMAIN cache = Keys, NEW k \in Keys, Del(k)
  PROVE  /\ DOMAIN cache' = Keys
         /\ cache'[k] = NoEntry
         /\ \A j \in Keys \ {k} : cache'[j] = cache[j]
BY DEF Del

LEMMA BecomeOnly ==
  ASSUME RoomsTypeOK, NEW p \in Clients, NEW c \in Call, NEW fresh \in BOOLEAN,
         Become(p, c, fresh)
  PROVE  /\ call' \in [Clients -> Call]
         /\ call'[p] = c
         /\ \A q \in Clients \ {p} : call'[q] = call[q]
         /\ current' \subseteq Clients
         /\ current' \ {p} \subseteq current
         /\ p \in current' => fresh /\ c # Idle
BY DEF RoomsTypeOK, Become

LEMMA IdleHolds == Idle \in Call /\ CallHolds(Idle) /\ CallFresh(Idle) /\ Idle.pc = "idle"
BY DEF Idle, Call, CallHolds, CallFresh, Patch, Nothing, Listing

LEMMA UpdatesArePatches == \A patch \in Updates \cup {Removal} : patch \in Patch
BY DEF Updates, Removal, Nothing, Patch

LEMMA PatchedType ==
  ASSUME NEW room \in Room, NEW patch \in Patch
  PROVE  Patched(room, patch) \in Room
BY DEF Patched, Set, Room, Patch

LEMMA MergeType ==
  ASSUME NEW row \in Room, NEW mem \in Room, NEW seen \in Room
  PROVE  /\ MergeRoom(row, mem, seen) \in Room
         /\ seen = row => MergeRoom(row, mem, seen) = mem
BY DEF MergeRoom, Column, Room

LEMMA ActiveType ==
  ASSUME RoomsTypeOK
  PROVE  ActiveRooms \in Listing
BY DEF ActiveRooms, Listing, RoomsTypeOK

-----------------------------------------------------------------------------
LEMMA Initially == RoomsInit => Inv
PROOF
  <1> SUFFICES ASSUME RoomsInit PROVE Inv
    OBVIOUS
  <1>1. RoomsTypeOK
    BY KeysAre, IdleHolds, CacheAssumption DEF RoomsInit, RoomsTypeOK, Forever
  <1>2. CallsHold /\ Fresh
    BY IdleHolds DEF RoomsInit, CallsHold, Fresh
  <1>3. CachedExist /\ StaleOnlyIfTainted
    BY KeysAre DEF RoomsInit, CachedExist, StaleOnlyIfTainted, Cached, RoomStale, ListStale
  <1> QED BY <1>1, <1>2, <1>3 DEF Inv

(* A step of p that touches neither the table nor the cache.                *)
LEMMA QuietKeeps ==
  ASSUME Inv, NEW p \in Clients, NEW c \in Call, NEW fresh \in BOOLEAN,
         Become(p, c, fresh), CallHolds(c), fresh => CallFresh(c),
         call[p].pc \notin {"forget", "forgetDates", "forgetList"},
         UNCHANGED <<cache, rooms, tainted, since>>
  PROVE  Inv'
PROOF
  <1>1. /\ call' \in [Clients -> Call]
        /\ call'[p] = c
        /\ \A q \in Clients \ {p} : call'[q] = call[q]
        /\ current' \subseteq Clients
        /\ current' \ {p} \subseteq current
        /\ p \in current' => fresh /\ c # Idle
    BY BecomeOnly DEF Inv
  <1>2. RoomsTypeOK'
    BY <1>1 DEF Inv, RoomsTypeOK
  <1>3. CallsHold'
    BY <1>1 DEF Inv, CallsHold, CallHolds
  <1>4. Fresh'
    BY <1>1 DEF Inv, Fresh, CallFresh, ActiveRooms
  <1>5. CachedExist'
    BY DEF Inv, CachedExist, Cached
  <1>6. StaleOnlyIfTainted'
    <2>1. \A q \in Clients : ToForget(q) \subseteq ToForget(q)'
      BY <1>1 DEF ToForget
    <2> QED
      BY <2>1 DEF Inv, StaleOnlyIfTainted, RoomStale, ListStale, Cached, ActiveRooms
  <1> QED BY <1>2, <1>3, <1>4, <1>5, <1>6 DEF Inv

LEMMA AdvanceKeeps ==
  ASSUME Inv, NEW p \in Clients, NEW c \in Call, Advance(p, c), CallHolds(c),
         p \in current => CallFresh(c),
         call[p].pc \notin {"forget", "forgetDates", "forgetList"},
         UNCHANGED <<cache, rooms, tainted, since>>
  PROVE  Inv'
PROOF
  <1>1. CASE p \in current
    <2>1. Become(p, c, TRUE)
      BY <1>1 DEF Advance, Become
    <2> QED BY <1>1, <2>1, QuietKeeps
  <1>2. CASE p \notin current
    <2>1. Become(p, c, FALSE)
      BY <1>2 DEF Advance, Become
    <2> QED BY <2>1, QuietKeeps
  <1> QED BY <1>1, <1>2

\* The call c after findOne has got room, from the table or the cache.
LEMMA ReturnedHolds ==
  ASSUME NEW c \in Call, NEW room \in Room, c.id \in RoomIds, rooms[c.id] \in Room,
         c.op \in {"read", "update", "availability"},
         c.op = "availability" => c.date \in Dates
  PROVE  /\ Returned(c, room) \in Call
         /\ CallHolds(Returned(c, room))
         /\ room = rooms[c.id] => CallFresh(Returned(c, room))
PROOF
  <1>1. CASE c.op = "read"
    BY <1>1, IdleHolds DEF Returned
  <1>2. CASE c.op = "availability"
    <2>1. Returned(c, room) = [c EXCEPT !.pc = "store", !.mem = room]
      BY <1>2 DEF Returned
    <2> QED BY <1>2, <2>1 DEF Call, CallHolds, CallFresh
  <1>3. CASE c.op = "update"
    <2>1. Returned(c, room) =
            [c EXCEPT !.pc = IF c.patch.number \in {Same, room.number} THEN "load"
                             ELSE "check",
                      !.mem = Patched(room, c.patch)]
      BY <1>3 DEF Returned
    <2>2. c.patch \in Patch /\ Patched(room, c.patch) \in Room
      BY PatchedType DEF Call
    <2>3. c.patch.number \in Numbers \cup {Same}
      BY <2>2 DEF Patch
    <2> DEFINE new == Patched(room, c.patch)
    <2>4. Returned(c, room).mem = new /\ Returned(c, room).id = c.id
          /\ Returned(c, room).op = "update" /\ Returned(c, room).patch = c.patch
          /\ Returned(c, room).pc \in {"load", "check"}
          /\ (Returned(c, room).pc = "check" => c.patch.number # Same)
      BY <1>3, <2>1 DEF Call
    <2>5. Returned(c, room) \in Call
      BY <2>1, <2>2 DEF Call
    <2> QED BY <2>2, <2>3, <2>4, <2>5 DEF CallHolds, CallFresh
  <1> QED BY <1>1, <1>2, <1>3

LEMMA FindKeeps ==
  ASSUME Inv, NEW p \in Clients, NEW c \in Call, Find(p, c), c.id \in RoomIds,
         c.op \in {"read", "update", "availability"},
         c.op = "availability" => c.date \in Dates,
         call[p].pc \in {"idle", "find"}
  PROVE  Inv'
PROOF
  <1>1. CASE Cached(RoomKey(c.id))
    <2> DEFINE room == cache[RoomKey(c.id)].val
    <2>1. room \in Room /\ rooms[c.id] \in Room
      BY <1>1 DEF Inv, RoomsTypeOK, CachedExist, Cached, Entry
    <2>2. Become(p, Returned(c, room), room = rooms[c.id])
      BY <1>1 DEF Find
    <2> HIDE DEF room
    <2>3. Returned(c, room) \in Call /\ CallHolds(Returned(c, room))
          /\ (room = rooms[c.id] => CallFresh(Returned(c, room)))
      BY <2>1, ReturnedHolds
    <2> QED BY <2>2, <2>3, QuietKeeps DEF Find
  <1>2. CASE ~Cached(RoomKey(c.id))
    <2> DEFINE d == [c EXCEPT !.pc = "select"]
    <2>1. d \in Call /\ CallHolds(d)
      BY DEF Call, CallHolds
    <2>2. Become(p, d, FALSE)
      BY <1>2 DEF Find
    <2> HIDE DEF d
    <2> QED BY <2>1, <2>2, QuietKeeps DEF Find
  <1> QED BY <1>1, <1>2

-----------------------------------------------------------------------------
LEMMA BeginKeeps ==
  ASSUME Inv, NEW p \in Clients, Begin(p)
  PROVE  Inv'
PROOF
  <1>1. ASSUME NEW i \in RoomIds, ReadBegin(p, i)
        PROVE  Inv'
    <2> DEFINE c == [Idle EXCEPT !.op = "read", !.id = i]
    <2>1. c \in Call /\ c.id = i /\ c.op = "read"
      BY IdleHolds DEF Call, Idle
    <2>2. Find(p, c) /\ call[p].pc = "idle"
      BY <1>1 DEF ReadBegin, Free
    <2> HIDE DEF c
    <2> QED BY <2>1, <2>2, FindKeeps
  <1>2. ASSUME NEW i \in RoomIds, NEW patch \in Updates \cup {Removal},
               UpdateBegin(p, i, patch)
        PROVE  Inv'
    <2> DEFINE c == [Idle EXCEPT !.op = "update", !.id = i, !.patch = patch]
    <2>1. c \in Call /\ c.id = i /\ c.op = "update"
      BY IdleHolds, UpdatesArePatches DEF Call, Idle
    <2>2. Find(p, c) /\ call[p].pc = "idle"
      BY <1>2 DEF UpdateBegin, Free
    <2> HIDE DEF c
    <2> QED BY <2>1, <2>2, FindKeeps
  <1>3. ASSUME NEW i \in RoomIds, NEW d \in Dates, AvailabilityBegin(p, i, d)
        PROVE  Inv'
    <2> DEFINE c == [Idle EXCEPT !.pc = "find", !.op = "availability", !.id = i, !.date = d]
    <2>1. c \in Call /\ CallHolds(c)
      BY IdleHolds DEF Call, Idle, CallHolds
    <2>2. Become(p, c, FALSE) /\ call[p].pc = "idle"
      BY <1>3 DEF AvailabilityBegin, Free
    <2> HIDE DEF c
    <2> QED BY <1>3, <2>1, <2>2, QuietKeeps DEF AvailabilityBegin
  <1>4. ASSUME NEW n \in Numbers, NEW h \in HoursValues, CreateBegin(p, n, h)
        PROVE  Inv'
    <2> DEFINE c == [Idle EXCEPT !.pc = "insert", !.op = "create",
                                 !.mem = [number |-> n, hours |-> h, isActive |-> TRUE]]
    <2>1. c \in Call /\ CallHolds(c)
      BY IdleHolds, ZenonT(40) DEF Call, Idle, CallHolds, Room
    <2>2. Become(p, c, FALSE) /\ call[p].pc = "idle"
      BY <1>4 DEF CreateBegin, Free
    <2> HIDE DEF c
    <2> QED BY <1>4, <2>1, <2>2, QuietKeeps DEF CreateBegin
  <1>5. ASSUME ListBegin(p)
        PROVE  Inv'
    <2> DEFINE c == [Idle EXCEPT !.pc = "selectList", !.op = "list"]
    <2>1. c \in Call /\ CallHolds(c)
      BY IdleHolds DEF Call, Idle, CallHolds
    <2>2. Become(p, c, FALSE) /\ call[p].pc = "idle"
      BY <1>5 DEF ListBegin, Free
    <2> HIDE DEF c
    <2> QED BY <1>5, <2>1, <2>2, QuietKeeps DEF ListBegin
  <1> QED BY <1>1, <1>2, <1>3, <1>4, <1>5 DEF Begin

(* The steps of a call that only read.                                      *)
LEMMA FinishKeeps ==
  ASSUME Inv, NEW p \in Clients, Finish(p),
         call[p].pc \notin {"forget", "forgetDates", "forgetList"},
         UNCHANGED <<cache, rooms, tainted, since>>
  PROVE  Inv'
BY IdleHolds, QuietKeeps DEF Finish

LEMMA FindSelectKeeps ==
  ASSUME Inv, NEW p \in Clients, FindSelect(p)
  PROVE  Inv'
PROOF
  <1> DEFINE room == rooms[call[p].id]
             c == [call[p] EXCEPT !.pc = "fill", !.mem = room]
  <1>1. CASE room = NoRoom
    BY <1>1, FinishKeeps DEF FindSelect
  <1>2. CASE room # NoRoom
    <2>1. call[p] \in Call /\ call[p].pc = "select" /\ call[p].id \in RoomIds
          /\ call[p].op \in {"read", "update", "availability"} /\ room \in Room
          /\ (call[p].op = "availability" => call[p].date \in Dates)
      BY <1>2 DEF Inv, RoomsTypeOK, CallsHold, CallHolds, FindSelect
    <2>2. c \in Call /\ CallHolds(c) /\ CallFresh(c)
      BY <2>1 DEF Call, CallHolds, CallFresh
    <2>3. Become(p, c, TRUE)
      BY <1>2 DEF FindSelect
    <2> HIDE DEF c, room
    <2> QED BY <2>1, <2>2, <2>3, QuietKeeps DEF FindSelect
  <1> QED BY <1>1, <1>2

LEMMA CheckNumberKeeps ==
  ASSUME Inv, NEW p \in Clients, CheckNumber(p)
  PROVE  Inv'
PROOF
  <1> DEFINE c == [call[p] EXCEPT !.pc = "load"]
  <1>1. CASE NumberTaken(call[p].patch.number, NoId)
    BY <1>1, FinishKeeps DEF CheckNumber
  <1>2. CASE ~NumberTaken(call[p].patch.number, NoId)
    <2>1. call[p] \in Call /\ call[p].pc = "check" /\ CallHolds(call[p])
          /\ (p \in current => CallFresh(call[p]))
      BY DEF Inv, RoomsTypeOK, CallsHold, Fresh, CheckNumber
    <2>2. c \in Call /\ CallHolds(c) /\ (p \in current => CallFresh(c))
      BY <2>1 DEF Call, CallHolds, CallFresh
    <2>3. Advance(p, c)
      BY <1>2 DEF CheckNumber
    <2> HIDE DEF c
    <2> QED BY <2>1, <2>2, <2>3, AdvanceKeeps DEF CheckNumber
  <1> QED BY <1>1, <1>2

LEMMA SaveLoadKeeps ==
  ASSUME Inv, NEW p \in Clients, SaveLoad(p)
  PROVE  Inv'
PROOF
  <1> DEFINE c == [call[p] EXCEPT !.pc = "write", !.seen = rooms[call[p].id]]
  <1>1. call[p] \in Call /\ call[p].pc = "load" /\ CallHolds(call[p])
        /\ (p \in current => CallFresh(call[p]))
    BY DEF Inv, RoomsTypeOK, CallsHold, Fresh, SaveLoad
  <1>2. c \in Call /\ CallHolds(c) /\ (p \in current => CallFresh(c))
    BY <1>1 DEF Call, CallHolds, CallFresh
  <1>3. Advance(p, c)
    BY DEF SaveLoad
  <1> HIDE DEF c
  <1> QED BY <1>1, <1>2, <1>3, AdvanceKeeps DEF SaveLoad

LEMMA ListSelectKeeps ==
  ASSUME Inv, NEW p \in Clients, ListSelect(p)
  PROVE  Inv'
PROOF
  <1> DEFINE c == [call[p] EXCEPT !.pc = "fillList", !.listing = ActiveRooms]
  <1>1. call[p] \in Call /\ call[p].pc = "selectList" /\ CallHolds(call[p])
    BY DEF Inv, RoomsTypeOK, CallsHold, ListSelect
  <1>2. ActiveRooms \in Listing
    BY ActiveType DEF Inv
  <1>3. c \in Call /\ CallHolds(c) /\ CallFresh(c)
    BY <1>1, <1>2 DEF Call, CallHolds, CallFresh
  <1>4. Become(p, c, TRUE)
    BY DEF ListSelect
  <1> HIDE DEF c
  <1> QED BY <1>1, <1>3, <1>4, QuietKeeps DEF ListSelect

-----------------------------------------------------------------------------
(* A value is stored under k by p, which goes on as c and is fresh if k is  *)
(* not tainted by it.                                                       *)
LEMMA FillKeeps ==
  ASSUME Inv, NEW p \in Clients, NEW c \in Call, NEW k \in Keys, NEW v, NEW ttl \in Nat \ {0},
         Fill(p, k, v, ttl), Advance(p, c), CallHolds(c), p \in current => CallFresh(c),
         call[p].pc \notin {"forget", "forgetDates", "forgetList"},
         \/ \E i \in RoomIds : /\ k = RoomKey(i) /\ v \in Room /\ rooms[i] \in Room
                               /\ p \in current => v = rooms[i]
         \/ k = ListKey /\ v \in Listing /\ (p \in current => v = ActiveRooms),
         UNCHANGED <<rooms, since>>
  PROVE  Inv'
PROOF
  <1>1. /\ call' \in [Clients -> Call]
        /\ call'[p] = c
        /\ \A q \in Clients \ {p} : call'[q] = call[q]
        /\ current' \subseteq current
    BY DEF Advance, Become, Inv, RoomsTypeOK
  <1>2. /\ DOMAIN cache' = Keys
        /\ cache'[k] = [val |-> v, left |-> ttl]
        /\ \A j \in Keys \ {k} : cache'[j] = cache[j]
    BY PutOnly DEF Fill, Inv, RoomsTypeOK
  <1>3. /\ tainted' = IF p \in current THEN tainted \ {k} ELSE tainted \cup {k}
        /\ tainted' \subseteq Keys
        /\ \A j \in Keys \ {k} : j \in tainted => j \in tainted'
    BY DEF Fill, Inv, RoomsTypeOK
  <1>4. \A i \in RoomIds : k = RoomKey(i) =>
          v \in Room /\ rooms[i] \in Room /\ (p \in current => v = rooms[i])
    BY KeysApart
  <1>5. k = ListKey => v \in Listing /\ (p \in current => v = ActiveRooms)
    BY KeysApart
  <1>6. \A i \in RoomIds, d \in Dates : k # DatedKey(i, d)
    BY KeysApart
  <1>7. RoomsTypeOK'
    <2>1. \A i \in RoomIds : cache'[RoomKey(i)] \in Entry(Room) \cup {NoEntry}
      BY <1>2, <1>4, KeysAre DEF Entry, Inv, RoomsTypeOK
    <2>2. \A i \in RoomIds, d \in Dates :
            cache'[DatedKey(i, d)] \in Entry(HoursValues) \cup {NoEntry}
      BY <1>2, <1>6, KeysAre DEF Inv, RoomsTypeOK
    <2>3. cache'[ListKey] \in Entry(Listing) \cup {NoEntry}
      BY <1>2, <1>5, KeysAre DEF Entry, Inv, RoomsTypeOK
    <2> QED BY <1>1, <1>2, <1>3, <2>1, <2>2, <2>3 DEF Inv, RoomsTypeOK
  <1>8. CallsHold'
    BY <1>1 DEF Inv, CallsHold, CallHolds
  <1>9. Fresh'
    <2> SUFFICES ASSUME NEW q \in current' PROVE CallFresh(call[q])'
      BY DEF Fresh
    <2>1. q \in Clients /\ q \in current
      BY <1>1 DEF Inv, RoomsTypeOK
    <2>2. CallFresh(call'[q])
      BY <1>1, <2>1 DEF Inv, Fresh
    <2> QED BY <2>2 DEF CallFresh, ActiveRooms
  <1>10. CachedExist'
    BY <1>2, <1>4, KeysAre DEF Inv, CachedExist, Cached
  <1>11. StaleOnlyIfTainted'
    <2>1. \A q \in Clients : ToForget(q) \subseteq ToForget(q)'
      BY <1>1 DEF ToForget
    <2>2. ASSUME NEW i \in RoomIds, RoomStale(i)'
          PROVE  RoomKey(i) \in tainted' \/ \E q \in Clients : RoomKey(i) \in ToForget(q)'
      <3>1. CASE k = RoomKey(i)
        BY <1>2, <1>3, <1>4, <2>2, <3>1 DEF RoomStale
      <3>2. CASE k # RoomKey(i)
        <4>1. RoomStale(i)
          BY <1>2, <2>2, <3>2, KeysAre DEF RoomStale, Cached
        <4> QED BY <1>3, <2>1, <3>2, <4>1, KeysAre DEF Inv, StaleOnlyIfTainted
      <3> QED BY <3>1, <3>2
    <2>3. ASSUME ListStale'
          PROVE  ListKey \in tainted' \/ \E q \in Clients : ListKey \in ToForget(q)'
      <3>1. CASE k = ListKey
        BY <1>2, <1>3, <1>5, <2>3, <3>1 DEF ListStale, ActiveRooms
      <3>2. CASE k # ListKey
        <4>1. ListStale
          BY <1>2, <2>3, <3>2, KeysAre DEF ListStale, Cached, ActiveRooms
        <4> QED BY <1>3, <2>1, <3>2, <4>1, KeysAre DEF Inv, StaleOnlyIfTainted
      <3> QED BY <3>1, <3>2
    <2> QED BY <2>2, <2>3 DEF StaleOnlyIfTainted
  <1> QED BY <1>7, <1>8, <1>9, <1>10, <1>11 DEF Inv

LEMMA FindFillKeeps ==
  ASSUME Inv, NEW p \in Clients, FindFill(p)
  PROVE  Inv'
PROOF
  <1> DEFINE c == call[p]
             room == call[p].mem
  <1>1. c \in Call /\ c.id \in RoomIds /\ room \in Room /\ rooms[c.id] \in Room
        /\ c.op \in {"read", "update", "availability"}
        /\ (c.op = "availability" => c.date \in Dates)
        /\ call[p].pc \notin {"forget", "forgetDates", "forgetList"}
    BY DEF Inv, RoomsTypeOK, CallsHold, CallHolds, FindFill
  <1>2. p \in current => room = rooms[c.id]
    BY DEF Inv, Fresh, CallFresh, FindFill
  <1>3. Returned(c, room) \in Call /\ CallHolds(Returned(c, room))
        /\ (p \in current => CallFresh(Returned(c, room)))
    BY <1>1, <1>2, ReturnedHolds
  <1>4. Fill(p, RoomKey(c.id), room, LongTTL) /\ Advance(p, Returned(c, room))
        /\ UNCHANGED <<rooms, since>>
    BY DEF FindFill
  <1>5. RoomKey(c.id) \in Keys /\ LongTTL \in Nat \ {0}
    BY <1>1, KeysAre, CacheAssumption
  <1> HIDE DEF room
  <1> QED BY <1>1, <1>2, <1>3, <1>4, <1>5, FillKeeps

LEMMA ListFillKeeps ==
  ASSUME Inv, NEW p \in Clients, ListFill(p)
  PROVE  Inv'
PROOF
  <1>1. call[p].listing \in Listing /\ (p \in current => call[p].listing = ActiveRooms)
        /\ call[p].pc \notin {"forget", "forgetDates", "forgetList"}
    BY DEF Inv, RoomsTypeOK, Fresh, CallFresh, ListFill, Call
  <1>2. Advance(p, Idle)
    BY DEF ListFill, Finish, Advance, Become
  <1>3. ListKey \in Keys /\ MediumTTL \in Nat \ {0}
    BY KeysAre, CacheAssumption
  <1>4. Fill(p, ListKey, call[p].listing, MediumTTL) /\ UNCHANGED <<rooms, since>>
    BY DEF ListFill
  <1> QED BY <1>1, <1>2, <1>3, <1>4, IdleHolds, FillKeeps

LEMMA AvailabilityStoreKeeps ==
  ASSUME Inv, NEW p \in Clients, AvailabilityStore(p)
  PROVE  Inv'
PROOF
  <1> DEFINE i == call[p].id
             d == call[p].date
             v == call[p].mem.hours
  <1>1. i \in RoomIds /\ d \in Dates /\ v \in HoursValues
    BY DEF Inv, RoomsTypeOK, CallsHold, CallHolds, AvailabilityStore, Room
  <1>2. ShortTTL \in Nat \ {0} /\ DatedKey(i, d) \in Keys
    BY <1>1, KeysAre, CacheAssumption
  <1>3. Put(DatedKey(i, d), v, ShortTTL) /\ Finish(p) /\ UNCHANGED <<rooms, tainted, since>>
    BY DEF AvailabilityStore
  <1>4. /\ call' \in [Clients -> Call]
        /\ call'[p] = Idle
        /\ \A q \in Clients \ {p} : call'[q] = call[q]
        /\ current' \subseteq current \ {p}
    BY <1>3, IdleHolds DEF Finish, Become, Inv, RoomsTypeOK
  <1> HIDE DEF i, d, v
  <1>5. /\ DOMAIN cache' = Keys
        /\ cache'[DatedKey(i, d)] = [val |-> v, left |-> ShortTTL]
        /\ \A j \in Keys \ {DatedKey(i, d)} : cache'[j] = cache[j]
    BY <1>2, <1>3, PutOnly DEF Inv, RoomsTypeOK
  <1>6. /\ \A j \in RoomIds : cache'[RoomKey(j)] = cache[RoomKey(j)]
        /\ cache'[ListKey] = cache[ListKey]
    BY <1>1, <1>5, KeysApart, KeysAre
  <1>7. \A j \in RoomIds, e \in Dates :
          cache'[DatedKey(j, e)] \in Entry(HoursValues) \cup {NoEntry}
    BY <1>1, <1>2, <1>5, KeysAre DEF Entry, Inv, RoomsTypeOK
  <1>8. RoomsTypeOK'
    BY <1>3, <1>4, <1>5, <1>6, <1>7 DEF Inv, RoomsTypeOK
  <1>9. CallsHold'
    BY <1>3, <1>4, IdleHolds DEF Inv, CallsHold, CallHolds
  <1>10. Fresh'
    <2> SUFFICES ASSUME NEW q \in current' PROVE CallFresh(call[q])'
      BY DEF Fresh
    <2>1. CallFresh(call'[q])
      BY <1>4 DEF Inv, RoomsTypeOK, Fresh
    <2> QED BY <1>3, <2>1 DEF CallFresh, ActiveRooms
  <1>11. CachedExist'
    BY <1>3, <1>6 DEF Inv, CachedExist, Cached
  <1>12. StaleOnlyIfTainted'
    <2>1. \A q \in Clients : ToForget(q) \subseteq ToForget(q)'
      BY <1>4 DEF ToForget, AvailabilityStore
    <2> QED
      BY <1>3, <1>6, <2>1
      DEF Inv, StaleOnlyIfTainted, RoomStale, ListStale, Cached, ActiveRooms
  <1> QED BY <1>8, <1>9, <1>10, <1>11, <1>12 DEF Inv

-----------------------------------------------------------------------------
(* Deleting an entry: p goes on as c, which has everything but k to forget. *)
LEMMA ForgetKeeps ==
  ASSUME Inv, NEW p \in Clients, NEW c \in Call, NEW k \in Keys,
         Forget(p, k), Advance(p, c), CallHolds(c), CallFresh(c),
         ToForget(p) \ {k} \subseteq ToForget(p)',
         UNCHANGED <<rooms, since>>
  PROVE  Inv'
PROOF
  <1>1. /\ call' \in [Clients -> Call]
        /\ call'[p] = c
        /\ \A q \in Clients \ {p} : call'[q] = call[q]
        /\ current' \subseteq current
    BY DEF Advance, Become, Inv, RoomsTypeOK
  <1>2. /\ DOMAIN cache' = Keys
        /\ cache'[k] = NoEntry
        /\ \A j \in Keys \ {k} : cache'[j] = cache[j]
    BY DelOnly DEF Forget, Inv, RoomsTypeOK
  <1>3. tainted' = tainted \ {k}
    BY DEF Forget
  <1>4. RoomsTypeOK'
    BY <1>1, <1>2, <1>3, KeysAre DEF Inv, RoomsTypeOK
  <1>5. CallsHold'
    BY <1>1 DEF Inv, CallsHold, CallHolds
  <1>6. Fresh'
    <2> SUFFICES ASSUME NEW q \in current' PROVE CallFresh(call[q])'
      BY DEF Fresh
    <2>1. CallFresh(call'[q])
      BY <1>1 DEF Inv, RoomsTypeOK, Fresh
    <2> QED BY <2>1 DEF CallFresh, ActiveRooms
  <1>7. CachedExist'
    BY <1>2, KeysAre DEF Inv, CachedExist, Cached
  <1>8. StaleOnlyIfTainted'
    <2>1. \A q \in Clients : ToForget(q) \ {k} \subseteq ToForget(q)'
      BY <1>1 DEF ToForget
    <2>2. ASSUME NEW i \in RoomIds, RoomStale(i)'
          PROVE  RoomKey(i) # k /\ RoomStale(i)
      BY <1>2, <2>2, KeysAre DEF RoomStale, Cached
    <2>3. ASSUME ListStale'
          PROVE  ListKey # k /\ ListStale
      BY <1>2, <2>3, KeysAre DEF ListStale, Cached, ActiveRooms
    <2> QED BY <1>3, <2>1, <2>2, <2>3 DEF Inv, StaleOnlyIfTainted
  <1> QED BY <1>4, <1>5, <1>6, <1>7, <1>8 DEF Inv

LEMMA ForgetRoomKeeps ==
  ASSUME Inv, NEW p \in Clients, ForgetRoom(p)
  PROVE  Inv'
PROOF
  <1> DEFINE c == [call[p] EXCEPT !.pc = "forgetDates"]
  <1>1. call[p] \in Call /\ call[p].id \in RoomIds /\ CallHolds(call[p])
        /\ call[p].pc = "forget"
    BY DEF Inv, RoomsTypeOK, CallsHold, CallHolds, ForgetRoom
  <1>2. c \in Call /\ CallHolds(c) /\ CallFresh(c) /\ c.pc = "forgetDates"
    BY <1>1 DEF Call, CallHolds, CallFresh
  <1>3. Advance(p, c) /\ Forget(p, RoomKey(call[p].id)) /\ UNCHANGED <<rooms, since>>
    BY DEF ForgetRoom
  <1> HIDE DEF c
  <1>4. call'[p] = c
    BY <1>3 DEF Advance, Become, Inv, RoomsTypeOK
  <1>5. ToForget(p) \ {RoomKey(call[p].id)} \subseteq ToForget(p)'
    BY <1>1, <1>2, <1>4 DEF ToForget, ListKey
  <1> QED BY <1>1, <1>2, <1>3, <1>5, KeysAre, ForgetKeeps

LEMMA ForgetDatesKeeps ==
  ASSUME Inv, NEW p \in Clients, ForgetDates(p)
  PROVE  Inv'
PROOF
  <1> DEFINE c == [call[p] EXCEPT !.pc = "forgetList"]
  <1>1. call[p] \in Call /\ call[p].id \in RoomIds /\ CallHolds(call[p])
        /\ call[p].pc = "forgetDates"
    BY DEF Inv, RoomsTypeOK, CallsHold, CallHolds, ForgetDates
  <1>2. c \in Call /\ CallHolds(c) /\ CallFresh(c) /\ c.pc = "forgetList"
    BY <1>1 DEF Call, CallHolds, CallFresh
  <1>3. Advance(p, c) /\ Forget(p, AvailabilityKey(call[p].id)) /\ UNCHANGED <<rooms, since>>
    BY DEF ForgetDates
  <1> HIDE DEF c
  <1>4. call'[p] = c
    BY <1>3 DEF Advance, Become, Inv, RoomsTypeOK
  <1>5. ToForget(p) \ {AvailabilityKey(call[p].id)} \subseteq ToForget(p)'
    BY <1>1, <1>2, <1>4 DEF ToForget, ListKey
  <1> QED BY <1>1, <1>2, <1>3, <1>5, KeysAre, ForgetKeeps

LEMMA ForgetListKeeps ==
  ASSUME Inv, NEW p \in Clients, ForgetList(p)
  PROVE  Inv'
PROOF
  <1>1. Advance(p, Idle) /\ Forget(p, ListKey) /\ UNCHANGED <<rooms, since>>
    BY DEF ForgetList, Finish, Advance, Become
  <1>2. ToForget(p) \ {ListKey} \subseteq ToForget(p)'
    BY DEF ForgetList, ToForget, ListKey
  <1> QED BY <1>1, <1>2, KeysAre, IdleHolds, ForgetKeeps

-----------------------------------------------------------------------------
(* p's statement makes room i what it is: whoever held data of the room is  *)
(* current no more, and p is to forget what the cache says of it.           *)
LEMMA WriteKeeps ==
  ASSUME Inv, NEW p \in Clients, NEW i \in RoomIds, NEW room \in Room,
         NEW pc \in {"forget", "forgetList"},
         WriteRoom(p, i, room, pc), pc = "forgetList" => rooms[i] = NoRoom,
         call[p].pc \in {"write", "insert"},
         UNCHANGED <<cache, tainted>>
  PROVE  Inv'
PROOF
  <1> DEFINE c == [Idle EXCEPT !.pc = pc, !.op = call[p].op, !.id = i]
  <1>1. call[p] \in Call /\ c \in Call /\ CallHolds(c) /\ CallFresh(c) /\ c.pc = pc /\ c.id = i
    <2>1. call[p] \in Call
      BY DEF Inv, RoomsTypeOK
    <2>2. c \in Call /\ c.pc = pc /\ c.id = i /\ c.op = call[p].op
      BY <2>1, IdleHolds DEF Call, Idle
    <2>3. call[p].op # "availability"
      BY DEF Inv, CallsHold, CallHolds
    <2> QED BY <2>1, <2>2, <2>3 DEF CallHolds, CallFresh
  <1>2. call' = [call EXCEPT ![p] = c]
    BY DEF WriteRoom
  <1> HIDE DEF c
  <1>3. /\ call' \in [Clients -> Call]
        /\ call'[p] = c
        /\ \A q \in Clients \ {p} : call'[q] = call[q]
    BY <1>1, <1>2 DEF Inv, RoomsTypeOK
  <1>4. /\ rooms' \in [RoomIds -> Room \cup {NoRoom}]
        /\ rooms'[i] = room
        /\ \A j \in RoomIds \ {i} : rooms'[j] = rooms[j]
        /\ \A j \in RoomIds : rooms[j] \in Room => rooms'[j] \in Room
    BY DEF WriteRoom, Inv, RoomsTypeOK
  <1>5. current' \subseteq current \ {p} /\ since' \in [RoomIds -> 0 .. Forever]
    BY CacheAssumption DEF WriteRoom, Inv, RoomsTypeOK, Forever
  <1>6. RoomsTypeOK'
    BY <1>3, <1>4, <1>5 DEF Inv, RoomsTypeOK
  <1>7. CallsHold'
    <2> SUFFICES ASSUME NEW q \in Clients PROVE CallHolds(call[q])'
      BY DEF CallsHold
    <2>1. CallHolds(call'[q])
      BY <1>1, <1>3 DEF Inv, CallsHold
    <2>2. call'[q] \in Call
      BY <1>3
    <2> QED BY <1>4, <2>1, <2>2 DEF CallHolds
  <1>8. Fresh'
    <2> SUFFICES ASSUME NEW q \in current' PROVE CallFresh(call[q])'
      BY DEF Fresh
    <2>1. q \in Clients \ {p} /\ CallFresh(call[q]) /\ call'[q] = call[q] /\ CallHolds(call[q])
      BY <1>3, <1>5 DEF Inv, RoomsTypeOK, Fresh, CallsHold
    <2>2. CASE room = rooms[i]
      <3>1. rooms' = rooms
        BY <2>2 DEF WriteRoom, Inv, RoomsTypeOK
      <3> QED BY <2>1, <3>1 DEF CallFresh, ActiveRooms
    <2>3. CASE room # rooms[i]
      <3>1. call[q].id # i /\ call[q].op # "list"
        BY <2>1, <2>3 DEF WriteRoom, Holders
      <3> QED BY <1>4, <2>1, <3>1 DEF CallFresh, CallHolds
    <2> QED BY <2>2, <2>3
  <1>9. CachedExist'
    BY <1>4 DEF Inv, CachedExist, Cached
  <1>10. StaleOnlyIfTainted'
    <2>1. \A q \in Clients : ToForget(q) \subseteq ToForget(q)'
      BY <1>3 DEF ToForget
    <2>2. ListKey \in ToForget(p)'
      BY <1>1, <1>3 DEF ToForget
    <2>3. ASSUME NEW j \in RoomIds, RoomStale(j)'
          PROVE  RoomKey(j) \in tainted' \/ \E q \in Clients : RoomKey(j) \in ToForget(q)'
      <3>1. CASE j # i
        <4>1. RoomStale(j)
          BY <1>4, <2>3, <3>1 DEF RoomStale, Cached
        <4> QED BY <2>1, <4>1 DEF Inv, StaleOnlyIfTainted
      <3>2. CASE j = i /\ pc = "forget"
        <4>1. RoomKey(j) \in ToForget(p)'
          BY <1>1, <1>3, <3>2 DEF ToForget, RoomKey
        <4> QED BY <4>1
      <3>3. CASE j = i /\ pc = "forgetList"
        <4>1. rooms[j] \notin Room
          BY <3>3, NullAssumption
        <4> QED BY <2>3, <4>1 DEF Inv, CachedExist, RoomStale, Cached
      <3> QED BY <3>1, <3>2, <3>3
    <2> QED BY <2>2, <2>3 DEF StaleOnlyIfTainted
  <1> QED BY <1>6, <1>7, <1>8, <1>9, <1>10 DEF Inv

LEMMA SaveWriteKeeps ==
  ASSUME Inv, NEW p \in Clients, SaveWrite(p)
  PROVE  Inv'
PROOF
  <1> DEFINE i == call[p].id
             room == MergeRoom(rooms[i], call[p].mem, call[p].seen)
  <1>1. call[p].pc = "write" /\ i \in RoomIds /\ room \in Room
    BY MergeType DEF Inv, CallsHold, CallHolds, SaveWrite
  <1>2. CASE NumberTaken(room.number, i)
    BY <1>1, <1>2, FinishKeeps DEF SaveWrite
  <1>3. CASE ~NumberTaken(room.number, i)
    <2>1. WriteRoom(p, i, room, "forget") /\ UNCHANGED <<cache, tainted>>
      BY <1>3 DEF SaveWrite
    <2> HIDE DEF i, room
    <2> QED BY <1>1, <2>1, WriteKeeps
  <1> QED BY <1>2, <1>3

LEMMA CreateInsertKeeps ==
  ASSUME Inv, NEW p \in Clients, NEW i \in RoomIds, CreateInsert(p, i)
  PROVE  Inv'
PROOF
  <1>1. call[p].pc = "insert" /\ call[p].mem \in Room
    BY DEF Inv, CallsHold, CallHolds, CreateInsert
  <1> QED BY <1>1, WriteKeeps DEF CreateInsert

-----------------------------------------------------------------------------
\* A lost call leaves behind what it was to forget.
LEMMA AbortKeeps ==
  ASSUME Inv, NEW p \in Clients, Abort(p)
  PROVE  Inv'
PROOF
  <1>1. /\ call' \in [Clients -> Call]
        /\ call'[p] = Idle
        /\ \A q \in Clients \ {p} : call'[q] = call[q]
        /\ current' \subseteq current \ {p}
    BY IdleHolds DEF Abort, Finish, Become, Inv, RoomsTypeOK
  <1>2. \A q \in Clients : ToForget(q) \subseteq Keys
    BY KeysAre DEF ToForget, Inv, CallsHold, CallHolds
  <1>3. tainted' = tainted \cup {k \in ToForget(p) : Cached(k)} /\ UNCHANGED <<cache, rooms, since>>
    BY DEF Abort
  <1>4. RoomsTypeOK'
    BY <1>1, <1>2, <1>3 DEF Inv, RoomsTypeOK
  <1>5. CallsHold'
    BY <1>1, <1>3, IdleHolds DEF Inv, CallsHold, CallHolds
  <1>6. Fresh'
    <2> SUFFICES ASSUME NEW q \in current' PROVE CallFresh(call[q])'
      BY DEF Fresh
    <2>1. CallFresh(call'[q])
      BY <1>1 DEF Inv, RoomsTypeOK, Fresh
    <2> QED BY <1>3, <2>1 DEF CallFresh, ActiveRooms
  <1>7. CachedExist'
    BY <1>3 DEF Inv, CachedExist, Cached
  <1>8. StaleOnlyIfTainted'
    <2>1. \A q \in Clients \ {p} : ToForget(q) = ToForget(q)'
      BY <1>1 DEF ToForget
    <2>2. \A k : Cached(k) /\ k \in ToForget(p) => k \in tainted'
      BY <1>3
    <2>3. \A i \in RoomIds : RoomStale(i)' => RoomStale(i) /\ Cached(RoomKey(i))
      BY <1>3 DEF RoomStale, Cached
    <2>4. ListStale' => ListStale /\ Cached(ListKey)
      BY <1>3 DEF ListStale, Cached, ActiveRooms
    <2> QED BY <1>3, <2>1, <2>2, <2>3, <2>4 DEF Inv, StaleOnlyIfTainted
  <1> QED BY <1>4, <1>5, <1>6, <1>7, <1>8 DEF Inv

LEMMA OlderType ==
  ASSUME NEW V, NEW e \in Entry(V) \cup {NoEntry}
  PROVE  /\ Older(e) \in Entry(V) \cup {NoEntry}
         /\ Older(e) # NoEntry =>
              e # NoEntry /\ Older(e).val = e.val /\ Older(e).left = e.left - 1
BY DEF Older, Entry

LEMMA TimeKeeps ==
  ASSUME Inv, Time
  PROVE  Inv'
PROOF
  <1>1. UNCHANGED <<rooms, call, current>> /\ tainted' = {k \in tainted : cache'[k] # NoEntry}
        /\ DOMAIN cache' = Keys /\ \A k \in Keys : cache'[k] = Older(cache[k])
    BY DEF Time, Age, Inv, RoomsTypeOK
  <1>2. since' \in [RoomIds -> 0 .. Forever]
    BY CacheAssumption DEF Time, Inv, RoomsTypeOK, Forever
  <1>3. \A i \in RoomIds :
          /\ cache'[RoomKey(i)] \in Entry(Room) \cup {NoEntry}
          /\ cache'[RoomKey(i)] # NoEntry =>
               cache[RoomKey(i)] # NoEntry /\ cache'[RoomKey(i)].val = cache[RoomKey(i)].val
    BY <1>1, KeysAre, OlderType DEF Inv, RoomsTypeOK
  <1>4. /\ cache'[ListKey] \in Entry(Listing) \cup {NoEntry}
        /\ cache'[ListKey] # NoEntry =>
             cache[ListKey] # NoEntry /\ cache'[ListKey].val = cache[ListKey].val
    BY <1>1, KeysAre, OlderType DEF Inv, RoomsTypeOK
  <1>5. \A i \in RoomIds, d \in Dates :
          cache'[DatedKey(i, d)] \in Entry(HoursValues) \cup {NoEntry}
    BY <1>1, KeysAre, OlderType DEF Inv, RoomsTypeOK
  <1>6. RoomsTypeOK'
    BY <1>1, <1>2, <1>3, <1>4, <1>5 DEF Inv, RoomsTypeOK
  <1>7. CallsHold' /\ Fresh'
    BY <1>1 DEF Inv, CallsHold, CallHolds, Fresh, CallFresh, ActiveRooms
  <1>8. CachedExist'
    BY <1>1, <1>3 DEF Inv, CachedExist, Cached
  <1>9. StaleOnlyIfTainted'
    <2>1. \A i \in RoomIds : RoomStale(i)' => RoomStale(i) /\ cache'[RoomKey(i)] # NoEntry
      BY <1>1, <1>3 DEF RoomStale, Cached
    <2>2. ListStale' => ListStale /\ cache'[ListKey] # NoEntry
      BY <1>1, <1>4 DEF ListStale, Cached, ActiveRooms
    <2>3. \A q \in Clients : ToForget(q)' = ToForget(q)
      BY <1>1 DEF ToForget
    <2> QED BY <1>1, <2>1, <2>2, <2>3 DEF Inv, StaleOnlyIfTainted
  <1> QED BY <1>6, <1>7, <1>8, <1>9 DEF Inv

LEMMA StepKeeps ==
  ASSUME Inv, NEW p \in Clients, Step(p)
  PROVE  Inv'
PROOF
  <1>1. CASE AvailabilityFind(p)
    <2>1. call[p] \in Call /\ call[p].pc = "find" /\ CallHolds(call[p])
      BY <1>1 DEF AvailabilityFind, Inv, RoomsTypeOK, CallsHold
    <2> QED BY <1>1, <2>1, FindKeeps DEF AvailabilityFind, CallHolds
  <1>2. CASE CreateRefused(p)
    BY <1>2, FinishKeeps DEF CreateRefused
  <1> QED
    BY <1>1, <1>2, FindSelectKeeps, FindFillKeeps, CheckNumberKeeps, SaveLoadKeeps,
       SaveWriteKeeps, ForgetRoomKeeps, ForgetDatesKeeps, ForgetListKeeps,
       AvailabilityStoreKeeps, ListSelectKeeps, ListFillKeeps, CreateInsertKeeps, AbortKeeps
    DEF Step

LEMMA NextKeeps ==
  ASSUME Inv, [Next]_roomsVars
  PROVE  Inv'
PROOF
  <1>1. CASE UNCHANGED roomsVars
    BY <1>1
    DEF roomsVars, Inv, RoomsTypeOK, CallsHold, CallHolds, Fresh, CallFresh, CachedExist,
        StaleOnlyIfTainted, RoomStale, ListStale, Cached, ActiveRooms, ToForget
  <1> QED BY <1>1, BeginKeeps, StepKeeps, TimeKeeps DEF Next

LEMMA Always == Spec => []Inv
  <1>1. Inv /\ [Next]_roomsVars => Inv'
    BY NextKeeps
  <1> QED BY Initially, <1>1, PTL DEF Spec

(* Every variable of the service and its cache keeps its type.              *)
THEOREM RoomsTypeCorrect == Spec => []RoomsTypeOK
BY Always, PTL DEF Inv

(* Whatever interleaves or is lost, a stale room or list has one of three   *)
(* causes: a write about to delete it, a lost call, a fill that came late   *)
(* (rooms.service.ts:83-135).                                               *)
THEOREM StaleHasCause == Spec => []StaleOnlyIfTainted
BY Always, PTL DEF Inv

(* An update that undoes another's had started from data already changed    *)
(* (rooms.service.ts:118).                                                  *)
THEOREM LossNeedsStaleData == Spec => LostOnlyIfStale
PROOF
  <1> DEFINE Kept ==
        \A i \in RoomIds : rooms[i] # NoRoom /\ rooms'[i] # rooms[i] =>
          \E p \in Clients : /\ call[p].pc = "write" /\ call[p].id = i
                             /\ \/ p \notin current
                                \/ rooms'[i] = Patched(rooms[i], call[p].patch)
  <1>1. ASSUME Inv, Next PROVE Kept
    <2> SUFFICES ASSUME NEW i \in RoomIds, rooms[i] # NoRoom, rooms'[i] # rooms[i]
                 PROVE  \E p \in Clients :
                          /\ call[p].pc = "write" /\ call[p].id = i
                          /\ \/ p \notin current
                             \/ rooms'[i] = Patched(rooms[i], call[p].patch)
      OBVIOUS
    <2>1. rooms' # rooms
      OBVIOUS
    <2>2. PICK p \in Clients : SaveWrite(p) \/ \E j \in RoomIds : CreateInsert(p, j)
      BY <1>1, <2>1, ZenonT(40)
      DEF Next, Time, Begin, Step, ReadBegin, UpdateBegin, AvailabilityBegin, CreateBegin,
          ListBegin, Find, FindSelect, FindFill, CheckNumber, SaveLoad, ForgetRoom, ForgetDates,
          ForgetList, AvailabilityFind, AvailabilityStore, ListSelect, ListFill,
          CreateRefused, Abort
    <2>3. CASE \E j \in RoomIds : CreateInsert(p, j)
      BY <1>1, <2>3 DEF CreateInsert, WriteRoom, Inv, RoomsTypeOK
    <2>4. CASE SaveWrite(p)
      <3>1. call[p].pc = "write" /\ call[p].id = i
            /\ rooms'[i] = MergeRoom(rooms[i], call[p].mem, call[p].seen)
        BY <1>1, <2>4 DEF SaveWrite, WriteRoom, Inv, RoomsTypeOK
      <3>2. ASSUME p \in current
            PROVE  rooms'[i] = Patched(rooms[i], call[p].patch)
        <4>1. call[p].mem = Patched(rooms[i], call[p].patch) /\ call[p].seen = rooms[i]
          BY <1>1, <3>1, <3>2 DEF Inv, Fresh, CallFresh
        <4>2. call[p].mem \in Room /\ rooms[i] \in Room
          BY <1>1, <3>1 DEF Inv, CallsHold, CallHolds
        <4> QED BY <3>1, <4>1, <4>2, MergeType
      <3> QED BY <3>1, <3>2
    <2> QED BY <2>2, <2>3, <2>4
  <1>2. Inv /\ [Next]_roomsVars => [Kept]_roomsVars
    BY <1>1
  <1> HIDE DEF Kept
  <1>3. Spec => [][Kept]_roomsVars
    BY Always, <1>2, PTL DEF Spec
  <1> QED BY <1>3 DEF LostOnlyIfStale, Kept

-----------------------------------------------------------------------------
(* From here on no call takes as long as a unit of the clock (Prompt).      *)

\* Data of a call that is not the table's any more has not been so for long.
CallBound(c) ==
  /\ c.pc = "fill" /\ c.mem # rooms[c.id] => since[c.id] = 0
  /\ c.pc = "fillList" /\ c.listing # ActiveRooms => \E i \in RoomIds : since[i] = 0
  /\ c.pc = "store" /\ c.mem.hours # rooms[c.id].hours => since[c.id] < LongTTL

\* No entry outlives what it was stored with.
Lifetimes ==
  /\ \A i \in RoomIds : Cached(RoomKey(i)) => cache[RoomKey(i)].left <= LongTTL
  /\ Cached(ListKey) => cache[ListKey].left <= MediumTTL
  /\ \A i \in RoomIds, d \in Dates :
       Cached(DatedKey(i, d)) => cache[DatedKey(i, d)].left <= ShortTTL

Bounded == (\A p \in Clients : CallBound(call[p])) /\ Lifetimes /\ StaleBounded

LEMMA SinceType ==
  ASSUME RoomsTypeOK, NEW i \in RoomIds
  PROVE  since[i] \in Nat /\ since[i] <= Forever /\ Forever \in Nat
         /\ ShortTTL \in Nat \ {0} /\ MediumTTL \in Nat \ {0} /\ LongTTL \in Nat \ {0}
         /\ Forever = LongTTL + ShortTTL
BY CacheAssumption DEF RoomsTypeOK, Forever

(* A step of p that touches neither the table nor the cache.                *)
LEMMA QuietBounded ==
  ASSUME Inv, Bounded, NEW p \in Clients, NEW c \in Call, call' = [call EXCEPT ![p] = c],
         CallBound(c), UNCHANGED <<cache, rooms, since>>
  PROVE  Bounded'
PROOF
  <1>1. \A q \in Clients : CallBound(call'[q])
    BY DEF Bounded, Inv, RoomsTypeOK
  <1>2. \A q \in Clients : CallBound(call[q])'
    BY <1>1 DEF CallBound, ActiveRooms
  <1>3. Lifetimes' /\ StaleBounded'
    BY DEF Bounded, Lifetimes, StaleBounded, RoomStale, ListStale, AvailabilityStale, Cached,
           ActiveRooms
  <1> QED BY <1>2, <1>3 DEF Bounded

LEMMA IdleBound == \A c : c.pc \notin {"fill", "fillList", "store"} => CallBound(c)
BY DEF CallBound

LEMMA ReturnedBound ==
  ASSUME NEW c \in Call, NEW room \in Room, c.id \in RoomIds,
         c.op \in {"read", "update", "availability"},
         room # rooms[c.id] => since[c.id] < LongTTL
  PROVE  CallBound(Returned(c, room))
PROOF
  <1>1. CASE c.op = "read"
    BY <1>1, IdleBound, IdleHolds DEF Returned
  <1>2. CASE c.op = "availability"
    <2>1. Returned(c, room) = [c EXCEPT !.pc = "store", !.mem = room]
      BY <1>2 DEF Returned
    <2> QED BY <2>1 DEF Call, CallBound
  <1>3. CASE c.op = "update"
    <2>1. Returned(c, room).pc \in {"load", "check"}
      BY <1>3 DEF Returned, Call
    <2> QED BY <2>1, IdleBound
  <1> QED BY <1>1, <1>2, <1>3

LEMMA FindBounded ==
  ASSUME Inv, Bounded, NEW p \in Clients, NEW c \in Call, Find(p, c), c.id \in RoomIds,
         c.op \in {"read", "update", "availability"},
         c.op = "availability" => c.date \in Dates
  PROVE  Bounded'
PROOF
  <1>1. CASE Cached(RoomKey(c.id))
    <2> DEFINE room == cache[RoomKey(c.id)].val
    <2>1. room \in Room /\ rooms[c.id] \in Room /\ cache[RoomKey(c.id)].left \in Nat \ {0}
      BY <1>1 DEF Inv, RoomsTypeOK, CachedExist, Cached, Entry
    <2>2. room # rooms[c.id] => since[c.id] < LongTTL
      <3> SUFFICES ASSUME room # rooms[c.id] PROVE since[c.id] < LongTTL
        OBVIOUS
      <3>1. cache[RoomKey(c.id)].left + since[c.id] <= LongTTL
        BY <1>1 DEF Bounded, StaleBounded, RoomStale
      <3>2. since[c.id] \in Nat /\ LongTTL \in Nat
        BY SinceType DEF Inv
      <3> HIDE DEF room
      <3> QED BY <2>1, <3>1, <3>2
    <2>3. call' = [call EXCEPT ![p] = Returned(c, room)]
      BY <1>1 DEF Find, Become
    <2> HIDE DEF room
    <2>4. Returned(c, room) \in Call /\ CallBound(Returned(c, room))
      BY <2>1, <2>2, ReturnedHolds, ReturnedBound
    <2> QED BY <2>3, <2>4, QuietBounded DEF Find
  <1>2. CASE ~Cached(RoomKey(c.id))
    <2> DEFINE d == [c EXCEPT !.pc = "select"]
    <2>1. d \in Call /\ d.pc = "select"
      BY DEF Call
    <2>2. call' = [call EXCEPT ![p] = d]
      BY <1>2 DEF Find, Become
    <2> HIDE DEF d
    <2>3. CallBound(d)
      BY <2>1, IdleBound
    <2> QED BY <2>1, <2>2, <2>3, QuietBounded DEF Find
  <1> QED BY <1>1, <1>2

\* A step of p to a call that holds nothing it will store.
LEMMA PlainBounded ==
  ASSUME Inv, Bounded, NEW p \in Clients, NEW c \in Call, NEW fresh \in BOOLEAN,
         Become(p, c, fresh), c.pc \notin {"fill", "fillList", "store"},
         UNCHANGED <<cache, rooms, since>>
  PROVE  Bounded'
BY IdleBound, QuietBounded DEF Become

LEMMA BeginBounded ==
  ASSUME Inv, Bounded, NEW p \in Clients, Begin(p)
  PROVE  Bounded'
PROOF
  <1>1. ASSUME NEW i \in RoomIds, ReadBegin(p, i)
        PROVE  Bounded'
    <2> DEFINE c == [Idle EXCEPT !.op = "read", !.id = i]
    <2>1. c \in Call /\ c.id = i /\ c.op = "read"
      BY IdleHolds DEF Call, Idle
    <2>2. Find(p, c)
      BY <1>1 DEF ReadBegin
    <2> HIDE DEF c
    <2> QED BY <2>1, <2>2, FindBounded
  <1>2. ASSUME NEW i \in RoomIds, NEW patch \in Updates \cup {Removal},
               UpdateBegin(p, i, patch)
        PROVE  Bounded'
    <2> DEFINE c == [Idle EXCEPT !.op = "update", !.id = i, !.patch = patch]
    <2>1. c \in Call /\ c.id = i /\ c.op = "update"
      BY IdleHolds, UpdatesArePatches DEF Call, Idle
    <2>2. Find(p, c)
      BY <1>2 DEF UpdateBegin
    <2> HIDE DEF c
    <2> QED BY <2>1, <2>2, FindBounded
  <1>3. ASSUME NEW i \in RoomIds, NEW d \in Dates, AvailabilityBegin(p, i, d)
        PROVE  Bounded'
    <2> DEFINE c == [Idle EXCEPT !.pc = "find", !.op = "availability", !.id = i, !.date = d]
    <2>1. c \in Call /\ c.pc = "find"
      BY IdleHolds DEF Call, Idle
    <2>2. Become(p, c, FALSE)
      BY <1>3 DEF AvailabilityBegin
    <2> HIDE DEF c
    <2> QED BY <1>3, <2>1, <2>2, PlainBounded DEF AvailabilityBegin
  <1>4. ASSUME NEW n \in Numbers, NEW h \in HoursValues, CreateBegin(p, n, h)
        PROVE  Bounded'
    <2> DEFINE c == [Idle EXCEPT !.pc = "insert", !.op = "create",
                                 !.mem = [number |-> n, hours |-> h, isActive |-> TRUE]]
    <2>1. c \in Call /\ c.pc = "insert"
      BY IdleHolds DEF Call, Idle, Room
    <2>2. Become(p, c, FALSE)
      BY <1>4 DEF CreateBegin
    <2> HIDE DEF c
    <2> QED BY <1>4, <2>1, <2>2, PlainBounded DEF CreateBegin
  <1>5. ASSUME ListBegin(p)
        PROVE  Bounded'
    <2> DEFINE c == [Idle EXCEPT !.pc = "selectList", !.op = "list"]
    <2>1. c \in Call /\ c.pc = "selectList"
      BY IdleHolds DEF Call, Idle
    <2>2. Become(p, c, FALSE)
      BY <1>5 DEF ListBegin
    <2> HIDE DEF c
    <2> QED BY <1>5, <2>1, <2>2, PlainBounded DEF ListBegin
  <1> QED BY <1>1, <1>2, <1>3, <1>4, <1>5 DEF Begin

LEMMA FinishBounded ==
  ASSUME Inv, Bounded, NEW p \in Clients, Finish(p), UNCHANGED <<cache, rooms, since>>
  PROVE  Bounded'
BY IdleHolds, PlainBounded DEF Finish

LEMMA ReadStepBounded ==
  ASSUME Inv, Bounded, NEW p \in Clients,
         FindSelect(p) \/ CheckNumber(p) \/ SaveLoad(p) \/ ListSelect(p)
  PROVE  Bounded'
PROOF
  <1>0. call[p] \in Call /\ CallHolds(call[p])
    BY DEF Inv, RoomsTypeOK, CallsHold
  <1>1. CASE FindSelect(p)
    <2> DEFINE c == [call[p] EXCEPT !.pc = "fill", !.mem = rooms[call[p].id]]
    <2>1. CASE rooms[call[p].id] = NoRoom
      BY <1>1, <2>1, FinishBounded DEF FindSelect
    <2>2. CASE rooms[call[p].id] # NoRoom
      <3>1. c \in Call /\ CallBound(c)
        BY <1>0, <1>1, <2>2 DEF FindSelect, Call, CallHolds, CallBound, Inv, RoomsTypeOK
      <3>2. call' = [call EXCEPT ![p] = c]
        BY <1>1, <2>2 DEF FindSelect, Become
      <3> HIDE DEF c
      <3> QED BY <1>1, <3>1, <3>2, QuietBounded DEF FindSelect
    <2> QED BY <2>1, <2>2
  <1>2. CASE CheckNumber(p)
    <2> DEFINE c == [call[p] EXCEPT !.pc = "load"]
    <2>1. CASE NumberTaken(call[p].patch.number, NoId)
      BY <1>2, <2>1, FinishBounded DEF CheckNumber
    <2>2. CASE ~NumberTaken(call[p].patch.number, NoId)
      <3>1. c \in Call /\ c.pc = "load"
        BY <1>0 DEF Call
      <3>2. call' = [call EXCEPT ![p] = c]
        BY <1>2, <2>2 DEF CheckNumber, Advance, Become
      <3> HIDE DEF c
      <3> QED BY <1>2, <3>1, <3>2, IdleBound, QuietBounded DEF CheckNumber
    <2> QED BY <2>1, <2>2
  <1>3. CASE SaveLoad(p)
    <2> DEFINE c == [call[p] EXCEPT !.pc = "write", !.seen = rooms[call[p].id]]
    <2>1. c \in Call /\ c.pc = "write"
      BY <1>0, <1>3 DEF Call, SaveLoad, CallHolds
    <2>2. call' = [call EXCEPT ![p] = c]
      BY <1>3 DEF SaveLoad, Advance, Become
    <2> HIDE DEF c
    <2> QED BY <1>3, <2>1, <2>2, IdleBound, QuietBounded DEF SaveLoad
  <1>4. CASE ListSelect(p)
    <2> DEFINE c == [call[p] EXCEPT !.pc = "fillList", !.listing = ActiveRooms]
    <2>1. ActiveRooms \in Listing
      BY ActiveType DEF Inv
    <2>2. c \in Call /\ CallBound(c)
      BY <1>0, <2>1, ZenonT(40) DEF Call, CallBound
    <2>3. call' = [call EXCEPT ![p] = c]
      BY <1>4 DEF ListSelect, Become
    <2> HIDE DEF c
    <2> QED BY <1>4, <2>2, <2>3, QuietBounded DEF ListSelect
  <1> QED BY <1>1, <1>2, <1>3, <1>4

-----------------------------------------------------------------------------
\* The calls' part of the bound, when p goes on as c and no room is written.
LEMMA CallsBounded ==
  ASSUME Inv, Bounded, NEW p \in Clients, NEW c \in Call, call' = [call EXCEPT ![p] = c],
         CallBound(c), UNCHANGED <<rooms, since>>
  PROVE  \A q \in Clients : CallBound(call[q])'
PROOF
  <1>1. \A q \in Clients : CallBound(call'[q])
    BY DEF Bounded, Inv, RoomsTypeOK
  <1> QED BY <1>1 DEF CallBound, ActiveRooms

LEMMA FindFillBounded ==
  ASSUME Inv, Bounded, NEW p \in Clients, FindFill(p)
  PROVE  Bounded'
PROOF
  <1> DEFINE c == call[p]
             i == c.id
             room == c.mem
  <1>1. c \in Call /\ i \in RoomIds /\ room \in Room /\ rooms[i] \in Room
        /\ c.op \in {"read", "update", "availability"}
        /\ (c.op = "availability" => c.date \in Dates)
        /\ RoomKey(i) \in Keys
    BY KeysAre DEF Inv, RoomsTypeOK, CallsHold, CallHolds, FindFill
  <1>2. room # rooms[i] => since[i] = 0
    BY DEF Bounded, CallBound, FindFill
  <1>3. LongTTL \in Nat \ {0}
    BY CacheAssumption
  <1>4. Returned(c, room) \in Call /\ CallBound(Returned(c, room))
    BY <1>1, <1>2, <1>3, ReturnedHolds, ReturnedBound
  <1>5. call' = [call EXCEPT ![p] = Returned(c, room)] /\ UNCHANGED <<rooms, since>>
        /\ Put(RoomKey(i), room, LongTTL)
    BY DEF FindFill, Advance, Become, Fill
  <1> HIDE DEF c, i, room
  <1>6. \A q \in Clients : CallBound(call[q])'
    BY <1>4, <1>5, CallsBounded
  <1>7. /\ cache'[RoomKey(i)] = [val |-> room, left |-> LongTTL]
        /\ \A j \in Keys \ {RoomKey(i)} : cache'[j] = cache[j]
    BY <1>1, <1>5, PutOnly DEF Inv, RoomsTypeOK
  <1>8. /\ cache'[ListKey] = cache[ListKey]
        /\ \A j \in RoomIds, d \in Dates : cache'[DatedKey(j, d)] = cache[DatedKey(j, d)]
        /\ \A j \in RoomIds \ {i} : cache'[RoomKey(j)] = cache[RoomKey(j)]
    BY <1>1, <1>7, KeysAre, KeysApart
  <1>9. Lifetimes'
    BY <1>3, <1>7, <1>8 DEF Bounded, Lifetimes, Cached
  <1>10. StaleBounded'
    <2>1. \A j \in RoomIds : RoomStale(j)' => cache'[RoomKey(j)].left + since'[j] <= LongTTL
      <3> SUFFICES ASSUME NEW j \in RoomIds, RoomStale(j)'
                   PROVE  cache'[RoomKey(j)].left + since'[j] <= LongTTL
        OBVIOUS
      <3>1. CASE j = i
        <4>1. room # rooms[i]
          BY <1>5, <1>7, <3>1 DEF RoomStale
        <4> QED BY <1>2, <1>3, <1>5, <1>7, <3>1, <4>1
      <3>2. CASE j # i
        BY <1>5, <1>8, <3>2 DEF RoomStale, Cached, Bounded, StaleBounded
      <3> QED BY <3>1, <3>2
    <2> QED
      BY <1>5, <1>8, <2>1
      DEF StaleBounded, Bounded, ListStale, AvailabilityStale, Cached, ActiveRooms
  <1> QED BY <1>6, <1>9, <1>10 DEF Bounded

LEMMA ListFillBounded ==
  ASSUME Inv, Bounded, NEW p \in Clients, ListFill(p)
  PROVE  Bounded'
PROOF
  <1> DEFINE v == call[p].listing
  <1>1. v # ActiveRooms => \E i \in RoomIds : since[i] = 0
    BY DEF Bounded, CallBound, ListFill
  <1>2. call' = [call EXCEPT ![p] = Idle] /\ UNCHANGED <<rooms, since>>
        /\ Put(ListKey, v, MediumTTL)
    BY DEF ListFill, Finish, Become, Fill
  <1> HIDE DEF v
  <1>3. \A q \in Clients : CallBound(call[q])'
    BY <1>2, IdleHolds, IdleBound, CallsBounded
  <1>4. /\ cache'[ListKey] = [val |-> v, left |-> MediumTTL]
        /\ \A j \in Keys \ {ListKey} : cache'[j] = cache[j]
    BY <1>2, KeysAre, PutOnly DEF Inv, RoomsTypeOK
  <1>5. /\ \A j \in RoomIds, d \in Dates : cache'[DatedKey(j, d)] = cache[DatedKey(j, d)]
        /\ \A j \in RoomIds : cache'[RoomKey(j)] = cache[RoomKey(j)]
    BY <1>4, KeysAre, KeysApart
  <1>6. MediumTTL \in Nat
    BY CacheAssumption
  <1>7. Lifetimes'
    BY <1>4, <1>5, <1>6 DEF Bounded, Lifetimes, Cached
  <1>8. ListStale' => \E i \in RoomIds : cache'[ListKey].left + since'[i] <= MediumTTL
    BY <1>1, <1>2, <1>4, <1>6 DEF ListStale, ActiveRooms
  <1>9. StaleBounded'
    BY <1>2, <1>5, <1>8 DEF StaleBounded, Bounded, RoomStale, AvailabilityStale, Cached
  <1> QED BY <1>3, <1>7, <1>9 DEF Bounded

LEMMA AvailabilityStoreBounded ==
  ASSUME Inv, Bounded, NEW p \in Clients, AvailabilityStore(p)
  PROVE  Bounded'
PROOF
  <1> DEFINE i == call[p].id
             d == call[p].date
             v == call[p].mem.hours
  <1>1. i \in RoomIds /\ d \in Dates /\ DatedKey(i, d) \in Keys
    BY KeysAre DEF Inv, RoomsTypeOK, CallsHold, CallHolds, AvailabilityStore
  <1>2. v # rooms[i].hours => since[i] < LongTTL
    BY DEF Bounded, CallBound, AvailabilityStore
  <1>3. call' = [call EXCEPT ![p] = Idle] /\ UNCHANGED <<rooms, since>>
        /\ Put(DatedKey(i, d), v, ShortTTL)
    BY DEF AvailabilityStore, Finish, Become
  <1> HIDE DEF i, d, v
  <1>4. \A q \in Clients : CallBound(call[q])'
    BY <1>3, IdleHolds, IdleBound, CallsBounded
  <1>5. /\ cache'[DatedKey(i, d)] = [val |-> v, left |-> ShortTTL]
        /\ \A j \in Keys \ {DatedKey(i, d)} : cache'[j] = cache[j]
    BY <1>1, <1>3, PutOnly DEF Inv, RoomsTypeOK
  <1>6. /\ \A j \in RoomIds : cache'[RoomKey(j)] = cache[RoomKey(j)]
        /\ cache'[ListKey] = cache[ListKey]
    BY <1>1, <1>5, KeysAre, KeysApart
  <1>7. /\ ShortTTL \in Nat /\ LongTTL \in Nat
        /\ since[i] \in Nat
    BY <1>1, SinceType DEF Inv
  <1>8. Lifetimes'
    BY <1>1, <1>5, <1>6, <1>7, KeysAre DEF Bounded, Lifetimes, Cached
  <1>9. \A j \in RoomIds, e \in Dates : AvailabilityStale(j, e)' =>
          cache'[DatedKey(j, e)].left + since'[j] < LongTTL + ShortTTL
    <2> SUFFICES ASSUME NEW j \in RoomIds, NEW e \in Dates, AvailabilityStale(j, e)'
                 PROVE  cache'[DatedKey(j, e)].left + since'[j] < LongTTL + ShortTTL
      OBVIOUS
    <2>1. CASE DatedKey(j, e) = DatedKey(i, d)
      <3>1. j = i
        BY <1>1, <2>1, KeysApart
      <3>2. v # rooms[i].hours
        BY <1>3, <1>5, <2>1, <3>1 DEF AvailabilityStale
      <3> QED BY <1>2, <1>3, <1>5, <1>7, <2>1, <3>1, <3>2
    <2>2. CASE DatedKey(j, e) # DatedKey(i, d)
      BY <1>3, <1>5, <2>2, KeysAre DEF AvailabilityStale, Cached, Bounded, StaleBounded
    <2> QED BY <2>1, <2>2
  <1>10. StaleBounded'
    BY <1>3, <1>6, <1>9
    DEF StaleBounded, Bounded, RoomStale, ListStale, Cached, ActiveRooms
  <1> QED BY <1>4, <1>8, <1>10 DEF Bounded

LEMMA ForgetBounded ==
  ASSUME Inv, Bounded, NEW p \in Clients, NEW c \in Call, NEW k \in Keys,
         Forget(p, k), Advance(p, c), c.pc \notin {"fill", "fillList", "store"},
         UNCHANGED <<rooms, since>>
  PROVE  Bounded'
PROOF
  <1>1. \A q \in Clients : CallBound(call[q])'
    BY IdleBound, CallsBounded DEF Advance, Become
  <1>2. \A j \in Keys : cache'[j] = NoEntry \/ cache'[j] = cache[j]
    BY DelOnly DEF Forget, Inv, RoomsTypeOK
  <1>3. Lifetimes'
    BY <1>2, KeysAre DEF Bounded, Lifetimes, Cached
  <1>4. StaleBounded'
    BY <1>2, KeysAre
    DEF Bounded, StaleBounded, RoomStale, ListStale, AvailabilityStale, Cached, ActiveRooms
  <1> QED BY <1>1, <1>3, <1>4 DEF Bounded

LEMMA ForgetStepBounded ==
  ASSUME Inv, Bounded, NEW p \in Clients, ForgetRoom(p) \/ ForgetDates(p) \/ ForgetList(p)
  PROVE  Bounded'
PROOF
  <1>0. call[p] \in Call /\ CallHolds(call[p])
    BY DEF Inv, RoomsTypeOK, CallsHold
  <1>1. CASE ForgetRoom(p)
    <2> DEFINE c == [call[p] EXCEPT !.pc = "forgetDates"]
    <2>1. c \in Call /\ c.pc = "forgetDates" /\ RoomKey(call[p].id) \in Keys
      BY <1>0, <1>1, KeysAre DEF Call, CallHolds, ForgetRoom
    <2>2. Advance(p, c)
      BY <1>1 DEF ForgetRoom
    <2> HIDE DEF c
    <2> QED BY <1>1, <2>1, <2>2, ForgetBounded DEF ForgetRoom
  <1>2. CASE ForgetDates(p)
    <2> DEFINE c == [call[p] EXCEPT !.pc = "forgetList"]
    <2>1. c \in Call /\ c.pc = "forgetList" /\ AvailabilityKey(call[p].id) \in Keys
      BY <1>0, <1>2, KeysAre DEF Call, CallHolds, ForgetDates
    <2>2. Advance(p, c)
      BY <1>2 DEF ForgetDates
    <2> HIDE DEF c
    <2> QED BY <1>2, <2>1, <2>2, ForgetBounded DEF ForgetDates
  <1>3. CASE ForgetList(p)
    <2>1. Advance(p, Idle)
      BY <1>3 DEF ForgetList, Finish, Advance, Become
    <2> QED BY <1>3, <2>1, IdleHolds, KeysAre, ForgetBounded DEF ForgetList
  <1> QED BY <1>1, <1>2, <1>3

LEMMA WriteBounded ==
  ASSUME Inv, Bounded, NEW p \in Clients, NEW i \in RoomIds, NEW room \in Room,
         NEW pc \in {"forget", "forgetList"}, WriteRoom(p, i, room, pc),
         UNCHANGED cache
  PROVE  Bounded'
PROOF
  <1> DEFINE c == [Idle EXCEPT !.pc = pc, !.op = call[p].op, !.id = i]
  <1>1. c \in Call /\ c.pc = pc
    <2>1. call[p] \in Call
      BY DEF Inv, RoomsTypeOK
    <2> QED BY <2>1, IdleHolds DEF Call, Idle
  <1>2. call' = [call EXCEPT ![p] = c]
    BY DEF WriteRoom
  <1> HIDE DEF c
  <1>3. call'[p] = c /\ \A q \in Clients \ {p} : call'[q] = call[q]
    BY <1>2 DEF Inv, RoomsTypeOK
  <1>4. CASE room = rooms[i]
    <2>1. rooms' = rooms /\ since' = since
      BY <1>4 DEF WriteRoom, Inv, RoomsTypeOK
    <2> QED BY <1>1, <1>2, <2>1, IdleBound, QuietBounded
  <1>5. CASE room # rooms[i]
    <2>1. /\ rooms'[i] = room /\ since'[i] = 0
          /\ \A j \in RoomIds \ {i} : rooms'[j] = rooms[j] /\ since'[j] = since[j]
      BY <1>5 DEF WriteRoom, Inv, RoomsTypeOK
    <2>2. ShortTTL \in Nat \ {0} /\ MediumTTL \in Nat \ {0} /\ LongTTL \in Nat \ {0}
      BY CacheAssumption
    <2>3. \A q \in Clients : CallBound(call[q])'
      <3> SUFFICES ASSUME NEW q \in Clients PROVE CallBound(call[q])'
        OBVIOUS
      <3>1. CASE q = p
        BY <1>1, <1>3, <3>1 DEF CallBound
      <3>2. CASE q # p
        <4>1. CallBound(call[q]) /\ CallHolds(call[q]) /\ call'[q] = call[q]
          BY <1>3, <3>2 DEF Bounded, Inv, CallsHold
        <4> QED BY <2>1, <2>2, <4>1 DEF CallBound, CallHolds
      <3> QED BY <3>1, <3>2
    <2>4. Lifetimes'
      BY DEF Bounded, Lifetimes, Cached
    <2>5. ASSUME NEW j \in RoomIds, RoomStale(j)'
          PROVE  cache'[RoomKey(j)].left + since'[j] <= LongTTL
      <3>1. CASE j = i
        <4>1. cache[RoomKey(j)].left \in Nat /\ cache[RoomKey(j)].left <= LongTTL
          BY <2>5 DEF RoomStale, Cached, Bounded, Lifetimes, Inv, RoomsTypeOK, Entry
        <4> QED BY <2>1, <2>2, <3>1, <4>1
      <3>2. CASE j # i
        BY <2>1, <2>5, <3>2 DEF RoomStale, Cached, Bounded, StaleBounded
      <3> QED BY <3>1, <3>2
    <2>6. ListStale' => cache'[ListKey].left + since'[i] <= MediumTTL
      <3> SUFFICES ASSUME ListStale' PROVE cache'[ListKey].left + since'[i] <= MediumTTL
        OBVIOUS
      <3>1. cache[ListKey].left \in Nat /\ cache[ListKey].left <= MediumTTL
        BY DEF ListStale, Cached, Bounded, Lifetimes, Inv, RoomsTypeOK, Entry
      <3> QED BY <2>1, <2>2, <3>1
    <2>7. ASSUME NEW j \in RoomIds, NEW d \in Dates, AvailabilityStale(j, d)'
          PROVE  cache'[DatedKey(j, d)].left + since'[j] < LongTTL + ShortTTL
      <3>1. CASE j = i
        <4>1. cache[DatedKey(j, d)].left \in Nat /\ cache[DatedKey(j, d)].left <= ShortTTL
          BY <2>7 DEF AvailabilityStale, Cached, Bounded, Lifetimes, Inv, RoomsTypeOK, Entry
        <4> QED BY <2>1, <2>2, <3>1, <4>1
      <3>2. CASE j # i
        BY <2>1, <2>7, <3>2 DEF AvailabilityStale, Cached, Bounded, StaleBounded
      <3> QED BY <3>1, <3>2
    <2> QED BY <2>3, <2>4, <2>5, <2>6, <2>7 DEF Bounded, StaleBounded
  <1> QED BY <1>4, <1>5

LEMMA WriteStepBounded ==
  ASSUME Inv, Bounded, NEW p \in Clients, SaveWrite(p) \/ \E i \in RoomIds : CreateInsert(p, i)
  PROVE  Bounded'
PROOF
  <1>1. CASE SaveWrite(p)
    <2> DEFINE i == call[p].id
               room == MergeRoom(rooms[i], call[p].mem, call[p].seen)
    <2>1. i \in RoomIds /\ room \in Room
      BY <1>1, MergeType DEF Inv, CallsHold, CallHolds, SaveWrite
    <2>2. CASE NumberTaken(room.number, i)
      BY <1>1, <2>2, FinishBounded DEF SaveWrite
    <2>3. CASE ~NumberTaken(room.number, i)
      <3>1. WriteRoom(p, i, room, "forget") /\ UNCHANGED cache
        BY <1>1, <2>3 DEF SaveWrite
      <3> HIDE DEF i, room
      <3> QED BY <2>1, <3>1, WriteBounded
    <2> QED BY <2>2, <2>3
  <1>2. ASSUME NEW i \in RoomIds, CreateInsert(p, i) PROVE Bounded'
    <2>1. call[p].mem \in Room
      BY <1>2 DEF Inv, CallsHold, CallHolds, CreateInsert
    <2> QED BY <1>2, <2>1, WriteBounded DEF CreateInsert
  <1> QED BY <1>1, <1>2

\* Time passes between the calls only; an entry loses what the room gains.
LEMMA TimeBounded ==
  ASSUME Inv, Bounded, Prompt, Time
  PROVE  Bounded'
PROOF
  <1>1. \A k \in Keys : cache'[k] = Older(cache[k])
    BY DEF Time, Age, Inv, RoomsTypeOK
  <1>2. UNCHANGED <<rooms, call>> /\ InFlight = {}
        /\ \A i \in RoomIds : since'[i] = IF since[i] = Forever THEN Forever ELSE since[i] + 1
    BY DEF Time
  <1>3. \A q \in Clients : CallBound(call[q])'
    BY <1>2 DEF InFlight, CallBound
  <1>4. ASSUME NEW i \in RoomIds, Cached(RoomKey(i))'
        PROVE  /\ Cached(RoomKey(i)) /\ cache'[RoomKey(i)].val = cache[RoomKey(i)].val
               /\ cache[RoomKey(i)].left \in Nat \ {0}
               /\ cache'[RoomKey(i)].left = cache[RoomKey(i)].left - 1
    <2>1. cache[RoomKey(i)] \in Entry(Room) \cup {NoEntry}
      BY DEF Inv, RoomsTypeOK
    <2>2. cache'[RoomKey(i)] = Older(cache[RoomKey(i)]) /\ Older(cache[RoomKey(i)]) # NoEntry
      BY <1>1, <1>4, KeysAre DEF Cached
    <2> QED BY <2>1, <2>2, OlderType DEF Cached, Entry
  <1>5. ASSUME Cached(ListKey)'
        PROVE  /\ Cached(ListKey) /\ cache'[ListKey].val = cache[ListKey].val
               /\ cache[ListKey].left \in Nat \ {0}
               /\ cache'[ListKey].left = cache[ListKey].left - 1
    <2>1. cache[ListKey] \in Entry(Listing) \cup {NoEntry}
      BY DEF Inv, RoomsTypeOK
    <2>2. cache'[ListKey] = Older(cache[ListKey]) /\ Older(cache[ListKey]) # NoEntry
      BY <1>1, <1>5, KeysAre DEF Cached
    <2> QED BY <2>1, <2>2, OlderType DEF Cached, Entry
  <1>6. ASSUME NEW i \in RoomIds, NEW d \in Dates, Cached(DatedKey(i, d))'
        PROVE  /\ Cached(DatedKey(i, d)) /\ cache'[DatedKey(i, d)].val = cache[DatedKey(i, d)].val
               /\ cache[DatedKey(i, d)].left \in Nat \ {0}
               /\ cache'[DatedKey(i, d)].left = cache[DatedKey(i, d)].left - 1
    <2>1. cache[DatedKey(i, d)] \in Entry(HoursValues) \cup {NoEntry}
      BY DEF Inv, RoomsTypeOK
    <2>2. cache'[DatedKey(i, d)] = Older(cache[DatedKey(i, d)])
          /\ Older(cache[DatedKey(i, d)]) # NoEntry
      BY <1>1, <1>6, KeysAre DEF Cached
    <2> QED BY <2>1, <2>2, OlderType DEF Cached, Entry
  <1>7. /\ ShortTTL \in Nat /\ MediumTTL \in Nat /\ LongTTL \in Nat
        /\ \A i \in RoomIds : since[i] \in Nat /\ since'[i] \in Nat /\ since'[i] <= since[i] + 1
    BY <1>2, CacheAssumption DEF Inv, RoomsTypeOK, Forever
  <1>8. Lifetimes'
    <2>1. \A i \in RoomIds : Cached(RoomKey(i))' => cache'[RoomKey(i)].left <= LongTTL
      BY <1>4, <1>7 DEF Bounded, Lifetimes
    <2>2. Cached(ListKey)' => cache'[ListKey].left <= MediumTTL
      BY <1>5, <1>7 DEF Bounded, Lifetimes
    <2>3. \A i \in RoomIds, d \in Dates :
            Cached(DatedKey(i, d))' => cache'[DatedKey(i, d)].left <= ShortTTL
      BY <1>6, <1>7 DEF Bounded, Lifetimes
    <2> QED BY <2>1, <2>2, <2>3 DEF Lifetimes
  <1>9. StaleBounded'
    <2>1. ASSUME NEW i \in RoomIds, RoomStale(i)'
          PROVE  cache'[RoomKey(i)].left + since'[i] <= LongTTL
      <3>1. cache[RoomKey(i)].left + since[i] <= LongTTL
        BY <1>2, <1>4, <2>1 DEF RoomStale, Bounded, StaleBounded
      <3> QED BY <1>4, <1>7, <2>1, <3>1 DEF RoomStale
    <2>2. ASSUME ListStale'
          PROVE  \E i \in RoomIds : cache'[ListKey].left + since'[i] <= MediumTTL
      <3>1. PICK i \in RoomIds : cache[ListKey].left + since[i] <= MediumTTL
        BY <1>2, <1>5, <2>2 DEF ListStale, ActiveRooms, Bounded, StaleBounded
      <3> QED BY <1>5, <1>7, <2>2, <3>1 DEF ListStale
    <2>3. ASSUME NEW i \in RoomIds, NEW d \in Dates, AvailabilityStale(i, d)'
          PROVE  cache'[DatedKey(i, d)].left + since'[i] < LongTTL + ShortTTL
      <3>1. cache[DatedKey(i, d)].left + since[i] < LongTTL + ShortTTL
        BY <1>2, <1>6, <2>3 DEF AvailabilityStale, Bounded, StaleBounded
      <3> QED BY <1>6, <1>7, <2>3, <3>1 DEF AvailabilityStale
    <2> QED BY <2>1, <2>2, <2>3 DEF StaleBounded
  <1> QED BY <1>3, <1>8, <1>9 DEF Bounded

LEMMA NextBounded ==
  ASSUME Inv, Bounded, Prompt, [Next]_roomsVars
  PROVE  Bounded'
PROOF
  <1>1. CASE UNCHANGED roomsVars
    BY <1>1
    DEF roomsVars, Bounded, CallBound, Lifetimes, StaleBounded, RoomStale, ListStale,
        AvailabilityStale, Cached, ActiveRooms
  <1>2. ASSUME NEW p \in Clients, Step(p)
        PROVE  Bounded'
    <2>1. CASE AvailabilityFind(p)
      <3>1. call[p] \in Call /\ call[p].pc = "find" /\ CallHolds(call[p])
        BY <2>1 DEF AvailabilityFind, Inv, RoomsTypeOK, CallsHold
      <3> QED BY <2>1, <3>1, FindBounded DEF AvailabilityFind, CallHolds
    <2>2. CASE CreateRefused(p) \/ Abort(p)
      BY <2>2, FinishBounded DEF CreateRefused, Abort
    <2> QED
      BY <1>2, <2>1, <2>2, ReadStepBounded, FindFillBounded, ListFillBounded,
         AvailabilityStoreBounded, ForgetStepBounded, WriteStepBounded
      DEF Step
  <1> QED BY <1>1, <1>2, BeginBounded, TimeBounded DEF Next

LEMMA InitiallyBounded == RoomsInit => Bounded
BY KeysAre, IdleHolds, IdleBound
DEF RoomsInit, Bounded, Lifetimes, StaleBounded, RoomStale, ListStale, AvailabilityStale, Cached

(* As long as calls are shorter than a unit of the clock, nothing stale     *)
(* outlives its lifetime, counted from the write; an availability outlives  *)
(* it by no more than that of the room it was computed from                 *)
(* (rooms.service.ts:99 and 173, cache.service.ts:20).                      *)
THEOREM StalenessBounded ==
  ASSUME Prompt
  PROVE  Spec => []StaleBounded
PROOF
  <1>1. Inv /\ Inv' /\ Bounded /\ [Next]_roomsVars => Bounded'
    BY NextBounded
  <1>2. Spec => []Bounded
    BY Always, InitiallyBounded, <1>1, PTL DEF Spec
  <1>3. Bounded => StaleBounded
    BY DEF Bounded
  <1> QED BY <1>2, <1>3, PTL
=============================================================================
