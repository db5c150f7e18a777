--------------------------- MODULE Serial_proofs ---------------------------
(***************************************************************************)
(* Proofs about RoomService when one call runs at a time (MaxInFlight is   *)
(* at most 1): nobody is overtaken, and the rules the handlers check are   *)
(* then kept by what they write.                                           *)
(***************************************************************************)
EXTENDS RoomService_proofs, FiniteSetTheorems

ProcessesFinite == IsFiniteSet(Requests) /\ IsFiniteSet(Doors)

(* The call in flight is the only one, and has not been overtaken.          *)
RequestAlone(p) == req[p].pc # "idle" => untouched[p] = Ids

JobAlone(j) ==
  job[j].pc # "idle" =>
    \A i \in Ids : job[j].id = i \/ job[j].todo[i] # NoRow => i \in untouched[j]

Alone ==
  /\ \A x, y \in InFlight : x = y
  /\ \A p \in Requests : RequestAlone(p)
  /\ \A j \in Jobs : JobAlone(j)

-----------------------------------------------------------------------------
\* A call begins only when there is none.
LEMMA FreeIsEmpty ==
  ASSUME ProcessesFinite, MaxInFlight <= 1, Free
  PROVE  InFlight = {}
<1>1. IsFiniteSet(Jobs)
  <2>1. IsFiniteSet({NoShows}) /\ IsFiniteSet({AutoCompletion})
    BY FS_Singleton
  <2>2. Jobs = {NoShows} \cup {AutoCompletion}
    BY JobAssumption
  <2> QED BY <2>1, <2>2, FS_Union
<1>2. IsFiniteSet(Requests \cup Doors \cup Jobs)
  <2>1. IsFiniteSet(Requests \cup Doors)
    BY FS_Union DEF ProcessesFinite
  <2> QED BY <1>1, <2>1, FS_Union
<1>3. InFlight \in SUBSET (Requests \cup Doors \cup Jobs)
  BY DEF InFlight
<1>4. IsFiniteSet(InFlight)
  BY <1>2, <1>3, FS_Subset
<1>5. Cardinality(InFlight) = 0
  BY <1>4, FS_CardinalityType, BoundAssumption DEF Free
<1> QED BY <1>4, <1>5, FS_EmptySet

LEMMA NoIdOutside == NoId \notin Ids
BY StoreAssumption

\* The processes are of three kinds.
LEMMA KindsDisjoint ==
  /\ Requests \cap Jobs = {} /\ Doors \cap Requests = {} /\ Doors \cap Jobs = {}
BY StoreAssumption, BoundAssumption

-----------------------------------------------------------------------------
(* A step of the only call in flight leaves it the only one.                *)
LEMMA RequestStaysAlone ==
  ASSUME NEW p \in Requests, InFlight \subseteq {p}, acc' = acc, job' = job,
         \A q \in Requests \ {p} : req'[q] = req[q],
         req'[p].pc = "idle" \/ untouched'[p] = Ids
  PROVE  Alone'
<1>1. InFlight' \subseteq {p}
  BY DEF InFlight
<1>2. \A q \in Requests \ {p} : req'[q].pc = "idle"
  BY DEF InFlight
<1>3. \A j \in Jobs : job'[j].pc = "idle"
  BY KindsDisjoint DEF InFlight
<1> QED BY <1>1, <1>2, <1>3 DEF Alone, RequestAlone, JobAlone

LEMMA JobStaysAlone ==
  ASSUME NEW j \in Jobs, InFlight \subseteq {j}, acc' = acc, req' = req,
         \A k \in Jobs \ {j} : job'[k] = job[k],
         JobAlone(j)'
  PROVE  Alone'
<1>1. InFlight' \subseteq {j}
  BY DEF InFlight
<1>2. \A k \in Jobs \ {j} : job'[k].pc = "idle"
  BY DEF InFlight
<1>3. \A p \in Requests : req'[p].pc = "idle"
  BY KindsDisjoint DEF InFlight
<1> QED BY <1>1, <1>2, <1>3 DEF Alone, RequestAlone, JobAlone

LEMMA DoorStaysAlone ==
  ASSUME NEW d \in Doors, InFlight \subseteq {d}, job' = job, req' = req,
         \A e \in Doors \ {d} : acc'[e] = acc[e]
  PROVE  Alone'
<1>1. InFlight' \subseteq {d}
  BY DEF InFlight
<1>2. \A j \in Jobs : job'[j].pc = "idle"
  BY KindsDisjoint DEF InFlight
<1>3. \A p \in Requests : req'[p].pc = "idle"
  BY KindsDisjoint DEF InFlight
<1> QED BY <1>1, <1>2, <1>3 DEF Alone, RequestAlone, JobAlone

\* Who takes a step is alone: it begins when nobody is in flight, or is the
\* one in flight.
LEMMA RequestIsAlone ==
  ASSUME ProcessesFinite, MaxInFlight <= 1, Alone, NEW p \in Requests,
         (Free /\ ResBegin(p)) \/ ResStep(p)
  PROVE  InFlight \subseteq {p}
<1>1. CASE Free
  BY <1>1, FreeIsEmpty
<1>2. CASE ResStep(p)
  <2>1. req[p].pc # "idle"
    BY <1>2 DEF ResStep, CreateCheck, CreateInsert, UpdateCheck, CancelTokens,
       SaveLoad, SaveWrite, Abort
  <2> QED BY <2>1 DEF InFlight, Alone
<1> QED BY <1>1, <1>2

LEMMA DoorIsAlone ==
  ASSUME ProcessesFinite, MaxInFlight <= 1, Alone, NEW d \in Doors,
         (Free /\ AccNew(d)) \/ AccStep(d)
  PROVE  InFlight \subseteq {d}
<1>1. CASE Free
  BY <1>1, FreeIsEmpty
<1>2. CASE AccStep(d)
  <2>1. acc[d].pc # "idle"
    BY <1>2 DEF AccStep, GenerateReuse, GenerateNew, GenerateInsert, VerifyLoad,
       VerifyWrite, AccAbort
  <2> QED BY <2>1 DEF InFlight, Alone
<1> QED BY <1>1, <1>2

LEMMA JobIsAlone ==
  ASSUME ProcessesFinite, MaxInFlight <= 1, Alone, NEW j \in Jobs,
         (Free /\ JobNew(j)) \/ JobStep(j)
  PROVE  InFlight \subseteq {j}
<1>1. CASE Free
  BY <1>1, FreeIsEmpty
<1>2. CASE JobStep(j)
  <2>1. job[j].pc # "idle"
    BY <1>2 DEF JobStep, JobDecide, NoShowMark, NoShowSkip, CompletionMark, JobLoad,
       JobWrite, JobAbort
  <2> QED BY <2>1 DEF InFlight, Alone
<1> QED BY <1>1, <1>2

-----------------------------------------------------------------------------
LEMMA RequestKeepsAlone ==
  ASSUME Inv, Alone, NEW p \in Requests, InFlight \subseteq {p},
         ResBegin(p) \/ ResStep(p), UNCHANGED <<acc, granted, job>>
  PROVE  Alone'
<1>0. /\ req \in [Requests -> Call] /\ untouched \in [Writers -> SUBSET Ids]
      /\ p \in Writers /\ RequestAlone(p)
  BY RequestTypes DEF Alone
<1>1. CASE ResBegin(p)
  <2>1. \E pc \in Pcs : \E i, m : Begin(p, pc, i, m)
    BY <1>1 DEF ResBegin, CreateBegin, UpdateTimes, UpdateDetails, CancelBegin,
       ConfirmBegin, Pcs
  <2> QED BY <1>0, <2>1, RequestStaysAlone DEF Begin, Watch
<1>2. CASE ResStep(p)
  <2>1. CASE \E pc \in Pcs : req[p].pc # "idle" /\ Goto(p, pc)
    BY <1>0, <2>1, RequestStaysAlone DEF Goto, store, RequestAlone
  <2>2. CASE Reject(p)
    BY <1>0, <2>2, RequestStaysAlone DEF Reject, Idle
  <2>3. CASE \E i \in Ids : CreateInsert(p, i)
    BY <1>0, <2>3, RequestStaysAlone DEF CreateInsert, Idle
  <2>4. CASE CancelTokens(p)
    BY <1>0, <2>4, RequestStaysAlone DEF CancelTokens, RequestAlone
  <2>5. CASE SaveLoad(p)
    BY <1>0, <2>5, RequestStaysAlone DEF SaveLoad, RequestAlone, store
  <2>6. CASE SaveWrite(p)
    BY <1>0, <2>6, RequestStaysAlone DEF SaveWrite, Idle
  <2> QED BY <1>2, <2>1, <2>2, <2>3, <2>4, <2>5, <2>6
          DEF ResStep, CreateCheck, UpdateCheck, Abort, Pcs
<1> QED BY <1>1, <1>2

LEMMA DoorKeepsAlone ==
  ASSUME Inv, NEW d \in Doors, InFlight \subseteq {d}, AccNew(d) \/ AccStep(d),
         UNCHANGED <<req, job>>
  PROVE  Alone'
<1>1. \E c : acc' = [acc EXCEPT ![d] = c]
  BY EntryTypes DEF AccNew, AccStep, GenerateBegin, VerifyBegin, AccBegin, GenerateReuse,
     GenerateNew, GenerateInsert, VerifyLoad, VerifyWrite, AccAbort, AccDone
<1>2. \A e \in Doors \ {d} : acc'[e] = acc[e]
  BY <1>1, EntryTypes
<1> QED BY <1>2, DoorStaysAlone

LEMMA JobKeepsAlone ==
  ASSUME Inv, Alone, NEW j \in Jobs, InFlight \subseteq {j}, JobNew(j) \/ JobStep(j),
         UNCHANGED <<req, acc, granted>>
  PROVE  Alone'
<1>0. /\ job \in [Jobs -> Run] /\ untouched \in [Writers -> SUBSET Ids]
      /\ j \in Writers /\ JobAlone(j)
  BY JobTypes DEF Alone
<1>1. CASE JobNew(j)
  <2>1. PICK due \in SUBSET Ids : Scan(j, due)
    BY <1>1 DEF JobNew, NoShowScan, CompletionScan
  <2> QED BY <1>0, <2>1, JobStaysAlone DEF Scan, Watch, JobAlone, store
<1>2. CASE \E i \in Ids : \E status : job[j].todo[i] # NoRow /\ job[j].pc = "next" /\ Mark(j, i, status)
  BY <1>0, <1>2, JobStaysAlone DEF Mark, JobAlone, Run, store
<1>3. CASE \E i \in Ids : NoShowSkip(i) /\ j = NoShows
  <2> PICK i \in Ids : NoShowSkip(i) /\ j = NoShows
    BY <1>3
  <2>1. JobAlone(j)'
    BY <1>0, NoIdOutside DEF NoShowSkip, After, JobAlone, JobIdle, EmptyList, Others, Run, Unwatch
  <2>2. \A k \in Jobs \ {j} : job'[k] = job[k]
    BY <1>0 DEF NoShowSkip
  <2> QED BY <2>1, <2>2, JobStaysAlone
<1>4. CASE JobLoad(j)
  BY <1>0, <1>4, JobStaysAlone DEF JobLoad, JobAlone, Run, store
<1>5. CASE JobWrite(j)
  <2>1. JobAlone(j)'
    BY <1>0, <1>5, NoIdOutside DEF JobWrite, After, JobAlone, JobIdle, EmptyList, Others, Run,
       OvertakeOthers, Overtake
  <2>2. \A k \in Jobs \ {j} : job'[k] = job[k]
    BY <1>0, <1>5 DEF JobWrite
  <2> QED BY <1>5, <2>1, <2>2, JobStaysAlone
<1>6. CASE JobAbort(j)
  BY <1>0, <1>6, JobStaysAlone DEF JobAbort, JobIdle, JobAlone
<1> QED BY <1>1, <1>2, <1>3, <1>4, <1>5, <1>6 DEF JobStep, JobDecide, NoShowMark, CompletionMark

LEMMA QuietKeepsAlone ==
  ASSUME Alone, UNCHANGED <<req, acc, job, untouched>>
  PROVE  Alone'
BY DEF Alone, InFlight, RequestAlone, JobAlone

LEMMA InitAlone == Init => Alone
BY DEF Init, ResInit, AccInit, JobInit, Idle, AccIdle, JobIdle, Alone, InFlight, RequestAlone, JobAlone

LEMMA NextAlone ==
  ASSUME ProcessesFinite, MaxInFlight <= 1, Inv, Alone, [Next]_vars
  PROVE  Alone'
<1>1. CASE Time
  BY <1>1, QuietKeepsAlone DEF Time, Clock, Tick
<1>2. CASE Request
  BY <1>2, RequestIsAlone, RequestKeepsAlone DEF Request
<1>3. CASE Entry
  BY <1>3, DoorIsAlone, DoorKeepsAlone DEF Entry
<1>4. CASE Cron
  BY <1>4, JobIsAlone, JobKeepsAlone DEF Cron
<1>5. CASE UNCHANGED vars
  BY <1>5, QuietKeepsAlone DEF vars, store
<1> QED BY <1>1, <1>2, <1>3, <1>4, <1>5 DEF Next

-----------------------------------------------------------------------------
\* Who writes has been overtaken by nobody.
LEMMA WriterNotOvertaken ==
  ASSUME Inv, Alone
  PROVE  /\ \A p \in Requests : req[p].pc # "idle" => untouched[p] = Ids
         /\ \A j \in Jobs : job[j].pc # "idle" /\ job[j].id \in Ids
              => job[j].id \in untouched[j]
BY DEF Alone, RequestAlone, JobAlone

LEMMA NoNewClash ==
  ASSUME Inv, Alone, [Next]_vars, NEW i \in Ids, NEW j \in Ids, Clash(i, j)'
  PROVE  Clash(i, j)
<1>1. Inv'
  BY NextInv
<1>2. CASE rows' = rows
  BY <1>2 DEF Clash, Blocks
<1>3. CASE \E p \in Requests : /\ Wrote(p)
                               /\ SaveWrite(p) \/ \E k \in Ids : CreateInsert(p, k)
  <2> PICK p \in Requests : SaveWrite(p) \/ \E k \in Ids : CreateInsert(p, k)
    BY <1>3
  <2>1. {i, j} \subseteq untouched[p]
    BY WriterNotOvertaken DEF SaveWrite, CreateInsert
  <2> QED BY <1>1, <2>1, InsertClash, SaveClash
<1>4. CASE \E w \in Jobs : Wrote(w) /\ JobWrite(w)
  <2> PICK w \in Jobs : JobWrite(w)
    BY <1>4
  <2>1. job[w].id \in {i, j} => job[w].id \in untouched[w]
    BY WriterNotOvertaken DEF JobWrite
  <2> QED BY <1>1, <2>1, JobClash
<1> QED BY <1>2, <1>3, <1>4, WritingStep

(* When calls run one at a time no room is promised twice for one moment,   *)
(* however many rooms, reservations and clients there are: the overlap      *)
(* query of create and update, and closing and cancelling, are enough.      *)
THEOREM AloneNeverDoubleBooks ==
  ASSUME ProcessesFinite, MaxInFlight <= 1
  PROVE  Spec => []NoDoubleBooking
<1> DEFINE J == Inv /\ Alone /\ NoDoubleBooking
<1>1. Init => J
  BY InitInv, InitAlone DEF Init, ResInit, StoreInit, NoDoubleBooking, Clash
<1>2. J /\ [Next]_vars => J'
  <2> SUFFICES ASSUME J, [Next]_vars
               PROVE  J'
    OBVIOUS
  <2>1. Inv'
    BY NextInv
  <2>2. Alone'
    BY NextAlone
  <2>3. NoDoubleBooking'
    BY NoNewClash DEF NoDoubleBooking
  <2> QED BY <2>1, <2>2, <2>3
<1>3. J => NoDoubleBooking
  OBVIOUS
<1> HIDE DEF J
<1> QED BY <1>1, <1>2, <1>3, PTL DEF Spec

-----------------------------------------------------------------------------
(* What calls that run alone keep: what is closed lies in the past, and a   *)
(* call that is to write a reservation has found it open.                   *)
RowsPast ==
  /\ ClosedInThePast
  /\ \A i \in Ids : rows[i] # NoRow => rows[i].start < rows[i].end

RequestOpen(p) ==
  LET c == req[p]
  IN  /\ c.pc \in {"lock", "insert"} =>
           c.mem.start < c.mem.end /\ c.mem.status = "PENDING"
      /\ c.pc \in {"slot", "tokens", "load", "write"} =>
           /\ rows[c.id].status \in Active
           /\ c.mem.start < c.mem.end
           /\ c.mem.status \notin {"COMPLETED", "NO_SHOW"}

\* Row r may be closed by handler j.
Over(j, r) == IF j = NoShows THEN r.start + NoShowGrace < now ELSE r.end < now

JobPast(j) ==
  LET c == job[j]
  IN  /\ c.pc # "idle" => \A i \in Ids : c.todo[i] # NoRow => Over(j, c.todo[i])
      /\ c.pc \in {"load", "write"} =>
           /\ Over(j, c.mem)
           /\ c.mem.start < c.mem.end
           /\ c.mem.status = IF j = NoShows THEN "NO_SHOW" ELSE "COMPLETED"

Past == RowsPast /\ (\A p \in Requests : RequestOpen(p)) /\ (\A j \in Jobs : JobPast(j))

LEMMA InitPast == Init => Past
BY DEF Init, ResInit, StoreInit, AccInit, JobInit, Idle, JobIdle, Past, RowsPast,
       ClosedInThePast, RequestOpen, JobPast

\* Nothing but the clock moves, if that.
LEMMA QuietKeepsPast ==
  ASSUME Inv, Past, now' \in Nat, now <= now', UNCHANGED <<rows, req, job>>
  PROVE  Past'
<1>0. /\ now \in Nat /\ rows \in [Ids -> Row \cup {NoRow}] /\ job \in [Jobs -> Run]
      /\ NoShowGrace \in Nat
  BY WindowAssumption DEF Inv, TypeInv, TypeOK, ResTypeOK, StoreTypeOK, JobTypeOK
<1>1. RowsPast'
  BY <1>0 DEF Past, RowsPast, ClosedInThePast, Row
<1>2. \A p \in Requests : RequestOpen(p)'
  BY DEF Past, RequestOpen
<1>3. ASSUME NEW j \in Jobs
      PROVE  JobPast(j)'
  <2>1. \A r \in Row : Over(j, r) => Over(j, r)'
    BY <1>0 DEF Over, Row
  <2>2. \A i \in Ids : job[j].todo[i] # NoRow => job[j].todo[i] \in Row
    BY <1>0 DEF Run
  <2>3. job[j].pc \in {"load", "write"} => job[j].mem \in Row
    BY JobTypes DEF Held
  <2> QED BY <2>1, <2>2, <2>3 DEF Past, JobPast
<1> QED BY <1>1, <1>2, <1>3 DEF Past

-----------------------------------------------------------------------------
(* The step of a request: the cron handlers and the other requests rest.    *)
LEMMA RequestPast ==
  ASSUME Past, NEW p \in Requests, InFlight \subseteq {p}, job' = job,
         \A q \in Requests \ {p} : req'[q] = req[q],
         RowsPast', RequestOpen(p)'
  PROVE  Past'
<1>1. \A q \in Requests \ {p} : req'[q].pc = "idle"
  BY DEF InFlight
<1>2. \A j \in Jobs : job'[j].pc = "idle"
  BY KindsDisjoint DEF InFlight
<1> QED BY <1>1, <1>2 DEF Past, RequestOpen, JobPast

\* A reservation whose window for updates or cancellations is open is not
\* closed.
LEMMA WindowOpen ==
  ASSUME Inv, Past, NEW i \in Ids, rows[i] # NoRow,
         MayUpdate(rows[i], now) \/ MayCancel(rows[i], now)
  PROVE  rows[i].status \in Active
<1>1. rows[i] \in Row /\ now \in Nat /\ {UpdateLead, CancelLead, NoShowGrace} \subseteq Nat
  BY WindowAssumption DEF Inv, TypeInv, TypeOK, ResTypeOK, StoreTypeOK
<1>2. rows[i].start < rows[i].end
  BY DEF Past, RowsPast
<1>3. rows[i].status # "COMPLETED"
  BY <1>1, <1>2 DEF Past, RowsPast, ClosedInThePast, MayUpdate, MayCancel, Row
<1>4. rows[i].status # "NO_SHOW"
  BY <1>1 DEF Past, RowsPast, ClosedInThePast, MayUpdate, MayCancel, Row
<1> QED BY <1>1, <1>3, <1>4 DEF MayUpdate, MayCancel, Row, Statuses, Active, Closed

LEMMA BeginPast ==
  ASSUME Inv, Past, NEW p \in Requests, InFlight \subseteq {p}, job' = job, ResBegin(p)
  PROVE  Past'
<1>0. req \in [Requests -> Call] /\ rows \in [Ids -> Row \cup {NoRow}]
  BY RequestTypes
<1>1. RequestOpen(p)'
  <2>1. CASE \E u \in Users, r \in Rooms, s \in Starts, e \in Ends, n \in Parties :
               CreateBegin(p, u, r, s, e, n)
    BY <1>0, <2>1 DEF CreateBegin, Begin, ValidSlot, DurationOK, RequestOpen
  <2>2. CASE \E i \in Ids, u \in Users : CancelBegin(p, u, i)
    <3> PICK i \in Ids, u \in Users : CancelBegin(p, u, i)
      BY <2>2
    <3>1. rows[i] \in Row /\ rows[i].status \in Active /\ rows[i].start < rows[i].end
      BY <1>0, WindowOpen DEF CancelBegin, Past, RowsPast
    <3> QED BY <1>0, <3>1 DEF CancelBegin, Begin, RequestOpen, Row
  <2>3. CASE \E i \in Ids, u \in Users, n \in Parties : UpdateDetails(p, u, i, n)
    <3> PICK i \in Ids, u \in Users, n \in Parties : UpdateDetails(p, u, i, n)
      BY <2>3
    <3>1. rows[i] \in Row /\ rows[i].status \in Active /\ rows[i].start < rows[i].end
      BY <1>0, WindowOpen DEF UpdateDetails, Past, RowsPast
    <3> QED BY <1>0, <3>1 DEF UpdateDetails, Begin, RequestOpen, Row, Active
  <2>4. CASE \E i \in Ids, u \in Users : \E s, e, n : UpdateTimes(p, u, i, s, e, n)
    <3>0. PICK i \in Ids, u \in Users : \E s, e, n : UpdateTimes(p, u, i, s, e, n)
      BY <2>4
    <3> PICK s, e, n : UpdateTimes(p, u, i, s, e, n)
      BY <3>0
    <3>1. rows[i] \in Row /\ rows[i].status \in Active /\ s < e
      BY <1>0, WindowOpen DEF UpdateTimes, ValidSlot, DurationOK
    <3> QED BY <1>0, <3>1 DEF UpdateTimes, Begin, RequestOpen, Row, Active
  <2>5. CASE \E i \in Ids : ConfirmBegin(p, i)
    BY <1>0, <2>5 DEF ConfirmBegin, Begin, RequestOpen, Row, Active, Past, RowsPast
  <2> QED BY <2>1, <2>2, <2>3, <2>4, <2>5 DEF ResBegin
<1>2. rows' = rows /\ now' = now /\ \A q \in Requests \ {p} : req'[q] = req[q]
  <2>1. \E pc : \E i : \E m : Begin(p, pc, i, m)
    BY DEF ResBegin, CreateBegin, CancelBegin, UpdateDetails, UpdateTimes, ConfirmBegin
  <2> QED BY <1>0, <2>1 DEF Begin
<1>3. RowsPast'
  BY <1>2 DEF Past, RowsPast, ClosedInThePast
<1> QED BY <1>1, <1>2, <1>3, RequestPast

LEMMA StepPast ==
  ASSUME Inv, Alone, Past, NEW p \in Requests, InFlight \subseteq {p}, job' = job, ResStep(p)
  PROVE  Past'
<1>0. /\ req \in [Requests -> Call] /\ rows \in [Ids -> Row \cup {NoRow}]
      /\ Held(req[p]) /\ RequestFresh(p) /\ RequestOpen(p)
  BY RequestTypes DEF Past
<1>1. CASE \E pc \in {"insert", "load"} :
               /\ req[p].pc = (IF pc = "insert" THEN "lock" ELSE "slot")
               /\ Goto(p, pc)
  <2>1. RequestOpen(p)' /\ rows' = rows /\ now' = now
        /\ \A q \in Requests \ {p} : req'[q] = req[q]
    BY <1>0, <1>1 DEF Goto, store, RequestOpen
  <2> QED BY <2>1, RequestPast DEF Past, RowsPast, ClosedInThePast
<1>2. CASE Reject(p)
  <2>1. RequestOpen(p)' /\ rows' = rows /\ now' = now
        /\ \A q \in Requests \ {p} : req'[q] = req[q]
    BY <1>0, <1>2 DEF Reject, Idle, RequestOpen
  <2> QED BY <2>1, RequestPast DEF Past, RowsPast, ClosedInThePast
<1>3. CASE CancelTokens(p) \/ SaveLoad(p)
  <2>1. /\ rows' = rows /\ now' = now /\ \A q \in Requests \ {p} : req'[q] = req[q]
        /\ req[p].pc \in {"tokens", "load"}
        /\ req'[p].pc \in {"load", "write"}
        /\ req'[p].id = req[p].id /\ req'[p].mem = req[p].mem
    <3>1. CASE CancelTokens(p)
      <4>1. req' = [req EXCEPT ![p].pc = "load"] /\ now' = now /\ rows' = rows
        BY <3>1 DEF CancelTokens
      <4> QED BY <1>0, <3>1, <4>1 DEF CancelTokens, Call
    <3>2. CASE SaveLoad(p)
      BY <1>0, <3>2 DEF SaveLoad, store, Call
    <3> QED BY <1>3, <3>1, <3>2
  <2>2. RequestOpen(p)'
    BY <1>0, <2>1 DEF RequestOpen
  <2> QED BY <2>1, <2>2, RequestPast DEF Past, RowsPast, ClosedInThePast
<1>4. CASE \E i \in Ids : CreateInsert(p, i)
  <2> PICK i \in Ids : CreateInsert(p, i)
    BY <1>4
  <2>1. RequestOpen(p)' /\ now' = now /\ \A q \in Requests \ {p} : req'[q] = req[q]
    BY <1>0 DEF CreateInsert, Idle, RequestOpen
  <2>2. /\ rows' = [rows EXCEPT ![i] = req[p].mem]
        /\ req[p].mem.start < req[p].mem.end /\ req[p].mem.status = "PENDING"
    BY <1>0 DEF CreateInsert, WriteRow, RequestOpen
  <2>3. RowsPast'
    BY <1>0, <2>1, <2>2 DEF Past, RowsPast, ClosedInThePast
  <2> QED BY <2>1, <2>3, RequestPast
<1>5. CASE SaveWrite(p)
  <2> DEFINE k == req[p].id
  <2>1. RequestOpen(p)' /\ now' = now /\ \A q \in Requests \ {p} : req'[q] = req[q]
    BY <1>0, <1>5 DEF SaveWrite, Idle, RequestOpen
  <2>2. /\ k \in Ids /\ rows[k] \in Row /\ req[p].mem \in Row
        /\ rows' = [rows EXCEPT ![k] = MergeRow(rows[k], req[p].mem, rows[k])]
    BY <1>0, <1>5, WriterNotOvertaken DEF SaveWrite, WriteRow, Held, RequestFresh
  <2>3. /\ rows'[k].start < rows'[k].end
        /\ rows'[k].status \notin {"COMPLETED", "NO_SHOW"}
    BY <1>0, <1>5, <2>2, MergeFresh DEF SaveWrite, RequestOpen
  <2>4. RowsPast'
    BY <1>0, <2>1, <2>2, <2>3 DEF Past, RowsPast, ClosedInThePast
  <2> QED BY <2>1, <2>4, RequestPast
<1> QED BY <1>1, <1>2, <1>3, <1>4, <1>5 DEF ResStep, CreateCheck, UpdateCheck, Abort

-----------------------------------------------------------------------------
(* The step of a cron handler: the other one and the requests rest.         *)
LEMMA RunPast ==
  ASSUME Past, NEW j \in Jobs, InFlight \subseteq {j}, req' = req,
         \A k \in Jobs \ {j} : job'[k] = job[k],
         RowsPast', JobPast(j)'
  PROVE  Past'
<1>1. \A k \in Jobs \ {j} : job'[k].pc = "idle"
  BY DEF InFlight
<1>2. \A p \in Requests : req'[p].pc = "idle"
  BY KindsDisjoint DEF InFlight
<1> QED BY <1>1, <1>2 DEF Past, RequestOpen, JobPast

\* The run goes on with the rest of its list.
LEMMA AfterPast ==
  ASSUME NEW j \in Jobs, JobPast(j), job \in [Jobs -> Run], job[j].pc # "idle",
         now' = now, NEW i \in Ids, job'[j] = After(j, i)
  PROVE  JobPast(j)'
<1>1. /\ job'[j].pc \in {"idle", "next"}
      /\ \A k \in Ids : job'[j].todo[k] # NoRow => job'[j].todo[k] = job[j].todo[k]
  BY DEF After, Others, JobIdle, EmptyList, Run
<1> QED BY <1>1 DEF JobPast, Over

LEMMA CronPast ==
  ASSUME Inv, Alone, Past, NEW j \in Jobs, InFlight \subseteq {j}, req' = req,
         JobNew(j) \/ JobStep(j)
  PROVE  Past'
<1>0. /\ job \in [Jobs -> Run] /\ rows \in [Ids -> Row \cup {NoRow}] /\ now \in Nat
      /\ Held(job[j]) /\ JobFresh(j) /\ JobPast(j) /\ JobAlone(j)
      /\ NoShowGrace \in Nat /\ NoShows # AutoCompletion
  BY JobTypes, WindowAssumption DEF Past, Alone, NoShows, AutoCompletion,
     Inv, TypeInv, TypeOK, ResTypeOK, StoreTypeOK
<1>1. CASE JobNew(j)
  <2>1. PICK due \in SUBSET Ids :
               Scan(j, due) /\ \A i \in due : rows[i] # NoRow /\ Over(j, rows[i])
    <3>1. CASE j = NoShows
      <4>1. \A i \in Ids : rows[i] # NoRow /\ NoShowDue(rows[i], now) => Over(j, rows[i])
        BY <1>0, <3>1 DEF NoShowDue, Over, Row
      <4> QED BY <1>0, <1>1, <3>1, <4>1 DEF JobNew, NoShowScan
    <3>2. CASE j = AutoCompletion
      <4>1. \A i \in Ids : rows[i] # NoRow /\ CompletionDue(rows[i], now) => Over(j, rows[i])
        BY <1>0, <3>2 DEF CompletionDue, Over
      <4> QED BY <1>0, <1>1, <3>2, <4>1 DEF JobNew, CompletionScan
    <3> QED BY <3>1, <3>2, JobAssumption
  <2>2. rows' = rows /\ now' = now /\ \A k \in Jobs \ {j} : job'[k] = job[k]
    BY <1>0, <2>1 DEF Scan, store
  <2>3. JobPast(j)'
    BY <1>0, <2>1 DEF Scan, JobPast, Over, store, Run
  <2> QED BY <2>2, <2>3, RunPast DEF Past, RowsPast, ClosedInThePast
<1>2. CASE \E i \in Ids : NoShowSkip(i) /\ j = NoShows
  <2> PICK i \in Ids : NoShowSkip(i) /\ j = NoShows
    BY <1>2
  <2>1. /\ rows' = rows /\ now' = now /\ \A k \in Jobs \ {j} : job'[k] = job[k]
        /\ job'[j] = After(j, i) /\ job[j].pc # "idle"
    BY <1>0 DEF NoShowSkip
  <2> QED BY <1>0, <2>1, RunPast, AfterPast DEF Past, RowsPast, ClosedInThePast
<1>3. CASE \E i \in Ids : /\ job[j].pc = "next" /\ job[j].todo[i] # NoRow
                          /\ Mark(j, i, IF j = NoShows THEN "NO_SHOW" ELSE "COMPLETED")
  <2> PICK i \in Ids : /\ job[j].pc = "next" /\ job[j].todo[i] # NoRow
                       /\ Mark(j, i, IF j = NoShows THEN "NO_SHOW" ELSE "COMPLETED")
    BY <1>3
  <2>1. rows' = rows /\ now' = now /\ \A k \in Jobs \ {j} : job'[k] = job[k]
    BY <1>0 DEF Mark, store
  <2>2. /\ job[j].todo[i] \in Row /\ Over(j, job[j].todo[i])
        /\ job[j].todo[i].start < job[j].todo[i].end
    BY <1>0 DEF JobAlone, JobFresh, JobPast, Past, RowsPast, Run
  <2>3. /\ job'[j].todo = job[j].todo
        /\ job'[j].mem.status = IF j = NoShows THEN "NO_SHOW" ELSE "COMPLETED"
        /\ job'[j].mem.start = job[j].todo[i].start /\ job'[j].mem.end = job[j].todo[i].end
    BY <1>0, <2>2 DEF Mark, Run, Row
  <2>4. JobPast(j)'
    BY <1>0, <2>1, <2>2, <2>3 DEF JobPast, Over
  <2> QED BY <2>1, <2>4, RunPast DEF Past, RowsPast, ClosedInThePast
<1>4. CASE JobLoad(j)
  <2>1. rows' = rows /\ now' = now /\ \A k \in Jobs \ {j} : job'[k] = job[k]
    BY <1>0, <1>4 DEF JobLoad, store
  <2>2. JobPast(j)'
    BY <1>0, <1>4, <2>1 DEF JobLoad, JobPast, Over, Run
  <2> QED BY <2>1, <2>2, RunPast DEF Past, RowsPast, ClosedInThePast
<1>5. CASE JobWrite(j)
  <2> DEFINE k == job[j].id
             m == job[j].mem
  <2>1. /\ now' = now /\ \A l \in Jobs \ {j} : job'[l] = job[l]
        /\ job[j].pc = "write" /\ k \in Ids /\ job'[j] = After(j, k)
    BY <1>0, <1>5 DEF JobWrite, Held
  <2>2. /\ rows[k] \in Row /\ m \in Row
        /\ rows' = [rows EXCEPT ![k] = MergeRow(rows[k], m, rows[k])]
    BY <1>0, <1>5, <2>1, WriterNotOvertaken DEF JobWrite, WriteRow, Held, JobFresh
  <2>3. Over(j, m) /\ m.start < m.end /\ m.status = IF j = NoShows THEN "NO_SHOW" ELSE "COMPLETED"
    BY <1>0, <2>1 DEF JobPast
  <2>4. /\ rows'[k].start = m.start /\ rows'[k].end = m.end /\ rows'[k].status = m.status
        /\ \A x \in Ids \ {k} : rows'[x] = rows[x]
    BY <1>0, <2>1, <2>2, MergeFresh
  <2>5. RowsPast'
    BY <1>0, <2>1, <2>3, <2>4 DEF Past, RowsPast, ClosedInThePast, Over
  <2> QED BY <1>0, <2>1, <2>5, RunPast, AfterPast
<1>6. CASE JobAbort(j)
  <2>1. rows' = rows /\ now' = now /\ \A k \in Jobs \ {j} : job'[k] = job[k]
    BY <1>0, <1>6 DEF JobAbort
  <2>2. JobPast(j)'
    BY <1>0, <1>6 DEF JobAbort, JobIdle, EmptyList, JobPast
  <2> QED BY <2>1, <2>2, RunPast DEF Past, RowsPast, ClosedInThePast
<1> QED BY <1>0, <1>1, <1>2, <1>3, <1>4, <1>5, <1>6
        DEF JobStep, JobDecide, NoShowMark, CompletionMark

LEMMA NextPast ==
  ASSUME ProcessesFinite, MaxInFlight <= 1, Inv, Alone, Past, [Next]_vars
  PROVE  Past'
<1>0. now \in Nat
  BY DEF Inv, TypeInv, TypeOK, ResTypeOK, StoreTypeOK
<1>1. CASE Time
  BY <1>0, <1>1, QuietKeepsPast DEF Time, Clock, Tick
<1>2. CASE Request
  BY <1>2, RequestIsAlone, BeginPast, StepPast DEF Request
<1>3. CASE Entry
  <2>1. now' = now /\ rows' = rows
    BY <1>3 DEF Entry, AccNew, AccStep, GenerateBegin, VerifyBegin, AccBegin, GenerateReuse,
       GenerateNew, GenerateInsert, VerifyLoad, VerifyWrite, AccAbort, AccDone, store
  <2> QED BY <1>0, <1>3, <2>1, QuietKeepsPast DEF Entry
<1>4. CASE Cron
  BY <1>4, JobIsAlone, CronPast DEF Cron
<1>5. CASE UNCHANGED vars
  BY <1>0, <1>5, QuietKeepsPast DEF vars, store
<1> QED BY <1>1, <1>2, <1>3, <1>4, <1>5 DEF Next

LEMMA AloneInvariant ==
  ASSUME ProcessesFinite, MaxInFlight <= 1
  PROVE  Spec => [](Inv /\ Alone /\ Past)
<1>1. Init => Inv /\ Alone /\ Past
  BY InitInv, InitAlone, InitPast
<1>2. Inv /\ Alone /\ Past /\ [Next]_vars => (Inv /\ Alone /\ Past)'
  BY NextInv, NextAlone, NextPast
<1> QED BY <1>1, <1>2, PTL DEF Spec

(* When calls run one at a time, the cron handlers close only what is over, *)
(* and no update moves it into the future again.                            *)
THEOREM AloneClosedInThePast ==
  ASSUME ProcessesFinite, MaxInFlight <= 1
  PROVE  Spec => []ClosedInThePast
<1>1. Past => ClosedInThePast
  BY DEF Past, RowsPast
<1> QED BY <1>1, AloneInvariant, PTL

LEMMA ClosedStays ==
  ASSUME Inv, Alone, Past, [Next]_vars, NEW i \in Ids, rows[i] # NoRow, rows[i].status \in Closed
  PROVE  rows'[i].status = rows[i].status
<1>1. CASE rows' = rows
  BY <1>1
<1>2. CASE \E p \in Requests : SaveWrite(p) \/ \E k \in Ids : CreateInsert(p, k)
  <2> PICK p \in Requests : SaveWrite(p) \/ \E k \in Ids : CreateInsert(p, k)
    BY <1>2
  <2>1. CASE SaveWrite(p)
    <3>1. rows[req[p].id].status \in Active
      BY <2>1 DEF SaveWrite, Past, RequestOpen
    <3>2. \A x \in Ids \ {req[p].id} : rows'[x] = rows[x]
      BY <2>1, RequestTypes DEF SaveWrite, WriteRow
    <3> QED BY <3>1, <3>2 DEF Active, Closed
  <2>2. CASE \E k \in Ids : CreateInsert(p, k)
    BY <2>2, RequestTypes DEF CreateInsert, WriteRow
  <2> QED BY <2>1, <2>2
<1>3. CASE \E j \in Jobs : JobWrite(j)
  <2> PICK j \in Jobs : JobWrite(j)
    BY <1>3
  <2>1. job[j].id \in Ids
    BY JobTypes DEF JobWrite, Held
  <2>2. rows[job[j].id].status = "CONFIRMED"
    BY <2>1, JobTypes, WriterNotOvertaken DEF JobWrite, JobFresh
  <2>3. \A x \in Ids \ {job[j].id} : rows'[x] = rows[x]
    BY JobTypes DEF JobWrite, WriteRow
  <2> QED BY <2>2, <2>3 DEF Closed
<1> QED BY <1>1, <1>2, <1>3, WritingStep

(* When calls run one at a time, a closed reservation stays as it was       *)
(* closed: the windows of update and cancel, the status that confirm and    *)
(* the cron handlers ask for, leave it alone.                               *)
THEOREM AloneClosedIsFinal ==
  ASSUME ProcessesFinite, MaxInFlight <= 1
  PROVE  Spec => ClosedIsFinal
<1> DEFINE Final == \A i \in Ids : rows[i] # NoRow /\ rows[i].status \in Closed
                        => rows'[i].status = rows[i].status
<1>1. Inv /\ Alone /\ Past /\ [Next]_vars => [Final]_vars
  BY ClosedStays
<1>2. Spec => [][Final]_vars
  BY <1>1, AloneInvariant, PTL DEF Spec
<1> QED BY <1>2 DEF ClosedIsFinal

-----------------------------------------------------------------------------
(* The server and BookingCalendar: whatever a handler does between its      *)
(* statements, the reservations table changes as a calendar does.           *)

\* A slot made of times that clients ask for.
Asked(r) == r.start \in Starts \cup Ends /\ r.end \in Starts \cup Ends

SameDetails(r, s) == r.start = s.start /\ r.end = s.end /\ r.attendees = s.attendees

(* A call holds a slot that was asked for, and one that is about to change  *)
(* a status leaves the slot and the attendees of the reservation alone.     *)
RequestSlot(p) ==
  LET c == req[p]
  IN  /\ c.pc # "idle" => Asked(c.mem)
      /\ c.pc \in {"slot", "tokens", "load", "write"} /\ c.mem.status # rows[c.id].status
           => SameDetails(c.mem, rows[c.id])

JobSlot(j) == job[j].pc \in {"load", "write"} => SameDetails(job[j].mem, rows[job[j].id])

RowsAsked == \A i \in Ids : rows[i] # NoRow => Asked(rows[i])

Slots == RowsAsked /\ (\A p \in Requests : RequestSlot(p)) /\ (\A j \in Jobs : JobSlot(j))

LEMMA InitSlots == Init => Slots
BY DEF Init, ResInit, StoreInit, AccInit, JobInit, Idle, JobIdle, Slots, RowsAsked,
       RequestSlot, JobSlot

-----------------------------------------------------------------------------
\* A call begins: what it holds is the row it has read, but for the columns
\* it is to change.
LEMMA BeginSlot ==
  ASSUME Inv, Slots, NEW p \in Requests, ResBegin(p)
  PROVE  RequestSlot(p)'
<1>0. /\ req \in [Requests -> Call] /\ rows \in [Ids -> Row \cup {NoRow}]
      /\ RowsAsked
  BY RequestTypes DEF Slots
<1>1. CASE \E u \in Users, r \in Rooms, s \in Starts, e \in Ends, n \in Parties :
             CreateBegin(p, u, r, s, e, n)
  BY <1>0, <1>1 DEF CreateBegin, Begin, RequestSlot, Asked
<1>2. CASE \E i \in Ids, u \in Users : CancelBegin(p, u, i)
  BY <1>0, <1>2 DEF CancelBegin, Begin, RequestSlot, Asked, SameDetails, RowsAsked, Row
<1>3. CASE \E i \in Ids, u \in Users, n \in Parties : UpdateDetails(p, u, i, n)
  BY <1>0, <1>3 DEF UpdateDetails, Begin, RequestSlot, Asked, SameDetails, RowsAsked, Row
<1>4. CASE \E i \in Ids, u \in Users : /\ rows[i] # NoRow
                                       /\ \E s \in Starts \cup {rows[i].start},
                                             e \in Ends \cup {rows[i].end}, n \in Parties :
                                            UpdateTimes(p, u, i, s, e, n)
  BY <1>0, <1>4 DEF UpdateTimes, Begin, RequestSlot, Asked, SameDetails, RowsAsked, Row
<1>5. CASE \E i \in Ids : ConfirmBegin(p, i)
  BY <1>0, <1>5 DEF ConfirmBegin, Begin, RequestSlot, Asked, SameDetails, RowsAsked, Row
<1> QED BY <1>1, <1>2, <1>3, <1>4, <1>5 DEF ResBegin

\* A call goes on without writing: it holds what it held, or nothing.
Saving == {"slot", "tokens", "load", "write"}

LEMMA StepShape ==
  ASSUME Inv, NEW p \in Requests, ResStep(p), rows' = rows
  PROVE  \/ req'[p] = Idle
         \/ /\ req'[p].id = req[p].id /\ req'[p].mem = req[p].mem
            /\ req[p].pc # "idle"
            /\ req'[p].pc \in Saving <=> req[p].pc \in Saving
<1>0. req \in [Requests -> Call]
  BY RequestTypes
<1>1. CASE \E pc \in {"insert", "load"} :
               /\ req[p].pc = (IF pc = "insert" THEN "lock" ELSE "slot")
               /\ Goto(p, pc)
  BY <1>0, <1>1 DEF Goto, Call, Saving
<1>2. CASE Reject(p) \/ SaveWrite(p) \/ \E i \in Ids : CreateInsert(p, i)
  BY <1>0, <1>2 DEF Reject, SaveWrite, CreateInsert
<1>3. CASE CancelTokens(p)
  <2>1. req' = [req EXCEPT ![p].pc = "load"]
    BY <1>3 DEF CancelTokens
  <2> QED BY <1>0, <1>3, <2>1 DEF CancelTokens, Call, Saving
<1>4. CASE SaveLoad(p)
  BY <1>0, <1>4 DEF SaveLoad, Call, Saving
<1> QED BY <1>1, <1>2, <1>3, <1>4 DEF ResStep, CreateCheck, UpdateCheck, Abort

LEMMA StepSlot ==
  ASSUME Inv, Slots, NEW p \in Requests, ResStep(p), rows' = rows
  PROVE  RequestSlot(p)'
<1>1. CASE req'[p] = Idle
  BY <1>1 DEF Idle, RequestSlot
<1>2. CASE req'[p] # Idle
  BY <1>2, StepShape DEF Slots, RequestSlot, Saving
<1> QED BY <1>1, <1>2

\* A run of a cron handler: it changes the status of an entity it has listed.
LEMMA RunSlot ==
  ASSUME Inv, Alone, Slots, NEW j \in Jobs, JobNew(j) \/ JobStep(j), rows' = rows
  PROVE  JobSlot(j)'
<1>0. /\ job \in [Jobs -> Run] /\ rows \in [Ids -> Row \cup {NoRow}]
      /\ Held(job[j]) /\ JobFresh(j) /\ JobAlone(j) /\ JobSlot(j)
  BY JobTypes DEF Alone, Slots
<1>1. CASE job'[j].pc \in {"idle", "next"}
  BY <1>1 DEF JobSlot
<1>2. CASE \E due \in SUBSET Ids : Scan(j, due)
  BY <1>0, <1>1, <1>2 DEF Scan, Run
<1>3. CASE \E i \in Ids, status \in Statuses :
             job[j].pc = "next" /\ job[j].todo[i] # NoRow /\ Mark(j, i, status)
  <2> PICK i \in Ids, status \in Statuses :
             job[j].pc = "next" /\ job[j].todo[i] # NoRow /\ Mark(j, i, status)
    BY <1>3
  <2>1. job[j].todo[i] = rows[i] /\ rows[i] \in Row
    BY <1>0 DEF JobAlone, JobFresh
  <2>2. job'[j].id = i /\ job'[j].mem = [job[j].todo[i] EXCEPT !.status = status]
    BY <1>0 DEF Mark, Run
  <2> QED BY <2>1, <2>2 DEF JobSlot, SameDetails, Row
<1>4. CASE \E i \in Ids : NoShowSkip(i) /\ j = NoShows
  BY <1>0, <1>1, <1>4 DEF NoShowSkip, After, JobIdle, Run
<1>5. CASE JobLoad(j)
  BY <1>0, <1>5 DEF JobLoad, JobSlot, Run
<1>6. CASE JobWrite(j)
  BY <1>0, <1>1, <1>6 DEF JobWrite, After, JobIdle, Run
<1>7. CASE JobAbort(j)
  BY <1>0, <1>1, <1>7 DEF JobAbort, JobIdle
<1> QED BY <1>2, <1>3, <1>4, <1>5, <1>6, <1>7
        DEF JobNew, NoShowScan, CompletionScan, JobStep, JobDecide, NoShowMark,
            CompletionMark, Statuses, Closed

-----------------------------------------------------------------------------
\* A step of one call leaves the others where they are.
LEMMA RequestShape ==
  ASSUME Inv, NEW p \in Requests, ResBegin(p) \/ ResStep(p)
  PROVE  \A q \in Requests \ {p} : req'[q] = req[q]
<1>0. req \in [Requests -> Call]
  BY RequestTypes
<1>1. CASE \E pc : \E i : \E m : Begin(p, pc, i, m)
  BY <1>0, <1>1 DEF Begin
<1>2. CASE (\E pc : Goto(p, pc)) \/ Reject(p)
  BY <1>0, <1>2 DEF Goto, Reject
<1>3. CASE (\E i \in Ids : CreateInsert(p, i)) \/ SaveWrite(p)
  BY <1>0, <1>3 DEF CreateInsert, SaveWrite
<1>4. CASE CancelTokens(p) \/ SaveLoad(p)
  BY <1>0, <1>4 DEF CancelTokens, SaveLoad
<1>5. ResBegin(p) => \E pc : \E i : \E m : Begin(p, pc, i, m)
  BY DEF ResBegin, CreateBegin, CancelBegin, UpdateDetails, UpdateTimes, ConfirmBegin
<1> QED BY <1>1, <1>2, <1>3, <1>4, <1>5 DEF ResStep, CreateCheck, UpdateCheck, Abort

LEMMA JobShape ==
  ASSUME Inv, NEW j \in Jobs, JobNew(j) \/ JobStep(j)
  PROVE  \A k \in Jobs \ {j} : job'[k] = job[k]
<1>0. job \in [Jobs -> Run]
  BY JobTypes
<1>1. CASE \E due : Scan(j, due)
  BY <1>0, <1>1 DEF Scan
<1>2. CASE \E i : \E status : Mark(j, i, status)
  BY <1>0, <1>2 DEF Mark
<1>3. CASE \E i \in Ids : NoShowSkip(i) /\ j = NoShows
  BY <1>0, <1>3 DEF NoShowSkip
<1>4. CASE JobLoad(j) \/ JobWrite(j) \/ JobAbort(j)
  BY <1>0, <1>4 DEF JobLoad, JobWrite, JobAbort
<1>5. JobNew(j) => \E due : Scan(j, due)
  BY DEF JobNew, NoShowScan, CompletionScan
<1>6. JobDecide(j) => \/ \E i : \E status : Mark(j, i, status)
                      \/ \E i \in Ids : NoShowSkip(i) /\ j = NoShows
  BY DEF JobDecide, NoShowMark, CompletionMark
<1> QED BY <1>1, <1>2, <1>3, <1>4, <1>5, <1>6 DEF JobStep

\* A step that writes no reservation.
LEMMA QuietSlots ==
  ASSUME Inv, Alone, Slots, [Next]_vars, rows' = rows
  PROVE  Slots'
<1>0. RowsAsked'
  BY DEF Slots, RowsAsked, Asked
<1>1. ASSUME NEW p \in Requests
      PROVE  RequestSlot(p)'
  <2>1. CASE req'[p] = req[p]
    BY <2>1 DEF Slots, RequestSlot
  <2>2. CASE \E q \in Requests : ResBegin(q) \/ ResStep(q)
    <3> PICK q \in Requests : ResBegin(q) \/ ResStep(q)
      BY <2>2
    <3>1. CASE q = p
      BY <3>1, BeginSlot, StepSlot
    <3>2. CASE q # p
      <4>1. req'[p] = req[p]
        BY <3>2, RequestShape
      <4> QED BY <2>1, <4>1
    <3> QED BY <3>1, <3>2
  <2> QED BY <2>1, <2>2 DEF Next, Time, Request, Entry, Cron, vars
<1>2. ASSUME NEW j \in Jobs
      PROVE  JobSlot(j)'
  <2>1. CASE job'[j] = job[j]
    BY <2>1 DEF Slots, JobSlot
  <2>2. CASE \E k \in Jobs : JobNew(k) \/ JobStep(k)
    <3> PICK k \in Jobs : JobNew(k) \/ JobStep(k)
      BY <2>2
    <3>1. CASE k = j
      BY <3>1, RunSlot
    <3>2. CASE k # j
      <4>1. job'[j] = job[j]
        BY <3>2, JobShape
      <4> QED BY <2>1, <4>1
    <3> QED BY <3>1, <3>2
  <2> QED BY <2>1, <2>2 DEF Next, Time, Request, Entry, Cron, vars
<1> QED BY <1>0, <1>1, <1>2 DEF Slots

\* The only call in flight writes what it holds, and is over.
LEMMA WriteIsSave ==
  ASSUME Inv, Alone, Past, NEW p \in Requests, SaveWrite(p)
  PROVE  LET k == req[p].id
         IN  /\ k \in Ids /\ rows[k] \in Row /\ req[p].mem \in Row
             /\ rows' = [rows EXCEPT ![k] = MergeRow(rows[k], req[p].mem, rows[k])]
             /\ rows[k].status \in Active
             /\ req[p].mem.start < req[p].mem.end
             /\ req[p].mem.status \notin {"COMPLETED", "NO_SHOW"}
BY RequestTypes, WriterNotOvertaken DEF SaveWrite, WriteRow, Held, RequestFresh, Past, RequestOpen

LEMMA WriteIsMark ==
  ASSUME Inv, Alone, Past, NEW j \in Jobs, JobWrite(j)
  PROVE  LET k == job[j].id
         IN  /\ k \in Ids /\ rows[k] \in Row /\ job[j].mem \in Row
             /\ rows' = [rows EXCEPT ![k] = MergeRow(rows[k], job[j].mem, rows[k])]
             /\ rows[k].status = "CONFIRMED"
             /\ job[j].mem.status \in {"COMPLETED", "NO_SHOW"}
BY JobTypes, WriterNotOvertaken DEF JobWrite, WriteRow, Held, JobFresh

\* The calls that write, with what they leave alone.
LEMMA WhoWrites ==
  ASSUME Inv, [Next]_vars, rows' # rows
  PROVE  /\ UNCHANGED <<acc, granted>>
         /\ \/ /\ job' = job
               /\ \E p \in Requests : SaveWrite(p) \/ \E k \in Ids : CreateInsert(p, k)
            \/ req' = req /\ \E j \in Jobs : JobWrite(j)
<1>1. CASE Request
  <2> PICK p \in Requests : ResBegin(p) \/ ResStep(p)
    BY <1>1 DEF Request
  <2>1. SaveWrite(p) \/ \E k \in Ids : CreateInsert(p, k)
    BY ZenonT(40) DEF ResBegin, ResStep, CreateBegin, UpdateTimes, UpdateDetails, CancelBegin,
           ConfirmBegin, Begin, CreateCheck, UpdateCheck, Goto, Reject, CancelTokens,
           SaveLoad, Abort, store
  <2> QED BY <1>1, <2>1 DEF Request
<1>2. CASE Cron
  <2> PICK j \in Jobs : JobNew(j) \/ JobStep(j)
    BY <1>2 DEF Cron
  <2>1. JobWrite(j)
    BY DEF JobNew, JobStep, JobDecide, NoShowScan, CompletionScan, Scan, NoShowMark,
           NoShowSkip, CompletionMark, Mark, JobLoad, JobAbort, store
  <2> QED BY <1>2, <2>1 DEF Cron
<1>3. CASE Entry
  BY <1>3 DEF Entry, AccNew, AccStep, GenerateBegin, VerifyBegin, AccBegin, GenerateReuse,
     GenerateNew, GenerateInsert, VerifyLoad, VerifyWrite, AccAbort, AccDone, store
<1> QED BY <1>1, <1>2, <1>3 DEF Next, Time, Clock, Tick, vars, store

\* Who writes is the only one in flight, and is not afterwards.
LEMMA WriteSlots ==
  ASSUME Inv, Alone, Past, Slots, [Next]_vars, rows' # rows
  PROVE  Slots'
<1>1. CASE /\ job' = job
           /\ \E p \in Requests : SaveWrite(p) \/ \E k \in Ids : CreateInsert(p, k)
  <2> PICK p \in Requests : SaveWrite(p) \/ \E k \in Ids : CreateInsert(p, k)
    BY <1>1
  <2>0. /\ req \in [Requests -> Call] /\ rows \in [Ids -> Row \cup {NoRow}]
        /\ RequestSlot(p) /\ RowsAsked /\ req[p].pc # "idle"
    BY RequestTypes DEF Slots, SaveWrite, CreateInsert
  <2>1. InFlight \subseteq {p}
    BY <2>0 DEF Alone, InFlight
  <2>2. /\ \A q \in Requests : req'[q].pc = "idle"
        /\ \A j \in Jobs : job'[j].pc = "idle"
    <3>1. req' = [req EXCEPT ![p] = Idle]
      BY DEF SaveWrite, CreateInsert
    <3>2. \A q \in Requests \ {p} : req[q].pc = "idle"
      BY <2>1 DEF InFlight
    <3>3. \A j \in Jobs : job[j].pc = "idle"
      BY <2>1, KindsDisjoint DEF InFlight
    <3> QED BY <1>1, <2>0, <3>1, <3>2, <3>3 DEF Idle
  <2>3. RowsAsked'
    <3>1. CASE SaveWrite(p)
      BY <2>0, <3>1, WriteIsSave, MergeFresh DEF RowsAsked, RequestSlot, Asked
    <3>2. CASE \E k \in Ids : CreateInsert(p, k)
      BY <2>0, <3>2 DEF CreateInsert, WriteRow, RowsAsked, RequestSlot, Asked
    <3> QED BY <3>1, <3>2
  <2> QED BY <2>2, <2>3 DEF Slots, RequestSlot, JobSlot
<1>2. CASE req' = req /\ \E j \in Jobs : JobWrite(j)
  <2> PICK j \in Jobs : JobWrite(j)
    BY <1>2
  <2>0. /\ job \in [Jobs -> Run] /\ rows \in [Ids -> Row \cup {NoRow}]
        /\ JobSlot(j) /\ RowsAsked /\ job[j].pc = "write"
    BY JobTypes DEF Slots, JobWrite
  <2>1. InFlight \subseteq {j}
    BY <2>0 DEF Alone, InFlight
  <2>2. /\ \A q \in Requests : req'[q].pc = "idle"
        /\ \A k \in Jobs : job'[k].pc \in {"idle", "next"}
    <3>1. job' = [job EXCEPT ![j] = After(j, job[j].id)]
      BY DEF JobWrite
    <3>2. After(j, job[j].id).pc \in {"idle", "next"}
      BY DEF After, JobIdle
    <3>3. \A k \in Jobs \ {j} : job[k].pc = "idle"
      BY <2>1 DEF InFlight
    <3>4. \A q \in Requests : req[q].pc = "idle"
      BY <2>1, KindsDisjoint DEF InFlight
    <3> QED BY <1>2, <2>0, <3>1, <3>2, <3>3, <3>4
  <2>3. RowsAsked'
    <3> DEFINE k == job[j].id
    <3>1. /\ k \in Ids /\ rows[k] \in Row /\ job[j].mem \in Row
          /\ rows' = [rows EXCEPT ![k] = MergeRow(rows[k], job[j].mem, rows[k])]
      BY WriteIsMark
    <3>2. rows'[k].start = rows[k].start /\ rows'[k].end = rows[k].end
      BY <2>0, <3>1, MergeFresh DEF JobSlot, SameDetails
    <3>3. rows[k] # NoRow /\ \A x \in Ids \ {k} : rows'[x] = rows[x]
      BY <2>0, <3>1, NoRowAssumption
    <3> QED BY <2>0, <3>1, <3>2, <3>3 DEF RowsAsked, Asked
  <2> QED BY <2>2, <2>3 DEF Slots, RequestSlot, JobSlot
<1> QED BY <1>1, <1>2, WhoWrites

-----------------------------------------------------------------------------
\* What the steps rest on.
Safe == Inv /\ Alone /\ Past /\ Slots /\ NoDoubleBooking

LEMMA SafeInvariant ==
  ASSUME ProcessesFinite, MaxInFlight <= 1
  PROVE  Spec => []Safe
<1>1. Init => Safe
  BY InitInv, InitAlone, InitPast, InitSlots
     DEF Init, ResInit, StoreInit, NoDoubleBooking, Clash, Safe
<1>2. Safe /\ [Next]_vars => Safe'
  <2> SUFFICES ASSUME Safe, [Next]_vars
               PROVE  Safe'
    OBVIOUS
  <2>1. Inv' /\ Alone' /\ Past'
    BY NextInv, NextAlone, NextPast DEF Safe
  <2>2. Slots'
    BY QuietSlots, WriteSlots DEF Safe
  <2>3. NoDoubleBooking'
    BY NoNewClash DEF NoDoubleBooking, Safe
  <2> QED BY <2>1, <2>2, <2>3 DEF Safe
<1> QED BY <1>1, <1>2, PTL DEF Spec

LEMMA BookingOf ==
  ASSUME NEW r \in Row
  PROVE  /\ Booking(r) = [room |-> r.room, start |-> r.start, end |-> r.end, status |-> r.status]
         /\ Booking(r) # NoRow
BY NoRowAssumption, BookingAssumption DEF Booking, Row

\* The calendar is changed where the table is.
LEMMA RowChanges ==
  ASSUME rows \in [Ids -> Row \cup {NoRow}], NEW k \in Ids, NEW r \in Row,
         rows' = [rows EXCEPT ![k] = r]
  PROVE  [i \in Ids |-> Booking(rows[i])]'
           = [[i \in Ids |-> Booking(rows[i])] EXCEPT ![k] = Booking(r)]
BY DEF Booking

LEMMA InsertBooks ==
  ASSUME Safe, NEW p \in Requests, NEW i \in Ids, CreateInsert(p, i)
  PROVE  Calendar!Book(i)
<1> DEFINE m == req[p].mem
<1>1. /\ rows \in [Ids -> Row \cup {NoRow}]
      /\ m \in Row /\ m.start < m.end /\ m.status = "PENDING" /\ Asked(m)
      /\ rows[i] = NoRow
      /\ rows' = [rows EXCEPT ![i] = m]
  BY RequestTypes DEF Safe, CreateInsert, Held, Past, RequestOpen, Slots, RequestSlot, WriteRow
<1>2. \A k \in Ids : ~Blocks(rows[k], m.room, m.start, m.end)
  BY RequestTypes, WriterNotOvertaken DEF Safe, CreateInsert, RequestFresh
<1> HIDE DEF m
<1>3. Booking(m) = [room |-> m.room, start |-> m.start, end |-> m.end, status |-> "PENDING"]
  BY <1>1, NoRowAssumption DEF Booking
<1>4. Calendar!FreeFor(i, Booking(m))
  BY <1>1, <1>2, <1>3, BookingOf
     DEF Calendar!FreeFor, Calendar!IsActive, Calendar!Active, Calendar!Overlap, Booking, Blocks, Active, Row
<1>5. Calendar!Enter(i, [room |-> m.room, start |-> m.start, end |-> m.end,
                         status |-> "PENDING"])
  <2>1. [k \in Ids |-> Booking(rows[k])]'
          = [[k \in Ids |-> Booking(rows[k])] EXCEPT ![i] = Booking(m)]
    BY <1>1, RowChanges
  <2> QED BY <1>1, <1>3, <1>4, <2>1 DEF Calendar!Enter
<1>6. m.room \in Rooms /\ m.start \in Starts \cup Ends /\ m.end \in Starts \cup Ends
  BY <1>1 DEF Asked, Row
<1>7. Booking(rows[i]) = NoRow
  BY <1>1 DEF Booking
<1> QED BY <1>5, <1>6, <1>7 DEF Calendar!Book

LEMMA SaveChanges ==
  ASSUME Safe, NEW p \in Requests, SaveWrite(p)
  PROVE  \E k \in Ids : Calendar!Move(k) \/ Calendar!Confirm(k) \/ Calendar!Cancel(k)
<1> DEFINE k == req[p].id
           m == req[p].mem
           r == MergeRow(rows[k], m, rows[k])
<1>1. /\ rows \in [Ids -> Row \cup {NoRow}]
      /\ k \in Ids /\ rows[k] \in Row /\ m \in Row
      /\ rows' = [rows EXCEPT ![k] = r]
      /\ rows[k].status \in Active /\ m.status \notin {"COMPLETED", "NO_SHOW"}
      /\ m.start < m.end /\ Asked(m)
      /\ m.status # rows[k].status => SameDetails(m, rows[k])
  BY RequestTypes, WriteIsSave DEF Safe, SaveWrite, Slots, RequestSlot
<1>2. r \in Row /\ r.start = m.start /\ r.end = m.end /\ r.status = m.status /\ r.room = rows[k].room
  BY <1>1, MergeFresh, MergeRowType
<1>3. /\ m.status = rows[k].status \/ <<rows[k].status, m.status>> \in Moves
      /\ m.room = rows[k].room
      /\ m.status \in Active =>
           \A l \in Ids \ {k} : Blocks(rows[l], m.room, m.start, m.end)
                                  => Blocks(rows[l], rows[k].room, rows[k].start, rows[k].end)
  <2>1. req[p].pc = "write" /\ untouched[p] = Ids /\ RequestFresh(p)
    BY RequestTypes, WriterNotOvertaken DEF Safe, SaveWrite
  <2> QED BY <1>1, <2>1 DEF RequestFresh
<1> HIDE DEF k, m, r
<1>4. Booking(r) = [room |-> rows[k].room, start |-> m.start, end |-> m.end, status |-> m.status]
  BY <1>2, BookingOf
<1>5. /\ Booking(rows[k]) = [room |-> rows[k].room, start |-> rows[k].start,
                             end |-> rows[k].end, status |-> rows[k].status]
      /\ Booking(rows[k]) # NoRow
  BY <1>1, BookingOf
<1>0. Calendar!IsActive(k)
  <2>1. Booking(rows[k]).status \in {"PENDING", "CONFIRMED"}
    BY <1>1, <1>5 DEF Active
  <2> QED BY <1>1, <1>5, <2>1 DEF Calendar!IsActive, Calendar!Active
<1>6. [i \in Ids |-> Booking(rows[i])]'
        = [[i \in Ids |-> Booking(rows[i])] EXCEPT ![k] = Booking(r)]
  BY <1>1, <1>2, RowChanges
<1>7. CASE m.status = rows[k].status
  <2>1. \A l \in Ids \ {k} : ~Blocks(rows[l], m.room, m.start, m.end)
    <3> SUFFICES ASSUME NEW l \in Ids \ {k}, Blocks(rows[l], m.room, m.start, m.end)
                 PROVE  FALSE
      OBVIOUS
    <3>1. Clash(k, l)
      BY <1>1, <1>3, <1>7, NoRowAssumption DEF Clash
    <3> QED BY <1>1, <3>1 DEF Safe, NoDoubleBooking
  <2>2. Calendar!FreeFor(k, Booking(r))
    BY <1>1, <1>3, <1>4, <2>1, NoRowAssumption
       DEF Calendar!FreeFor, Calendar!IsActive, Calendar!Active, Calendar!Overlap, Booking,
           Blocks, Active, Row
  <2>3. Calendar!Enter(k, Booking(r))
    BY <1>1, <1>4, <1>6, <2>2 DEF Calendar!Enter
  <2>4. Booking(r) = [Booking(rows[k]) EXCEPT !.start = m.start, !.end = m.end]
    <3>1. ASSUME NEW x, x = [[room |-> rows[k].room, start |-> rows[k].start,
                              end |-> rows[k].end, status |-> rows[k].status]
                               EXCEPT !.start = m.start, !.end = m.end]
          PROVE  x = [room |-> rows[k].room, start |-> m.start, end |-> m.end,
                      status |-> rows[k].status]
      BY <3>1
    <3> QED BY <1>4, <1>5, <1>7, <3>1
  <2>5. Calendar!Enter(k, [Booking(rows[k]) EXCEPT !.start = m.start, !.end = m.end])
    BY <2>3, <2>4
  <2> QED BY <1>0, <1>1, <2>5 DEF Calendar!Move, Asked
<1>8. CASE m.status # rows[k].status
  <2>1. Booking(r) = [Booking(rows[k]) EXCEPT !.status = m.status]
    BY <1>1, <1>4, <1>5, <1>8 DEF SameDetails
  <2>2. Calendar!SetStatus(k, m.status)
    BY <1>1, <1>6, <2>1 DEF Calendar!SetStatus
  <2>3. CASE m.status = "CANCELLED"
    BY <1>0, <1>1, <2>2, <2>3 DEF Calendar!Cancel
  <2>4. CASE rows[k].status = "PENDING" /\ m.status = "CONFIRMED"
    BY <1>1, <1>5, <2>2, <2>4 DEF Calendar!Confirm
  <2>5. m.status = "CANCELLED" \/ (rows[k].status = "PENDING" /\ m.status = "CONFIRMED")
    <3>1. <<rows[k].status, m.status>> \in Moves
      BY <1>3, <1>8
    <3> QED BY <1>1, <3>1 DEF Moves, Active
  <2> QED BY <2>3, <2>4, <2>5
<1> QED BY <1>7, <1>8

LEMMA MarkFinishes ==
  ASSUME Safe, NEW j \in Jobs, JobWrite(j)
  PROVE  \E k \in Ids : Calendar!Finish(k)
<1> DEFINE k == job[j].id
           m == job[j].mem
           r == MergeRow(rows[k], m, rows[k])
<1>1. /\ rows \in [Ids -> Row \cup {NoRow}]
      /\ k \in Ids /\ rows[k] \in Row /\ m \in Row
      /\ rows' = [rows EXCEPT ![k] = r]
      /\ rows[k].status = "CONFIRMED" /\ m.status \in {"COMPLETED", "NO_SHOW"}
      /\ SameDetails(m, rows[k])
  BY JobTypes, WriteIsMark DEF Safe, JobWrite, Slots, JobSlot
<1>2. r \in Row /\ r.start = m.start /\ r.end = m.end /\ r.status = m.status /\ r.room = rows[k].room
  BY <1>1, MergeFresh, MergeRowType
<1> HIDE DEF k, m, r
<1>3. Booking(r) = [Booking(rows[k]) EXCEPT !.status = m.status]
  <2>1. /\ Booking(r) = [room |-> rows[k].room, start |-> rows[k].start,
                         end |-> rows[k].end, status |-> m.status]
        /\ Booking(rows[k]) = [room |-> rows[k].room, start |-> rows[k].start,
                               end |-> rows[k].end, status |-> rows[k].status]
    BY <1>1, <1>2, BookingOf DEF SameDetails
  <2>2. [room |-> rows[k].room, start |-> rows[k].start, end |-> rows[k].end, status |-> m.status]
          = [[room |-> rows[k].room, start |-> rows[k].start, end |-> rows[k].end,
              status |-> rows[k].status] EXCEPT !.status = m.status]
    OBVIOUS
  <2> QED BY <2>1, <2>2
<1>4. Calendar!SetStatus(k, m.status)
  BY <1>1, <1>2, <1>3, RowChanges DEF Calendar!SetStatus
<1>5. Booking(rows[k]) # NoRow /\ Booking(rows[k]).status = "CONFIRMED"
  BY <1>1, BookingOf
<1> QED BY <1>1, <1>4, <1>5 DEF Calendar!Finish

(* When calls run one at a time, the reservations are a calendar: each      *)
(* write is a booking, a move, a confirmation, a cancellation or an end     *)
(* that the calendar allows, and everything else leaves it as it is.        *)
THEOREM AloneImplementsCalendar ==
  ASSUME ProcessesFinite, MaxInFlight <= 1
  PROVE  Spec => ImplementsCalendar
<1>1. Init => Calendar!Init
  BY DEF Init, ResInit, StoreInit, Calendar!Init, Booking
<1>2. Safe /\ [Next]_vars => [Calendar!Next]_[i \in Ids |-> Booking(rows[i])]
  <2> SUFFICES ASSUME Safe, [Next]_vars
               PROVE  [Calendar!Next]_[i \in Ids |-> Booking(rows[i])]
    OBVIOUS
  <2>1. CASE rows' = rows
    BY <2>1
  <2>2. CASE rows' # rows
    BY <2>2, WhoWrites, InsertBooks, SaveChanges, MarkFinishes DEF Safe, Calendar!Next
  <2> QED BY <2>1, <2>2
<1> QED BY <1>1, <1>2, SafeInvariant, PTL DEF Spec, ImplementsCalendar, Calendar!Spec

=============================================================================
