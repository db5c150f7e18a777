\* One call at a time: what the handlers guarantee when none overtakes another;
\* an administrator reads meanwhile.
SPECIFICATION MCSpec
CONSTANTS
  Ids = {r1, r2}
  TokenIds = {k1, k2}
  Users = {u1}
  Rooms = {room1}
  Requests = {p1}
  Doors = {d1}
  Minute = 2
  DayLength = 12
  MinDuration = 2
  MaxDuration = 3
  UpdateLead = 3
  CancelLead = 2
  TokenLead = 1
  TokenLife = 2
  NoShowGrace = 1
  Starts = {3, 5}
  Ends = {5, 7}
  Parties = {1, 2}
  MaxTime = 8
  MaxInFlight = 1
  Prompt = FALSE
  Queries <- MCQueries
  Limits = {1}
  IdOrder <- MCIdOrder
  NoFilter = NoFilter
  Jobs <- MCJobs
  Capacity <- MCCapacity
  Hours <- MCHours
  NoRow = NoRow
  NoToken = NoToken
  NoTime = NoTime
  NoId = NoId
SYMMETRY MCSymmetry
INVARIANTS
  TypeOK
  NoDoubleBooking
  TokenFollowsStart
  CancelledHasNoKey
  ClosedInThePast
  OneOccupant
  ReportTypeOK
  FiguresAddUp
PROPERTIES
  ClosedIsFinal
  ImplementsCalendar
  WalkMissesNothing
