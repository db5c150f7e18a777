\* Liveness: nothing bounds the calls in flight but the processes there are.
SPECIFICATION ClosingsSpec
CONSTANTS
  Ids = {r1, r2}
  TokenIds = {k1}
  Users = {u1}
  Rooms = {room1, room2}
  Requests = {p1}
  Doors = {d1}
  Minute = 1
  DayLength = 12
  MinDuration = 1
  MaxDuration = 3
  UpdateLead = 2
  CancelLead = 1
  TokenLead = 0
  TokenLife = 1
  NoShowGrace = 0
  Starts = {1}
  Ends = {2}
  Parties = {1}
  MaxTime = 3
  MaxInFlight = 4
  Prompt = FALSE
  Jobs <- MCJobs
  Capacity <- MCCapacity
  Hours <- MCHours
  NoRow = NoRow
  NoToken = NoToken
  NoTime = NoTime
  NoId = NoId
PROPERTIES
  ConfirmedIsClosed
