\* One call at a time.
SPECIFICATION Spec
CONSTANTS
  Ids = {r1}
  TokenIds = {k1, k2}
  Users = {u1}
  Rooms = {room1}
  Requests = {p1}
  Doors = {d1}
  Minute = 2
  DayLength = 12
  MinDuration = 2
  MaxDuration = 3
  UpdateLead = 3
  CancelLead = 2
  TokenLead = 1
  TokenLife = 2
  NoShowGrace = 1
  Starts = {3}
  Ends = {5}
  Parties = {1}
  MaxTime = 6
  MaxInFlight = 1
  Prompt = TRUE
  Jobs <- MCJobs
  Capacity <- MCCapacity
  Hours <- MCHours
  NoRow = NoRow
  NoToken = NoToken
  NoTime = NoTime
  NoId = NoId
SYMMETRY Symmetry
PROPERTIES
  AttendedNotNoShow
