\* Any two calls interleave, each as slow as it likes.
SPECIFICATION CouplesSpec
CONSTANTS
  Ids = {r1, r2}
  TokenIds = {k1, k2}
  Users = {u1}
  Rooms = {room1}
  Requests = {p1, p2}
  Doors = {d1, d2}
  Minute = 2
  DayLength = 12
  MinDuration = 1
  MaxDuration = 3
  UpdateLead = 2
  CancelLead = 1
  TokenLead = 0
  TokenLife = 1
  NoShowGrace = 0
  Starts = {2, 3}
  Ends = {3, 4, 6}
  Parties = {1}
  MaxTime = 4
  MaxInFlight = 2
  Prompt = FALSE
  Jobs <- MCJobs
  Capacity <- MCCapacity
  Hours <- MCHours
  NoRow = NoRow
  NoToken = NoToken
  NoTime = NoTime
  NoId = NoId
SYMMETRY Symmetry
INVARIANTS
  EntryInWindow
PROPERTIES
  ClashOnlyIfOvertaken
  MoveOnlyIfOvertaken
  BreaksOnlyIfOvertaken
  SpentForGood
  TokensDoNotMultiply
