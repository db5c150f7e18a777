CONSTANTS
  RoomIds = {r1}
  Dates = {d1}
  Numbers = {n1, n2}
  HoursValues = {h1, h2}
  Clients = {p1, p2}
  MaxInFlight = 1
  Prompt = TRUE
  MayFail = FALSE
  NoRoom = NoRoom
  NoId = NoId
  Same = Same
  NoEntry = NoEntry
  ShortTTL = 1
  MediumTTL = 1
  LongTTL = 2
SPECIFICATION Spec
INVARIANT AvailabilityCurrent
