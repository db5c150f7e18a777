CONSTANTS
  RoomIds = {r1}
  Dates = {d1}
  Numbers = {n1, n2}
  HoursValues = {h1, h2}
  Clients = {p1, p2}
  MaxInFlight = 2
  Prompt = TRUE
  MayFail = TRUE
  NoRoom = NoRoom
  NoId = NoId
  Same = Same
  NoEntry = NoEntry
  ShortTTL = 1
  MediumTTL = 1
  LongTTL = 2
SYMMETRY Symmetry
SPECIFICATION Spec
INVARIANTS RoomsTypeOK StaleOnlyIfTainted StaleBounded
PROPERTY LostOnlyIfStale
