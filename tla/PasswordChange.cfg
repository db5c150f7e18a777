CONSTANTS
  Users = {u1, u2}
  Subjects = {u2}
  Profiles = {f1}
  Secrets = {s1, s2}
  Clients = {p1, p2}
  MaxInFlight = 1
  Prompt = TRUE
  MayFail = FALSE
  NoUser = NoUser
  Same = Same
  NoEntry = NoEntry
  ShortTTL = 1
  MediumTTL = 1
  LongTTL = 1
SPECIFICATION Spec
PROPERTIES RightPasswordAccepted
