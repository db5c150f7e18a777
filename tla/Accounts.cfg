CONSTANTS
  Users = {u1, u2}
  Subjects = {u2}
  Profiles = {f1}
  Secrets = {s1, s2}
  Clients = {p1, p2}
  MaxInFlight = 2
  Prompt = TRUE
  MayFail = TRUE
  NoUser = NoUser
  Same = Same
  NoEntry = NoEntry
  ShortTTL = 1
  MediumTTL = 1
  LongTTL = 2
SYMMETRY Symmetry
SPECIFICATION Spec
INVARIANTS AccountsTypeOK ChangeTakesHold StatisticsAddUp
PROPERTIES OnlyAskedFor
