\* Two sockets, two users, up to two messages of a socket under way.
SPECIFICATION LiveSpec
CONSTANTS
  Sockets = {s1, s2}
  Users = {u1, u2}
  RoomIds = {room1}
  MaxPending = 2
INVARIANTS
  TypeOK
  MapMirrorsChannels
  EachDeviceHearsOnce
PROPERTIES
  SubscriptionTakesEffect
