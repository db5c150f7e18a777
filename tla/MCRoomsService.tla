--------------------------- MODULE MCRoomsService ---------------------------
\* RoomsService on small sets of values.
EXTENDS RoomsService, TLC

Symmetry == Permutations(RoomIds) \cup Permutations(Clients) \cup Permutations(HoursValues)
              \cup Permutations(Numbers)
=============================================================================
