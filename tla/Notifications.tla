---------------------------- MODULE Notifications ----------------------------
(***************************************************************************)
(* NotificationsGateway, the guard of its messages, NotificationsService.  *)
(* A socket subscribes for users: the gateway keeps a map of who holds     *)
(* which sockets and lets the socket join the user's channel; the service  *)
(* sends to channels.  Map and channels are two copies of one fact: a      *)
(* socket that goes leaves its channels at once (socket.io), while its     *)
(* messages may still wait at the guard's await.  The messages of one      *)
(* socket pass the guard in the order they were sent: the token is         *)
(* verified at once, and all of them wait for the same promises.           *)
(***************************************************************************)
EXTENDS Integers, Sequences, FiniteSets

CONSTANTS
  Sockets,     \* ids of sockets
  Users,
  RoomIds,
  MaxPending   \* bound of the messages of one socket under way

ASSUME PendingAssumption == MaxPending \in Nat

VARIABLES
  connected,        \* the sockets that are connected
  valid,            \* those whose token of the handshake the guard accepts
  userConnections,  \* the map of the gateway: user -> set of sockets
  joined,           \* the users whose channel a socket has joined
  pending,          \* the messages sent and not yet handled, oldest first
  wants             \* the users the client of a socket last subscribed for

vars == <<connected, valid, userConnections, joined, pending, wants>>

Message == [event : {"subscribe", "unsubscribe"}, user : Users]

\* The sockets a user is known by, none if the map lacks him.
SocketIds(u) == IF u \in DOMAIN userConnections THEN userConnections[u] ELSE {}

Holders(s) == {u \in Users : s \in SocketIds(u)}

TypeOK ==
  /\ connected \subseteq Sockets
  /\ valid \subseteq Sockets
  /\ DOMAIN userConnections \subseteq Users
  /\ userConnections \in [DOMAIN userConnections -> SUBSET Sockets]
  /\ joined \in [Sockets -> SUBSET Users]
  /\ pending \in [Sockets -> Seq(Message)]
  /\ \A s \in Sockets : Len(pending[s]) <= MaxPending
  /\ wants \in [Sockets -> SUBSET Users]

Init ==
  /\ connected = {}
  /\ valid = {}
  /\ userConnections = [u \in {} |-> {}]
  /\ joined = [s \in Sockets |-> {}]
  /\ pending = [s \in Sockets |-> <<>>]
  /\ wants = [s \in Sockets |-> {}]

-----------------------------------------------------------------------------
\* The map after s is added to, or deleted from, the set of u.
\* Mutant: user and socket are mixed up.
WithSwapped(u, s) ==
  [v \in DOMAIN userConnections \cup {s} |->
     IF v = s THEN {u} ELSE userConnections[v]]

With(u, s) ==
  [v \in DOMAIN userConnections \cup {u} |->
     IF v = u THEN SocketIds(u) \cup {s} ELSE userConnections[v]]

Without(u, s) ==
  [v \in DOMAIN userConnections \ (IF SocketIds(u) \subseteq {s} THEN {u} ELSE {}) |->
     IF v = u THEN userConnections[u] \ {s} ELSE userConnections[v]]

-----------------------------------------------------------------------------
\* A client connects, with a token or without a good one; ids are not used twice.
Connect(s) ==
  /\ s \notin connected
  /\ Holders(s) = {}
  /\ pending[s] = <<>>
  /\ connected' = connected \cup {s}
  /\ valid' \in {valid \cup {s}, valid \ {s}}
  /\ UNCHANGED <<userConnections, joined, pending, wants>>

\* The client asks for, or no longer wants, the messages of a user.
Ask(s, m) ==
  /\ s \in connected
  /\ Len(pending[s]) < MaxPending
  /\ pending' = [pending EXCEPT ![s] = Append(@, m)]
  /\ wants' = [wants EXCEPT ![s] = IF m.event = "subscribe" THEN @ \cup {m.user}
                                   ELSE @ \ {m.user}]
  /\ UNCHANGED <<connected, valid, userConnections, joined>>

\* Mutant: a message that another one has followed is put off.
AdmittedLast(s, event) ==
  /\ Len(pending[s]) = 1
  /\ Head(pending[s]).event = event
  /\ s \in valid
  /\ pending' = [pending EXCEPT ![s] = Tail(@)]

\* The oldest message of s is one of this kind, and the guard lets it through.
Admitted(s, event) ==
  /\ pending[s] # <<>>
  /\ Head(pending[s]).event = event
  /\ s \in valid
  /\ pending' = [pending EXCEPT ![s] = Tail(@)]

\* WsJwtGuard throws: the token is missing, malformed or has expired.
Refuse(s) ==
  /\ pending[s] # <<>>
  /\ s \notin valid
  /\ pending' = [pending EXCEPT ![s] = Tail(@)]
  /\ UNCHANGED <<connected, valid, userConnections, joined, wants>>

\* Mutant: only the first device of a user joins his channel.
HandleSubscribeFirst(s) ==
  /\ Admitted(s, "subscribe")
  /\ LET u == Head(pending[s]).user
     IN  /\ userConnections' = With(u, s)
         /\ joined' = [joined EXCEPT ![s] = IF s \in connected /\ SocketIds(u) = {}
                                            THEN @ \cup {u} ELSE @]
  /\ UNCHANGED <<connected, valid, wants>>

\* join of a socket that has gone does nothing; the map is changed all the same.
HandleSubscribe(s) ==
  /\ Admitted(s, "subscribe")
  /\ LET u == Head(pending[s]).user
     IN  /\ userConnections' = With(u, s)
         /\ joined' = [joined EXCEPT ![s] = IF s \in connected THEN @ \cup {u} ELSE @]
  /\ UNCHANGED <<connected, valid, wants>>

HandleUnsubscribe(s) ==
  /\ Admitted(s, "unsubscribe")
  /\ LET u == Head(pending[s]).user
     IN  /\ userConnections' = Without(u, s)
         /\ joined' = [joined EXCEPT ![s] = @ \ {u}]
  /\ UNCHANGED <<connected, valid, wants>>

\* handleDisconnect's loop ends at the first user it finds holding the socket.
Forgotten(s) ==
  IF Holders(s) = {} THEN {userConnections}
  ELSE {Without(u, s) : u \in Holders(s)}

\* The connection ends: socket.io leaves the channels, the gateway forgets the
\* socket; of the messages under way those at the guard are handled yet.
Disconnect(s) ==
  /\ s \in connected
  /\ connected' = connected \ {s}
  /\ joined' = [joined EXCEPT ![s] = {}]
  /\ wants' = [wants EXCEPT ![s] = {}]
  /\ userConnections' \in Forgotten(s)
  /\ \E n \in 0 .. Len(pending[s]) :
       pending' = [pending EXCEPT ![s] = SubSeq(@, 1, n)]
  /\ UNCHANGED valid

\* The token of a handshake runs out; the connection stays.
Expire(s) ==
  /\ s \in valid
  /\ valid' = valid \ {s}
  /\ UNCHANGED <<connected, userConnections, joined, pending, wants>>

\* The server stops and comes back: all of this is in its memory only.
Restart ==
  /\ connected' = {}
  /\ valid' = {}
  /\ userConnections' = [u \in {} |-> {}]
  /\ joined' = [s \in Sockets |-> {}]
  /\ pending' = [s \in Sockets |-> <<>>]
  /\ wants' = [s \in Sockets |-> {}]

Handle(s) == Refuse(s) \/ HandleSubscribe(s) \/ HandleUnsubscribe(s)

Next ==
  \/ \E s \in Sockets :
       \/ Connect(s)
       \/ \E m \in Message : Ask(s, m)
       \/ Handle(s)
       \/ Disconnect(s)
       \/ Expire(s)
  \/ Restart

Spec == Init /\ [][Next]_vars

(* Node runs every handler of a message that has arrived.                   *)
LiveSpec == Spec /\ \A s \in Sockets : WF_vars(Handle(s))

-----------------------------------------------------------------------------
(* NotificationsService: what each method sends, as the sequence of the     *)
(* gateway's emits.                                                         *)
SendToUser(u, event) == <<[to |-> <<"user", u>>, event |-> event]>>
SendToAdmins(event) == <<[to |-> <<"admins">>, event |-> event]>>
SendToRoom(r, event) == <<[to |-> <<"room", r>>, event |-> event]>>

NotifyReservationCreated(u) ==
  SendToUser(u, "reservation:created") \o SendToAdmins("reservation:created")

NotifyReservationUpdated(u) ==
  SendToUser(u, "reservation:updated") \o SendToAdmins("reservation:updated")

NotifyReservationCancelled(u, r) ==
  SendToUser(u, "reservation:cancelled") \o SendToAdmins("reservation:cancelled")
    \o SendToRoom(r, "room:available")

NotifyReservationCompleted(u, r) ==
  SendToUser(u, "reservation:completed") \o SendToRoom(r, "room:available")

\* Mutant: the room's message goes to the user, too.
NotifyReservationNoShowTwice(u, r) ==
  SendToUser(u, "reservation:no_show") \o SendToAdmins("reservation:no_show")
    \o SendToUser(u, "room:available") \o SendToRoom(r, "room:available")

NotifyReservationNoShow(u, r) ==
  SendToUser(u, "reservation:no_show") \o SendToAdmins("reservation:no_show")
    \o SendToRoom(r, "room:available")

NotifyRoomOccupied(r) ==
  SendToRoom(r, "room:occupied") \o SendToAdmins("room:occupied")

NotifyRoomAvailable(r) == SendToRoom(r, "room:available")

NotifyAccessGranted(u) == SendToUser(u, "access:granted")
NotifyAccessDenied(u) == SendToUser(u, "access:denied")

Told(u, r) ==
  {NotifyReservationCreated(u), NotifyReservationUpdated(u),
   NotifyReservationCancelled(u, r), NotifyReservationCompleted(u, r),
   NotifyReservationNoShow(u, r), NotifyAccessGranted(u), NotifyAccessDenied(u)}

ToldOfRoom(r) == {NotifyRoomOccupied(r), NotifyRoomAvailable(r)}

\* How many of these emits a socket receives, and which it has joined for.
Copies(s, sent) ==
  Cardinality({i \in DOMAIN sent : sent[i].to \in {<<"user", u>> : u \in joined[s]}})

-----------------------------------------------------------------------------
(* Map and channels agree: of a connected socket the map of userConnections *)
(* says who may be told, the channel who is; a socket that has gone is in   *)
(* no channel, and no user is kept without a socket.                        *)
MapMirrorsChannels ==
  /\ \A s \in Sockets : joined[s] = IF s \in connected THEN Holders(s) ELSE {}
  /\ \A u \in DOMAIN userConnections : userConnections[u] # {}

\* Nothing about u is under way between the client of s and the gateway.
Settled(s, u) ==
  s \in connected \cap valid /\ \A i \in DOMAIN pending[s] : pending[s][i].user # u

(* Once its messages are handled a client is told exactly of the users it   *)
(* last subscribed for, however often it has changed its mind, whatever     *)
(* other devices of the same users do, and as long as its token is good:    *)
(* each notification once, those of rooms (which no client can ask for)     *)
(* never.                                                                   *)
EachDeviceHearsOnce ==
  \A s \in Sockets, u \in Users, r \in RoomIds : Settled(s, u) =>
    /\ \A sent \in Told(u, r) :
         Copies(s, sent) = IF u \in wants[s] THEN 1 ELSE 0
    /\ \A sent \in ToldOfRoom(r) : Copies(s, sent) = 0

(* A client that keeps wanting a user's notifications gets them, unless it  *)
(* loses its connection or its token runs out.                              *)
SubscriptionTakesEffect ==
  \A s \in Sockets, u \in Users :
    (s \in connected \cap valid /\ u \in wants[s])
      ~> (u \in joined[s] \/ s \notin connected \cap valid \/ u \notin wants[s])
=============================================================================
