------------------------ MODULE Notifications_proofs ------------------------
(***************************************************************************)
(* Proofs about Notifications, for any number of sockets, users, rooms and *)
(* messages under way.                                                     *)
(***************************************************************************)
EXTENDS Notifications, FiniteSetTheorems, SequenceTheorems, TLAPS

\* Nobody wants anything through a socket that is not connected.
NothingWanted == \A s \in Sockets \ connected : wants[s] = {}

\* What the client of s wants of u is what its last message about u under way
\* asks for, or if there is none, what the gateway has done.
LastAsked(s, u) ==
  \/ \E i \in DOMAIN pending[s] :
       /\ pending[s][i].user = u
       /\ \A j \in DOMAIN pending[s] : j > i => pending[s][j].user # u
       /\ u \in wants[s] <=> pending[s][i].event = "subscribe"
  \/ /\ \A i \in DOMAIN pending[s] : pending[s][i].user # u
     /\ u \in wants[s] <=> u \in joined[s]

Followed == \A s \in connected \cap valid, u \in Users : LastAsked(s, u)

IInv == /\ TypeOK
        /\ MapMirrorsChannels
        /\ NothingWanted
        /\ Followed

NoneEmpty == \A u \in DOMAIN userConnections : userConnections[u] # {}

MapOK == /\ DOMAIN userConnections \subseteq Users
         /\ userConnections \in [DOMAIN userConnections -> SUBSET Sockets]
         /\ NoneEmpty

-----------------------------------------------------------------------------
\* What the gateway's two ways to change its map do to it.
LEMMA MapAdds ==
  ASSUME TypeOK, NoneEmpty, NEW u \in Users, NEW s \in Sockets,
         userConnections' = With(u, s)
  PROVE  /\ MapOK'
         /\ Holders(s)' = Holders(s) \cup {u}
         /\ \A t \in Sockets \ {s} : Holders(t)' = Holders(t)
<1>1. MapOK'
  BY DEF TypeOK, MapOK, NoneEmpty, With, SocketIds
<1>2. \A v \in Users : SocketIds(v)' = IF v = u THEN SocketIds(v) \cup {s} ELSE SocketIds(v)
  BY DEF TypeOK, With, SocketIds
<1> QED
  BY <1>1, <1>2 DEF Holders

LEMMA MapDrops ==
  ASSUME TypeOK, NoneEmpty, NEW u \in Users, NEW s \in Sockets,
         userConnections' = Without(u, s)
  PROVE  /\ MapOK'
         /\ Holders(s)' = Holders(s) \ {u}
         /\ \A t \in Sockets \ {s} : Holders(t)' = Holders(t)
<1>1. MapOK'
  BY DEF TypeOK, MapOK, NoneEmpty, Without, SocketIds
<1>2. \A v \in Users : SocketIds(v)' = IF v = u THEN SocketIds(v) \ {s} ELSE SocketIds(v)
  BY DEF TypeOK, Without, SocketIds
<1> QED
  BY <1>1, <1>2 DEF Holders

LEMMA MapSame ==
  ASSUME UNCHANGED userConnections
  PROVE  \A t \in Sockets : Holders(t)' = Holders(t)
BY DEF Holders, SocketIds

LEMMA HoldersType == ASSUME NEW s PROVE Holders(s) \in SUBSET Users
BY DEF Holders

\* The oldest message is taken from the queue of s.
LEMMA HeadTaken ==
  ASSUME TypeOK, NEW s \in Sockets, pending[s] # <<>>,
         pending' = [pending EXCEPT ![s] = Tail(@)]
  PROVE  /\ Head(pending[s]) \in Message
         /\ Head(pending[s]) = pending[s][1]
         /\ 1 \in DOMAIN pending[s]
         /\ pending' \in [Sockets -> Seq(Message)]
         /\ \A t \in Sockets : Len(pending'[t]) <= MaxPending
         /\ \A t \in Sockets \ {s} : pending'[t] = pending[t]
         /\ DOMAIN pending'[s] = 1 .. Len(pending[s]) - 1
         /\ DOMAIN pending[s] = 1 .. Len(pending[s])
         /\ \A i \in DOMAIN pending'[s] :
              i + 1 \in DOMAIN pending[s] /\ pending'[s][i] = pending[s][i + 1]
<1> DEFINE q == pending[s]
<1>1. q \in Seq(Message) /\ q # <<>> /\ Len(q) <= MaxPending
  BY DEF TypeOK
<1>2. /\ Head(q) \in Message
      /\ Tail(q) \in Seq(Message)
      /\ Len(Tail(q)) = Len(q) - 1
      /\ \A i \in 1 .. Len(Tail(q)) : Tail(q)[i] = q[i + 1]
  BY <1>1, HeadTailProperties
<1>3. Len(q) \in Nat \ {0} /\ DOMAIN q = 1 .. Len(q) /\ Head(q) = q[1]
  BY <1>1, EmptySeq, LenProperties
<1>4. DOMAIN Tail(q) = 1 .. Len(q) - 1
  BY <1>2, LenProperties
<1>5. pending'[s] = Tail(q) /\ \A t \in Sockets \ {s} : pending'[t] = pending[t]
  BY DEF TypeOK
<1>6. pending' \in [Sockets -> Seq(Message)]
  BY <1>2 DEF TypeOK
<1>7. \A t \in Sockets : Len(pending'[t]) <= MaxPending
  BY <1>1, <1>2, <1>3, <1>5, PendingAssumption DEF TypeOK
<1>8. \A i \in DOMAIN pending'[s] : i + 1 \in DOMAIN q /\ pending'[s][i] = q[i + 1]
  <2> SUFFICES ASSUME NEW i \in DOMAIN Tail(q)
               PROVE  i + 1 \in 1 .. Len(q) /\ Tail(q)[i] = q[i + 1]
    BY <1>3, <1>5
  <2>1. i \in 1 .. Len(q) - 1
    BY <1>4
  <2> HIDE DEF q
  <2> QED
    BY <2>1, <1>2, <1>3
<1> QED
  BY <1>2, <1>3, <1>4, <1>5, <1>6, <1>7, <1>8

\* A guard that refuses, too, takes the oldest message.
LEMMA RefuseStep ==
  ASSUME IInv, NEW s \in Sockets, Refuse(s)
  PROVE  IInv'
<1> USE DEF IInv
<1>1. /\ pending' \in [Sockets -> Seq(Message)]
      /\ \A t \in Sockets : Len(pending'[t]) <= MaxPending
      /\ \A t \in Sockets \ {s} : pending'[t] = pending[t]
  BY HeadTaken DEF Refuse
<1>2. TypeOK'
  BY <1>1 DEF Refuse, TypeOK
<1>3. \A t \in Sockets : Holders(t)' = Holders(t)
  BY MapSame DEF Refuse
<1>4. MapMirrorsChannels'
  BY <1>3 DEF Refuse, MapMirrorsChannels
<1>5. NothingWanted'
  BY DEF Refuse, NothingWanted
<1>6. Followed'
  BY <1>1 DEF Refuse, Followed, LastAsked
<1> QED
  BY <1>2, <1>4, <1>5, <1>6

\* What remains to be done once the oldest message of s has had its effect.
LEMMA FollowedTaken ==
  ASSUME IInv, NEW s \in Sockets, pending[s] # <<>>,
         pending' = [pending EXCEPT ![s] = Tail(@)],
         UNCHANGED <<connected, valid, wants>>,
         \A t \in Sockets \ {s} : joined'[t] = joined[t],
         NEW u \in Users, u = Head(pending[s]).user,
         s \in connected =>
           /\ u \in joined'[s] <=> Head(pending[s]).event = "subscribe"
           /\ \A v \in Users \ {u} : v \in joined'[s] <=> v \in joined[s]
  PROVE  Followed'
<1> USE DEF IInv
<1> SUFFICES ASSUME NEW t \in connected \cap valid, NEW v \in Users
             PROVE  LastAsked(t, v)'
  BY DEF Followed
<1>1. t \in Sockets /\ LastAsked(t, v)
  BY DEF Followed, TypeOK
<1>2. CASE t # s
  BY <1>1, <1>2, HeadTaken DEF LastAsked
<1>3. CASE t = s
  <2> DEFINE q == pending[s]
             r == pending'[s]
  <2>1. /\ DOMAIN r = 1 .. Len(q) - 1
        /\ DOMAIN q = 1 .. Len(q)
        /\ 1 \in DOMAIN q
        /\ Head(q) = q[1]
        /\ \A i \in DOMAIN r : i + 1 \in DOMAIN q /\ r[i] = q[i + 1]
    BY HeadTaken
  <2>2. Len(q) \in Nat
    BY LenProperties DEF TypeOK
  <2>3. \A i \in DOMAIN q : i # 1 => i - 1 \in DOMAIN r /\ r[i - 1] = q[i]
    <3> SUFFICES ASSUME NEW i \in DOMAIN q, i # 1
                 PROVE  i - 1 \in DOMAIN r /\ r[i - 1] = q[i]
      OBVIOUS
    <3> HIDE DEF q, r
    <3>1. i - 1 \in DOMAIN r
      BY <2>1, <2>2
    <3> QED
      BY <2>1, <2>2, <3>1
  <2>4. ASSUME NEW i \in DOMAIN q, q[i].user = v,
               \A j \in DOMAIN q : j > i => q[j].user # v,
               v \in wants[s] <=> q[i].event = "subscribe"
        PROVE  LastAsked(s, v)'
    <3>1. CASE i = 1
      <4>1. \A j \in DOMAIN r : r[j].user # v
        <5> SUFFICES ASSUME NEW j \in DOMAIN r PROVE r[j].user # v
          OBVIOUS
        <5> HIDE DEF q, r
        <5> QED BY <2>1, <2>2, <2>4, <3>1
      <4>2. v = u /\ (v \in wants'[s] <=> v \in joined'[s])
        BY <1>3, <2>1, <2>4, <3>1
      <4> QED
        BY <4>1, <4>2 DEF LastAsked
    <3>2. CASE i # 1
      <4>1. i - 1 \in DOMAIN r /\ r[i - 1] = q[i]
        BY <2>3, <3>2
      <4>2. \A j \in DOMAIN r : j > i - 1 => r[j].user # v
        <5> SUFFICES ASSUME NEW j \in DOMAIN r, j > i - 1 PROVE r[j].user # v
          OBVIOUS
        <5> HIDE DEF q, r
        <5>1. j + 1 \in DOMAIN q /\ j + 1 > i
          BY <2>1, <2>2
        <5> QED BY <2>1, <2>4, <5>1
      <4> QED
        BY <2>4, <4>1, <4>2 DEF LastAsked
    <3> QED BY <3>1, <3>2
  <2>5. ASSUME \A i \in DOMAIN q : q[i].user # v, v \in wants[s] <=> v \in joined[s]
        PROVE  LastAsked(s, v)'
    <3>1. v # u
      BY <2>1, <2>5
    <3>2. \A i \in DOMAIN r : r[i].user # v
      BY <2>1, <2>5
    <3> QED
      BY <1>3, <2>5, <3>1, <3>2 DEF LastAsked
  <2> QED
    BY <1>1, <1>3, <2>4, <2>5 DEF LastAsked
<1> QED BY <1>2, <1>3

LEMMA SubscribeStep ==
  ASSUME IInv, NEW s \in Sockets, HandleSubscribe(s)
  PROVE  IInv'
<1> USE DEF IInv
<1> DEFINE m == Head(pending[s])
           u == m.user
<1>1. /\ pending[s] # <<>>
      /\ pending' = [pending EXCEPT ![s] = Tail(@)]
      /\ m.event = "subscribe"
  BY DEF HandleSubscribe, Admitted
<1>2. /\ m \in Message
      /\ m = pending[s][1]
      /\ 1 \in DOMAIN pending[s]
      /\ pending' \in [Sockets -> Seq(Message)]
      /\ \A t \in Sockets : Len(pending'[t]) <= MaxPending
  BY <1>1, HeadTaken
<1>3. u \in Users
  BY <1>2 DEF Message
<1>4. /\ userConnections' = With(u, s)
      /\ joined' = [joined EXCEPT ![s] = IF s \in connected THEN @ \cup {u} ELSE @]
      /\ UNCHANGED <<connected, valid, wants>>
  BY DEF HandleSubscribe
<1>5. /\ MapOK'
      /\ Holders(s)' = Holders(s) \cup {u}
      /\ \A t \in Sockets \ {s} : Holders(t)' = Holders(t)
  BY <1>3, <1>4, MapAdds DEF MapMirrorsChannels, NoneEmpty
<1> HIDE DEF m, u
<1>6. TypeOK'
  BY <1>2, <1>3, <1>4, <1>5 DEF TypeOK, MapOK
<1>7. MapMirrorsChannels'
  BY <1>4, <1>5 DEF MapMirrorsChannels, TypeOK, MapOK, NoneEmpty
<1>8. NothingWanted'
  BY <1>4 DEF NothingWanted
<1>9. Followed'
  <2>1. /\ \A t \in Sockets \ {s} : joined'[t] = joined[t]
        /\ s \in connected => joined'[s] = joined[s] \cup {u}
    BY <1>4 DEF TypeOK
  <2> QED
    BY <1>1, <1>3, <1>4, <2>1, FollowedTaken DEF m, u
<1> QED
  BY <1>6, <1>7, <1>8, <1>9

LEMMA UnsubscribeStep ==
  ASSUME IInv, NEW s \in Sockets, HandleUnsubscribe(s)
  PROVE  IInv'
<1> USE DEF IInv
<1> DEFINE m == Head(pending[s])
           u == m.user
<1>1. /\ pending[s] # <<>>
      /\ pending' = [pending EXCEPT ![s] = Tail(@)]
      /\ m.event = "unsubscribe"
  BY DEF HandleUnsubscribe, Admitted
<1>2. /\ m \in Message
      /\ pending' \in [Sockets -> Seq(Message)]
      /\ \A t \in Sockets : Len(pending'[t]) <= MaxPending
  BY <1>1, HeadTaken
<1>3. u \in Users
  BY <1>2 DEF Message
<1>4. /\ userConnections' = Without(u, s)
      /\ joined' = [joined EXCEPT ![s] = @ \ {u}]
      /\ UNCHANGED <<connected, valid, wants>>
  BY DEF HandleUnsubscribe
<1>5. /\ MapOK'
      /\ Holders(s)' = Holders(s) \ {u}
      /\ \A t \in Sockets \ {s} : Holders(t)' = Holders(t)
  BY <1>3, <1>4, MapDrops DEF MapMirrorsChannels, NoneEmpty
<1> HIDE DEF m, u
<1>6. TypeOK'
  BY <1>2, <1>3, <1>4, <1>5 DEF TypeOK, MapOK
<1>7. MapMirrorsChannels'
  BY <1>4, <1>5 DEF MapMirrorsChannels, TypeOK, MapOK, NoneEmpty
<1>8. NothingWanted'
  BY <1>4 DEF NothingWanted
<1>9. Followed'
  <2>1. /\ \A t \in Sockets \ {s} : joined'[t] = joined[t]
        /\ joined'[s] = joined[s] \ {u}
    BY <1>4 DEF TypeOK
  <2>2. /\ u \in joined'[s] <=> m.event = "subscribe"
        /\ \A v \in Users \ {u} : v \in joined'[s] <=> v \in joined[s]
    BY <1>1, <2>1
  <2> QED
    BY <1>1, <1>3, <1>4, <2>1, <2>2, FollowedTaken DEF m, u
<1> QED
  BY <1>6, <1>7, <1>8, <1>9

-----------------------------------------------------------------------------
LEMMA ConnectStep ==
  ASSUME IInv, NEW s \in Sockets, Connect(s)
  PROVE  IInv'
<1> USE DEF IInv
<1>1. TypeOK'
  BY DEF Connect, TypeOK
<1>2. \A t \in Sockets : Holders(t)' = Holders(t)
  BY MapSame DEF Connect
<1>3. MapMirrorsChannels'
  BY <1>2 DEF Connect, MapMirrorsChannels
<1>4. NothingWanted'
  BY DEF Connect, NothingWanted
<1>5. Followed'
  <2> SUFFICES ASSUME NEW t \in connected' \cap valid', NEW u \in Users
               PROVE  LastAsked(t, u)'
    BY DEF Followed
  <2>1. CASE t = s
    <3>1. wants[s] = {} /\ joined[s] = {}
      BY DEF Connect, NothingWanted, MapMirrorsChannels
    <3>2. DOMAIN pending[s] = {}
      BY DEF Connect
    <3> QED
      BY <2>1, <3>1, <3>2 DEF Connect, LastAsked
  <2>2. CASE t # s
    BY <2>2 DEF Connect, Followed, LastAsked
  <2> QED
    BY <2>1, <2>2
<1> QED
  BY <1>1, <1>3, <1>4, <1>5

LEMMA AskStep ==
  ASSUME IInv, NEW s \in Sockets, NEW m \in Message, Ask(s, m)
  PROVE  IInv'
<1> USE DEF IInv
<1> DEFINE q == pending[s]
           r == pending'[s]
<1>1. q \in Seq(Message) /\ r = Append(q, m) /\ \A t \in Sockets \ {s} : pending'[t] = pending[t]
  BY DEF Ask, TypeOK
<1>2. /\ r \in Seq(Message)
      /\ Len(r) = Len(q) + 1
      /\ \A i \in 1 .. Len(q) : r[i] = q[i]
      /\ r[Len(q) + 1] = m
  BY <1>1, AppendProperties
<1>3. Len(q) \in Nat /\ DOMAIN q = 1 .. Len(q) /\ DOMAIN r = 1 .. Len(q) + 1
  BY <1>1, <1>2, LenProperties
<1>4. TypeOK'
  <2>1. pending' \in [Sockets -> Seq(Message)]
    BY <1>1, <1>2 DEF Ask, TypeOK
  <2>2. \A t \in Sockets : Len(pending'[t]) <= MaxPending
    <3>1. Len(q) + 1 <= MaxPending
      <4> HIDE DEF q, r
      <4>1. Len(q) < MaxPending
        BY DEF Ask, q
      <4> QED BY <4>1, <1>3, PendingAssumption
    <3> QED
      BY <1>1, <1>2, <3>1 DEF TypeOK
  <2>3. wants' \in [Sockets -> SUBSET Users]
    BY DEF Ask, TypeOK, Message
  <2> QED
    BY <2>1, <2>2, <2>3 DEF Ask, TypeOK
<1>5. \A t \in Sockets : Holders(t)' = Holders(t)
  BY MapSame DEF Ask
<1>6. MapMirrorsChannels'
  BY <1>5 DEF Ask, MapMirrorsChannels
<1>7. NothingWanted'
  BY DEF Ask, NothingWanted, TypeOK
<1>8. Followed'
  <2> SUFFICES ASSUME NEW t \in connected \cap valid, NEW u \in Users
               PROVE  LastAsked(t, u)'
    BY DEF Ask, Followed
  <2>1. t \in Sockets /\ LastAsked(t, u) /\ UNCHANGED joined
    BY DEF Ask, Followed, TypeOK
  <2>2. CASE t # s
    BY <2>1, <2>2, <1>1 DEF Ask, LastAsked, TypeOK
  <2>3. CASE t = s /\ u = m.user
    <3>1. u \in wants'[s] <=> m.event = "subscribe"
      BY <2>3 DEF Ask, TypeOK, Message
    <3> DEFINE n == Len(q) + 1
    <3>2. n \in DOMAIN r /\ r[n] = m /\ \A j \in DOMAIN r : ~(j > n)
      <4> HIDE DEF q, r
      <4> QED BY <1>2, <1>3
    <3> HIDE DEF n
    <3> QED
      BY <2>3, <3>1, <3>2 DEF LastAsked
  <2>4. CASE t = s /\ u # m.user
    <3>1. u \in wants'[s] <=> u \in wants[s]
      BY <2>4 DEF Ask, TypeOK
    <3>2. \A i \in DOMAIN r : (i \in DOMAIN q /\ r[i] = q[i]) \/ r[i] = m
      <4> SUFFICES ASSUME NEW i \in DOMAIN r
                   PROVE  (i \in DOMAIN q /\ r[i] = q[i]) \/ r[i] = m
        OBVIOUS
      <4> HIDE DEF q, r
      <4>1. i \in 1 .. Len(q) \/ i = Len(q) + 1
        BY <1>3
      <4> QED BY <4>1, <1>2, <1>3
    <3>3. \A i \in DOMAIN q : i \in DOMAIN r /\ r[i] = q[i]
      <4> SUFFICES ASSUME NEW i \in DOMAIN q
                   PROVE  i \in DOMAIN r /\ r[i] = q[i]
        OBVIOUS
      <4> HIDE DEF q, r
      <4> QED BY <1>2, <1>3
    <3> QED
      BY <2>1, <2>4, <3>1, <3>2, <3>3 DEF LastAsked
  <2> QED
    BY <2>2, <2>3, <2>4
<1> QED
  BY <1>4, <1>6, <1>7, <1>8

LEMMA DisconnectStep ==
  ASSUME IInv, NEW s \in Sockets, Disconnect(s)
  PROVE  IInv'
<1> USE DEF IInv
<1>1. \A t \in Sockets : /\ pending'[t] \in Seq(Message)
                         /\ Len(pending'[t]) <= MaxPending
                         /\ t # s => pending'[t] = pending[t]
  <2>1. PICK n \in 0 .. Len(pending[s]) :
          pending' = [pending EXCEPT ![s] = SubSeq(@, 1, n)]
    BY DEF Disconnect
  <2> DEFINE q == pending[s]
             r == SubSeq(q, 1, n)
  <2>2. q \in Seq(Message) /\ Len(q) <= MaxPending /\ Len(q) \in Nat /\ DOMAIN q = 1 .. Len(q)
    BY LenProperties DEF TypeOK
  <2>3. \A i \in 1 .. n : i \in DOMAIN q /\ q[i] \in Message
    BY <2>2, ElementOfSeq
  <2>4. /\ r \in Seq(Message)
        /\ Len(r) = IF 1 <= n THEN n - 1 + 1 ELSE 0
        /\ \A i \in 1 .. n - 1 + 1 : r[i] = q[1 + i - 1]
    <3>1. \A i \in 1 .. n : q[i] \in Message
      BY <2>3
    <3> HIDE DEF q
    <3> QED BY <3>1, SubSeqProperties
  <2> HIDE DEF q, r
  <2>5. Len(r) = n /\ DOMAIN r = 1 .. n /\ \A i \in 1 .. n : r[i] = q[i]
    BY <2>4, LenProperties
  <2>6. Len(r) <= MaxPending
    BY <2>2, <2>5, PendingAssumption DEF q
  <2>7. \A t \in Sockets : pending'[t] = IF t = s THEN r ELSE pending[t]
    BY <2>1 DEF q, r, TypeOK
  <2>8. \A i \in DOMAIN r : i \in DOMAIN q /\ r[i] = q[i]
    BY <2>3, <2>5
  <2> QED
    BY <2>4, <2>6, <2>7, <2>8 DEF q, TypeOK
<1>2. MapOK' /\ \A t \in Sockets \ {s} : Holders(t)' = Holders(t)
  <2>1. CASE Holders(s) = {}
    <3>1. userConnections' = userConnections
      BY <2>1 DEF Disconnect, Forgotten
    <3> QED
      BY <3>1, MapSame DEF MapOK, NoneEmpty, MapMirrorsChannels, TypeOK
  <2>2. CASE Holders(s) # {}
    <3>1. PICK u \in Holders(s) : userConnections' = Without(u, s)
      BY <2>2 DEF Disconnect, Forgotten
    <3> QED
      BY <3>1, HoldersType, MapDrops DEF MapMirrorsChannels, NoneEmpty
  <2> QED
    BY <2>1, <2>2
<1>3. TypeOK'
  <2>1. pending' \in [Sockets -> Seq(Message)]
    BY <1>1 DEF Disconnect, TypeOK
  <2> QED
    BY <1>1, <1>2, <2>1 DEF Disconnect, TypeOK, MapOK
<1>4. MapMirrorsChannels'
  BY <1>2 DEF Disconnect, MapMirrorsChannels, TypeOK, MapOK, NoneEmpty
<1>5. NothingWanted'
  BY DEF Disconnect, NothingWanted, TypeOK
<1>6. Followed'
  BY <1>1 DEF Disconnect, Followed, LastAsked, TypeOK
<1> QED
  BY <1>3, <1>4, <1>5, <1>6

LEMMA ExpireStep ==
  ASSUME IInv, NEW s \in Sockets, Expire(s)
  PROVE  IInv'
<1> USE DEF IInv
<1>1. \A t \in Sockets : Holders(t)' = Holders(t)
  BY MapSame DEF Expire
<1>2. TypeOK'
  BY DEF Expire, TypeOK
<1>3. MapMirrorsChannels'
  BY <1>1 DEF Expire, MapMirrorsChannels
<1>4. NothingWanted' /\ Followed'
  BY DEF Expire, NothingWanted, Followed, LastAsked
<1> QED
  BY <1>2, <1>3, <1>4

\* The server as it starts, or comes back, with nothing in its memory.
LEMMA Empty ==
  ASSUME Init
  PROVE  IInv
<1>1. TypeOK
  BY EmptySeq, PendingAssumption DEF Init, TypeOK
<1>2. \A s \in Sockets : Holders(s) = {}
  BY DEF Init, Holders, SocketIds
<1>3. MapMirrorsChannels
  BY <1>2 DEF Init, MapMirrorsChannels
<1>4. NothingWanted /\ Followed
  BY DEF Init, NothingWanted, Followed
<1> QED
  BY <1>1, <1>3, <1>4 DEF IInv

LEMMA RestartStep == Restart => IInv'
<1>1. Restart => Init'
  BY DEF Restart, Init
<1>2. Init' => IInv'
  BY Empty, PTL
<1> QED
  BY <1>1, <1>2

LEMMA StutterStep == IInv /\ UNCHANGED vars => IInv'
BY DEF vars, IInv, TypeOK, MapMirrorsChannels, NothingWanted, Followed, LastAsked,
       Holders, SocketIds

LEMMA Invariance == Spec => []IInv
<1>1. Init => IInv
  BY Empty
<1>2. IInv /\ [Next]_vars => IInv'
  <2> SUFFICES ASSUME IInv, [Next]_vars
               PROVE  IInv'
    OBVIOUS
  <2>1. CASE UNCHANGED vars
    BY <2>1, StutterStep
  <2>2. CASE Restart
    BY <2>2, RestartStep
  <2>3. ASSUME NEW s \in Sockets, Connect(s)
        PROVE  IInv'
    BY <2>3, ConnectStep
  <2>4. ASSUME NEW s \in Sockets, NEW m \in Message, Ask(s, m)
        PROVE  IInv'
    BY <2>4, AskStep
  <2>5. ASSUME NEW s \in Sockets, Handle(s)
        PROVE  IInv'
    BY <2>5, RefuseStep, SubscribeStep, UnsubscribeStep DEF Handle
  <2>6. ASSUME NEW s \in Sockets, Disconnect(s)
        PROVE  IInv'
    BY <2>6, DisconnectStep
  <2>7. ASSUME NEW s \in Sockets, Expire(s)
        PROVE  IInv'
    BY <2>7, ExpireStep
  <2> QED
    BY <2>1, <2>2, <2>3, <2>4, <2>5, <2>6, <2>7 DEF Next
<1> QED
  BY <1>1, <1>2, PTL DEF Spec

-----------------------------------------------------------------------------
(* The gateway's variables, its queues and the channels keep their types,   *)
(* whatever clients send and however often the server restarts.             *)
THEOREM NotificationsTypeCorrect == Spec => []TypeOK
<1>1. IInv => TypeOK
  BY DEF IInv
<1> QED
  BY <1>1, Invariance, PTL

(* The map of the gateway says of every connected socket exactly the users  *)
(* whose channels it has joined, whatever handlers interleave.              *)
THEOREM MapAndChannelsAgree == Spec => []MapMirrorsChannels
<1>1. IInv => MapMirrorsChannels
  BY DEF IInv
<1> QED
  BY <1>1, Invariance, PTL

-----------------------------------------------------------------------------
\* Every method that is about u tells u once, and no other user.
LEMMA ToldOnce ==
  ASSUME NEW u \in Users, NEW r \in RoomIds, NEW sent \in Told(u, r)
  PROVE  /\ 1 \in DOMAIN sent
         /\ sent[1].to = <<"user", u>>
         /\ \A i \in DOMAIN sent, v \in Users : sent[i].to = <<"user", v>> => i = 1
<1> USE DEF SendToUser, SendToAdmins, SendToRoom
<1>1. CASE sent = NotifyReservationCreated(u)
  BY <1>1 DEF NotifyReservationCreated
<1>2. CASE sent = NotifyReservationUpdated(u)
  BY <1>2 DEF NotifyReservationUpdated
<1>3. CASE sent = NotifyReservationCancelled(u, r)
  BY <1>3 DEF NotifyReservationCancelled
<1>4. CASE sent = NotifyReservationCompleted(u, r)
  BY <1>4 DEF NotifyReservationCompleted
<1>5. CASE sent = NotifyReservationNoShow(u, r)
  BY <1>5 DEF NotifyReservationNoShow
<1>6. CASE sent = NotifyAccessGranted(u)
  BY <1>6 DEF NotifyAccessGranted
<1>7. CASE sent = NotifyAccessDenied(u)
  BY <1>7 DEF NotifyAccessDenied
<1> QED
  BY <1>1, <1>2, <1>3, <1>4, <1>5, <1>6, <1>7 DEF Told

LEMMA RoomsToldNoUser ==
  ASSUME NEW r \in RoomIds, NEW sent \in ToldOfRoom(r)
  PROVE  \A i \in DOMAIN sent, v \in Users : sent[i].to # <<"user", v>>
<1> USE DEF SendToAdmins, SendToRoom
<1>1. CASE sent = NotifyRoomOccupied(r)
  BY <1>1 DEF NotifyRoomOccupied
<1>2. CASE sent = NotifyRoomAvailable(r)
  BY <1>2 DEF NotifyRoomAvailable
<1> QED
  BY <1>1, <1>2 DEF ToldOfRoom

(* Once nothing about a user is under way, a client hears of the user       *)
(* exactly if that is what it last asked for, and then each message once.   *)
THEOREM EachHearsOnce == Spec => []EachDeviceHearsOnce
<1>1. IInv => EachDeviceHearsOnce
  <2> SUFFICES ASSUME IInv, NEW s \in Sockets, NEW u \in Users, NEW r \in RoomIds,
                      Settled(s, u)
               PROVE  /\ \A sent \in Told(u, r) :
                           Copies(s, sent) = IF u \in wants[s] THEN 1 ELSE 0
                      /\ \A sent \in ToldOfRoom(r) : Copies(s, sent) = 0
    BY DEF EachDeviceHearsOnce
  <2>1. /\ u \in wants[s] <=> u \in joined[s]
        /\ joined[s] \in SUBSET Users
    BY DEF IInv, Settled, Followed, LastAsked, TypeOK
  <2>2. ASSUME NEW sent \in Told(u, r)
        PROVE  Copies(s, sent) = IF u \in wants[s] THEN 1 ELSE 0
    <3> DEFINE heard == {i \in DOMAIN sent : sent[i].to \in {<<"user", v>> : v \in joined[s]}}
    <3>1. /\ 1 \in DOMAIN sent
          /\ sent[1].to = <<"user", u>>
          /\ \A i \in DOMAIN sent, v \in Users : sent[i].to = <<"user", v>> => i = 1
      BY <2>2, ToldOnce
    <3>2. heard = IF u \in joined[s] THEN {1} ELSE {}
      <4>1. \A i \in heard : i = 1
        BY <2>1, <3>1
      <4>2. 1 \in heard <=> \E v \in joined[s] : <<"user", u>> = <<"user", v>>
        BY <3>1
      <4>3. 1 \in heard <=> u \in joined[s]
        BY <4>2
      <4> QED
        BY <4>1, <4>3
    <3> HIDE DEF heard
    <3>3. Cardinality(heard) = IF u \in wants[s] THEN 1 ELSE 0
      BY <2>1, <3>2, FS_EmptySet, FS_Singleton
    <3> QED
      BY <3>3 DEF Copies, heard
  <2>3. ASSUME NEW sent \in ToldOfRoom(r)
        PROVE  Copies(s, sent) = 0
    <3> DEFINE heard == {i \in DOMAIN sent : sent[i].to \in {<<"user", v>> : v \in joined[s]}}
    <3>1. heard = {}
      BY <2>1, RoomsToldNoUser
    <3> HIDE DEF heard
    <3>2. Cardinality(heard) = 0
      BY <3>1, FS_EmptySet
    <3> QED
      BY <3>2 DEF Copies, heard
  <2> QED
    BY <2>2, <2>3
<1> QED
  BY <1>1, Invariance, PTL
=============================================================================
