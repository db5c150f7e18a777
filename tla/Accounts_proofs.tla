-------------------------- MODULE Accounts_proofs --------------------------
(***************************************************************************)
(* Proofs about Accounts, for any number of users, passwords and requests  *)
(* under way, and for any lifetimes.                                       *)
(***************************************************************************)
EXTENDS Accounts, FiniteSetTheorems, TLAPS

Searching(c) == c.pc \in {"find", "select", "fill"}

\* What a call holds while it looks for a user.
SearchHolds(c) ==
  /\ c.stage \in {"auth", "verify"} => c.caller \in Registered
  /\ c.stage = "verify" => c.op = "password" /\ c.target = c.caller
  /\ c.op = "role" \/ c.stage = "lookup" => c.target \in Users
  /\ c.stage = "update" => c.target \in Registered

\* A change of a password holds the new one; no other call brings one.
OneChange(c) ==
  /\ c.op = "password" => c.next \in Secrets /\ c.caller \in Registered
  /\ c.op # "password" /\ c.pc # "insert" => c.patch.password = Same

\* A user in memory: an entity has its password.
Complete(mem) == mem \in Mem /\ (mem.entity => mem.password \in Password)

\* What a call holds at each of its steps.
Holds(c) ==
  /\ Searching(c) => SearchHolds(c)
  /\ OneChange(c)
  /\ c.pc = "fill" => Sought(c) \in Registered /\ Complete(c.mem) /\ c.mem.entity
  /\ c.pc \in {"load", "write"} =>
       c.stage = "update" /\ c.target \in Registered /\ Complete(c.mem)
  /\ c.pc = "write" => c.seen \in Account
  /\ c.pc = "forget" => c.target \in Users
  /\ c.pc = "insert" => c.target \in Users /\ c.patch \in Account

CallsHold == \A p \in Clients : Holds(call[p])

\* Nobody is in the cache before being in the table.
CachedExist == \A u \in Users : Cached(UserKey(u)) => u \in Registered

\* What findById may return of the row as it is.
ReadOf(row) == {Entity(row), Plain(Entity(row))}

\* What is true of the data of a call as long as nobody has changed it.
CallFresh(c) ==
  /\ c.pc = "fill" => c.mem = Entity(users[Sought(c)])
  /\ c.pc \in {"load", "write"} =>
       \E user \in ReadOf(users[c.target]) : c.mem = Patched(user, c.patch)
  /\ c.pc = "write" => c.seen = users[c.target]

Fresh == \A p \in current : CallFresh(call[p])

Inv == AccountsTypeOK /\ CallsHold /\ CachedExist /\ Fresh

-----------------------------------------------------------------------------
LEMMA KeysApart ==
  /\ \A u, v \in Users : UserKey(u) = UserKey(v) => u = v
  /\ \A u \in Users : UserKey(u) # StatisticsKey
BY DEF UserKey, StatisticsKey

LEMMA KeysAre ==
  /\ StatisticsKey \in Keys
  /\ \A u \in Users : UserKey(u) \in Keys
BY DEF Keys

LEMMA PutOnly ==
  ASSUME DOMAIN cache = Keys, NEW k \in Keys, NEW v, NEW t, Put(k, v, t)
  PROVE  /\ DOMAIN cache' = Keys
         /\ cache'[k] = [val |-> v, left |-> t]
         /\ \A j \in Keys \ {k} : cache'[j] = cache[j]
BY DEF Put

LEMMA DelOnly ==
  ASSUME DOMAIN cache = Keys, NEW k \in Keys, Del(k)
  PROVE  /\ DOMAIN cache' = Keys
         /\ cache'[k] = NoEntry
         /\ \A j \in Keys \ {k} : cache'[j] = cache[j]
BY DEF Del

LEMMA OlderType ==
  ASSUME NEW V, NEW e \in Entry(V) \cup {NoEntry}
  PROVE  /\ Older(e) \in Entry(V) \cup {NoEntry}
         /\ Older(e) # NoEntry =>
              e # NoEntry /\ Older(e).val = e.val /\ Older(e).left = e.left - 1
BY DEF Older, Entry

LEMMA BecomeOnly ==
  ASSUME AccountsTypeOK, NEW p \in Clients, NEW c \in Call, NEW fresh \in BOOLEAN,
         Become(p, c, fresh)
  PROVE  /\ call' \in [Clients -> Call]
         /\ call'[p] = c
         /\ \A q \in Clients \ {p} : call'[q] = call[q]
         /\ current' \subseteq Clients
         /\ current' \ {p} \subseteq current
         /\ p \in current' => fresh
BY DEF AccountsTypeOK, Become

LEMMA IdleHolds ==
  /\ Idle \in Call /\ Idle.pc = "idle" /\ Idle.op = "none"
  /\ Holds(Idle) /\ CallFresh(Idle)
BY DEF Idle, Call, Holds, Searching, OneChange, CallFresh, Patch, Nothing, Tally,
       Uncounted, Roles

\* The number of the users with a property.
LEMMA CountType ==
  /\ IsFiniteSet(Registered) /\ Cardinality(Registered) \in Nat
  /\ \A r \in Roles : Number(r) \in Nat
PROOF
  <1>1. \A S \in SUBSET Users : IsFiniteSet(S) /\ Cardinality(S) \in Nat
    BY AccountsAssumption, FS_Subset, FS_CardinalityType
  <1>2. /\ Registered \in SUBSET Users
        /\ \A r \in Roles : {u \in Registered : users[u].role = r} \in SUBSET Users
    BY DEF Registered
  <1> QED BY <1>1, <1>2 DEF Number

LEMMA TypedType ==
  ASSUME NEW s \in Secrets
  PROVE  Typed(s) \in Password /\ Hashed(Typed(s)) \in Password
BY DEF Typed, Hashed, Password

LEMMA HashedType ==
  ASSUME NEW w \in Password
  PROVE  Hashed(w) \in Password
BY DEF Hashed, Password

LEMMA EntityType ==
  ASSUME NEW row \in Account
  PROVE  /\ Complete(Entity(row)) /\ Entity(row).entity /\ Entity(row).password \in Password
         /\ Plain(Entity(row)) \in Copy
BY DEF Complete, Entity, Mem, Account, Plain, Copy

LEMMA PlainType ==
  ASSUME NEW mem \in Mem
  PROVE  Plain(mem) \in Copy /\ Complete(Plain(mem)) /\ ~Plain(mem).entity
BY DEF Complete, Mem, Plain, Copy

LEMMA CopyType ==
  ASSUME NEW mem \in Copy
  PROVE  Complete(mem) /\ ~mem.entity
BY DEF Complete, Copy

LEMMA PatchedType ==
  ASSUME NEW user, Complete(user), NEW patch \in Patch
  PROVE  Complete(Patched(user, patch))
BY DEF Complete, Patched, Set, Mem, Patch

LEMMA MergeType ==
  ASSUME NEW row \in Account, NEW seen \in Account, NEW mem \in Mem
  PROVE  MergeUser(row, mem, seen) \in Account
BY DEF MergeUser, Column, Account, Mem

LEMMA SavedType ==
  ASSUME NEW row \in Account, NEW seen \in Account, NEW mem, Complete(mem)
  PROVE  Saved(row, mem, seen) \in Account
PROOF
  <1>1. Hooked(mem) \in Mem
    BY DEF Hooked, Hashed, Complete, Mem, Password
  <1> QED BY <1>1, MergeType DEF Saved

\* What save writes of a user nobody has changed since it was read.
LEMMA SavedFollows ==
  ASSUME NEW row \in Account, NEW patch \in Patch, NEW user \in ReadOf(row)
  PROVE  Follows(Saved(row, Patched(user, patch), row), patch, row)
PROOF
  <1> DEFINE mem == Patched(user, patch)
  <1>0. /\ row.profile \in Profiles /\ row.role \in Roles /\ row.password \in Password
        /\ patch.profile \in Profiles \cup {Same} /\ patch.role \in Roles \cup {Same}
        /\ patch.password \in Password \cup {Same}
        /\ Same \notin Profiles \cup Roles \cup Password
    BY AccountsAssumption DEF Account, Patch
  <1>1. /\ Complete(mem)
        /\ mem.profile = Set(patch.profile, row.profile)
        /\ mem.role = Set(patch.role, row.role)
        /\ mem.password = Set(patch.password, IF mem.entity THEN row.password ELSE Same)
    <2>1. CASE user = Entity(row)
      BY <2>1, EntityType, PatchedType DEF Entity, Patched
    <2>2. CASE user = Plain(Entity(row))
      BY <2>2, EntityType, PlainType, PatchedType DEF Entity, Plain, Patched, Complete
    <2> QED BY <2>1, <2>2 DEF ReadOf
  <1> HIDE DEF mem
  <1>2. ASSUME NEW m \in Mem, m.profile = mem.profile, m.role = mem.role,
               \/ m.password = mem.password
               \/ mem.password \in Password /\ m.password = Hashed(mem.password)
        PROVE  Follows(MergeUser(row, m, row), patch, row)
    <2> DEFINE new == MergeUser(row, m, row)
    <2>1. /\ new.profile = Column(row.profile, m.profile, row.profile)
          /\ new.role = Column(row.role, m.role, row.role)
          /\ new.password = Column(row.password, m.password, row.password)
      BY DEF MergeUser
    <2> HIDE DEF new
    <2>2. new.profile = IF patch.profile = Same THEN row.profile ELSE patch.profile
      BY <1>0, <1>1, <1>2, <2>1 DEF Column, Set
    <2>3. new.role = IF patch.role = Same THEN row.role ELSE patch.role
      BY <1>0, <1>1, <1>2, <2>1 DEF Column, Set
    <2>4. CASE patch.password = Same
      <3>1. m.password \in {Same, row.password, Hashed(row.password)}
        BY <1>0, <1>1, <1>2, <2>4 DEF Set
      <3>2. new.password \in {row.password, Hashed(row.password)}
        BY <2>1, <3>1 DEF Column
      <3> QED BY <2>2, <2>3, <2>4, <3>2 DEF Follows, new
    <2>5. CASE patch.password # Same
      <3>1. /\ patch.password \in Password
            /\ m.password \in {patch.password, Hashed(patch.password)}
        BY <1>0, <1>1, <1>2, <2>5 DEF Set
      <3>2. m.password # Same
        BY <1>0, <3>1, HashedType
      <3>3. new.password \in {patch.password, Hashed(patch.password)}
        BY <2>1, <3>1, <3>2 DEF Column
      <3> QED BY <2>2, <2>3, <2>5, <3>3 DEF Follows, new
    <2> QED BY <2>4, <2>5
  <1>3. CASE MergeUser(row, mem, row) = row
    <2>1. Saved(row, mem, row) = MergeUser(row, mem, row)
      BY <1>3 DEF Saved
    <2> QED BY <1>1, <1>2, <2>1 DEF Complete, mem
  <1>4. CASE MergeUser(row, mem, row) # row
    <2>1. Saved(row, mem, row) = MergeUser(row, Hooked(mem), row)
      BY <1>4 DEF Saved
    <2>2. /\ Hooked(mem) \in Mem
          /\ Hooked(mem).profile = mem.profile /\ Hooked(mem).role = mem.role
          /\ \/ Hooked(mem).password = mem.password
             \/ mem.password \in Password /\ Hooked(mem).password = Hashed(mem.password)
      BY <1>1 DEF Hooked, Hashed, Complete, Mem, Password
    <2> QED BY <1>2, <2>1, <2>2 DEF mem
  <1> QED BY <1>3, <1>4 DEF mem

-----------------------------------------------------------------------------
LEMMA Initially == AccountsInit => Inv
PROOF
  <1> SUFFICES ASSUME AccountsInit PROVE Inv
    OBVIOUS
  <1>1. users \in [Users -> Account \cup {NoUser}]
    <2>1. PICK admin \in Users, f \in Profiles, s \in Secrets :
            users = [u \in Users |->
                       IF u = admin THEN [profile |-> f, role |-> "ADMIN",
                                          password |-> Hashed(Typed(s))]
                       ELSE NoUser]
      BY DEF AccountsInit
    <2>2. Hashed(Typed(s)) \in Password
      BY TypedType
    <2>3. [profile |-> f, role |-> "ADMIN", password |-> Hashed(Typed(s))] \in Account
      BY <2>2 DEF Account, Roles
    <2> QED BY <2>1, <2>3
  <1>2. AccountsTypeOK
    BY <1>1, KeysAre, IdleHolds, CacheAssumption DEF AccountsInit, AccountsTypeOK, Forever
  <1>3. CallsHold /\ Fresh
    BY IdleHolds DEF AccountsInit, CallsHold, Fresh
  <1>4. CachedExist
    BY KeysAre DEF AccountsInit, CachedExist, Cached
  <1> QED BY <1>2, <1>3, <1>4 DEF Inv

(* A step of p that touches neither the table nor the cache.                *)
LEMMA QuietKeeps ==
  ASSUME Inv, NEW p \in Clients, NEW c \in Call, NEW fresh \in BOOLEAN,
         Become(p, c, fresh), Holds(c), fresh => CallFresh(c),
         UNCHANGED <<cache, users, since>>
  PROVE  Inv'
PROOF
  <1>1. /\ call' \in [Clients -> Call]
        /\ call'[p] = c
        /\ \A q \in Clients \ {p} : call'[q] = call[q]
        /\ current' \subseteq Clients
        /\ current' \ {p} \subseteq current
        /\ p \in current' => fresh
    BY BecomeOnly DEF Inv
  <1>2. AccountsTypeOK'
    BY <1>1 DEF Inv, AccountsTypeOK
  <1>3. CallsHold'
    <2> SUFFICES ASSUME NEW q \in Clients PROVE Holds(call[q])'
      BY DEF CallsHold
    <2>1. Holds(call'[q])
      BY <1>1 DEF Inv, CallsHold
    <2> QED BY <2>1 DEF Holds, SearchHolds, Searching, OneChange, Registered, Sought
  <1>4. Fresh'
    <2> SUFFICES ASSUME NEW q \in current' PROVE CallFresh(call[q])'
      BY DEF Fresh
    <2>1. CallFresh(call'[q])
      BY <1>1 DEF Inv, Fresh
    <2> QED BY <2>1 DEF CallFresh, Sought
  <1>5. CachedExist'
    BY DEF Inv, CachedExist, Cached, Registered
  <1> QED BY <1>2, <1>3, <1>4, <1>5 DEF Inv

LEMMA AdvanceKeeps ==
  ASSUME Inv, NEW p \in Clients, NEW c \in Call, Advance(p, c), Holds(c),
         p \in current => CallFresh(c),
         UNCHANGED <<cache, users, since>>
  PROVE  Inv'
PROOF
  <1>1. CASE p \in current
    <2>1. Become(p, c, TRUE)
      BY <1>1 DEF Advance, Become
    <2> QED BY <1>1, <2>1, QuietKeeps
  <1>2. CASE p \notin current
    <2>1. Become(p, c, FALSE)
      BY <1>2 DEF Advance, Become
    <2> QED BY <2>1, QuietKeeps
  <1> QED BY <1>1, <1>2

LEMMA FinishKeeps ==
  ASSUME Inv, NEW p \in Clients, Finish(p), UNCHANGED <<cache, users, since>>
  PROVE  Inv'
BY IdleHolds, QuietKeeps DEF Finish

\* What is known of a call.
LEMMA CallKnown ==
  ASSUME Inv, NEW p \in Clients
  PROVE  /\ call[p] \in Call /\ Holds(call[p])
         /\ p \in current => CallFresh(call[p])
BY DEF Inv, AccountsTypeOK, CallsHold, Fresh

\* c looks for another user, or for the same one with something in mind.
LEMMA SeekHolds ==
  ASSUME NEW c \in Call, OneChange(c), c.pc # "insert",
         NEW stage \in {"verify", "lookup", "update"}, NEW u \in Users,
         stage = "verify" => c.op = "password" /\ u = c.caller,
         stage = "update" => u \in Registered
  PROVE  /\ Seek(c, stage, u) \in Call
         /\ Holds(Seek(c, stage, u))
         /\ CallFresh(Seek(c, stage, u))
         /\ Seek(c, stage, u).pc = "find" /\ Seek(c, stage, u).stage = stage
         /\ Seek(c, stage, u).op = c.op /\ Seek(c, stage, u).caller = c.caller
PROOF
  <1> DEFINE d == Seek(c, stage, u)
  <1>1. d \in Call
    BY ZenonT(40) DEF Call, Seek
  <1>2. d.pc = "find" /\ d.stage = stage /\ d.target = u /\ d.op = c.op
        /\ d.caller = c.caller /\ d.next = c.next /\ d.patch = c.patch
    BY DEF Call, Seek
  <1> HIDE DEF d
  <1>3. SearchHolds(d) /\ OneChange(d)
    BY <1>2 DEF SearchHolds, OneChange
  <1>4. Holds(d) /\ CallFresh(d)
    BY <1>2, <1>3 DEF Holds, CallFresh
  <1> QED BY <1>1, <1>2, <1>4 DEF d

\* The call c after findById has got user, from the table or the cache.
LEMMA ReturnedHolds ==
  ASSUME NEW c \in Call, SearchHolds(c), OneChange(c), c.pc # "insert",
         Sought(c) \in Registered, NEW user, Complete(user)
  PROVE  /\ Returned(c, user) \in Call
         /\ Holds(Returned(c, user))
         /\ user \in ReadOf(users[Sought(c)]) => CallFresh(Returned(c, user))
         /\ Returned(c, user).pc \in {"find", "load", "statistics", "idle"}
PROOF
  <1> DEFINE d == Returned(c, user)
  <1>0. /\ c.stage \in {"auth", "verify", "lookup", "update"} /\ Registered \subseteq Users
        /\ c.stage = "verify" => c.op = "password"
    BY DEF Call, Registered, SearchHolds
  <1>1. CASE c.stage = "auth"
    <2>0. d = Admitted(c, user) /\ c.caller \in Registered
      BY <1>1 DEF Returned, SearchHolds
    <2>1. CASE c.op = "profile"
      <3>1. d = Seek(c, "update", c.caller)
        BY <2>0, <2>1 DEF Admitted
      <3> QED BY <1>0, <1>1, <2>0, <2>1, <3>1, SeekHolds
    <2>2. CASE c.op = "password"
      <3>1. d = Seek(c, "verify", c.caller)
        BY <2>0, <2>2 DEF Admitted
      <3> QED BY <1>0, <1>1, <2>0, <2>2, <3>1, SeekHolds
    <2>3. CASE c.op = "role" /\ AdminOnly(user)
      <3> DEFINE e == [c EXCEPT !.caller = NoUser]
      <3>1. d = Seek(e, "lookup", c.target)
        BY <2>0, <2>3 DEF Admitted
      <3>2. e \in Call /\ OneChange(e) /\ e.pc # "insert" /\ c.target \in Users /\ e.op = "role"
        BY <2>3 DEF Call, OneChange, SearchHolds
      <3> HIDE DEF e
      <3>3. d.op = "role"
        BY <1>1, <3>1, <3>2, SeekHolds
      <3> QED BY <1>1, <3>1, <3>2, <3>3, SeekHolds
    <2>4. CASE c.op = "statistics" /\ AdminOnly(user)
      <3>1. d = [Idle EXCEPT !.pc = "statistics"]
        BY <2>0, <2>4 DEF Admitted
      <3>2. d \in Call /\ Holds(d) /\ CallFresh(d) /\ d.op = "none" /\ d.pc = "statistics"
        BY <3>1, IdleHolds DEF Call, Holds, Searching, OneChange, CallFresh, Idle, Nothing
      <3> QED BY <1>1, <3>2
    <2>5. CASE /\ c.op \notin {"profile", "password"}
               /\ ~(c.op \in {"role", "statistics"} /\ AdminOnly(user))
      <3>1. d = Idle
        BY <2>0, <2>5 DEF Admitted
      <3>2. d \in Call /\ Holds(d) /\ CallFresh(d) /\ d.op # "password" /\ d.pc = "idle"
        BY <3>1, IdleHolds
      <3> QED BY <1>1, <3>2
    <2> QED BY <2>1, <2>2, <2>3, <2>4, <2>5
  <1>2. CASE c.stage = "verify"
    <2>1. d = Verified(c, user) /\ c.op = "password" /\ c.caller \in Registered
      BY <1>0, <1>2 DEF Returned, SearchHolds
    <2>2. CASE user.entity /\ Matches(c.given, user.password)
      <3> DEFINE e == [c EXCEPT !.patch.password = Typed(c.next), !.given = Same]
      <3>1. d = Seek(e, "update", c.caller)
        BY <2>1, <2>2 DEF Verified
      <3>2. c.next \in Secrets /\ Typed(c.next) \in Password
        BY <2>1, TypedType DEF OneChange
      <3> DEFINE patch == [c.patch EXCEPT !.password = Typed(c.next)]
      <3>3. patch \in Patch
        BY <3>2 DEF Call, Patch
      <3>4. e = [c EXCEPT !.patch = patch, !.given = Same]
        BY DEF Call
      <3> HIDE DEF e, patch
      <3>5. e \in Call /\ e.op = c.op /\ e.next = c.next /\ e.caller = c.caller /\ e.pc = c.pc
        BY <3>3, <3>4 DEF Call
      <3>6. OneChange(e) /\ e.pc # "insert"
        BY <2>1, <3>5 DEF OneChange
      <3> QED BY <1>0, <1>2, <2>1, <2>2, <3>1, <3>5, <3>6, SeekHolds
    <2>3. CASE ~(user.entity /\ Matches(c.given, user.password))
      <3>1. d = Idle
        BY <2>1, <2>3 DEF Verified
      <3> QED BY <1>2, <3>1, IdleHolds
    <2> QED BY <1>2, <2>2, <2>3
  <1>3. CASE c.stage = "lookup"
    <2>1. d = Seek(c, "update", c.target) /\ c.target \in Registered
      BY <1>3 DEF Returned, Sought
    <2> QED BY <1>0, <1>3, <2>1, SeekHolds
  <1>4. CASE c.stage = "update"
    <2>1. d = [c EXCEPT !.pc = "load", !.mem = Patched(user, c.patch)] /\ Sought(c) = c.target
      BY <1>4 DEF Returned, Sought
    <2>2. Complete(Patched(user, c.patch))
      BY PatchedType DEF Call
    <2>3. d \in Call
      BY <2>1, <2>2 DEF Call, Complete
    <2>4. d.pc = "load" /\ d.mem = Patched(user, c.patch) /\ d.patch = c.patch
          /\ d.target = c.target /\ d.stage = "update" /\ d.op = c.op /\ d.next = c.next
          /\ d.caller = c.caller
      BY <1>4, <2>1 DEF Call
    <2>5. Holds(d)
      BY <2>1, <2>2, <2>4 DEF Holds, Searching, OneChange
    <2>6. user \in ReadOf(users[Sought(c)]) => CallFresh(d)
      BY <2>1, <2>4 DEF CallFresh
    <2> QED BY <1>4, <2>3, <2>4, <2>5, <2>6
  <1> QED BY <1>0, <1>1, <1>2, <1>3, <1>4

\* Whoever a call looks for is an account.
LEMMA SoughtType ==
  ASSUME NEW c \in Call, SearchHolds(c)
  PROVE  Sought(c) \in Users
BY DEF Call, SearchHolds, Sought, Registered

LEMMA FindKeeps ==
  ASSUME Inv, NEW p \in Clients, Find(p)
  PROVE  Inv'
PROOF
  <1> DEFINE c == call[p]
             u == Sought(c)
  <1>1. /\ c \in Call /\ c.pc = "find" /\ SearchHolds(c) /\ OneChange(c) /\ u \in Users
    BY CallKnown, SoughtType DEF Find, Holds, Searching
  <1>2. CASE Cached(UserKey(u))
    <2> DEFINE user == cache[UserKey(u)].val
               d == Returned(c, user)
    <2>1. user \in Copy /\ u \in Registered
      BY <1>1, <1>2 DEF Inv, AccountsTypeOK, CachedExist, Cached, Entry
    <2>2. Become(p, d, user = Plain(Entity(users[u]))) /\ UNCHANGED <<cache, users, since>>
      BY <1>2 DEF Find
    <2> HIDE DEF user
    <2>3. Complete(user)
      BY <2>1, CopyType
    <2>4. /\ d \in Call /\ Holds(d)
          /\ user = Plain(Entity(users[u])) => CallFresh(d)
      BY <1>1, <2>1, <2>3, ReturnedHolds DEF ReadOf
    <2> HIDE DEF d
    <2> QED BY <2>2, <2>4, QuietKeeps
  <1>3. CASE ~Cached(UserKey(u))
    <2> DEFINE d == [c EXCEPT !.pc = "select"]
    <2>1. Become(p, d, FALSE) /\ UNCHANGED <<cache, users, since>>
      BY <1>3 DEF Find
    <2>2. d \in Call /\ Holds(d)
      BY <1>1 DEF Call, Holds, Searching, SearchHolds, OneChange
    <2> HIDE DEF d
    <2> QED BY <2>1, <2>2, QuietKeeps
  <1> QED BY <1>2, <1>3

LEMMA FindSelectKeeps ==
  ASSUME Inv, NEW p \in Clients, FindSelect(p)
  PROVE  Inv'
PROOF
  <1> DEFINE c == call[p]
             u == Sought(c)
  <1>1. /\ c \in Call /\ c.pc = "select" /\ SearchHolds(c) /\ OneChange(c) /\ u \in Users
    BY CallKnown, SoughtType DEF FindSelect, Holds, Searching
  <1>2. CASE users[u] = NoUser
    BY <1>2, FinishKeeps DEF FindSelect
  <1>3. CASE users[u] # NoUser
    <2> DEFINE d == [c EXCEPT !.pc = "fill", !.mem = Entity(users[u])]
    <2>1. Become(p, d, TRUE) /\ UNCHANGED <<cache, users, since>>
      BY <1>3 DEF FindSelect
    <2>2. u \in Registered /\ users[u] \in Account
      BY <1>1, <1>3 DEF Registered, Inv, AccountsTypeOK
    <2>3. Complete(Entity(users[u])) /\ Entity(users[u]).entity
      BY <2>2, EntityType
    <2>4. d \in Call /\ d.pc = "fill" /\ d.mem = Entity(users[u]) /\ d.stage = c.stage
          /\ d.caller = c.caller /\ d.target = c.target /\ d.op = c.op /\ d.next = c.next
          /\ d.patch = c.patch
      BY <1>1, <2>3 DEF Call, Complete
    <2> HIDE DEF d
    <2>5. Sought(d) = u /\ SearchHolds(d) /\ OneChange(d)
      BY <1>1, <2>4 DEF Sought, SearchHolds, OneChange
    <2>6. Holds(d) /\ CallFresh(d)
      BY <2>2, <2>3, <2>4, <2>5 DEF Holds, CallFresh
    <2> QED BY <2>1, <2>4, <2>6, QuietKeeps
  <1> QED BY <1>2, <1>3

LEMMA FindFillKeeps ==
  ASSUME Inv, NEW p \in Clients, FindFill(p)
  PROVE  Inv'
PROOF
  <1> DEFINE c == call[p]
             u == Sought(c)
             b == [c EXCEPT !.mem = NoUser]
             d == Returned(b, c.mem)
  <1>1. /\ c \in Call /\ c.pc = "fill" /\ SearchHolds(c) /\ OneChange(c)
        /\ u \in Registered /\ Complete(c.mem)
        /\ p \in current => c.mem = Entity(users[u])
    BY CallKnown DEF FindFill, Holds, Searching, CallFresh
  <1>2. /\ Put(UserKey(u), Plain(c.mem), MediumTTL) /\ Advance(p, d)
        /\ UNCHANGED <<users, since>>
    BY DEF FindFill
  <1>3. b \in Call /\ SearchHolds(b) /\ OneChange(b) /\ b.pc # "insert" /\ Sought(b) = u
        /\ b.stage = c.stage /\ b.caller = c.caller /\ b.op = c.op
    BY <1>1 DEF Call, SearchHolds, OneChange, Sought
  <1> HIDE DEF b
  <1>4. /\ d \in Call /\ Holds(d)
        /\ p \in current => CallFresh(d)
    BY <1>1, <1>3, ReturnedHolds DEF ReadOf
  <1> HIDE DEF d
  <1>5. u \in Users /\ UserKey(u) \in Keys
    BY <1>1, KeysAre DEF Registered
  <1>6. /\ DOMAIN cache' = Keys
        /\ cache'[UserKey(u)] = [val |-> Plain(c.mem), left |-> MediumTTL]
        /\ \A j \in Keys \ {UserKey(u)} : cache'[j] = cache[j]
    BY <1>2, <1>5, PutOnly DEF Inv, AccountsTypeOK
  <1>7. Plain(c.mem) \in Copy /\ cache'[UserKey(u)] \in Entry(Copy)
    BY <1>1, <1>6, PlainType, CacheAssumption DEF Complete, Entry
  <1>8. /\ call' \in [Clients -> Call]
        /\ call'[p] = d
        /\ \A q \in Clients \ {p} : call'[q] = call[q]
        /\ current' \subseteq current
    BY <1>2, <1>4 DEF Advance, Become, Inv, AccountsTypeOK
  <1>9. AccountsTypeOK'
    BY <1>2, <1>5, <1>6, <1>7, <1>8, KeysAre, KeysApart DEF Inv, AccountsTypeOK
  <1>10. CallsHold'
    <2> SUFFICES ASSUME NEW q \in Clients PROVE Holds(call[q])'
      BY DEF CallsHold
    <2>1. Holds(call'[q])
      BY <1>4, <1>8 DEF Inv, CallsHold
    <2> QED BY <1>2, <2>1 DEF Holds, SearchHolds, Searching, OneChange, Registered, Sought
  <1>11. Fresh'
    <2> SUFFICES ASSUME NEW q \in current' PROVE CallFresh(call[q])'
      BY DEF Fresh
    <2>1. CallFresh(call'[q])
      BY <1>4, <1>8 DEF Inv, AccountsTypeOK, Fresh
    <2> QED BY <1>2, <2>1 DEF CallFresh, Sought
  <1>12. CachedExist'
    BY <1>1, <1>2, <1>5, <1>6, KeysAre, KeysApart DEF Inv, CachedExist, Cached, Registered
  <1> QED BY <1>9, <1>10, <1>11, <1>12 DEF Inv

-----------------------------------------------------------------------------
LEMMA ArriveKeeps ==
  ASSUME Inv, NEW p \in Clients, NEW c \in Call, Arrive(p, c), c.stage = "auth",
         OneChange([c EXCEPT !.pc = "find"]), c.op = "role" => c.target \in Users
  PROVE  Inv'
PROOF
  <1> DEFINE d == [c EXCEPT !.pc = "find"]
  <1>1. Become(p, d, FALSE) /\ c.caller \in Registered /\ UNCHANGED <<cache, users, since>>
    BY DEF Arrive
  <1>2. d \in Call /\ d.pc = "find" /\ d.stage = "auth" /\ d.caller = c.caller
        /\ d.target = c.target /\ d.op = c.op
    BY DEF Call
  <1> HIDE DEF d
  <1>3. Holds(d)
    BY <1>1, <1>2 DEF d, Holds, Searching, SearchHolds
  <1> QED BY <1>1, <1>2, <1>3, QuietKeeps

LEMMA BeginKeeps ==
  ASSUME Inv, NEW p \in Clients, Begin(p)
  PROVE  Inv'
PROOF
  <1>0. Subjects \subseteq Users /\ Same \notin Secrets
    BY AccountsAssumption
  <1>1. ASSUME NEW u \in Users, ReadBegin(p, u) \/ StatisticsBegin(p, u)
        PROVE  Inv'
    <2>1. ASSUME NEW op \in {"read", "statistics"},
                 Arrive(p, [Idle EXCEPT !.op = op, !.caller = u])
          PROVE  Inv'
      <3> DEFINE c == [Idle EXCEPT !.op = op, !.caller = u]
      <3>1. c \in Call /\ c.stage = "auth" /\ c.op = op /\ c.patch = Nothing
        BY IdleHolds DEF Call, Idle
      <3>2. OneChange([c EXCEPT !.pc = "find"])
        BY <3>1 DEF OneChange, Call, Nothing
      <3> HIDE DEF c
      <3> QED BY <2>1, <3>1, <3>2, ArriveKeeps DEF c
    <2> QED BY <1>1, <2>1 DEF ReadBegin, StatisticsBegin
  <1>2. ASSUME NEW u \in Users, NEW target \in Users, NEW role \in Roles,
               RoleBegin(p, u, target, role)
        PROVE  Inv'
    <2> DEFINE patch == [Nothing EXCEPT !.role = role]
               c == [Idle EXCEPT !.op = "role", !.caller = u, !.target = target,
                                 !.patch = patch]
    <2>1. patch \in Patch /\ patch.password = Same
      BY DEF Patch, Nothing
    <2>2. Arrive(p, c)
      BY <1>2 DEF RoleBegin, Idle
    <2> HIDE DEF patch
    <2>3. c \in Call /\ c.stage = "auth" /\ c.op = "role" /\ c.target = target /\ c.patch = patch
      BY <2>1, IdleHolds, ZenonT(40) DEF Call, Idle
    <2> HIDE DEF c
    <2>4. OneChange([c EXCEPT !.pc = "find"])
      BY <2>1, <2>3 DEF OneChange, Call
    <2> QED BY <2>2, <2>3, <2>4, ArriveKeeps
  <1>3. ASSUME NEW u \in Users, NEW f \in Profiles, ProfileBegin(p, u, f)
        PROVE  Inv'
    <2> DEFINE patch == [Nothing EXCEPT !.profile = f]
               c == [Idle EXCEPT !.op = "profile", !.caller = u, !.patch = patch]
    <2>1. patch \in Patch /\ patch.password = Same
      BY DEF Patch, Nothing
    <2>2. Arrive(p, c)
      BY <1>3 DEF ProfileBegin, Idle
    <2> HIDE DEF patch
    <2>3. c \in Call /\ c.stage = "auth" /\ c.op = "profile" /\ c.patch = patch
      BY <2>1, IdleHolds, ZenonT(40) DEF Call, Idle
    <2> HIDE DEF c
    <2>4. OneChange([c EXCEPT !.pc = "find"])
      BY <2>1, <2>3 DEF OneChange, Call
    <2> QED BY <2>2, <2>3, <2>4, ArriveKeeps
  <1>4. ASSUME NEW u \in Users, NEW given \in Secrets, NEW next \in Secrets,
               PasswordBegin(p, u, given, next)
        PROVE  Inv'
    <2> DEFINE c == [Idle EXCEPT !.op = "password", !.caller = u, !.given = given,
                                 !.next = next]
    <2>1. c \in Call /\ c.stage = "auth" /\ c.op = "password" /\ c.caller = u /\ c.next = next
      BY IdleHolds DEF Call, Idle
    <2>2. Arrive(p, c) /\ u \in Registered
      BY <1>4 DEF PasswordBegin, Arrive, Idle
    <2> HIDE DEF c
    <2>3. OneChange([c EXCEPT !.pc = "find"])
      BY <2>1, <2>2 DEF OneChange, Call
    <2> QED BY <2>1, <2>2, <2>3, ArriveKeeps
  <1>5. ASSUME NEW u \in Users, NEW f \in Profiles, NEW secret \in Secrets,
               RegisterBegin(p, u, f, secret)
        PROVE  Inv'
    <2> DEFINE patch == [profile |-> f, role |-> "USER", password |-> Typed(secret)]
               c == [Idle EXCEPT !.pc = "insert", !.op = "register", !.target = u,
                                 !.patch = patch]
    <2>1. patch \in Patch /\ patch \in Account
      BY TypedType DEF Patch, Account, Roles
    <2>2. Become(p, c, FALSE) /\ UNCHANGED <<cache, users, since>>
      BY <1>5 DEF RegisterBegin
    <2> HIDE DEF patch
    <2>3. c \in Call /\ c.pc = "insert" /\ c.op = "register" /\ c.target = u /\ c.patch = patch
      BY <2>1, IdleHolds DEF Call, Idle
    <2> HIDE DEF c
    <2>4. Holds(c)
      BY <2>1, <2>3 DEF Holds, Searching, OneChange
    <2> QED BY <2>2, <2>3, <2>4, QuietKeeps
  <1> QED BY <1>0, <1>1, <1>2, <1>3, <1>4, <1>5 DEF Begin

-----------------------------------------------------------------------------
LEMMA SaveLoadKeeps ==
  ASSUME Inv, NEW p \in Clients, SaveLoad(p)
  PROVE  Inv'
PROOF
  <1> DEFINE c == call[p]
             d == [c EXCEPT !.pc = "write", !.seen = users[c.target]]
  <1>1. /\ c \in Call /\ c.pc = "load" /\ Holds(c)
        /\ p \in current => CallFresh(c)
    BY CallKnown DEF SaveLoad
  <1>2. c.target \in Registered /\ users[c.target] \in Account
    BY <1>1 DEF Holds, Registered, Inv, AccountsTypeOK
  <1>3. Advance(p, d) /\ UNCHANGED <<cache, users, since>>
    BY DEF SaveLoad
  <1>4. /\ d \in Call /\ d.pc = "write" /\ d.seen = users[c.target] /\ d.op = c.op
        /\ d.target = c.target /\ d.mem = c.mem /\ d.patch = c.patch /\ d.stage = c.stage
        /\ d.next = c.next /\ d.caller = c.caller
    BY <1>1, <1>2, ZenonT(40) DEF Call
  <1> HIDE DEF d
  <1>5. Holds(d)
    BY <1>1, <1>2, <1>4 DEF Holds, Searching, OneChange
  <1>6. p \in current => CallFresh(d)
    BY <1>1, <1>4 DEF CallFresh
  <1> QED BY <1>3, <1>4, <1>5, <1>6, AdvanceKeeps

\* An account, once registered, stays.
LEMMA RowsOnly ==
  ASSUME AccountsTypeOK, NEW u \in Users, NEW row \in Account, users' = [users EXCEPT ![u] = row]
  PROVE  /\ users' \in [Users -> Account \cup {NoUser}]
         /\ users'[u] = row
         /\ \A v \in Users \ {u} : users'[v] = users[v]
         /\ Registered' = Registered \cup {u}
BY AccountsAssumption DEF AccountsTypeOK, Registered

LEMMA SaveWriteKeeps ==
  ASSUME Inv, NEW p \in Clients, SaveWrite(p)
  PROVE  Inv'
PROOF
  <1> DEFINE u == call[p].target
             row == Saved(users[u], call[p].mem, call[p].seen)
             d == [Idle EXCEPT !.pc = "forget", !.target = u]
  <1>1. u \in Users /\ u \in Registered /\ row \in Account
    <2>1. /\ call[p].pc = "write" /\ Holds(call[p])
      BY CallKnown DEF SaveWrite
    <2>2. u \in Registered /\ users[u] \in Account
      BY <2>1 DEF Holds, Registered, Inv, AccountsTypeOK
    <2> QED BY <2>1, <2>2, SavedType DEF Holds, Registered
  <1>2. /\ users' = [users EXCEPT ![u] = row]
        /\ call' = [call EXCEPT ![p] = d]
        /\ UNCHANGED cache
        /\ \/ row = users[u] /\ current' = current \ {p} /\ UNCHANGED since
           \/ /\ current' = current \ {q \in Clients : q = p \/ Sought(call[q]) = u}
              /\ since' = [since EXCEPT ![u] = 0]
    BY DEF SaveWrite
  <1>3. d \in Call /\ d.pc = "forget" /\ d.target = u /\ d.op = "none" /\ d.patch = Nothing
    BY <1>1, IdleHolds DEF Call, Idle
  <1> HIDE DEF u, row, d
  <1>4. Holds(d)
    BY <1>1, <1>3 DEF Holds, Searching, OneChange, Nothing
  <1>5. /\ users' \in [Users -> Account \cup {NoUser}]
        /\ users'[u] = row
        /\ \A v \in Users \ {u} : users'[v] = users[v]
        /\ Registered' = Registered
    <2>1. Registered \cup {u} = Registered
      BY <1>1
    <2> QED BY <1>1, <1>2, <2>1, RowsOnly DEF Inv
  <1>6. /\ call' \in [Clients -> Call]
        /\ call'[p] = d
        /\ \A q \in Clients \ {p} : call'[q] = call[q]
        /\ current' \subseteq current \ {p}
    BY <1>2, <1>3 DEF Inv, AccountsTypeOK
  <1>7. since' \in [Users -> 0 .. Forever]
    BY <1>2, CacheAssumption DEF Inv, AccountsTypeOK, Forever
  <1>8. AccountsTypeOK'
    BY <1>2, <1>5, <1>6, <1>7 DEF Inv, AccountsTypeOK
  <1>9. CallsHold'
    <2> SUFFICES ASSUME NEW q \in Clients PROVE Holds(call[q])'
      BY DEF CallsHold
    <2>1. Holds(call'[q])
      BY <1>4, <1>6 DEF Inv, CallsHold
    <2> QED BY <1>5, <2>1 DEF Holds, SearchHolds, Searching, OneChange, Sought
  <1>10. Fresh'
    <2> SUFFICES ASSUME NEW q \in current' PROVE CallFresh(call[q])'
      BY DEF Fresh
    <2>1. q \in Clients \ {p} /\ CallFresh(call[q]) /\ call'[q] = call[q] /\ Holds(call[q])
      BY <1>6 DEF Inv, AccountsTypeOK, Fresh, CallsHold
    <2>2. CASE users' = users
      BY <2>1, <2>2 DEF CallFresh, Sought
    <2>3. CASE users' # users
      <3>1. Sought(call[q]) # u
        BY <1>1, <1>2, <2>1, <2>3 DEF Inv, AccountsTypeOK
      <3>2. call[q].pc = "fill" => Sought(call[q]) \in Users
        BY <2>1 DEF Holds, Registered
      <3>3. call[q].pc \in {"load", "write"} =>
              call[q].target \in Users /\ call[q].target = Sought(call[q])
        BY <2>1 DEF Holds, Registered, Sought
      <3> QED BY <1>5, <2>1, <3>1, <3>2, <3>3 DEF CallFresh, Sought
    <2> QED BY <2>2, <2>3
  <1>11. CachedExist'
    BY <1>2, <1>5 DEF Inv, CachedExist, Cached
  <1> QED BY <1>8, <1>9, <1>10, <1>11 DEF Inv

LEMMA RegisterInsertKeeps ==
  ASSUME Inv, NEW p \in Clients, RegisterInsert(p)
  PROVE  Inv'
PROOF
  <1> DEFINE u == call[p].target
             row == [call[p].patch EXCEPT !.password = Hashed(call[p].patch.password)]
  <1>1. u \in Users /\ row \in Account
    <2>1. call[p].pc = "insert" /\ Holds(call[p])
      BY CallKnown DEF RegisterInsert
    <2> QED BY <2>1 DEF Holds, Account, Password, Hashed
  <1>2. CASE u \in Registered
    BY <1>2, FinishKeeps DEF RegisterInsert
  <1>3. CASE u \notin Registered
    <2>1. users' = [users EXCEPT ![u] = row] /\ Finish(p) /\ UNCHANGED <<cache, since>>
      BY <1>3 DEF RegisterInsert
    <2> HIDE DEF u, row
    <2>2. /\ users' \in [Users -> Account \cup {NoUser}]
          /\ \A v \in Users \ {u} : users'[v] = users[v]
          /\ Registered' = Registered \cup {u}
      BY <1>1, <2>1, RowsOnly DEF Inv
    <2>3. /\ call' \in [Clients -> Call]
          /\ call'[p] = Idle
          /\ \A q \in Clients \ {p} : call'[q] = call[q]
          /\ current' = current \ {p}
      BY <2>1, IdleHolds DEF Finish, Become, Inv, AccountsTypeOK
    <2>4. AccountsTypeOK'
      BY <2>1, <2>2, <2>3 DEF Inv, AccountsTypeOK
    <2>5. CallsHold'
      <3> SUFFICES ASSUME NEW q \in Clients PROVE Holds(call[q])'
        BY DEF CallsHold
      <3>1. Holds(call'[q])
        BY <2>3, IdleHolds DEF Inv, CallsHold
      <3> QED BY <2>2, <3>1 DEF Holds, SearchHolds, Searching, OneChange, Sought
    <2>6. Fresh'
      <3> SUFFICES ASSUME NEW q \in current' PROVE CallFresh(call[q])'
        BY DEF Fresh
      <3>1. q \in Clients \ {p} /\ CallFresh(call[q]) /\ call'[q] = call[q] /\ Holds(call[q])
        BY <2>3 DEF Inv, AccountsTypeOK, Fresh, CallsHold
      <3>2. call[q].pc = "fill" => Sought(call[q]) \in Users \ {u}
        BY <1>3, <3>1 DEF Holds, Registered
      <3>3. call[q].pc \in {"load", "write"} => call[q].target \in Users \ {u}
        BY <1>3, <3>1 DEF Holds, Registered
      <3> QED BY <2>2, <3>1, <3>2, <3>3 DEF CallFresh, Sought
    <2>7. CachedExist'
      BY <2>1, <2>2 DEF Inv, CachedExist, Cached
    <2> QED BY <2>4, <2>5, <2>6, <2>7 DEF Inv
  <1> QED BY <1>2, <1>3

-----------------------------------------------------------------------------
(* Entries disappear, and calls end.                                        *)
LEMMA GoneKeeps ==
  ASSUME Inv, call' \in [Clients -> Call], DOMAIN cache' = Keys,
         \A q \in Clients : call'[q] \in {call[q], Idle},
         current' \subseteq current, UNCHANGED users, since' \in [Users -> 0 .. Forever],
         \A u \in Users : /\ cache'[UserKey(u)] \in Entry(Copy) \cup {NoEntry}
                          /\ Cached(UserKey(u))' => Cached(UserKey(u)),
         cache'[StatisticsKey] \in Entry(Tally) \cup {NoEntry}
  PROVE  Inv'
PROOF
  <1>1. AccountsTypeOK'
    BY DEF Inv, AccountsTypeOK
  <1>2. CallsHold'
    <2> SUFFICES ASSUME NEW q \in Clients PROVE Holds(call[q])'
      BY DEF CallsHold
    <2>1. Holds(call'[q])
      BY IdleHolds DEF Inv, CallsHold
    <2> QED BY <2>1 DEF Holds, SearchHolds, Searching, OneChange, Registered, Sought
  <1>3. Fresh'
    <2> SUFFICES ASSUME NEW q \in current' PROVE CallFresh(call[q])'
      BY DEF Fresh
    <2>1. CallFresh(call'[q])
      BY IdleHolds DEF Inv, AccountsTypeOK, Fresh
    <2> QED BY <2>1 DEF CallFresh, Sought
  <1>4. CachedExist'
    BY DEF Inv, CachedExist, Registered
  <1> QED BY <1>1, <1>2, <1>3, <1>4 DEF Inv

LEMMA ForgetKeeps ==
  ASSUME Inv, NEW p \in Clients, Forget(p)
  PROVE  Inv'
PROOF
  <1> DEFINE u == call[p].target
  <1>1. u \in Users /\ UserKey(u) \in Keys
    BY CallKnown, KeysAre DEF Forget, Holds
  <1>2. /\ Del(UserKey(u)) /\ call' = [call EXCEPT ![p] = Idle]
        /\ current' = current \ {p}
        /\ UNCHANGED <<users, since>>
    BY DEF Forget
  <1> HIDE DEF u
  <1>3. /\ DOMAIN cache' = Keys
        /\ cache'[UserKey(u)] = NoEntry
        /\ \A j \in Keys \ {UserKey(u)} : cache'[j] = cache[j]
    BY <1>1, <1>2, DelOnly DEF Inv, AccountsTypeOK
  <1>4. call' \in [Clients -> Call] /\ \A q \in Clients : call'[q] \in {call[q], Idle}
    BY <1>2, IdleHolds DEF Inv, AccountsTypeOK
  <1>5. \A v \in Users : /\ cache'[UserKey(v)] \in Entry(Copy) \cup {NoEntry}
                         /\ Cached(UserKey(v))' => Cached(UserKey(v))
    <2> SUFFICES ASSUME NEW v \in Users
                 PROVE  /\ cache'[UserKey(v)] \in Entry(Copy) \cup {NoEntry}
                        /\ Cached(UserKey(v))' => Cached(UserKey(v))
      OBVIOUS
    <2>1. CASE v = u
      BY <1>2, <1>3, <2>1 DEF Cached
    <2>2. CASE v # u
      <3>1. cache'[UserKey(v)] = cache[UserKey(v)]
        BY <1>1, <1>3, <2>2, KeysAre, KeysApart
      <3> QED BY <3>1 DEF Cached, Inv, AccountsTypeOK
    <2> QED BY <2>1, <2>2
  <1>6. cache'[StatisticsKey] \in Entry(Tally) \cup {NoEntry}
    BY <1>1, <1>3, KeysAre, KeysApart DEF Inv, AccountsTypeOK
  <1>7. since' \in [Users -> 0 .. Forever]
    BY <1>2 DEF Inv, AccountsTypeOK
  <1> QED BY <1>2, <1>3, <1>4, <1>5, <1>6, <1>7, GoneKeeps

LEMMA TimeKeeps ==
  ASSUME Inv, Time
  PROVE  Inv'
PROOF
  <1>1. /\ UNCHANGED <<users, call, current>>
        /\ DOMAIN cache' = Keys /\ \A k \in Keys : cache'[k] = Older(cache[k])
    BY DEF Time, Age, Inv, AccountsTypeOK
  <1>2. since' \in [Users -> 0 .. Forever]
    BY CacheAssumption DEF Time, Inv, AccountsTypeOK, Forever
  <1>3. call' \in [Clients -> Call] /\ \A q \in Clients : call'[q] \in {call[q], Idle}
    BY <1>1 DEF Inv, AccountsTypeOK
  <1>4. \A v \in Users : /\ cache'[UserKey(v)] \in Entry(Copy) \cup {NoEntry}
                         /\ Cached(UserKey(v))' => Cached(UserKey(v))
    BY <1>1, KeysAre, OlderType DEF Cached, Inv, AccountsTypeOK
  <1>5. cache'[StatisticsKey] \in Entry(Tally) \cup {NoEntry}
    BY <1>1, KeysAre, OlderType DEF Inv, AccountsTypeOK
  <1> QED BY <1>1, <1>2, <1>3, <1>4, <1>5, GoneKeeps

-----------------------------------------------------------------------------
\* Counting for the statistics.
LEMMA StatisticsStepKeeps ==
  ASSUME Inv, NEW p \in Clients, Statistics(p) \/ StatisticsCount(p) \/ StatisticsRoles(p)
  PROVE  Inv'
PROOF
  <1> DEFINE c == call[p]
  <1>0. /\ c \in Call /\ c.pc \in {"statistics", "count", "roles"} /\ OneChange(c)
        /\ c.tally \in Tally
    BY CallKnown DEF Statistics, StatisticsCount, StatisticsRoles, Holds, Call
  <1>1. ASSUME NEW d \in Call, Advance(p, d), UNCHANGED <<cache, users, since>>,
               d.pc \in {"count", "roles", "store"}, d.op = c.op, d.next = c.next,
               d.caller = c.caller, d.patch = c.patch
        PROVE  Inv'
    <2>1. Holds(d) /\ CallFresh(d)
      BY <1>0, <1>1 DEF Holds, Searching, OneChange, CallFresh
    <2> QED BY <1>1, <2>1, AdvanceKeeps
  <1>2. CASE Statistics(p)
    <2>1. CASE Cached(StatisticsKey)
      BY <1>2, <2>1, FinishKeeps DEF Statistics
    <2>2. CASE ~Cached(StatisticsKey)
      <3> DEFINE d == [c EXCEPT !.pc = "count"]
      <3>1. Advance(p, d) /\ UNCHANGED <<cache, users, since>>
        BY <1>2, <2>2 DEF Statistics
      <3>2. d \in Call /\ d.pc = "count" /\ d.op = c.op /\ d.next = c.next
            /\ d.caller = c.caller /\ d.patch = c.patch
        BY <1>0 DEF Call
      <3> HIDE DEF d
      <3> QED BY <1>1, <3>1, <3>2
    <2> QED BY <2>1, <2>2
  <1>3. CASE StatisticsCount(p)
    <2> DEFINE tally == [c.tally EXCEPT !.total = Cardinality(Registered)]
               d == [c EXCEPT !.pc = "roles", !.tally = tally]
    <2>1. tally \in Tally
      BY <1>0, CountType DEF Tally
    <2>2. Advance(p, d) /\ UNCHANGED <<cache, users, since>>
      BY <1>3 DEF StatisticsCount
    <2> HIDE DEF tally
    <2>3. d \in Call /\ d.pc = "roles" /\ d.op = c.op /\ d.next = c.next
          /\ d.caller = c.caller /\ d.patch = c.patch
      BY <1>0, <2>1, ZenonT(40) DEF Call
    <2> HIDE DEF d
    <2> QED BY <1>1, <2>2, <2>3
  <1>4. CASE StatisticsRoles(p)
    <2> DEFINE tally == [c.tally EXCEPT !.byRole = [r \in Roles |-> Number(r)]]
               d == [c EXCEPT !.pc = "store", !.tally = tally]
    <2>1. tally \in Tally
      BY <1>0, CountType DEF Tally
    <2>2. Advance(p, d) /\ UNCHANGED <<cache, users, since>>
      BY <1>4 DEF StatisticsRoles
    <2> HIDE DEF tally
    <2>3. d \in Call /\ d.pc = "store" /\ d.op = c.op /\ d.next = c.next
          /\ d.caller = c.caller /\ d.patch = c.patch
      BY <1>0, <2>1, ZenonT(40) DEF Call
    <2> HIDE DEF d
    <2> QED BY <1>1, <2>2, <2>3
  <1> QED BY <1>2, <1>3, <1>4

LEMMA StatisticsStoreKeeps ==
  ASSUME Inv, NEW p \in Clients, StatisticsStore(p)
  PROVE  Inv'
PROOF
  <1>1. call[p].tally \in Tally
    BY CallKnown DEF Call
  <1>2. Put(StatisticsKey, call[p].tally, MediumTTL) /\ Finish(p) /\ UNCHANGED <<users, since>>
    BY DEF StatisticsStore
  <1>3. /\ DOMAIN cache' = Keys
        /\ cache'[StatisticsKey] = [val |-> call[p].tally, left |-> MediumTTL]
        /\ \A u \in Users : cache'[UserKey(u)] = cache[UserKey(u)]
    BY <1>2, PutOnly, KeysAre, KeysApart DEF Inv, AccountsTypeOK
  <1>4. cache'[StatisticsKey] \in Entry(Tally)
    BY <1>1, <1>3, CacheAssumption DEF Entry
  <1>5. /\ call' \in [Clients -> Call]
        /\ call'[p] = Idle
        /\ \A q \in Clients \ {p} : call'[q] = call[q]
        /\ current' = current \ {p}
    BY <1>2, IdleHolds DEF Finish, Become, Inv, AccountsTypeOK
  <1>6. AccountsTypeOK'
    BY <1>2, <1>3, <1>4, <1>5 DEF Inv, AccountsTypeOK
  <1>7. CallsHold'
    <2> SUFFICES ASSUME NEW q \in Clients PROVE Holds(call[q])'
      BY DEF CallsHold
    <2>1. Holds(call'[q])
      BY <1>5, IdleHolds DEF Inv, CallsHold
    <2> QED BY <1>2, <2>1 DEF Holds, SearchHolds, Searching, OneChange, Registered, Sought
  <1>8. Fresh'
    <2> SUFFICES ASSUME NEW q \in current' PROVE CallFresh(call[q])'
      BY DEF Fresh
    <2>1. CallFresh(call'[q])
      BY <1>5 DEF Inv, AccountsTypeOK, Fresh
    <2> QED BY <1>2, <2>1 DEF CallFresh, Sought
  <1>9. CachedExist'
    BY <1>2, <1>3 DEF Inv, CachedExist, Cached, Registered
  <1> QED BY <1>6, <1>7, <1>8, <1>9 DEF Inv

LEMMA NextKeeps ==
  ASSUME Inv, [Next]_accountsVars
  PROVE  Inv'
PROOF
  <1>1. CASE UNCHANGED accountsVars
    BY <1>1
    DEF accountsVars, Inv, AccountsTypeOK, CallsHold, Holds, SearchHolds, Searching, OneChange,
        Registered, Sought, Fresh, CallFresh, CachedExist, Cached
  <1>2. ASSUME NEW p \in Clients, Step(p)
        PROVE  Inv'
    <2>1. CASE Abort(p)
      BY <2>1, FinishKeeps DEF Abort
    <2> QED
      BY <1>2, <2>1, FindKeeps, FindSelectKeeps, FindFillKeeps, SaveLoadKeeps, SaveWriteKeeps,
         ForgetKeeps, RegisterInsertKeeps, StatisticsStepKeeps, StatisticsStoreKeeps
      DEF Step
  <1> QED BY <1>1, <1>2, BeginKeeps, TimeKeeps DEF Next

LEMMA Always == Spec => []Inv
  <1>1. Inv /\ [Next]_accountsVars => Inv'
    BY NextKeeps
  <1> QED BY Initially, <1>1, PTL DEF Spec

(* The users, their cache and every call under way keep their types.        *)
THEOREM AccountsTypeCorrect == Spec => []AccountsTypeOK
BY Always, PTL DEF Inv

-----------------------------------------------------------------------------
\* The step that changes the row of a registered user.
LEMMA OnlySaves ==
  ASSUME Inv, Next, NEW u \in Registered, users'[u] # users[u]
  PROVE  \E p \in Clients :
           /\ call[p].pc = "write" /\ call[p].target = u
           /\ users'[u] = Saved(users[u], call[p].mem, call[p].seen)
           /\ users[u] \in Account /\ Holds(call[p]) /\ call[p] \in Call
PROOF
  <1>0. u \in Users /\ users[u] \in Account
    BY DEF Registered, Inv, AccountsTypeOK
  <1>1. users' # users
    OBVIOUS
  <1>2. PICK p \in Clients : SaveWrite(p) \/ RegisterInsert(p)
    BY <1>1, ZenonT(40)
    DEF Next, Time, Begin, Step, Arrive, ReadBegin, StatisticsBegin, RoleBegin, ProfileBegin,
        RegisterBegin, PasswordBegin, Find, FindSelect, FindFill, SaveLoad, Forget, Statistics,
        StatisticsCount, StatisticsRoles, StatisticsStore, Abort
  <1>3. CASE RegisterInsert(p)
    BY <1>0, <1>3 DEF RegisterInsert, Inv, AccountsTypeOK, Registered
  <1>4. CASE SaveWrite(p)
    <2>1. call[p].pc = "write"
          /\ users' = [users EXCEPT ![call[p].target] =
                         Saved(users[call[p].target], call[p].mem, call[p].seen)]
      BY <1>4 DEF SaveWrite
    <2>2. call[p].target = u
      BY <1>0, <2>1 DEF Inv, AccountsTypeOK
    <2> QED BY <1>0, <2>1, <2>2, CallKnown DEF Inv, AccountsTypeOK
  <1> QED BY <1>2, <1>3, <1>4

LEMMA FreshFollows ==
  ASSUME Inv, NEW p \in current, call[p].pc = "write", NEW row \in Account,
         users[call[p].target] = row
  PROVE  Follows(Saved(row, call[p].mem, call[p].seen), call[p].patch, row)
PROOF
  <1>1. CallFresh(call[p]) /\ call[p].patch \in Patch
    BY DEF Inv, Fresh, AccountsTypeOK, Call
  <1>2. call[p].seen = row
    BY <1>1 DEF CallFresh
  <1>3. PICK user \in ReadOf(row) : call[p].mem = Patched(user, call[p].patch)
    BY <1>1 DEF CallFresh
  <1> QED BY <1>1, <1>2, <1>3, SavedFollows

(* A save from a copy that nobody has changed since it was read changes     *)
(* what was asked for and nothing else, whatever the other calls do         *)
(* (users.service.ts:42).                                                   *)
THEOREM OnlyAskedForKept == Spec => OnlyAskedFor
PROOF
  <1> DEFINE Kept ==
        \A u \in Registered : users'[u] # users[u] =>
          \E p \in Clients :
            /\ call[p].pc = "write" /\ call[p].target = u
            /\ \/ p \notin current
               \/ Follows(users'[u], call[p].patch, users[u])
  <1>1. ASSUME Inv, Next PROVE Kept
    BY <1>1, OnlySaves, FreshFollows
  <1>2. Inv /\ [Next]_accountsVars => [Kept]_accountsVars
    BY <1>1
  <1> HIDE DEF Kept
  <1>3. Spec => [][Kept]_accountsVars
    BY Always, <1>2, PTL DEF Spec
  <1> QED BY <1>3 DEF OnlyAskedFor, Kept

-----------------------------------------------------------------------------
\* Which step of p takes it where it holds something to store.
LEMMA CallShape ==
  ASSUME Inv, NEW p \in Clients, Begin(p) \/ Step(p)
  PROVE  /\ \A q \in Clients \ {p} : call'[q] = call[q]
         /\ call'[p].pc = "fill" => FindSelect(p)
         /\ call'[p].pc = "roles" => StatisticsCount(p)
         /\ call'[p].pc = "store" => StatisticsRoles(p)
PROOF
  <1> DEFINE Plainly(c) == c.pc \notin {"fill", "roles", "store"}
  <1>0. Plainly(Idle) /\ call \in [Clients -> Call] /\ call[p] \in Call /\ Holds(call[p])
    BY IdleHolds, CallKnown DEF Inv, AccountsTypeOK
  <1>1. ASSUME NEW c, call' = [call EXCEPT ![p] = c], Plainly(c)
        PROVE  /\ \A q \in Clients \ {p} : call'[q] = call[q]
               /\ call'[p].pc \notin {"fill", "roles", "store"}
    BY <1>0, <1>1
  <1>2. ASSUME NEW c \in Call, call' = [call EXCEPT ![p] = c],
               \/ c.pc = "fill" /\ FindSelect(p)
               \/ c.pc = "roles" /\ StatisticsCount(p)
               \/ c.pc = "store" /\ StatisticsRoles(p)
        PROVE  /\ \A q \in Clients \ {p} : call'[q] = call[q]
               /\ call'[p].pc = "fill" => FindSelect(p)
               /\ call'[p].pc = "roles" => StatisticsCount(p)
               /\ call'[p].pc = "store" => StatisticsRoles(p)
    BY <1>0, <1>2
  <1> HIDE DEF Plainly
  <1>3. CASE Begin(p)
    <2>1. ASSUME NEW c, c.pc = "find", call' = [call EXCEPT ![p] = c]
          PROVE  \E d : call' = [call EXCEPT ![p] = d] /\ d.pc \in {"find", "insert"}
      BY <2>1
    <2>2. ASSUME NEW op, NEW u,
                 Arrive(p, [Idle EXCEPT !.op = op, !.caller = u])
          PROVE  \E d : call' = [call EXCEPT ![p] = d] /\ d.pc \in {"find", "insert"}
      <3> DEFINE c == [[Idle EXCEPT !.op = op, !.caller = u] EXCEPT !.pc = "find"]
      <3>1. call' = [call EXCEPT ![p] = c] /\ c.pc = "find"
        BY <2>2 DEF Arrive, Become, Idle
      <3> QED BY <2>1, <3>1
    <2>3. ASSUME NEW u, NEW f, ProfileBegin(p, u, f)
          PROVE  \E d : call' = [call EXCEPT ![p] = d] /\ d.pc \in {"find", "insert"}
      <3> DEFINE c == [[Idle EXCEPT !.op = "profile", !.caller = u, !.patch.profile = f]
                         EXCEPT !.pc = "find"]
      <3>1. call' = [call EXCEPT ![p] = c] /\ c.pc = "find"
        BY <2>3 DEF ProfileBegin, Arrive, Become, Idle
      <3> QED BY <2>1, <3>1
    <2>4. ASSUME NEW u, NEW given, NEW next, PasswordBegin(p, u, given, next)
          PROVE  \E d : call' = [call EXCEPT ![p] = d] /\ d.pc \in {"find", "insert"}
      <3> DEFINE c == [[Idle EXCEPT !.op = "password", !.caller = u, !.given = given,
                                    !.next = next] EXCEPT !.pc = "find"]
      <3>1. call' = [call EXCEPT ![p] = c] /\ c.pc = "find"
        BY <2>4 DEF PasswordBegin, Arrive, Become, Idle
      <3> QED BY <2>1, <3>1
    <2>5. ASSUME NEW u, NEW target, NEW role, RoleBegin(p, u, target, role)
          PROVE  \E d : call' = [call EXCEPT ![p] = d] /\ d.pc \in {"find", "insert"}
      <3> DEFINE c == [[Idle EXCEPT !.op = "role", !.caller = u, !.target = target,
                                    !.patch.role = role] EXCEPT !.pc = "find"]
      <3>1. call' = [call EXCEPT ![p] = c] /\ c.pc = "find"
        BY <2>5 DEF RoleBegin, Arrive, Become, Idle
      <3> QED BY <2>1, <3>1
    <2>6. ASSUME NEW u, NEW f, NEW secret, RegisterBegin(p, u, f, secret)
          PROVE  \E d : call' = [call EXCEPT ![p] = d] /\ d.pc \in {"find", "insert"}
      <3> DEFINE c == [Idle EXCEPT !.pc = "insert", !.op = "register", !.target = u,
                                   !.patch = [profile |-> f, role |-> "USER",
                                              password |-> Typed(secret)]]
      <3>1. call' = [call EXCEPT ![p] = c]
        BY <2>6 DEF RegisterBegin, Become
      <3>2. c.pc = "insert"
        BY DEF Idle
      <3> HIDE DEF c
      <3> QED BY <3>1, <3>2
    <2>7. PICK d : call' = [call EXCEPT ![p] = d] /\ d.pc \in {"find", "insert"}
      BY <1>3, <2>2, <2>3, <2>4, <2>5, <2>6 DEF Begin, ReadBegin, StatisticsBegin
    <2> QED BY <1>1, <2>7 DEF Plainly
  <1>4. CASE Find(p)
    <2> DEFINE c == call[p]
               u == Sought(c)
    <2>1. c.pc = "find" /\ SearchHolds(c) /\ OneChange(c) /\ u \in Users
      BY <1>0, <1>4, SoughtType DEF Find, Holds, Searching
    <2>2. CASE Cached(UserKey(u))
      <3> DEFINE user == cache[UserKey(u)].val
      <3>1. user \in Copy /\ u \in Registered
        BY <2>1, <2>2 DEF Inv, AccountsTypeOK, CachedExist, Cached, Entry
      <3>2. call' = [call EXCEPT ![p] = Returned(c, user)]
        BY <1>4, <2>2 DEF Find, Become
      <3> HIDE DEF user
      <3>3. Plainly(Returned(c, user))
        BY <1>0, <2>1, <3>1, CopyType, ReturnedHolds DEF Plainly
      <3> QED BY <1>1, <3>2, <3>3
    <2>3. CASE ~Cached(UserKey(u))
      <3>1. call' = [call EXCEPT ![p] = [c EXCEPT !.pc = "select"]]
        BY <1>4, <2>3 DEF Find, Become
      <3>2. Plainly([c EXCEPT !.pc = "select"])
        BY <1>0 DEF Call, Plainly
      <3> QED BY <1>1, <3>1, <3>2
    <2> QED BY <2>2, <2>3
  <1>5. CASE FindSelect(p)
    <2> DEFINE c == call[p]
               u == Sought(c)
               d == [c EXCEPT !.pc = "fill", !.mem = Entity(users[u])]
    <2>1. CASE users[u] = NoUser
      BY <1>0, <1>1, <1>5, <2>1 DEF FindSelect, Finish, Become
    <2>2. CASE users[u] # NoUser
      <3>1. u \in Users /\ users[u] \in Account
        <4>1. u \in Users
          BY <1>0, <1>5, SoughtType DEF FindSelect, Holds, Searching
        <4> QED BY <2>2, <4>1 DEF Inv, AccountsTypeOK
      <3>2. d \in Call /\ d.pc = "fill"
        BY <1>0, <3>1, EntityType, ZenonT(40) DEF Call, Complete
      <3>3. call' = [call EXCEPT ![p] = d]
        BY <1>5, <2>2 DEF FindSelect, Become
      <3> HIDE DEF d
      <3> QED BY <1>2, <1>5, <3>2, <3>3
    <2> QED BY <2>1, <2>2
  <1>6. CASE FindFill(p)
    <2> DEFINE c == call[p]
               b == [c EXCEPT !.mem = NoUser]
    <2>1. /\ c.pc = "fill" /\ SearchHolds(c) /\ OneChange(c)
          /\ Sought(c) \in Registered /\ Complete(c.mem)
      BY <1>0, <1>6 DEF FindFill, Holds, Searching
    <2>2. b \in Call /\ SearchHolds(b) /\ OneChange(b) /\ b.pc # "insert"
          /\ Sought(b) \in Registered
      BY <1>0, <2>1 DEF Call, SearchHolds, OneChange, Sought
    <2>3. call' = [call EXCEPT ![p] = Returned(b, c.mem)]
      BY <1>6 DEF FindFill, Advance, Become
    <2> HIDE DEF b
    <2>4. Plainly(Returned(b, c.mem))
      BY <2>1, <2>2, ReturnedHolds DEF Plainly
    <2> QED BY <1>1, <2>3, <2>4
  <1>7. CASE SaveLoad(p)
    <2> DEFINE d == [call[p] EXCEPT !.pc = "write", !.seen = users[call[p].target]]
    <2>1. call' = [call EXCEPT ![p] = d]
      BY <1>7 DEF SaveLoad, Advance, Become
    <2>2. Plainly(d)
      BY <1>0 DEF Call, Plainly
    <2> HIDE DEF d
    <2> QED BY <1>1, <2>1, <2>2
  <1>8. CASE SaveWrite(p)
    <2> DEFINE d == [Idle EXCEPT !.pc = "forget", !.target = call[p].target]
    <2>1. call' = [call EXCEPT ![p] = d]
      BY <1>8 DEF SaveWrite
    <2>2. Plainly(d)
      BY DEF Idle, Plainly
    <2> HIDE DEF d
    <2> QED BY <1>1, <2>1, <2>2
  <1>9. CASE Forget(p) \/ RegisterInsert(p) \/ StatisticsStore(p) \/ Abort(p)
    <2>1. call' = [call EXCEPT ![p] = Idle]
      BY <1>9 DEF Forget, RegisterInsert, StatisticsStore, Abort, Finish, Become
    <2> QED BY <1>0, <1>1, <2>1
  <1>10. CASE Statistics(p)
    <2>1. \/ call' = [call EXCEPT ![p] = Idle]
          \/ call' = [call EXCEPT ![p] = [call[p] EXCEPT !.pc = "count"]]
      BY <1>10 DEF Statistics, Finish, Advance, Become
    <2>2. Plainly([call[p] EXCEPT !.pc = "count"])
      BY <1>0 DEF Call, Plainly
    <2> QED BY <1>0, <1>1, <2>1, <2>2
  <1>11. CASE StatisticsCount(p)
    <2>1. call'[p].pc = "roles" /\ \A q \in Clients \ {p} : call'[q] = call[q]
      BY <1>0, <1>11 DEF StatisticsCount, Advance, Become, Call
    <2> QED BY <1>11, <2>1
  <1>12. CASE StatisticsRoles(p)
    <2>1. call'[p].pc = "store" /\ \A q \in Clients \ {p} : call'[q] = call[q]
      BY <1>0, <1>12 DEF StatisticsRoles, Advance, Become, Call
    <2> QED BY <1>12, <2>1
  <1> QED BY <1>3, <1>4, <1>5, <1>6, <1>7, <1>8, <1>9, <1>10, <1>11, <1>12 DEF Step

\* What becomes of an entry in a step of p.
LEMMA CacheShape ==
  ASSUME Inv, NEW p \in Clients, Begin(p) \/ Step(p)
  PROVE  /\ \A u \in Users : \/ cache'[UserKey(u)] \in {cache[UserKey(u)], NoEntry}
                             \/ FindFill(p) /\ Sought(call[p]) = u
         /\ cache'[StatisticsKey] = cache[StatisticsKey] \/ StatisticsStore(p)
PROOF
  <1>1. CASE UNCHANGED cache
    BY <1>1
  <1>2. CASE FindFill(p)
    <2> DEFINE u == Sought(call[p])
    <2>1. u \in Users
      BY <1>2, CallKnown DEF FindFill, Holds, Registered
    <2>2. Put(UserKey(u), Plain(call[p].mem), MediumTTL)
      BY <1>2 DEF FindFill
    <2> HIDE DEF u
    <2>3. \A j \in Keys \ {UserKey(u)} : cache'[j] = cache[j]
      BY <2>1, <2>2, PutOnly, KeysAre DEF Inv, AccountsTypeOK
    <2> QED BY <1>2, <2>1, <2>3, KeysAre, KeysApart DEF u
  <1>3. CASE Forget(p)
    <2>1. /\ call[p].target \in Users /\ UserKey(call[p].target) \in Keys
          /\ Del(UserKey(call[p].target))
      BY <1>3, CallKnown, KeysAre DEF Forget, Holds
    <2>2. /\ cache'[UserKey(call[p].target)] = NoEntry
          /\ \A j \in Keys \ {UserKey(call[p].target)} : cache'[j] = cache[j]
      BY <2>1, DelOnly DEF Inv, AccountsTypeOK
    <2> QED BY <2>1, <2>2, KeysAre, KeysApart
  <1>4. CASE StatisticsStore(p)
    <2>1. \A u \in Users : cache'[UserKey(u)] = cache[UserKey(u)]
      BY <1>4, PutOnly, KeysAre, KeysApart DEF StatisticsStore, Inv, AccountsTypeOK
    <2> QED BY <1>4, <2>1
  <1> QED
    BY <1>1, <1>2, <1>3, <1>4
    DEF Begin, Step, Arrive, ReadBegin, StatisticsBegin, RoleBegin, ProfileBegin,
        PasswordBegin, RegisterBegin, Find, FindSelect, SaveLoad, SaveWrite, RegisterInsert,
        Statistics, StatisticsCount, StatisticsRoles, Abort

\* What becomes of a registered user in a step of p.
LEMMA RowShape ==
  ASSUME Inv, NEW p \in Clients, Begin(p) \/ Step(p), NEW u \in Registered
  PROVE  /\ u \in Registered'
         /\ since'[u] = 0 \/ (users'[u] = users[u] /\ since'[u] = since[u])
PROOF
  <1>0. u \in Users
    BY DEF Registered
  <1>1. CASE UNCHANGED <<users, since>>
    BY <1>1 DEF Registered
  <1>2. CASE RegisterInsert(p)
    <2> DEFINE row == [call[p].patch EXCEPT !.password = Hashed(call[p].patch.password)]
    <2>1. users' = users \/ (call[p].target \notin Registered
                               /\ users' = [users EXCEPT ![call[p].target] = row])
      BY <1>2 DEF RegisterInsert
    <2> HIDE DEF row
    <2>2. users'[u] = users[u]
      BY <1>0, <2>1 DEF Inv, AccountsTypeOK
    <2> QED BY <1>2, <2>2 DEF RegisterInsert, Registered
  <1>3. CASE SaveWrite(p)
    <2> DEFINE v == call[p].target
               row == Saved(users[v], call[p].mem, call[p].seen)
    <2>1. /\ users' = [users EXCEPT ![v] = row]
          /\ (row = users[v] /\ since' = since) \/ since' = [since EXCEPT ![v] = 0]
      BY <1>3 DEF SaveWrite
    <2>2. v \in Users /\ row \in Account
      <3>1. /\ call[p].pc = "write" /\ Holds(call[p])
        BY <1>3, CallKnown DEF SaveWrite
      <3>2. v \in Registered /\ users[v] \in Account
        BY <3>1 DEF Holds, Registered, Inv, AccountsTypeOK
      <3> QED BY <3>1, <3>2, SavedType DEF Holds, Registered
    <2> HIDE DEF v, row
    <2>3. u \in Registered'
      BY <2>1, <2>2, RowsOnly DEF Inv
    <2>4. since'[u] = 0 \/ (users'[u] = users[u] /\ since'[u] = since[u])
      <3>1. CASE since' = [since EXCEPT ![v] = 0] /\ u = v
        BY <1>0, <3>1 DEF Inv, AccountsTypeOK
      <3>2. CASE since' = [since EXCEPT ![v] = 0] /\ u # v
        BY <1>0, <2>1, <3>2 DEF Inv, AccountsTypeOK
      <3>3. CASE row = users[v] /\ since' = since
        BY <1>0, <2>1, <3>3 DEF Inv, AccountsTypeOK
      <3> QED BY <2>1, <3>1, <3>2, <3>3
    <2> QED BY <2>3, <2>4
  <1> QED
    BY <1>1, <1>2, <1>3
    DEF Begin, Step, Arrive, ReadBegin, StatisticsBegin, RoleBegin, ProfileBegin,
        PasswordBegin, RegisterBegin, Find, FindSelect, FindFill, SaveLoad, Forget,
        Statistics, StatisticsCount, StatisticsRoles, StatisticsStore, Abort

-----------------------------------------------------------------------------
\* What the statistics a call has counted so far add up to.
Adds(c) ==
  /\ c.pc \in {"roles", "store"} => c.tally.total <= Cardinality(Registered)
  /\ c.pc = "store" => /\ c.tally.total <= RolesSum(c.tally)
                       /\ RolesSum(c.tally) <= Cardinality(Registered)

Sums == StatisticsAddUp /\ \A p \in Clients : Adds(call[p])

\* Everybody is counted under one role, and only one.
LEMMA RolesCover ==
  ASSUME AccountsTypeOK
  PROVE  Number("USER") + Number("ADMIN") = Cardinality(Registered)
PROOF
  <1> DEFINE S == {u \in Registered : users[u].role = "USER"}
             T == {u \in Registered : users[u].role = "ADMIN"}
  <1>1. IsFiniteSet(S) /\ IsFiniteSet(T) /\ Cardinality(S) \in Nat /\ Cardinality(T) \in Nat
    <2>1. S \in SUBSET Registered /\ T \in SUBSET Registered
      OBVIOUS
    <2> QED BY <2>1, CountType, FS_Subset, FS_CardinalityType
  <1>2. \A u \in Registered : users[u].role \in {"USER", "ADMIN"}
    BY DEF AccountsTypeOK, Registered, Account, Roles
  <1>3. S \cup T = Registered /\ S \cap T = {}
    BY <1>2
  <1>4. Cardinality(S \cup T) = Cardinality(S) + Cardinality(T) - Cardinality(S \cap T)
    BY <1>1, FS_Union
  <1>5. Cardinality({}) = 0
    BY FS_EmptySet
  <1>6. Number("USER") = Cardinality(S) /\ Number("ADMIN") = Cardinality(T)
    BY DEF Number
  <1> HIDE DEF S, T
  <1>7. Cardinality(Registered) = Cardinality(S) + Cardinality(T) - Cardinality({})
    BY <1>3, <1>4
  <1> QED BY <1>1, <1>5, <1>6, <1>7

\* Users are added and never taken away.
LEMMA NeverFewer ==
  ASSUME Inv, Registered \subseteq Registered'
  PROVE  Cardinality(Registered) <= Cardinality(Registered')
PROOF
  <1>1. Registered' \subseteq Users
    BY DEF Registered
  <1>2. IsFiniteSet(Registered')
    BY <1>1, AccountsAssumption, FS_Subset
  <1> QED BY <1>2, FS_Subset

LEMMA StepSums ==
  ASSUME Inv, Sums, NEW p \in Clients, Begin(p) \/ Step(p)
  PROVE  Sums'
PROOF
  <1>0. /\ Cardinality(Registered) \in Nat /\ Cardinality(Registered') \in Nat
        /\ Cardinality(Registered) <= Cardinality(Registered')
        /\ \A tally \in Tally : tally.total \in Nat /\ RolesSum(tally) \in Nat
        /\ \A q \in Clients : call[q].tally \in Tally
    <2>1. Registered \subseteq Registered'
      BY RowShape
    <2>2. Registered' \subseteq Users
      BY DEF Registered
    <2>3. Cardinality(Registered') \in Nat
      BY <2>2, AccountsAssumption, FS_Subset, FS_CardinalityType
    <2>4. \A tally \in Tally : tally.total \in Nat /\ RolesSum(tally) \in Nat
      BY DEF Tally, RolesSum, Roles
    <2>5. \A q \in Clients : call[q].tally \in Tally
      BY CallKnown DEF Call
    <2> QED BY <2>1, <2>3, <2>4, <2>5, CountType, NeverFewer
  <1>1. ASSUME NEW q \in Clients
        PROVE  Adds(call[q])'
    <2>1. CASE q # p
      <3>1. call'[q] = call[q] /\ Adds(call[q])
        BY <2>1, CallShape DEF Sums
      <3> QED BY <1>0, <3>1 DEF Adds, RolesSum
    <2>2. CASE q = p /\ call'[p].pc \notin {"roles", "store"}
      BY <2>2 DEF Adds
    <2>3. CASE q = p /\ call'[p].pc = "roles"
      <3>1. StatisticsCount(p)
        BY <2>3, CallShape
      <3>2. call'[p].tally.total = Cardinality(Registered)
        BY <3>1, CallKnown DEF StatisticsCount, Advance, Become, Inv, AccountsTypeOK, Call, Tally
      <3> QED BY <1>0, <2>3, <3>2 DEF Adds
    <2>4. CASE q = p /\ call'[p].pc = "store"
      <3>1. StatisticsRoles(p)
        BY <2>4, CallShape
      <3>2. /\ call[p].tally.total <= Cardinality(Registered)
            /\ call'[p].tally.total = call[p].tally.total
            /\ call'[p].tally.byRole = [r \in Roles |-> Number(r)]
        BY <3>1, CallKnown
        DEF StatisticsRoles, Advance, Become, Inv, AccountsTypeOK, Call, Tally, Sums, Adds
      <3>3. RolesSum(call'[p].tally) = Number("USER") + Number("ADMIN")
        BY <3>2 DEF RolesSum, Roles
      <3>4. RolesSum(call'[p].tally) = Cardinality(Registered)
        BY <3>3, RolesCover DEF Inv
      <3> QED BY <1>0, <2>4, <3>2, <3>4 DEF Adds, RolesSum
    <2> QED BY <2>1, <2>2, <2>3, <2>4
  <1>2. StatisticsAddUp'
    <2> SUFFICES ASSUME cache'[StatisticsKey] # NoEntry
                 PROVE  LET tally == cache'[StatisticsKey].val
                        IN  /\ tally.total <= RolesSum(tally)
                            /\ RolesSum(tally) <= Cardinality(Registered')
      BY DEF StatisticsAddUp, Cached, RolesSum
    <2>1. CASE cache'[StatisticsKey] = cache[StatisticsKey]
      <3>1. cache[StatisticsKey].val \in Tally
        BY <2>1 DEF Inv, AccountsTypeOK, Entry
      <3> QED BY <1>0, <2>1, <3>1 DEF Sums, StatisticsAddUp, Cached
    <2>2. CASE StatisticsStore(p)
      <3>1. cache'[StatisticsKey].val = call[p].tally /\ call[p].pc = "store"
        <4>1. Put(StatisticsKey, call[p].tally, MediumTTL) /\ call[p].pc = "store"
          BY <2>2 DEF StatisticsStore
        <4>2. cache'[StatisticsKey] = [val |-> call[p].tally, left |-> MediumTTL]
          BY <4>1, PutOnly, KeysAre DEF Inv, AccountsTypeOK
        <4> QED BY <4>1, <4>2
      <3>2. Adds(call[p])
        BY DEF Sums
      <3> QED BY <1>0, <3>1, <3>2 DEF Adds
    <2> QED BY <2>1, <2>2, CacheShape
  <1> QED BY <1>1, <1>2 DEF Sums

LEMMA NextSums ==
  ASSUME Inv, Sums, [Next]_accountsVars
  PROVE  Sums'
PROOF
  <1>1. CASE UNCHANGED accountsVars
    BY <1>1 DEF accountsVars, Sums, StatisticsAddUp, Adds, RolesSum, Registered, Cached
  <1>2. CASE Time
    <2>1. /\ UNCHANGED <<users, call>>
          /\ cache'[StatisticsKey] = Older(cache[StatisticsKey])
      BY <1>2, KeysAre DEF Time, Age, Inv, AccountsTypeOK
    <2>2. cache'[StatisticsKey] # NoEntry =>
            /\ cache[StatisticsKey] # NoEntry
            /\ cache'[StatisticsKey].val = cache[StatisticsKey].val
      BY <2>1, OlderType DEF Inv, AccountsTypeOK
    <2> QED BY <2>1, <2>2 DEF Sums, StatisticsAddUp, Adds, RolesSum, Registered, Cached
  <1> QED BY <1>1, <1>2, StepSums DEF Next

(* Whenever a dashboard's statistics are read from the cache, nobody in     *)
(* them is without a role or does not exist, however registrations and the  *)
(* two queries interleave (admin.service.ts:109).                           *)
THEOREM StatisticsAlwaysAddUp == Spec => []StatisticsAddUp
PROOF
  <1>1. AccountsInit => Sums
    BY IdleHolds, KeysAre DEF AccountsInit, Sums, StatisticsAddUp, Adds, Cached
  <1>2. Inv /\ Sums /\ [Next]_accountsVars => Sums'
    BY NextSums
  <1>3. Sums => StatisticsAddUp
    BY DEF Sums
  <1> QED BY <1>1, <1>2, <1>3, Always, PTL DEF Spec

-----------------------------------------------------------------------------
(* From here on no call takes as long as a unit of the clock (Prompt).      *)

\* Data about to be stored that is not the table's any more has not been so
\* for long.
CallBound(c) ==
  c.pc = "fill" /\ Plain(c.mem) # Plain(Entity(users[Sought(c)])) => since[Sought(c)] = 0

\* No entry outlives what it was stored with.
Lifetimes == \A u \in Users : Cached(UserKey(u)) => cache[UserKey(u)].left <= MediumTTL

Bounded == (\A p \in Clients : CallBound(call[p])) /\ Lifetimes /\ ChangeTakesHold

LEMMA StepBounded ==
  ASSUME Inv, Bounded, NEW p \in Clients, Begin(p) \/ Step(p)
  PROVE  Bounded'
PROOF
  <1>0. MediumTTL \in Nat \ {0}
    BY CacheAssumption
  <1>1. ASSUME NEW q \in Clients
        PROVE  CallBound(call[q])'
    <2>1. CASE q = p
      <3> SUFFICES ASSUME call'[p].pc = "fill" PROVE CallBound(call[p])'
        BY <2>1 DEF CallBound
      <3>1. FindSelect(p) /\ call[p] \in Call
        BY CallShape, CallKnown
      <3>2. /\ call' = [call EXCEPT ![p] = [call[p] EXCEPT !.pc = "fill",
                                                 !.mem = Entity(users[Sought(call[p])])]]
            /\ users' = users
        BY <3>1, IdleHolds DEF FindSelect, Finish, Become, Inv, AccountsTypeOK
      <3>3. call'[p].mem = Entity(users[Sought(call[p])]) /\ call'[p].stage = call[p].stage
            /\ call'[p].caller = call[p].caller /\ call'[p].target = call[p].target
        BY <3>1, <3>2 DEF Call, Inv, AccountsTypeOK
      <3> QED BY <3>2, <3>3 DEF CallBound, Sought
    <2>2. CASE q # p
      <3>1. call'[q] = call[q] /\ CallBound(call[q]) /\ Holds(call[q])
        BY <2>2, CallShape, CallKnown DEF Bounded
      <3> DEFINE u == Sought(call[q])
      <3>2. CASE call[q].pc = "fill"
        <4>1. since'[u] = 0 \/ (users'[u] = users[u] /\ since'[u] = since[u])
          BY <3>1, <3>2, RowShape DEF Holds
        <4> QED BY <3>1, <4>1 DEF CallBound, Sought
      <3>3. CASE call[q].pc # "fill"
        BY <3>1, <3>3 DEF CallBound
      <3> QED BY <3>2, <3>3
    <2> QED BY <2>1, <2>2
  <1>2. ASSUME NEW u \in Users, cache'[UserKey(u)] # NoEntry
        PROVE  /\ cache'[UserKey(u)].left <= MediumTTL
               /\ cache'[UserKey(u)].val # Plain(Entity(users'[u])) =>
                    cache'[UserKey(u)].left + since'[u] <= MediumTTL
    <2>1. CASE cache'[UserKey(u)] = cache[UserKey(u)]
      <3>1. /\ u \in Registered /\ cache[UserKey(u)].left \in Nat
            /\ cache[UserKey(u)].left <= MediumTTL
        BY <1>2, <2>1 DEF Inv, CachedExist, Cached, Bounded, Lifetimes, AccountsTypeOK, Entry
      <3>2. since'[u] = 0 \/ (users'[u] = users[u] /\ since'[u] = since[u])
        BY <3>1, RowShape
      <3>3. CASE since'[u] = 0
        BY <1>0, <2>1, <3>1, <3>3
      <3>4. CASE users'[u] = users[u] /\ since'[u] = since[u]
        BY <1>2, <2>1, <3>1, <3>4 DEF Bounded, ChangeTakesHold, Stale, Cached
      <3> QED BY <3>2, <3>3, <3>4
    <2>2. CASE FindFill(p) /\ Sought(call[p]) = u
      <3>1. /\ cache'[UserKey(u)] = [val |-> Plain(call[p].mem), left |-> MediumTTL]
            /\ users' = users /\ since' = since /\ call[p].pc = "fill"
        BY <2>2, PutOnly, KeysAre DEF FindFill, Inv, AccountsTypeOK
      <3>2. CallBound(call[p])
        BY DEF Bounded
      <3> QED BY <1>0, <2>2, <3>1, <3>2 DEF CallBound
    <2> QED BY <1>2, <2>1, <2>2, CacheShape
  <1>3. Lifetimes' /\ ChangeTakesHold'
    BY <1>2 DEF Lifetimes, ChangeTakesHold, Stale, Cached
  <1> QED BY <1>1, <1>3 DEF Bounded

LEMMA TimeBounded ==
  ASSUME Inv, Bounded, Prompt, Time
  PROVE  Bounded'
PROOF
  <1>1. /\ UNCHANGED <<users, call>> /\ InFlight = {}
        /\ \A k \in Keys : cache'[k] = Older(cache[k])
        /\ \A u \in Users : since'[u] = IF since[u] = Forever THEN Forever ELSE since[u] + 1
    BY DEF Time, Age, Inv, AccountsTypeOK
  <1>2. \A q \in Clients : CallBound(call[q])'
    BY <1>1 DEF InFlight, CallBound
  <1>3. ASSUME NEW u \in Users, cache'[UserKey(u)] # NoEntry
        PROVE  /\ Cached(UserKey(u)) /\ cache'[UserKey(u)].val = cache[UserKey(u)].val
               /\ cache[UserKey(u)].left \in Nat \ {0}
               /\ cache'[UserKey(u)].left = cache[UserKey(u)].left - 1
               /\ since[u] \in Nat /\ since'[u] \in Nat /\ since'[u] <= since[u] + 1
               /\ MediumTTL \in Nat
    <2>1. cache[UserKey(u)] \in Entry(Copy) \cup {NoEntry}
      BY DEF Inv, AccountsTypeOK
    <2>2. cache'[UserKey(u)] = Older(cache[UserKey(u)])
      BY <1>1, KeysAre
    <2>3. since[u] \in Nat /\ Forever \in Nat /\ MediumTTL \in Nat
      BY CacheAssumption DEF Inv, AccountsTypeOK, Forever
    <2>4. since'[u] \in Nat /\ since'[u] <= since[u] + 1
      BY <1>1, <2>3
    <2> QED BY <1>3, <2>1, <2>2, <2>3, <2>4, OlderType DEF Cached, Entry
  <1>4. Lifetimes'
    BY <1>3 DEF Bounded, Lifetimes, Cached
  <1>5. ASSUME NEW u \in Users, Stale(u)'
        PROVE  cache'[UserKey(u)].left + since'[u] <= MediumTTL
    <2>1. Stale(u) /\ cache'[UserKey(u)] # NoEntry
      BY <1>1, <1>3, <1>5 DEF Stale, Cached
    <2>2. cache[UserKey(u)].left + since[u] <= MediumTTL
      BY <2>1 DEF Bounded, ChangeTakesHold
    <2> QED BY <1>3, <2>1, <2>2
  <1> QED BY <1>2, <1>4, <1>5 DEF Bounded, ChangeTakesHold

LEMMA NextBounded ==
  ASSUME Inv, Bounded, Prompt, [Next]_accountsVars
  PROVE  Bounded'
PROOF
  <1>1. CASE UNCHANGED accountsVars
    BY <1>1
    DEF accountsVars, Bounded, CallBound, Sought, Lifetimes, ChangeTakesHold, Stale, Cached
  <1> QED BY <1>1, StepBounded, TimeBounded DEF Next

(* A role taken away reaches every guard within one lifetime of the cache,  *)
(* for any lifetime and any number of requests, as long as a request is     *)
(* shorter than a unit of the clock (users.service.ts:15).                  *)
THEOREM ChangesTakeHold ==
  ASSUME Prompt
  PROVE  Spec => []ChangeTakesHold
PROOF
  <1>1. AccountsInit => Bounded
    BY IdleHolds, KeysAre
    DEF AccountsInit, Bounded, CallBound, Lifetimes, ChangeTakesHold, Stale, Cached
  <1>2. Inv /\ Bounded /\ [Next]_accountsVars => Bounded'
    BY NextBounded
  <1>3. Bounded => ChangeTakesHold
    BY DEF Bounded
  <1> QED BY <1>1, <1>2, <1>3, Always, PTL DEF Spec
=============================================================================
