------------------------------ MODULE Accounts ------------------------------
(***************************************************************************)
(* UsersService with what AuthService and AdminService do through it: the  *)
(* users table behind a read-through cache, and the statistics, cached     *)
(* too.  Every guarded request first reads its user through the cache.     *)
(* Each call is cut at its awaits; a call may be lost (Abort).             *)
(***************************************************************************)
EXTENDS Cache, FiniteSets

CONSTANTS
  Users,        \* accounts, each standing for its id and its email
  Subjects,     \* the accounts that ask for a change or are changed (a bound)
  Profiles,     \* name, phone and department
  Secrets,      \* passwords as typed
  Clients,      \* the calls under way
  MaxInFlight,  \* bound of the calls under way together
  Prompt,       \* TRUE: no call takes as long as a unit of the clock
  MayFail,      \* TRUE: a call may be lost
  NoUser, Same

Roles == {"USER", "ADMIN"}

VARIABLES
  users,        \* the users table
  call,         \* the call each client is in
  current,      \* history: the calls whose copy of a user nobody has changed since
  since         \* history: the time since a user was written, up to Forever

accountsVars == <<cache, users, call, current, since>>

\* A stored password: hashed, or as it was typed.
Password == [text : Secrets, hashed : BOOLEAN]

Account == [profile : Profiles, role : Roles, password : Password]

ASSUME AccountsAssumption ==
  /\ IsFiniteSet(Users)
  /\ Subjects \subseteq Users
  /\ NoUser \notin Account \cup Users
  /\ Same \notin Profiles \cup Roles \cup Password \cup Secrets
  /\ MaxInFlight \in Nat
  /\ {Prompt, MayFail} \subseteq BOOLEAN

-----------------------------------------------------------------------------
UserKey(u) == <<"user", u>>
StatisticsKey == <<"admin:statistics">>

Keys == {UserKey(u) : u \in Users} \cup {StatisticsKey}

Hashed(password) == [password EXCEPT !.hashed = TRUE]
Typed(secret) == [text |-> secret, hashed |-> FALSE]

\* comparePassword: what is stored in clear is the hash of nothing.
Matches(secret, password) == password.hashed /\ password.text = secret

Registered == {u \in Users : users[u] # NoUser}

\* login: the answer depends on the row alone, and changes nothing.
LoginSucceeds(u, secret) == u \in Registered /\ Matches(secret, users[u].password)

\* A user in memory: an entity, or the copy a cache keeps, which has neither
\* the password (toJSON) nor the methods and hooks of the class.
Mem == [profile : Profiles, role : Roles, password : Password \cup {Same}, entity : BOOLEAN]

Copy == {m \in Mem : ~m.entity /\ m.password = Same}

ASSUME EntryAssumption == NoEntry \notin Entry(Copy)

Entity(row) == [profile |-> row.profile, role |-> row.role, password |-> row.password,
                entity |-> TRUE]

\* Mutant: the password is stored with the rest.
Whole(mem) == [mem EXCEPT !.entity = FALSE]

Plain(mem) == [mem EXCEPT !.password = Same, !.entity = FALSE]

Patch == [profile : Profiles \cup {Same}, role : Roles \cup {Same},
          password : Password \cup {Same}]

Nothing == [profile |-> Same, role |-> Same, password |-> Same]

Set(value, column) == IF value = Same THEN column ELSE value

\* Mutant: what is left out is put to its default.
PatchedPut(user, patch) ==
  [user EXCEPT !.profile = Set(patch.profile, user.profile),
               !.role = Set(patch.role, "USER"),
               !.password = Set(patch.password, user.password)]

\* Object.assign(user, userData).
Patched(user, patch) ==
  [user EXCEPT !.profile = Set(patch.profile, user.profile),
               !.role = Set(patch.role, user.role),
               !.password = Set(patch.password, user.password)]

\* hashPassword, a hook of the entity: a plain copy has none.
Hooked(mem) == IF mem.entity THEN [mem EXCEPT !.password = Hashed(mem.password)] ELSE mem

Column(stored, mem, seen) == IF mem \notin {seen, Same} THEN mem ELSE stored

MergeUser(row, mem, seen) ==
  [profile |-> Column(row.profile, mem.profile, seen.profile),
   role |-> Column(row.role, mem.role, seen.role),
   password |-> Column(row.password, mem.password, seen.password)]

\* The hook runs only where save has something to write.
Saved(row, mem, seen) ==
  IF MergeUser(seen, mem, seen) = seen THEN row ELSE MergeUser(row, Hooked(mem), seen)

Tally == [total : Nat, byRole : [Roles -> Nat]]

Uncounted == [total |-> 0, byRole |-> [r \in Roles |-> 0]]

Call == [pc : {"idle", "find", "select", "fill", "load", "write", "forget", "insert",
               "statistics", "count", "roles", "store"},
         op : {"none", "read", "profile", "password", "role", "statistics", "register"},
         stage : {"auth", "verify", "lookup", "update"},
         caller : Users \cup {NoUser}, target : Users \cup {NoUser},
         patch : Patch, given : Secrets \cup {Same}, next : Secrets \cup {Same},
         mem : Mem \cup {NoUser}, seen : Account \cup {NoUser}, tally : Tally]

Idle == [pc |-> "idle", op |-> "none", stage |-> "auth", caller |-> NoUser,
         target |-> NoUser, patch |-> Nothing, given |-> Same, next |-> Same,
         mem |-> NoUser, seen |-> NoUser, tally |-> Uncounted]

Forever == MediumTTL

AccountsTypeOK ==
  /\ users \in [Users -> Account \cup {NoUser}]
  /\ call \in [Clients -> Call]
  /\ DOMAIN cache = Keys
  /\ \A u \in Users : cache[UserKey(u)] \in Entry(Copy) \cup {NoEntry}
  /\ cache[StatisticsKey] \in Entry(Tally) \cup {NoEntry}
  /\ since \in [Users -> 0 .. Forever]
  /\ current \subseteq Clients

\* The first administrator is entered by hand.
AccountsInit ==
  /\ cache = [k \in Keys |-> NoEntry]
  /\ \E admin \in Users, f \in Profiles, s \in Secrets :
       users = [u \in Users |->
                  IF u = admin THEN [profile |-> f, role |-> "ADMIN",
                                     password |-> Hashed(Typed(s))]
                  ELSE NoUser]
  /\ call = [p \in Clients |-> Idle]
  /\ current = {}
  /\ since = [u \in Users |-> Forever]

-----------------------------------------------------------------------------
InFlight == {p \in Clients : call[p].pc # "idle"}

Free(p) == call[p].pc = "idle" /\ Cardinality(InFlight) < MaxInFlight

\* p's call becomes c; the copy it holds is the table's (fresh), or may not be.
Become(p, c, fresh) ==
  /\ call' = [call EXCEPT ![p] = c]
  /\ current' = IF fresh /\ c # Idle THEN current \cup {p} ELSE current \ {p}

Advance(p, c) == Become(p, c, p \in current)

Finish(p) == Become(p, Idle, FALSE)

\* c goes on to findById(u) for the given stage.
Seek(c, stage, u) == [c EXCEPT !.pc = "find", !.stage = stage, !.target = u]

\* AdminGuard and RolesGuard look at the user JwtStrategy has found.
AdminOnly(user) == user.role = "ADMIN"

\* What becomes of a request whose caller was found.
Admitted(c, caller) ==
  CASE c.op = "profile" -> Seek(c, "update", c.caller)
    [] c.op = "password" -> Seek(c, "verify", c.caller)
    [] c.op = "role" /\ AdminOnly(caller) -> Seek([c EXCEPT !.caller = NoUser], "lookup", c.target)
    [] c.op = "statistics" /\ AdminOnly(caller) -> [Idle EXCEPT !.pc = "statistics"]
    [] OTHER -> Idle

\* changePassword: a plain copy has no comparePassword, and the call ends.
Verified(c, user) ==
  IF user.entity /\ Matches(c.given, user.password)
  THEN Seek([c EXCEPT !.patch.password = Typed(c.next), !.given = Same], "update", c.caller)
  ELSE Idle

\* The call c after findById has returned user.
Returned(c, user) ==
  CASE c.stage = "auth" -> Admitted(c, user)
    [] c.stage = "verify" -> Verified(c, user)
    [] c.stage = "lookup" -> Seek(c, "update", c.target)
    [] c.stage = "update" -> [c EXCEPT !.pc = "load", !.mem = Patched(user, c.patch)]

\* The user findById looks for.
Sought(c) == IF c.stage = "auth" THEN c.caller ELSE c.target

(* findById: the cache, else the table, and then the cache again.           *)
Find(p) ==
  /\ call[p].pc = "find"
  /\ LET u == Sought(call[p])
         hit == cache[UserKey(u)]
     IN  IF Cached(UserKey(u))
         THEN Become(p, Returned(call[p], hit.val), hit.val = Plain(Entity(users[u])))
         ELSE Become(p, [call[p] EXCEPT !.pc = "select"], FALSE)
  /\ UNCHANGED <<cache, users, since>>

FindSelect(p) ==
  /\ call[p].pc = "select"
  /\ LET u == Sought(call[p])
     IN  IF users[u] = NoUser THEN Finish(p)
         ELSE Become(p, [call[p] EXCEPT !.pc = "fill", !.mem = Entity(users[u])], TRUE)
  /\ UNCHANGED <<cache, users, since>>

\* Mutant: the lifetime of a room.
FindFillLong(p) ==
  /\ call[p].pc = "fill"
  /\ Put(UserKey(Sought(call[p])), Plain(call[p].mem), LongTTL)
  /\ Advance(p, Returned([call[p] EXCEPT !.mem = NoUser], call[p].mem))
  /\ UNCHANGED <<users, since>>

FindFill(p) ==
  /\ call[p].pc = "fill"
  /\ Put(UserKey(Sought(call[p])), Plain(call[p].mem), MediumTTL)
  /\ Advance(p, Returned([call[p] EXCEPT !.mem = NoUser], call[p].mem))
  /\ UNCHANGED <<users, since>>

(* A request with a token of u: getProfile and all else that only asks who  *)
(* the caller is, updateProfile, changePassword, updateUserRole,            *)
(* getStatistics.                                                           *)
Arrive(p, c) ==
  /\ Free(p)
  /\ c.caller \in Registered
  /\ Become(p, [c EXCEPT !.pc = "find"], FALSE)
  /\ UNCHANGED <<cache, users, since>>

ReadBegin(p, u) == Arrive(p, [Idle EXCEPT !.op = "read", !.caller = u])

ProfileBegin(p, u, f) ==
  Arrive(p, [Idle EXCEPT !.op = "profile", !.caller = u, !.patch.profile = f])

PasswordBegin(p, u, given, next) ==
  Arrive(p, [Idle EXCEPT !.op = "password", !.caller = u, !.given = given, !.next = next])

RoleBegin(p, u, target, role) ==
  Arrive(p, [Idle EXCEPT !.op = "role", !.caller = u, !.target = target,
                         !.patch.role = role])

StatisticsBegin(p, u) == Arrive(p, [Idle EXCEPT !.op = "statistics", !.caller = u])

(* update: save of what findById returned, then the key is deleted.         *)
SaveLoad(p) ==
  /\ call[p].pc = "load"
  /\ Advance(p, [call[p] EXCEPT !.pc = "write", !.seen = users[call[p].target]])
  /\ UNCHANGED <<cache, users, since>>

SaveWrite(p) ==
  /\ call[p].pc = "write"
  /\ LET u == call[p].target
         row == Saved(users[u], call[p].mem, call[p].seen)
     IN  /\ users' = [users EXCEPT ![u] = row]
         /\ call' = [call EXCEPT ![p] = [Idle EXCEPT !.pc = "forget", !.target = u]]
         /\ IF row = users[u]
            THEN current' = current \ {p} /\ UNCHANGED since
            ELSE /\ current' = current \ {q \in Clients : q = p \/ Sought(call[q]) = u}
                 /\ since' = [since EXCEPT ![u] = 0]
  /\ UNCHANGED cache

Forget(p) ==
  /\ call[p].pc = "forget"
  /\ Del(UserKey(call[p].target))
  /\ call' = [call EXCEPT ![p] = Idle]
  /\ current' = current \ {p}
  /\ UNCHANGED <<users, since>>

(* register: findByEmail, then the row, whose email is unique.              *)
RegisterBegin(p, u, f, secret) ==
  /\ Free(p)
  /\ u \notin Registered
  /\ Become(p, [Idle EXCEPT !.pc = "insert", !.op = "register", !.target = u,
                            !.patch = [profile |-> f, role |-> "USER",
                                       password |-> Typed(secret)]], FALSE)
  /\ UNCHANGED <<cache, users, since>>

RegisterInsert(p) ==
  /\ call[p].pc = "insert"
  /\ LET u == call[p].target
         row == [call[p].patch EXCEPT !.password = Hashed(call[p].patch.password)]
     IN  users' = IF u \in Registered THEN users ELSE [users EXCEPT ![u] = row]
  /\ Finish(p)
  /\ UNCHANGED <<cache, since>>

(* getStatistics: two of its queries, of the users and of their roles.      *)
Number(role) == Cardinality({u \in Registered : users[u].role = role})

Statistics(p) ==
  /\ call[p].pc = "statistics"
  /\ IF Cached(StatisticsKey) THEN Finish(p)
     ELSE Advance(p, [call[p] EXCEPT !.pc = "count"])
  /\ UNCHANGED <<cache, users, since>>

StatisticsCount(p) ==
  /\ call[p].pc = "count"
  /\ Advance(p, [call[p] EXCEPT !.pc = "roles", !.tally.total = Cardinality(Registered)])
  /\ UNCHANGED <<cache, users, since>>

StatisticsRoles(p) ==
  /\ call[p].pc = "roles"
  /\ Advance(p, [call[p] EXCEPT !.pc = "store",
                                !.tally.byRole = [r \in Roles |-> Number(r)]])
  /\ UNCHANGED <<cache, users, since>>

\* Mutant: the users are counted last.
StatisticsStoreLast(p) ==
  /\ call[p].pc = "store"
  /\ Put(StatisticsKey, [call[p].tally EXCEPT !.total = Cardinality(Registered)], MediumTTL)
  /\ Finish(p)
  /\ UNCHANGED <<users, since>>

StatisticsStore(p) ==
  /\ call[p].pc = "store"
  /\ Put(StatisticsKey, call[p].tally, MediumTTL)
  /\ Finish(p)
  /\ UNCHANGED <<users, since>>

Abort(p) ==
  /\ MayFail
  /\ call[p].pc # "idle"
  /\ Finish(p)
  /\ UNCHANGED <<cache, users, since>>

-----------------------------------------------------------------------------
Begin(p) ==
  \/ \E u \in Users :
       \/ ReadBegin(p, u)
       \/ StatisticsBegin(p, u)
       \/ \E target \in Subjects, role \in Roles : RoleBegin(p, u, target, role)
  \/ \E u \in Subjects, f \in Profiles :
       \/ ProfileBegin(p, u, f)
       \/ \E secret \in Secrets : RegisterBegin(p, u, f, secret)
  \/ \E u \in Subjects, given, next \in Secrets :
       given # next /\ PasswordBegin(p, u, given, next)

Step(p) ==
  \/ Find(p)
  \/ FindSelect(p)
  \/ FindFill(p)
  \/ SaveLoad(p)
  \/ SaveWrite(p)
  \/ Forget(p)
  \/ RegisterInsert(p)
  \/ Statistics(p)
  \/ StatisticsCount(p)
  \/ StatisticsRoles(p)
  \/ StatisticsStore(p)
  \/ Abort(p)

Time ==
  /\ Prompt => InFlight = {}
  /\ Age
  /\ since' = [u \in Users |-> IF since[u] = Forever THEN Forever ELSE since[u] + 1]
  /\ UNCHANGED <<users, call, current>>

Next == Time \/ \E p \in Clients : Begin(p) \/ Step(p)

Spec == AccountsInit /\ [][Next]_accountsVars

-----------------------------------------------------------------------------
\* The cache holds another profile or role of u than the table.
Stale(u) == Cached(UserKey(u)) /\ cache[UserKey(u)].val # Plain(Entity(users[u]))

(* A role that was taken away, like any other change of a user, reaches     *)
(* every guard one lifetime after the write, whatever is filled late or     *)
(* lost (findById, RolesGuard).                                             *)
ChangeTakesHold ==
  \A u \in Users : Stale(u) => cache[UserKey(u)].left + since[u] <= MediumTTL

\* The row after is the row before with what the patch asks for; the hook may
\* hash on the way what was stored in clear, and no more.
Follows(after, patch, before) ==
  /\ after.profile = IF patch.profile = Same THEN before.profile ELSE patch.profile
  /\ after.role = IF patch.role = Same THEN before.role ELSE patch.role
  /\ IF patch.password = Same
     THEN after.password \in {before.password, Hashed(before.password)}
     ELSE after.password \in {patch.password, Hashed(patch.password)}

(* A save changes of a user what was asked for and nothing else, unless the *)
(* copy it began from was no longer the table's: only then does a change of *)
(* the profile bring back an old role, or an old password.                  *)
OnlyAskedFor ==
  [][\A u \in Registered : users'[u] # users[u] =>
       \E p \in Clients :
         /\ call[p].pc = "write" /\ call[p].target = u
         /\ \/ p \notin current
            \/ Follows(users'[u], call[p].patch, users[u])]_accountsVars

(* The statistics a dashboard shows: nobody is counted as a user and not    *)
(* under a role, and nobody is counted who does not exist (getStatistics    *)
(* counts first and groups later, and users are never deleted).             *)
RolesSum(tally) == tally.byRole["USER"] + tally.byRole["ADMIN"]

StatisticsAddUp ==
  Cached(StatisticsKey) =>
    LET tally == cache[StatisticsKey].val
    IN  tally.total <= RolesSum(tally) /\ RolesSum(tally) <= Cardinality(Registered)

(* changePassword with the right current password is not refused            *)
(* (CLAUDE.AUTH.md:170, "현재 비밀번호 확인 후 새 비밀번호로 변경").                   *)
RightPasswordAccepted ==
  [][\A p \in Clients :
       call[p].stage = "verify" /\ call'[p] = Idle
         => ~LoginSucceeds(call[p].caller, call[p].given)]_accountsVars
=============================================================================
