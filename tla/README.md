# A formal model of Roomservation

Roomservation is a NestJS server for booking shared rooms (`src/src`, TypeORM over
PostgreSQL, a cache in Redis) with three small React applications in front of it
(`src/frontend`). This directory holds TLA+ modules that model its core, the TLC
configurations that check them, and proofs of the properties that matter most.

## 1. The system

| Component | State it keeps | Operations | Hard behaviour |
|---|---|---|---|
| **Reservations** (`reservations.service.ts`) | table `reservations`: room, user, start, end, attendees, status | `create`, `update`, `cancel`, `confirm`; queries | check-then-write across awaits; `save` after a stale read; a lock that covers only existing rows; two writes in `cancel` |
| **Access** (`access.service.ts`) | table `room_accesses`: token, expiry, used flag, time of entry | `generateAccessToken`, `verifyAccessToken`; queries | lookup-then-insert, read-then-save at the door; several time windows |
| **Scheduler** (`scheduler.service.ts`) | none of its own: the list it works through | `handleNoShows` (every 5 minutes), `handleAutoCompletion` (every 10) | lists read once and written later; both at the same minute; one failure ends the run |
| **Rooms** (`rooms.service.ts`) | table `rooms`, cached | CRUD with soft delete, availability | read-through cache against concurrent updates |
| **Cache** (`cache.service.ts`) | keys with an expiry | get, set, delete | stale fills, keys nobody invalidates |
| **Users, Auth, Admin** (`users/`, `auth/`, `admin/`) | table `users`, cached; JWTs in the client | register, login, refresh, profile, password, role; listings, statistics | a role served from the cache after it was changed; pages and figures read at several moments |
| **Notifications** (`notifications/`) | sockets per user, in memory; the channels of socket.io | connect, subscribe, unsubscribe, disconnect; `notify*` | one fact in two copies; a guard that awaits while the socket may go. No other module calls the service |
| **API client** (`frontend/packages/api-client`) | access token in memory and in `localStorage` | requests, refresh after a 401, logout | concurrent refreshes, logout while one is under way |
| Web applications, shared types, utilities | forms and screens | - | none |

How they interact: controllers call the services; Reservations asks Rooms for capacity
and operating hours; Access asks Reservations for the reservation behind a token and
writes `room_accesses`, which `cancel` and `handleNoShows` also touch; the Scheduler
writes `reservations` directly. Nothing passes messages: the components share two
tables and the clock, and interleave at every `await`. There is one Node process, so
what runs between two awaits runs alone.

What makes each component correct:

* Reservations: no room is booked twice for one moment; every stored slot obeys the
  creation rules; a closed reservation (cancelled, completed, no-show) stays closed.
* Access: a token opens the door inside its window, never for a cancelled reservation, and
  to nobody who comes after it was spent; a reservation that has a live token gets no other.
* Scheduler: closes every confirmed reservation in the end, never before its time, and
  never calls a guest who came a no-show.
* Cache, and Rooms and Users behind it: what a reader gets is at most as old as the
  entry's lifetime, and only a lost or an overtaken call leaves anything stale at all;
  an update changes what it was asked to and nothing else.
* Auth: a change of the password takes effect; a role that was taken away stops working.
* Admin: the listing shows every reservation that stays where it is; the figures of the
  statistics agree as far as statements at several moments can.
* Notifications: each device hears once of the users it last asked for, and of nobody
  else; the gateway's map says so too, and a socket that has gone hears nothing.
* API client: the page shows a user only while there is a token; after a logout no token
  comes back; every request settles.

`PROJECT.json` lists the hazards at the lines where they bite, each with the
properties that cover it.

## 2. The modules

    BookingRules            the rules, pure operators and the time windows
      Store                 the two tables, the clock, SQL statements, save()
        Reservations        the calls of ReservationsService
        Access              the calls of AccessService
        Scheduler           the two cron handlers
          RoomService       their composition, and the properties
            BookingCalendar      what it implements when calls run alone
            MCRoomService        values for TLC
            AdminReports         listing and statistics beside RoomService
              Listing              filters, order and pages, pure operators
              MCAdminReports       values for TLC
            RoomService_proofs   theorems about calls that interleave
              Serial_proofs      theorems about calls that run one at a time, and the
                                 refinement: the server implements BookingCalendar
                Tokens_proofs        theorems about the tokens then
                AdminReports_proofs  theorems about the administrator's reads

    Cache                   values under keys, each with a lifetime
      RoomsService          the calls of RoomsService over table and cache
        MCRoomsService      values for TLC
        RoomsService_proofs theorems
      Accounts              UsersService, with register, password, role, statistics
        MCAccounts          values for TLC
        Accounts_proofs     theorems

    Session                 one browser tab against tokens and cookie of the server
      Session_proofs        theorems

    Notifications           the gateway, its guard, whom the service tells
      Notifications_proofs  theorems

**Time** is counted in units. The code's minutes (30, 480, 60, 30, 10, 30, 10) are
constants, so that TLC can use small ones. A Date is finer than the clock times of a room:
`Minute` is the number of units in one minute of the clock, a weekday is
`(t \div DayLength) % 7`, and `MinuteOfDay(t)`, `(t % DayLength) \div Minute`, is
`getHours() * 60 + getMinutes()`, which drops what is left of a minute. (Both are right
where the local time has no jumps.) A slot may therefore end within the minute at which
its room closes, at 18:00:59 when that is 18:00. `Serial` and `Pairs` have two units to a minute and
reach such slots; `ProperSlot` states the rule with the minute of closing to its end.

**A call is cut at its awaits.** Each process (`Requests`, `Doors`, `Jobs`) is in at
most one call. The first step of a call does its first SELECT together with the
checks on what it returned, since no await separates them; every later statement is
a step of its own. For `update` the check of the attendees is done in the first step
although the code does it after the conflict query: both only refuse. A call may be
lost before any of its steps (`Abort`, `AccAbort`, `JobAbort`): a failing statement,
or the process going down, which loses all calls and leaves the tables.

| Call | Steps |
|---|---|
| `create` | `CreateBegin` (28-67), `CreateCheck` (locking query), `CreateInsert` |
| `update` | `UpdateTimes` then `UpdateCheck`, or `UpdateDetails`; then `SaveLoad`, `SaveWrite` |
| `cancel` | `CancelBegin`, `CancelTokens`, `SaveLoad`, `SaveWrite` |
| `confirm` | `ConfirmBegin`, `SaveLoad`, `SaveWrite` |
| `generateAccessToken` | `GenerateBegin`, `GenerateReuse` or `GenerateNew`, `GenerateInsert` |
| `verifyAccessToken` | `VerifyBegin`, `VerifyLoad`, `VerifyWrite` |
| `handleNoShows` | `NoShowScan`, then per reservation `NoShowSkip`, or `NoShowMark`, `JobLoad`, `JobWrite` |
| `handleAutoCompletion` | `CompletionScan`, then per reservation `CompletionMark`, `JobLoad`, `JobWrite` |

**`repository.save(entity)` is two statements.** TypeORM first SELECTs the stored row
and then UPDATEs the columns in which the entity in memory differs from it. `mem` is
the entity, `seen` what that SELECT returned, and `MergeRow` what the UPDATE leaves
in the table. A column the caller did not change but someone else did before the
SELECT therefore differs and is written back; one changed after the SELECT survives.

**`FOR UPDATE`** in `create` locks the rows the conflict query returns. A call it lets
through has locked nothing and one it refuses rolls back at once, so under READ
COMMITTED the lock never makes anyone wait, and it does not appear in the model.

**Rooms and accounts** are cut in the same way, with a step for every request to the
cache as well. `findOne` and `findById` are `Find` (the cache), `FindSelect` (the table)
and `FindFill` (the cache again), followed by whatever called them (`Returned`).

| Call | Steps |
|---|---|
| `findOne` | `ReadBegin`, then `FindSelect`, `FindFill` on a miss |
| `update`, `remove` of a room | `UpdateBegin` (with `findOne`), `CheckNumber` if the number changes, `SaveLoad`, `SaveWrite`, `ForgetRoom`, `ForgetDates`, `ForgetList` |
| `getAvailability` | `AvailabilityBegin`, `AvailabilityFind` (with `findOne`), `AvailabilityStore` |
| `findAll` without filters | `ListBegin`, `ListSelect`, `ListFill` |
| `create` of a room | `CreateBegin`, `CreateInsert` or `CreateRefused`, `ForgetList` |
| any guarded request | `ReadBegin`: `findById` of its user, then the guard (`Admitted`) |
| `updateProfile` | the same, then `findById` again, `SaveLoad`, `SaveWrite`, `Forget` |
| `changePassword` | the same, then `findById` twice, with `Verified` between, and the save |
| `updateUserRole` | the same, then `AdminOnly`, `findById` of the other user twice, and the save |
| `getStatistics` | the same, then `Statistics`, `StatisticsCount`, `StatisticsRoles`, `StatisticsStore` |
| `register` | `RegisterBegin`, `RegisterInsert` |

**What a cache returns is a copy**, text parsed into a plain object. For a room that
makes no difference. For a user it does: `toJSON` drops the password before it is
stored, and the copy has neither `comparePassword` nor the hook that hashes. `Mem` says
which of the two a call holds (`entity`), a password is kept as `hashed` or as typed, and
`Hooked` applies the hook to entities only, when `save` has a column to write (`Saved`).

**The session** is one tab: `accessToken` and `isAuthenticated` are what its modules
hold, `req` its requests, each `sent`, `answered`, and, after a 401, waiting for a
refresh and sent again with its `retry` mark. Between two awaits the tab runs one
callback at a time: `Send*` are the pages' actions, `Serve*` the server's answers,
`Disturb*` the network's failures, the others what the tab does with an answer.
`Expire`, `CookieExpires` and `Reload` happen when they like. A login and a refresh
bring a token nobody else holds (`NewToken`).

**What the administrator reads** (`AdminReports`) is cut at its statements: the listing
is gone through page by page, each page one SELECT (`WalkPage`) and one COUNT
(`WalkCount`), and the next page is asked for while the count says there is one; of the
statistics the total of reservations and the breakdown by status are steps of their own,
the figures behind them one step that changes nothing here. `Stored` is the table as
those statements see it. A page is cut by offset: `Position` counts the rows before a
row, later starts first and equal ones in the order of their ids, which TypeORM adds
to the order of a page cut from a query with joins.

**Notifications.** A message waits at the await of `WsJwtGuard` and is handled, or
refused, behind it. `userConnections` is the gateway's map, `joined` the channels of
socket.io, which is where a message is sent: `join` of a socket that has gone does
nothing, and a socket that goes leaves its channels at once. `Disconnect` is therefore
one step for both, while messages of the socket that have reached the guard are still
handled after it, and change the map. The messages of one socket pass the guard in their
order. The gateway does nothing to bring this about: it holds because `verifyAsync` with a
secret in hand decides without waiting, so every message passes through the same number of
resolved promises. The model assumes it, and no property checks it.
`Restart` empties everything. Each `notify*` is the sequence of the channels it sends to.

**History variables.** In `AdminReports`, `base` is the set of reservations the listing
has held since its first page without a change of place, `shifted` says that another one
has left its place since, `added` that one has come. In `Notifications`, `wants` is what a
client asked for last. In `RoomsService` and `Accounts`, `current` is the set of calls
whose copy of a row nobody has written over since they read it, `since` the time since a
row was written; `tainted` holds the keys of `RoomsService` that were filled from a copy
that was not current any more, or that a lost call was still to delete. In `Session`,
`ended` says that a logout was completed and nobody has logged in since, and the field
`late` marks a refresh under way at that moment. In the server, `untouched[w]` is the set of reservations that nobody has
written since the call of writer `w` read its data; `granted[k]` counts how often
token `k` has opened the door. Neither enters a guard.

**Bounds** are named: `MaxTime` ends the clock, `Ids` and `TokenIds` the tables,
`MaxInFlight` the number of calls under way together, `Starts`, `Ends` and `Parties`
what clients ask for; `MaxPending` the messages of one socket under way; `AtDesk` lets the
administrator do one thing at a time; `Updates` (one column of a room each) and `Subjects` (the accounts
that change) likewise. `Prompt = TRUE` keeps the clock still while a call is under
way; the runs that show a disagreement use it, so that none of their traces needs a
statement that takes half an hour.

## 3. The runs

| Run | Question | Result |
|---|---|---|
| `Serial` | Are the handlers right when each runs alone, with crashes at every await? What is an administrator told who reads between their statements? | `NoDoubleBooking`, `TokenFollowsStart`, `CancelledHasNoKey`, `ClosedInThePast`, `OneOccupant`, `ClosedIsFinal`, `WalkMissesNothing`, `FiguresAddUp` hold, and the server implements `BookingCalendar` (`ImplementsCalendar`) |
| `Pairs` | What is left of that when any two calls interleave and each may be arbitrarily slow? | `ClashOnlyIfOvertaken`, `MoveOnlyIfOvertaken`, `BreaksOnlyIfOvertaken`, `SpentForGood`, `TokensDoNotMultiply`, `EntryInWindow` hold |
| `Closing` | Is every confirmed reservation closed in the end, that behind another in a handler's list too? | `ConfirmedIsClosed` holds under `Fairness` |
| `DoubleBooking` | `NoDoubleBooking` with two calls at once | violated: two creations |
| `Revived` | `ClosedIsFinal` with two calls at once | violated: a late save of `confirm` over a cancellation |
| `AttendedNoShow` | `AttendedNotNoShow`, one call at a time | violated: an unused second record hides the entry |
| `Rooms` | What makes a cached room, list or availability stale, for how long, and when does an update undo another? Two calls at once, any lost | `StaleOnlyIfTainted`, `StaleBounded`, `LostOnlyIfStale` hold |
| `StaleHours` | `AvailabilityCurrent`, one call at a time, none lost | violated: an update of the hours leaves the availability of each date in the cache |
| `Accounts` | The same of users: how long does a lost role work, what brings it, or an old password, back, what do the statistics add up to? | `ChangeTakesHold`, `OnlyAskedFor`, `StatisticsAddUp` hold |
| `PasswordChange` | `RightPasswordAccepted`, one request at a time, none lost | violated: the copy from the cache has no `comparePassword` |
| `Session` | Do page, token and server agree in a tab with two requests, expiry, failures and reloads? | `AuthenticatedHasToken`, `LogoutEndsSession`, `EveryRequestSettles` hold |
| `Notifications` | Do map and channels agree, and whom does each device hear of? Two devices, two users, tokens that expire, a server that restarts | `MapMirrorsChannels`, `EachDeviceHearsOnce`, `SubscriptionTakesEffect` hold |

The five violations are the code's disagreements with its documentation; the lines are
quoted under "findings". The pairs `Serial`/`Pairs` and the violations belong
together: the code is right for calls that run alone (`Serial`), wrong for calls that
interleave (`DoubleBooking`, ...), and `ClashOnlyIfOvertaken`, `MoveOnlyIfOvertaken` and
`BreaksOnlyIfOvertaken` say that lost updates are the only way it goes wrong: whenever
two reservations come to overlap, a status changes against the life cycle, or a slot comes
to break the rules of its room, the writing call had been overtaken in one of the very
reservations concerned. No forgotten check hides behind the races. The exception is real
in each: two updates, one of the start and one of the end, whose saves each write
their own column, leave an interval that neither has checked.

The properties of `Serial` speak of calls that run alone and of nothing else; the races
are for `Pairs` and the violations. For the tokens `Pairs` says what is left of "once" and
"one". Devices that have read a token before any of them saves it all open;
`SpentForGood` says that nobody who comes after the first does, since every save of a token
that has opened writes `used`. Requests that look for a token before one is there make one each;
`TokensDoNotMultiply` says that as long as the unused tokens of a reservation live, they and the calls
already about to make one never grow in number, so that each further token goes back to
one of those requests.

In the caches the pairs are alike. `StaleOnlyIfTainted` names the two causes there are
for a stale room, a lost call and a fill that came late, and `StaleBounded` and
`ChangeTakesHold` how long either lasts; `LostOnlyIfStale` and `OnlyAskedFor` that an update
brings back an old value only from such a copy. The dated availabilities are outside
`StaleOnlyIfTainted`, since no update ever deletes them (`StaleHours`).

`BookingCalendar` is the specification the server has in the end: bookings, each entered
into a free interval, moved into one, confirmed, cancelled or finished, one at a time.
`Booking` maps a row to an entry, and every statement of every call maps to one step of
the calendar or to none (`ImplementsCalendar`). `OneOccupant` rests on it and on the rules of
`update`: `getCurrentRoomStatus` shows the first of the records it finds, which is right
because all of them belong to one reservation.

`WalkMissesNothing` has the exception that paging by offset has: a reservation that
leaves the listing, or its place in it, draws those behind it one place forward, past a
reader who has just had their page. One that comes only shows rows twice.
`FiguresAddUp` depends on the order of the two queries: the breakdown is read last and
never falls short of the total.

`LogoutEndsSession` has one exception, which the code does not prevent: a refresh that is
under way when a logout is completed sets cookie and token again when it returns.

### Disagreements that no run shows

These too are in the model, which follows the code; no property states the contrary.

* **A password stored as it was typed.** `changePassword` calls `findById` twice. The first
  finds an entity only if the entry the guard has filled is gone again, by its lifetime or by
  another call's `invalidateUser`; it fills the cache once more, and the second, in `update`,
  takes the plain copy from there. `save` of that copy runs no hook: the new password goes into
  the table in clear, and no login succeeds any more. CLAUDE.AUTH.md:174-176 and 249-251
  count on the hook. (With the entry still there the change fails: `PasswordChange`.)
* **Sockets left in the map.** `handleDisconnect` stops at the first user it finds (gateway:42),
  so a socket that subscribed for two stays in the other's set, and a subscription still at the
  guard is entered after the clean-up. The comment at gateway:35 and
  CLAUDE.NOTIFICATIONS.md:106,122 promise the clean-up. Nothing reads the map, so nobody hears more or less
  for it, but it grows.
* **A start moved into the past.** `update` never asks for a start in the future, as `create`
  does, although README.md:566 says that the same rules apply.
* **Two uses of a token and two tokens**, as described above: README.md:601 calls a token
  single-use (일회용), CLAUDE.ACCESS.md:111 reuses the one there is.
* **The minute of closing**: a slot may end within it, README.md:556 asks for a slot within
  the hours.
* A reservation that nobody entered is completed by `handleAutoCompletion` (README.md:347 asks
  for an entry, README.md:577 does not). A token made between the two writes of `cancel`
  outlives it. `confirm` does not look at the clock, and a pending reservation never expires.
* CLAUDE.ROOMS.md gives a room in the cache 15 minutes, the code 30. Nothing joins the
  channels `admins` and `room:*`, to which the service sends (CLAUDE.NOTIFICATIONS.md:478
  lists this as to be done), and no module calls the service, though
  CLAUDE.NOTIFICATIONS.md (360, 377) shows the scheduler doing so. A filter by `endDate`
  takes only the first moment of that day.

### Bounds, and why they are enough

* Two reservations of one room are what a clash needs; the rules never look at
  more. Two requests, a door and both cron handlers give every pair of handlers.
* `Serial` has two tokens: with one id a second token could not be made.
  `Starts` and `Ends` give slots that are equal, that overlap, that touch, that are too
  long, and two parties of which one exceeds the capacity.
* The leads keep the order of the code (10 < 30 < 60 minutes) with 1 < 2 < 3 units.
  Clock and starts let every window open and close, up to the end of the last slot and
  one unit more, where the strict comparison of the cron handlers is first true.
* In `Serial` the administrator asks for all reservations, or the pending ones up to a
  date, in pages of one, the size at which every change moves a row to another page. He
  reads only while no token has been made (`NoTokens`): no query of his reads the tokens.
* `Notifications` has two sockets and two users: two devices of one user, and one device
  with two users, are what the map and the loop of `handleDisconnect` tell apart. Two
  messages under way are the least that can contradict each other.
* `Pairs` leaves calls as slow as they like, hours if need be. Its two requests, two doors and
  two handlers with two reservations and all that can befall them are too many states, so
  it looks at two halves (`CouplesSpec`): one reservation with tokens, doors, handlers and the whole clock
  (`OneByItself`), where everything but a clash can go wrong, and two reservations that are
  made, moved and cancelled before the clock moves, without tokens (`TwoAtOnce`), where
  a clash can. A step from one half to the other is taken when its result lies in either.
  The theorems of section 4 cover what lies outside both.
* `Closing` has two reservations, in two rooms, since both handlers list those of all rooms
  and stop at the first failure. Tokens are handed out while one reservation is there
  (`Closings`). The bound keeps no fair step back for ever: a call that would make
  a token while there are two reservations can still be lost.
* `Rooms` has one room, two clients, two numbers and two hours: a cached value is stale
  against one row, and two calls are one that writes and one that overtakes. That another
  room holds the number asked for, which only refuses, needs a second room and is not
  reached by the run, but is by the theorems. Lifetimes of 1, 1 and 2 units keep the order
  of 1, 5 and 30 minutes where it matters, the last above the first two.
* `Accounts` has an administrator and a second user, who registers and is the only one
  that changes (`Subjects`), with one profile, so that an update of it writes only what its
  copy has outlived, and two passwords. The lifetime of a user is one unit and calls are
  `Prompt`, so in the run `ChangeTakesHold` says little more than that one fill dies at the next unit of the clock,
  however late it was stored; it is `ChangesTakeHold` that covers every lifetime.
* `Session` has two requests, the least that refresh together, and three tokens: one is
  always free, since those that nobody holds may be signed again.
* Symmetry is used on reservations, tokens, requests and doors where only safety is
  checked; `Closing` and `Session` use none.

### Fairness

`ConfirmedIsClosed` assumes: the clock moves up to its bound; every call returns or
fails; each cron handler fires again and again (`@Cron`, weak fairness of `JobNew`);
and a statement of a handler that is tried again and again does not fail every time
(strong fairness of `JobDecide`, `JobLoad`, `JobWrite`: a run ends at the first
failure, and the next run starts over). Reservation calls and doors may do anything
meanwhile. `MaxInFlight` is above the number of processes in that run, so it grants
nothing.

`EveryRequestSettles` assumes that every request sent is answered or reported lost (the
network, weak fairness of `Answer(r)`) and that the tab takes up every answer (its event
loop, weak fairness of `Receive(r)`). Nothing is assumed of users, expiry or reloads.

`SubscriptionTakesEffect` assumes that Node runs the handler of every message that has
arrived (weak fairness of `Handle(s)`), and nothing of clients, tokens or restarts.

## 4. The proofs

For every value of the constants that satisfies the assumptions in the modules:

| Theorem | Module | Says |
|---|---|---|
| `TypeCorrect` | `RoomService_proofs` | `Spec => []TypeOK` |
| `ClashesOnlyIfOvertaken` | | `Spec => ClashOnlyIfOvertaken` |
| `MovesOnlyIfOvertaken` | | `Spec => MoveOnlyIfOvertaken` |
| `EntriesInWindow` | | `Spec => []EntryInWindow` |
| `RulesAreProper` | | `ValidSlot(r, s, e) <=> ProperSlot(r, s, e)` for all rooms and natural `s`, `e` |
| `BreaksOnlyOvertaken` | | `Spec => BreaksOnlyIfOvertaken` |
| `AloneNeverDoubleBooks` | `Serial_proofs` | `Spec => []NoDoubleBooking`, if `MaxInFlight <= 1` |
| `AloneClosedInThePast` | | `Spec => []ClosedInThePast`, if `MaxInFlight <= 1` |
| `AloneClosedIsFinal` | | `Spec => ClosedIsFinal`, if `MaxInFlight <= 1` |
| `AloneImplementsCalendar` | | `Spec => ImplementsCalendar`, if `MaxInFlight <= 1` |
| `SpentTokensStaySpent` | `Tokens_proofs` | `Spec => SpentForGood` |
| `TokensNeverMultiply` | | `Spec => TokensDoNotMultiply`, with finitely many tokens and doors |
| `AloneTokenFollowsStart` | | `Spec => []TokenFollowsStart`, if `MaxInFlight <= 1` |
| `AloneCancelledHasNoKey` | | `Spec => []CancelledHasNoKey`, if `MaxInFlight <= 1` |
| `AloneOneOccupant` | | `Spec => []OneOccupant`, if `MaxInFlight <= 1` |
| `ReportTypeCorrect` | `AdminReports_proofs` | `ReportSpec => []ReportTypeOK` |
| `WalksMissNothing` | | `ReportSpec => WalkMissesNothing` |
| `AloneFiguresAddUp` | | `ReportSpec => []FiguresAddUp`, if `MaxInFlight <= 1` |
| `RoomsTypeCorrect` | `RoomsService_proofs` | `Spec => []RoomsTypeOK` |
| `StaleHasCause` | | `Spec => []StaleOnlyIfTainted` |
| `LossNeedsStaleData` | | `Spec => LostOnlyIfStale` |
| `StalenessBounded` | | `Spec => []StaleBounded`, if `Prompt` |
| `AccountsTypeCorrect` | `Accounts_proofs` | `Spec => []AccountsTypeOK` |
| `OnlyAskedForKept` | | `Spec => OnlyAskedFor` |
| `StatisticsAlwaysAddUp` | | `Spec => []StatisticsAddUp` |
| `ChangesTakeHold` | | `Spec => []ChangeTakesHold`, if `Prompt` |
| `TypeCorrect` | `Session_proofs` | `Spec => []TypeOK` |
| `ShownHasToken` | | `Spec => []AuthenticatedHasToken` |
| `LogoutHolds` | | `Spec => []LogoutEndsSession` |
| `NotificationsTypeCorrect` | `Notifications_proofs` | `Spec => []TypeOK` |
| `MapAndChannelsAgree` | | `Spec => []MapMirrorsChannels` |
| `EachHearsOnce` | | `Spec => []EachDeviceHearsOnce` |

Assumptions of the server: the windows are natural numbers with `TokenLead < CancelLead` and
`TokenLead < UpdateLead` (the proofs need no more of 10, 30 and 60), and
`MaxDuration <= 6 * DayLength`, so that no slot reaches its weekday of the next week (480
and 1440 in the code); a day is a whole number of minutes and capacities and hours are what
their columns hold; the null values are no values (nor bookings, nor ids), and the kinds of processes
are disjoint.

The inductive invariant of `RoomService_proofs` is `Inv == TypeInv /\ Fresh`. `TypeInv` adds to `TypeOK` what a
call holds at each of its steps (`RequestsHold`, `EntriesHold`, `JobsHold`: at `write`,
say, an id, an entity and a row as read). `Fresh` is what makes the theorems true: as
long as a reservation is in `untouched[w]`, what `w` has read of it is still in the
table, what `w` is about to make of it is a move of the life cycle, and the slot `w`
has checked is still free of it. A write of another call removes the reservation from
`untouched[w]`, which is the step the code's stale saves turn on. The step to
`ClashOnlyIfOvertaken` then looks at the three statements that write reservations
(`InsertClash`, `SaveClash`, `JobClash`). `EntriesInWindow` has an invariant of its own,
`WindowInv`: a token exists only after its window has opened, a stamp in memory or in
the table lies inside the window, and the expiry a door has read is still the stored one.
`RulesAreProper` is about the rules alone. The code compares weekdays and clock times and
never asks whether both ends fall on the same day; `ProperSlot` says it with days, times in
units, and the minute of closing to its end. That the
two agree takes the lemmas about division at the end of the module: a time is its day and
its clock time in one way only (`DayOf`, `DayUnique`), and two days less than a week apart with
one weekday are one day (`SameWeekday`), which is where `MaxDuration` enters.

`BreaksOnlyOvertaken` puts the two together. What a call is about to write of a
reservation that is untouched keeps to the rules (`Lawful`): the entity of `create` and `update` has passed the check,
and of an untouched row the merge of `save` leaves either what the entity has or what the row had.

The theorems of `Serial_proofs` assume besides that there are finitely many processes
(so that `Cardinality(InFlight)` counts them) and that at most one of them is in a
call. `Alone` is their first invariant: the call in flight is the only one and its
`untouched` is still everything, so by `Fresh` all it has read is still true when it
writes. `NoDoubleBooking` then follows from the same lemmas as `ClashOnlyIfOvertaken`.
`Past` is the second: closed reservations lie in the past, every interval has its start
before its end, a call that is to write a reservation has found it open, and a handler
holds only entities that are over. It is needed because `update` and `cancel` never ask
whether a reservation is a no-show, nor `cancel` whether it is completed: their time
windows alone keep them off (`WindowOpen`).

The refinement (`AloneImplementsCalendar`) rests on these and on `Slots`: a call holds times a client has asked for,
and one that is about to change a status leaves the slot of the reservation alone, so that
its write is one entry of the calendar and not two. `Safe` joins them with `NoDoubleBooking`,
which says that a call whose slot is in nobody's way may be moved there. Each of the three
statements that write a reservation is then a step of the calendar (`InsertBooks`,
`SaveChanges`, `MarkFinishes`), and every other step leaves it as it is.

Two theorems of `Tokens_proofs` hold however calls interleave. `SpentInv` says that a token
that has opened the door is stored as used, and that a door on its way to save a token has set the mark in
its entity: so no save, stale as it may be, takes the mark back, and `VerifyBegin` refuses the token
(`SpentTokensStaySpent`). `TokensNeverMultiply` counts: while a live token is there the lookup finds one, so no
call joins those that are to make one, and `GenerateInsert` turns one of these into a token
(`OneForAnother`).

The others use `Safe` and `Keys` (`TokenSound` for every token, `RequestUnlocked` for every
request, `EntrySound` for every door). `TokenSound` says what is true of a
token for good: its reservation exists, is not cancelled, starts where the token says and
at most `TokenLead` from now; used, it carries a time; unused, it has opened no door.
`RequestUnlocked` is why: a call that moves or cancels a reservation has looked at
its start with more than `TokenLead` to go (`UpdateLead`, `CancelLead`), when no token could
have been made. Nothing revokes a token when a reservation is moved; the windows keep the
two apart. `EntrySound` says that what a door has read still holds. `AloneOneOccupant` also
needs `NoDoubleBooking`, since two records of a moment with
different reservations would be of two bookings that overlap.

`AdminReports_proofs` begins with `ReportsAreServices`: `ReportSpec => Spec`, so what is
proved of the server holds beside an administrator. `WalkInv` says that the reservations
of `base` a walk has passed are those before its offset in the present order (`Covered`):
as long as nothing has left, the place of a row in the order only grows (`PlaceGrows`), so a
row not yet shown is not before the offset, and a row is shown in the page that reaches it
(`PagesSuffice`). It needs nothing of the calls, so `WalksMissNothing` holds however they
interleave. `FiguresInv` says that each figure is bounded by what is there now:
rows are never removed (`RowsStay`) and, with calls alone, a closed one stays in its status
(`ClosedStays`, the step of `AloneClosedIsFinal`); the five statuses split the table
(`StatusesSplit`). Both assume finitely many reservations, so that they can be counted.

`RoomsService_proofs` has the same idea in `Inv == RoomsTypeOK /\ CallsHold /\ Fresh /\
CachedExist /\ StaleOnlyIfTainted`: `Fresh` says that what a call in `current` holds is
what the table holds, `CallsHold` what each step has in hand, and `CachedExist` that only
rooms that exist are cached. `StaleOnlyIfTainted` is inductive with these: a fill by a call
in `current` stores the table's value, a write leaves the writer with the key still to be
deleted, and a lost writer taints it. `LossNeedsStaleData` follows in the step
`SaveWrite`. For the bound, `Bounded` adds that a row or list a call is about to store, if
it was written over, was so within the present unit, since under `Prompt` no call lasts
longer, or, where an availability is computed from a cached room, within that room's
lifetime (`CallBound`), and that no entry has more left than its key allows (`Lifetimes`).

`Accounts_proofs` follows it: `Inv == AccountsTypeOK /\ CallsHold /\ CachedExist /\ Fresh`.
What save writes from a fresh copy, an entity or the plain copy of the
cache, is what was asked for, but for the hashing the hook may add (`SavedFollows`), which gives `OnlyAskedFor`. The statistics have an invariant of their own, `Sums`: what a call has
counted is at most what is there, since users are only added, and every user has one of
two roles (`RolesCover`; it needs finitely many users). `Bounded` is as above. `CallShape`,
`CacheShape` and `RowShape` say once what a step may do to a call, an entry and a row.

`Session_proofs` uses `IInv == TypeOK /\ RequestsHold /\ StartsAlone /\ Shown /\ Ended`:
what a request carries in each of its phases, that nothing but the first request is
under way before the tab is initialised, that a shown user has a token, and that after a
logout neither token nor cookie is there unless a request marked `late` may still bring
them. That there is always a token to sign is a pigeonhole argument over the requests,
from `Cardinality(Tokens) > Cardinality(Requests)`.

`Notifications_proofs` uses `IInv == TypeOK /\ MapMirrorsChannels /\ NothingWanted /\
Followed`; the first two also say that every set of the map is one of sockets and none is empty, which is what
adding to it and deleting from it rely on (`MapAdds`, `MapDrops`). `Followed`
ties a client's wish to what it will find: the last message under way about a user asks
for what the client wants, and with none under way the channel already is what it wants.
`EachHearsOnce` adds to it that every method of the service tells a user once
(`ToldOnce`, `RoomsToldNoUser`).

Only model-checked: `ConfirmedIsClosed`, `EveryRequestSettles` and
`SubscriptionTakesEffect`. They are liveness under fairness, whose proof needs `ENABLED`,
which these provers do not treat. Every invariant and action property of a passing run,
and the refinement, is stated by a theorem above.

## 5. Not modelled, and why

* `broadcast` of the gateway, which nothing calls. The listing of users and the figures of
  rooms, days and the month: counts and pages of the same kind as those modelled.
* Signing and checking of tokens: a token is valid or has expired. The web applications'
  screens, which keep no state of their own.
* Titles, purposes, reasons, timestamps of creation, and the queries: nothing depends
  on them. Roles: an administrator's `confirm` is any process's.
* Equal PINs: `VerifyBegin` takes any record, so what holds of a token holds whichever of
  two with the same six digits the lookup returns; that its holder may be refused because
  the lookup returned the other one, used or expired, is not stated.
* Several server processes: each would run its own cron handlers. One instance is what
  `render.yaml` and `docker-compose.yml` start.
* A run of a handler that is still going when its next one is due: one run at a time
  of each handler.
* Rooms that change while reservations are made, daylight saving time.

## 6. Plan

1. Done: the core above.
2. Done: `Cache`, `RoomsService` and `Accounts`, their properties, and the theorems about
   both services.
3. Done: `Session` and its theorems. Left: two tabs, which share the token in
   `localStorage` and the cookie.
4. Done: `Notifications`, `BookingCalendar` and the refinement, `Listing` and `AdminReports`.
5. Left: reservations checked against cached rooms while those change; an abstract cache (a
   reader gets a value that was in the table at most one lifetime ago) that `Find`
   implements.
6. Done: theorems for all invariants and action properties the runs check, among them what
   is left of the rules and the tokens when calls interleave. Left: the abstract cache of 5
   with its refinement; that `CancelledHasNoKey` fails only for a reservation that was overtaken.
