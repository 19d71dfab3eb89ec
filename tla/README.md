# Formal models of gebeta_api_mvp

TLA+ modules of the Go API in `src/`, the TLC configurations that check them on
small instances, and TLAPS proofs of the properties that matter most for every
number of users, rows, connections and requests.

Run TLC with `tlc -config X.cfg M` (the run table gives `M`) and the proofs with
`tlapm M.tla` for `M` in `AddressProofs`, `AddressRefinement`, `AddressTurns`,
`TokenProofs`, `AccountProofs`, `ServerProofs` and `GatewayProofs`.

## 1. The system

The API is a stateless chi server over PostgreSQL (Supabase). Everything worth a
model is in what concurrent requests do to shared rows through a connection
pool, and in what remains when a request ends half-way.

| Component | State it keeps | Operations | Interacts with | What is hard | What makes it correct |
|---|---|---|---|---|---|
| `customer_addresses` table (`migrations/00007`, `customer_addresses.sql.go`) | address rows, partial unique index on the default | seven queries | transactions of the address operations | READ COMMITTED snapshots, row locks, index checks at write time | at most one default per user; a row has one writer |
| Address operations (`internal/users/repository.go`) | none between requests; a transaction in between | create, update, delete, list | the table, the pool, the request's context | check-then-act, read-merge-write, cancelled contexts, deadlocks, lost commits | the cap, the default rules, partial updates, no lock left behind, honest answers |
| Device tokens (`repository.go:323-375`, `migrations/00008`) | token rows, `token` UNIQUE | upsert (register, refresh, transfer), delete, list | clients' login and logout, the pool | statements of two users of a device, abandoned statements | a removal never takes the next user's registration; a 2xx answer is true |
| Identity (`users`, `user_profiles`, `user_roles`, the sign-up trigger) | rows copied from `auth.users`, rows that hang on them | `GetMe`, `UpdateProfile`, `SetUserRole`, trigger, removal with its cascade | Supabase Auth, cascades | two concurrent reads, a trigger that can refuse a sign-up | a signed-up user has an account, no row outlives it; a profile is what was sent |
| Server lifecycle (`cmd/api`) | listener, requests in flight, pool | start, serve, drain, exit | signals, contexts, pool | six clocks that disagree, exit without the deferred close | what the drain cuts off came a whole drain ago; a signal ends the process |
| Authentication (`internal/middleware/auth.go`) | cached JWKS | verify, fetch | Supabase's key rotation | keys stale or not yet fetched, overlapping fetches, expiry in flight | who acts is who the token names; a good token works |
| Errors and envelope (`apperrors`, `httpx/response.go`) | none | map errors to statuses | every handler | wrapped errors | 4xx only for a caller's mistake |
| Decoding and validation (`httpx/request.go`, `types.go`) | none | decode, validate | every handler | pointers that tell "absent" from "zero" | nothing invalid reaches a transaction |
| Configuration (`internal/config`) | read once | load, validate | start-up | production rules | no start with an unsafe configuration |
| Riders, notifications | tables and generated queries | none called | - | - | not reachable yet |

`PROJECT.json` lists the hazards of this code, each at its line, with the
properties that cover it or the reason none does yet.

## 2. Plan

Most important behaviour first. Each module has one action per operation or
statement, its parameters as CONSTANTS, invariants as conjunctions of named
parts, and no RECURSIVE operator.

1. Done. `CustomerAddresses`, `AddressRepository` (which extends it),
   `AddressBook` (the abstract specification that `AddressRepository`
   implements twice), `AddressProofs`.
2. Done. `DeviceTokens`, its observer `TokenAnswers`, `TokenProofs`.
3. Done. `Accounts`, its observer `AccountAnswers`, `AccountProofs`.
4. Done. `Config` (pure), `Server` (which extends it), `ServerProofs`.
5. Done. `Requests` (pure), `Gateway` (which extends it), `GatewayProofs`.
6. Done. `AddressRefinement` and `AddressTurns`: that `AddressRepository`
   implements `AddressBook`, with `Serial = FALSE` always, with `Serial = TRUE`
   when users take turns.
7. Left to model, once the code calls them: riders, notifications and the
   remaining queries of `users.sql.go`.

## 3. The modules

### CustomerAddresses

`table` is the committed version of each row, `draft` the newest version and
`lockedBy` the connection that wrote it and has not ended yet. A statement of
connection `c` reads `Seen(c)`: what is committed when it starts, plus its own
writes (READ COMMITTED, the level `BeginTx` gets with empty options). A write
needs the row lock and looks at the newest version again.

One `label` stands for `label`, `address`, `lat`, `lng` and `delivery_note`,
which are always fetched, merged and written together. Ids are uuids: `Unborn`
before use and `Gone` after a deletion, so none is used twice.

The unique index on `(user_id) WHERE is_default` is checked *after* the row is
written and *before* the commit (`EnterIndex`, `UniqueViolation`), so a
transaction can wait there with its row locked. Entries of a running
transaction are rivals to wait for, other entries are conflicts. A new version
of a row that already is the default may or may not have to enter the index
(PostgreSQL's heap-only updates): the model allows both.

### AddressRepository

One action per SQL statement of `CreateAddress`, `UpdateAddress`,
`DeleteAddress` and of `withTx`:

| Code | Actions |
|---|---|
| `withTx` begin, commit, deferred rollback | `Begin`, `Commit`, `Rollback` |
| `CreateAddress`: count, unset, insert | `CheckCap`, `ScanDefault`, `UnsetRow`, `InsertAddress`, `EnterIndex` or `UniqueViolation` |
| `UpdateAddress`: fetch and merge, unset, write | `FetchForUpdate`, `ScanDefault`, `UnsetRow`, `WriteMerged`, `EnterIndex` or `UniqueViolation` |
| `DeleteAddress`: fetch, count, delete | `FetchForDelete`, `CheckLast`, `DeleteRow` |
| context ends, connection fails | `Cancel` |
| the answer of COMMIT is lost | `LoseCommit`, `SettleLost` |
| deadlock detector | `BreakDeadlock` |

`pc` names the next statement, `merged` the row computed in memory, `matched`
the rows `UnsetDefaultAddressForUser` has still to change, `answer` the status.
The number of connections is the size of the pool; several API processes are one
bigger pool. A connection whose client is gone keeps its place until the server
has settled its transaction, which is what makes the deferred `Rollback` with a
dead context (`repository.go:316`) visible: the locks stay for a while.

### AddressBook

What the endpoints promise: a request takes effect in one step or not at all,
2xx means it did, 4xx that it did not and why, 500 that it did not or that the
effect is open and comes at most once. `Serial` selects the exact promise (for
users who take turns) or what is left of it under overlap.

`TakingTurns` in `AddressRepository` is `Spec` with one restriction, on clients:
no user has two requests in progress (`OneRequestPerUser`), where a request whose
COMMIT was lost is in progress until it is settled. The server does not enforce
it; an app that waits for its answers comes close. Requests of different users
overlap without restriction.

### DeviceTokens and TokenAnswers

`INSERT ... ON CONFLICT (token) DO UPDATE` and `DELETE ... WHERE token AND
user_id` are one statement each, and several steps: find a row (`ProbeIndex`,
`ScanRows`), wait for its lock, look again (`TakeOver`, `DeleteRow`), `Commit`.
`found` keeps what became of the row version the statement found: the same, a
newer version, or gone. `Abandon` answers 500 while the statement goes on;
the server completes it or gives it up (`Undo`). So a registration may be applied
late: once, and for its own caller (`ChangesHandsOnRequest`).

`TokenAnswers` observes which latest requests have met no *rival*, a request
that could undo them, since they began; a rival that is in progress when a
request begins counts, one that was given up too. It adds a variable and
restricts nothing.

### Accounts and AccountAnswers

Two worlds share a database. Supabase Auth owns `auth.users`; `AuthStep` is what
it does there: sign-ups, changes of e-mail, removals. `CopyUser` is the trigger
`handle_new_auth_user`: its `ON CONFLICT (id)` does not cover the unique e-mail,
so a sign-up fails as a whole while another row still holds the e-mail, and no
trigger follows an e-mail that changes (`ChangeEmail`).

A removal is one transaction in steps: `BeginRemoval`, `DeleteUsersRow` (the
cascade from `auth.users`, which waits for whoever holds a key share lock on the
row), `DeleteDependents` (the cascade to profile, role and addresses: the rows
that are committed by then), `CommitRemoval` or `AbortRemoval`. It overlaps the
API's statements:

| Code | Actions |
|---|---|
| `UpsertUserProfile`, `SetUserRole`, the insert of an address | `WriteRow`, `CheckUser` (foreign key, only for a new row), `CommitRow` |
| `GetMe`: two goroutines of an errgroup | `ReadUser`, `ReadRole` in either order, `Join`; a missing user answers at once |
| context ends, connection fails | `Abandon`; `Undo`, or the statement goes on to its `CommitRow` |
| `SoftDeleteUser` (no caller in the API) | `SoftDeleteUser` |

An upsert is a statement that commits by itself: when its client has been told
500, the server may still complete it (`OutlivesRequest`), as it may a COMMIT that
has been sent. `RowsAreWhatWasSent` says that such a write is as complete as any
other, and comes once.

A profile is the set of its fields that are not NULL, which is enough to see a
field wiped, kept or mixed. `AccountAnswers` adds `during`, what has been true of
a request's user while the request ran, and restricts nothing. With it `MeIsTrue`
can say what a join of two snapshots is worth: each half of the answer was true
at some moment, the whole perhaps at none. A client can be shown "no role" for a
user who has had one from the first second to his removal.

### Config and Server

`Config` is `Load` and `validate` as operators over what the process finds: the
environment, a `.env` file, the port, the URL, the origins. `Server` starts from
every such setting. No property is stated of `validate`: its rules are the
guard of the start, and a property would repeat them. `phase` is where `main` is, `listener` and `pool` what it
holds, `status` what becomes of the requests, `waited` and `age` how long each has
been a connection without a header and a request, `effect` how far the statement
of a request has come, which may be done after the request and even after the
process.

| Code | Actions |
|---|---|
| `main`: load, pool, mount | `LoadConfig`, `NewDBPool`, `Mount` |
| `run`: goroutine, handler of signals, select | `Listen`, `ListenerBreaks`, `InstallHandler`, `Signal`, `BeginDrain`, `ServeFailed` |
| `Shutdown` and the two ends | `DrainDone`, `ClosePool`; `GiveUp` (`os.Exit`, no deferred close) |
| a connection | `Connect`, `Accept` (its header has been read, also after the listener was closed), `HangUp` (by the client, the read deadline or `Shutdown`) |
| a request, `/health` included | `Send`, `Apply`, `Finish` |
| time | `Tick` |

Six clocks count in ticks: the read deadline, the 5 s `Shutdown` gives a
connection without a header (`Grace`), the request's context, the ping of
`/health`, the write deadline, the drain. `timeout` is what the three
configurable ones are set to: anything, since `validate` compares none of them,
and 0 is no deadline for a read or a write. Go acts on a clock that has run out before the next
tick. A response after the write deadline is lost, whatever the handler wrote.

### Requests and Gateway

`Requests` is pure: what each endpoint accepts, translated from the tags of
`types.go` and the early returns of the handlers. A text is its length, a
coordinate whole degrees, an optional field a set with at most one value, so that
"left out" and "zero" differ where the code has a pointer (`ValidUpdate`) and
coincide where it has none (`ValidCreate`, `Plain`). `Limits` and `FitsTables`
are independent references: the tags as a client reads them, and what the tables
and the repository take for granted.

`Gateway` is the way of a request through `Auth`, the router, the handlers and
back: `Arrive`, `Authenticate`, `Fetch` or `FetchFails`, `Install`, `LookUp`, then
`NotRouted`, `Refuse` or `Handle`, and `Serve`. Beside it keys are published
(`Publish`) and withdrawn (`Withdraw`), the token expires (`Expire`) and keyfunc
refreshes by itself (`Refresh`). A fetch has three steps, so that its answer may be
older than the cache it replaces, and may be replaced before the key is looked up
in it. What the service answers is left open
(`ServiceError`): the other modules say which.

## 4. The runs

| Run | Module | Bounds | Expect | Shows |
|---|---|---|---|---|
| `addr_overlap` | `MCAddresses` | 2 users, 3 ids, 2 connections, cap 1, start with 0-2 addresses | pass | every overlap of creations, default moves, deletions and a stranger's requests: one default at most and never lost to a request that moves it, the cap passed by one address only, nothing left behind, the overlapping promise kept |
| `addr_serial` | `MCAddresses` | `TakingTurns`; 2 users, 3 ids, 2 labels, 2 connections, cap 2, start with 0-2 addresses | pass | no two requests of one user at a time, failures included, two users at once: cap, default, partial update and exact statuses hold |
| `addr_liveness` | `MCAddresses` | 2 connections, default moves and removals | pass | every request ends and every row lock is released |
| `addr_cap_race` | `MCAddresses` | 2 creations | violation | both count before either commits: the cap is passed |
| `addr_lost_edit` | `MCAddresses` | 2 updates | violation | an edit that was answered 200 is overwritten |
| `addr_default_race` | `MCAddresses` | 2 connections | violation | a user keeps an address and has no default |
| `addr_first_default` | `MCAddresses` | 1 connection | violation | the same with no concurrency: a first address need not be the default |
| `tokens_overlap` | `MCDeviceTokens` | 2 users, 1 device, 3 connections | pass | a removal never takes the next user's registration; answers hold |
| `tokens_unbounded` | `MCDeviceTokens` | 1 user, 2 tokens, bound 1 | violation | nothing evicts the oldest token |
| `identity` | `MCAccounts` | 2 users (one sends requests), 2 e-mails, 2 connections, 1 field, 1 role | pass | accounts mirror `auth.users`; no orphan rows; rows are what was sent; answers were true of some moment |
| `server_drain` | `MCServer` | every setting, 4 sets of timeouts; a request for the API and one for `/health` | pass | what the drain waits for and cuts off, pool and requests, signals at any moment; a signal ends the process |
| `gateway` | `MCGateway` | 2 keys, 2 requests, every header and body with one thing out of the ordinary | pass | who a request acts for, why it is refused, what reaches the service |

Why the bounds are enough. A race here needs two transactions of one user; a
third connection only repeats one of the two, except for `tokens_overlap`, where
an abandoned statement, the next user's registration and a removal meet, hence
three. Addresses interact only with those of their user, so two per user and one
to create give every case of "last", "default" and "other"; the second user is
there for ownership and, in `addr_serial`, for overlap: the other user may be in the
middle of anything, with a default of their own, at every step of `u1`. The cap is
1 or 2 so that it is reached. A request may be
begun again and again: nothing bounds the length of a behaviour except ids,
since each creation takes a uuid that is left (`Begin`). A token interacts with
no other token, so one is enough except for the bound.

`identity`: a request meets rivals for its own user only, so one user sends
requests and the second is there to take an e-mail or leave it taken. Two
connections are a writer and its rival, or a writer and a reader; sign-ups,
removals and requests repeat, except that the id of a removed user is not used
again. Values differ in whether a field is sent, hence one field.

`server_drain`: a tick is 5 s, so a context has 6 ticks and a header 1, and the 3 s
of a ping are rounded up to 1. The timeouts are the defaults (5 s, 10 s, 15 s:
1, 2, 3), none at all, a drain shorter than a response may take, and a response
deadline no longer than a ping. Two requests let one be cut off or lost while the
other is answered or still has no header. Every setting is a value of `Setting`,
with ports at both edges.

`gateway`: the rules of a body are independent, so bodies vary in one field at a
time, at the edges of its range and one step beyond. The second request is there
for its key: its fetch replaces the cache under the first. A key is published and
withdrawn once; a client may ask again and again.

Deadlock is checked except in `server_drain`, where the process ends.

Fairness of `server_drain`: `main` goes on when it can, time passes, a
handler whose context is done returns, because every statement takes the request's
context, and net/http closes a connection whose time is up. Nothing is assumed of clients, signals or the database: a request may
stay until its own timeout, and the drain ends by its own.

Fairness of `addr_liveness`: a statement that can run runs, the server
settles what it is left with, and a request that stays in its transaction is
cancelled, because the router gives every context 30 s (`api.go:75`). No
fairness is assumed of clients or of the order in which locks are granted.

The findings, quoted in `PROJECT.json`:

- The cap (`repository.go:157`), the default (`:295`) and the "atomic"
  read-merge-write (`:196`) are decided from rows that are not locked.
- A first address is stored with the `is_default` it was sent with (`:165`)
  although the README promises a default to every user.
- Tokens are never evicted: the query exists only in
  `queries/fcm_device_tokens.sql`, without generated code or a caller.

Smaller divergences seen on the way, without a run: the README gives the cap as
10 (`README.md:141,150`), the constant is 3; routes and README differ on
the path of device tokens; `GET /users/me` does not return addresses; `/health`
answers outside the envelope; no CORS middleware is mounted.

- "drains in-flight requests cleanly" (`api.go:26`) holds for requests that end
  within the 15 s of the drain. With the default timeouts what it cuts off is past
  its write deadline anyway (`CutsOffOnlyTheLost`), but its statement may still be
  applied. With a `SERVER_WRITE_TIMEOUT` above `SERVER_SHUTDOWN_TIMEOUT`, or none,
  which `validate` allows, requests are cut off that could have been answered.
- A server error that is ready together with a signal may win the `select`
  (`api.go:48`): `run` returns without `Shutdown`, and what is in flight is
  dropped (`ServeFailed`).
- A registration of a device token that was answered 500 may be applied
  afterwards, and take the token back from the next user of the device.
- The 504 of `middleware.Timeout` comes after 30 s, the write deadline after
  10 s: no client ever reads it.
- A `.env` file that says `APP_ENV=production` is read, and makes the process a
  production one, if the environment itself says something else; `config.go:71`
  speaks of "only outside production".
- A coordinate of zero is refused as missing in a new address and accepted in a
  change (`RefusedWithCause`).
- `PUT` of the profile of a soft-deleted user is answered 200 while `GET
  /users/me` is 404; a suspended user is served like any other: no handler looks
  at `status`.
- A profile without a date of birth is returned with one in the year 1
  (`repository.go:99`, `:147`).
- `ErrUnauthorized` and `ErrConflict` are mapped to statuses and never returned.

## 5. The proofs

`AddressProofs` proves, for every number of users, ids, connections and any set
of requests and initial tables the named assumptions allow:

- `TypeCorrect`, `OneDefaultAtMost`, `NothingIsLeftBehind` from `DefaultInv`
  (`DefaultInvHolds`);
- `CapBoundedByPool` from `CapInv` (`CapInvHolds`), and `CapHoldsSerially`: with
  one connection, the cap itself.

"One committed default" is not inductive: a transaction enters the index before
it commits. `DefaultInv` speaks of *claims* instead. A row claims the default
when it has it for good or when its transaction has entered it. There is one
claim at a time (`OneClaim`) and whoever claims holds the lock of the row that is
the default still (`ClaimsLockOldDefault`), so a commit moves the default and an
undo gives the claim back. The other conjuncts say whose rows and locks these
are. Entering the index is the step that needs them all (`EntryTakesOver`).
`StepKinds` reduces every action to what it does to the rows, so that each
conjunct is shown once per kind of step.

`CapInv` counts the creations that have passed `CheckCap`: a user's addresses
plus those creations stay below the cap plus the connections. A commit turns one
creation into at most one address (`OneNewRow`, `CommitAdds`); a check that
passes found fewer addresses than the cap while at most every *other* connection
is creating.

`AddressRefinement` proves that `AddressRepository` implements `AddressBook`
with `Serial = FALSE` (`RequestsKeepPromise`), and `MovesKeepTheDefault`: a user
loses the last default only with its own row, to its deletion or to an update of
it that leaves `is_default` out. The mapping is `book <- table`, with `asked` and `answer` read off `pc`, `req` and
`answer`: an effect is the step in which a transaction commits, and every statement
between asking and that step, or the refusal, is a stutter. So the invariant
(`PromiseInv`) has to say what is drafted at each statement: before its own row a
transaction has at most taken the default away from rows of its caller
(`OnlyDisplaces`), from targets it found there (`TargetsInPlace`), and once it
may commit its drafts are the whole effect of its request and nothing else (`EffectInPlace`). One that is refused has
drafted nothing that stays, one that is lost keeps its drafts until the server
settles them. A step of one connection leaves the rows locked by another alone
(`BystanderStays`, `BystanderUnderway`), except that a commit moves the rows it
held, which no other transaction holds. `CommitTakesEffect` then reads the effect
off the drafts.

`AddressTurns` proves under `TakingTurns` what overlap breaks: the exact promise
(`TurnsKeepExactPromise`, `Serial = TRUE`), `TurnsKeepSomeDefault`,
`TurnsEditOnlyWhatWasSent` and `TurnsRespectCap`. `PromiseInv` is not enough: a
check made on rows that are not locked has to hold still at the commit.
`ReadsStand` says so of each: the room a creation counted (`RoomStays`), the row
an update fetched and merged (`FetchedRowStays`), the defaults an UPDATE matched
(`DefaultsDisplaced`), the row to be deleted (`DeletionAllowed`). All of them are
rows of the caller, and a commit changes rows of its own caller only
(`EffectIsTheCallers`), who is somebody else (`OneRequestPerUser`). The cap then
follows from the exact promise, if no user is above it at first, which overlap in
the past could have brought about (`InitialTables`).

`TokenProofs` proves `TypeCorrect`, `TokensChangeHandsOnRequest` (an action
property) and `AnswersAreTrue`. The invariant says what a lock holder has written
(`WritesInPlace`) and, for an unrivalled request, that no statement in progress
is its rival and that a row which is gone does not return to its caller
(`UnrivalledInPlace`).

`AccountProofs` proves `TypeCorrect`, `AccountsMirror`, `RowsHaveAccounts`,
`RowsAreSent` and, for the observer, `MeIsTrueHolds` and `WritesAreTrueHolds`.
`NoOrphans` is not inductive: a statement that has passed its foreign key check
commits later. `WritersInPlace` says that such a statement keeps the users row in
place (`"inserted"`: the row exists and its deletion has not come that far;
`"updated"`: the dependent row exists and no cascade has passed it), whether its
client still waits or not, and `RemovalsInPlace` that a cascade has found every dependent row there is. A step
of Supabase Auth and a step of a connection are then each shown to keep the
other's part. `DuringInPlace` ties what a request has read to what it has lived
through.

`ServerProofs` proves all its properties but the liveness from `ServerInv`, whose
added part `PhasesInPlace` ties the phase of `main` to listener, pool and
requests: no request is older than its own limit, none runs before the pool is
open, none is dropped before the end. `HeadersInTime` adds that whatever is read
during the drain is read in the time a header has. `CutsOffTheLost` is arithmetic
on top of it: who runs when the drain is over came no later than the drain, header
included. No order of the timeouts is assumed: where a property needs one, it says
so as a condition on `timeout`.

`GatewayProofs` proves `ActsForHolderHolds` and `FreshKeysWorkHolds` from an
invariant that says every cached or fetched key has been published, and for
every body, not only those of the run, that what passes the rules fits the tables
(`PassingFits`), that what the tags describe passes (`CreatePasses`,
`UpdatePasses`, `ProfilePasses`, `RegistrationPasses`), and so `RefusedWithCause`.

Assumptions: the constants' sets are as typed, ids and connections are finite,
the initial tables have at most one default per user and no more addresses than
overlap can leave, the cap is positive; the timeouts of
`Server` are numbers of ticks; the values that stand for "none" are
no members of the sets they are added to.

Model-checked only: the liveness properties `EveryRequestEnds`,
`EveryLockReleased` and `SignalEndsProcess`, which need fairness and ENABLED, out
of the prover's reach. Every other property of a passing run is a theorem. The
runs that expect a violation refute; they have nothing to prove.

## 6. Not modelled

- Timestamps, geometry, paging, the wording of errors, the log, and `Redacted`.
- The removal of an account in `CustomerAddresses` and `DeviceTokens`: what it
  does to dependent rows and their writers is in `Accounts`, where an address has
  no default and a device token would be one more dependent table.
- `phone` and `status` of a user, and the queries of `users.sql.go` nobody calls
  (`UpdateUserPhone`, `UpdateUserStatus`, `GetUserBy...`, `ListUsers...`).
- Waiting for a pooled connection and `BEGIN` failing: the request is answered
  500 before it touches anything.
- Texts that pass the rules and that PostgreSQL refuses for their bytes.
- keyfunc inside: its rate limit is a fetch that fails. The issuer and audience of a token are not looked
  at by the code, nor here.
- The profile half of `GetMe`'s answer: which fields are shown, and a date of
  birth that is shown when there is none (section 4), would only multiply the
  readers' states.
- The second parse of a date of birth (`handler.go:53`): it uses the layout of the
  validator's tag, so what has passed cannot fail there.
- The idle timeout: a connection between requests keeps nobody waiting.
- Panics: `Recoverer` turns them into a 500; no path of the handlers panics
  behind `Auth`.
- Riders, notifications, orders: no handler calls their queries.
- Retries by clients are new requests: the server keeps nothing to recognise them.
