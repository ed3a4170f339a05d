# VeriFit: formal models, checks and proofs

VeriFit is a campus placement platform in its foundation phase: a NestJS API
with password and Google logins, a Next.js front end, a BullMQ worker, and a
PostgreSQL schema. This directory holds TLA+ models of its behaviour, the TLC
configurations that check them on small instances, and TLAPS proofs for every
size. Paths below are relative to the repository root.

- [1. The system](#1-the-system)
- [2. Plan](#2-plan)
- [3. The modules and the code](#3-the-modules-and-the-code)
- [4. Runs, bounds and fairness](#4-runs-bounds-and-fairness)
- [5. Proofs](#5-proofs)
- [6. Disagreements between code and documentation](#6-disagreements-between-code-and-documentation)
- [7. What is left out](#7-what-is-left-out)

## 1. The system

### Components

| Component | State it keeps | Operations |
| --- | --- | --- |
| Password sessions (`apps/api/src/auth/auth.service.ts`, `auth.controller.ts`) | rows of `auth_tokens`; the tokens clients hold | `login`, `getMe`, `logout` |
| Authentication guard (`apps/api/src/auth/guards/auth.guard.ts`) | none; `request.user` | `canActivate` before every route not marked `@Public` |
| Google login (`auth.service.ts`, `packages/auth/src/services/oauth.service.ts`) | `auth_tokens`, `users.lastLoginAt`, `oauth_connections.lastUsedAt` | `initiateLogin`, `handleOAuthCallback` |
| OAuth state stores (`oauth.service.ts`, `packages/database/src/index.ts`) | a map in the process, or rows of `oauth_states` | `set`, `consume` |
| JWT service (`packages/auth/src/services/jwt.service.ts`) | none | `generateToken`, `verifyToken`, `decodeUnverifiedClaims`, `createTokenRecordMetadata` |
| Repositories and schema (`packages/database`) | the tables, their unique keys and cascades | `createToken`, `findByJti`, `revoke`, `resolveOAuthUser` |
| Registration (`auth.service.ts`) | rows of `users`, under a unique e-mail and a foreign key | `register` |
| Authorization policy (`packages/auth/src/services/authorization.service.ts`) | none (a constant table) | `authorize` |
| Guard chain (`apps/api/src/app.module.ts`, `guards/role.guard.ts`) | counters of `@nestjs/throttler`; `request.user` | throttle, authenticate, check the role |
| Shared guards (`packages/auth/src/guards`, `decorators`) | `request.user` | a second pair of guards with decorators of their own, for other applications |
| API process (`apps/api/src/main.ts`, `config`, `health`, `packages/database/src/index.ts`) | the connection, the server, the shutdown hooks | parse the environment, connect, listen, `live`, `ready`, shut down |
| Worker lifecycle (`apps/worker/src/index.ts`, `worker/worker-manager.ts`) | the registered workers, `shuttingDown`, the deadline | `register`, `shutdown` |
| Worker health (`apps/worker/src/health`) | none | `getHealth`: a Redis ping against a timeout |
| Web login (`apps/web/src/app/api/auth/login/route.ts`, `app/login/page.tsx`) | the browser's cookies; what the page shows | `POST` proxied to the API |
| Health page (`apps/web/src/app/health/page.tsx`) | none | `fetchHealth` of the API's `ready` |
| Audit log, queue names, seed, build, empty packages | none at run time | see section 7 |

### How they interact

The API is one Node process. A handler runs without interruption from one
`await` to the next, and every `await` is a query to PostgreSQL or a request to
Google, so concurrency means: handlers interleave at queries, and the database
decides in which order the queries take effect. The guard and the handlers of
one request share nothing but `request.user` and the token on the request; the
requests share the tables. Login hands a token to the client, which presents it
later to the guard, so the client's copy of a token and the row behind it are
two pieces of state that have to agree although nothing updates them together.
The Google login adds a third party, whose answers may never come, and a
one-time state that travels through the browser. Administrators change and
delete accounts directly in the tables (no route does), and the schema's
cascades then remove rows under the feet of requests in flight. The worker
shares Redis with nobody yet: no queue has a producer or a processor.

### What is hard, and what makes each component correct

- *Sessions.* The guard admits a token **without** a row (`record?.revokedAt`,
  guard line 53). That is safe only if every token a client holds has its row:
  across crashes between signing and inserting, lost acknowledgements and
  abandoned replies (`HeldIsRevocable`). The guard acts on a row read before an
  `await`, so a request concurrent with a logout may still pass, and a request
  that arrives after it may not (`LateNeverAdmitted`). A 204 must not run ahead
  of the write (`LogoutRevokes`), a revocation must hit the presented session
  only (`ImplementsContract`; `docs/1.9.md:433`), and no request may hang
  (`Answered`) or be sent back to an earlier query (`NeverSentBack`).
- *Google login.* Concurrent callbacks consume one state: one of them goes on
  (`OneLoginPerState`; `docs/1.9.md:409`). The account's status is read two
  queries before the session is stored (`OnlyActiveAccounts`;
  `docs/1.9.md:171`). The session and `lastLoginAt` are written together, and a
  cookie implies both (`TransactionIsAtomic`, `CookieIsBacked`). Google may
  never answer (`Answered`, `NeverSentBack`). The insert of a state is not
  awaited (`IssuedIsStored`). Its sessions are the sessions of the password
  login: a transaction that is late or lost opens none for an account that was
  deleted in between (`ImplementsSessions`).
- *Registration.* Check-then-insert on a unique e-mail, with a slow hash in
  between: an e-mail is given away in one step, to the request that is told so,
  whatever races, fails or crashes (`ImplementsContract`); no account is left
  without its organization (`OrganizationExists`); `Answered`.
- *Authorization.* Role and organization travel in the token and go stale while
  administrators change the account. A grant never reaches an organization the
  account has not been in since its login (`TenantIsolation`), a student no
  record but the own (`OwnRecordOnly`), a restricted route nobody without one
  of its roles (`RestrictedRoutes`), and revoked, expired or doubled
  credentials nothing (`RefusedCredentials`). What changes accounts and
  organizations is an administrator's (`AdminOnly`).
- *Worker lifecycle and health.* The shutdown waits for a server, workers and
  Redis, each of which may hang: it ends (`Terminates`), an exit with 0 is
  clean however many signals came (`CleanExit`), every worker registered before
  they are listed is closed (`NoWorkerLeftBehind`), and a probe accepted before
  the signal gets its answer (`EarlyProbesAnswered`). Seen by the clients, the
  server drains: no connection is accepted after the first signal, and only the
  deadline cuts a request off, one on a connection kept alive included
  (`ImplementsDrain`).
- *Web login.* Two servers and two cookies: the page goes on only after a login
  the API has accepted (`HomeMeansLogin`), is pending only while its request is
  under way (`PendingIsInFlight`) and not for ever (`Settles`). The cookie of
  the Google login gets its life when the transaction has ended and is counted
  from when it arrives; it must not end before its token (`GoogleSessionLasts`).
- *API process.* It starts without its database (`Boots`). Its shutdown has no
  deadline: a `$disconnect` or a connection that hangs keeps it for ever, and
  nothing else may (`Stops`). It cuts off no request once it listens
  (`ImplementsDrain`), and the health page tells what the database is now
  (`PageIsCurrent`).

`PROJECT.json` lists each hazard with its line and the properties that cover it.

## 2. Plan

Done, in this order because authentication is the program's own core logic:

1. `AuthSessions`, with the abstract `SessionContract` it implements, and the
   proofs `AuthSessionsProofs` and `AuthSessionsRefinement`.
2. `OAuthLogin` with both state stores, which implement `StateStoreContract`,
   its sessions, which implement `SessionContract` as well, and the proofs
   `OAuthLoginProofs`.
3. `Authorization` (the policy as operators) and `AccessControl`, which composes
   it with logins, both pairs of guards and the route metadata;
   `AccessControlProofs`.
4. `Registration`, which implements `AccountContract`; `RegistrationProofs`.
5. `WorkerLifecycle`: the worker process with its health server, which
   implements `DrainContract`; `WorkerLifecycleProofs`.
6. `WebLogin`: page, route handler and API composed with the browser's cookies;
   `WebLoginProofs`.
7. `ApiProcess`: start-up, health, health page and shutdown, which implement
   `DrainContract`; `ApiProcessProofs`.

The four contracts are the abstract layer: `SessionContract` is implemented
twice (password and Google login), `StateStoreContract` by either store,
`AccountContract` by the registration, and `DrainContract` twice (worker and
API). Every refinement is checked by TLC and proved.

Left: one module in which password and Google sessions share the `auth_tokens`
table. Both implement `SessionContract` on tokens of their own; what a common
module would add is the password login of an account that only the Google login
refuses.

## 3. The modules and the code

### AuthSessions

One request in flight is one `r \in Req`: `pc[r]` is where its handler is, and
`call[r]` its arguments and local variables. Phases named after a query
(`findUser`, `insert`, `lookup`, `readUser`, `revoke`) mean "sent, not yet
executed"; those named after a status code mean "reply written, not yet
received". A step is what happens between two of these points.

| State | In the code |
| --- | --- |
| `users`, `row` | `users` and `auth_tokens`; `row[t]` is `none`, `active`, or `revoked` (`revokedAt` set) |
| `owner` | the `sub` claim of a signed token; `NoUser`: no token with this `jti` was signed |
| `expired` | the `exp` claim lies in the past |
| `held` | tokens some client has received |
| `adrift` | inserts and updates on a connection nobody waits for any more |
| `call[r].seen` | the record `findByJti` returned, which the guard acts on later |
| `call[r].late` | history: the row was already revoked when the request arrived |

| Actions | In the code |
| --- | --- |
| `Login`, `FindUser`, `RejectPassword`, `Mint`, `Insert` | `AuthController.login`, `AuthService.login`. The password is compared after the lookup for known and unknown accounts; the outcome for an existing account is a choice |
| `Arrive`, `Verify`, `Lookup`, `Resume` | `AuthGuard.canActivate` up to and after its one query; `Handler` is what an admitted route does first |
| `ReadUser`, `Revoke` | `AuthService.getMe`, `AuthService.logout` with `AuthRepository.revoke` |
| `QueryFails`, `AckLost`, `Commit`, `Vanish` | a rejected Prisma query (500); a write whose acknowledgement is lost, which the database then commits or not |
| `Deliver`, `LoseReply`, `Crash` | the client receives the reply, is gone, or the process ends and restarts |
| `Expire`, `DeleteUser` | time; an administrator's delete with `ON DELETE CASCADE` (schema.prisma:83) |

A request carries its token in a `form`: `plain` is the cookie or a header with
one space, which the guard and the logout handler read alike; `padded` is a
header with more spaces, which the guard trims (auth.guard.ts:93) and logout
does not (auth.controller.ts:97); `unusable` is anything the guard refuses
before it looks at the database. Tokens in requests come from `held`: a client
presents what it received.

`SessionContract` is the promise without process, database and messages: a
session opens once, is accepted only while live, closes only for an accepted
request that asked for it, and stays closed. `AuthSessions` implements it under
the mapping at its end: a session is its row, a deleted account makes it an
`orphan`, a verdict is fixed at the moment the database answers the lookup (not
when the guard resumes), and a pending close is an update in flight or adrift.

### OAuthLogin

| State | In the code |
| --- | --- |
| `states` | `oauth_states` or the map of `InMemoryOAuthStateStore`: `sending` (handed out, insert not executed), `stored`, `stale` (past its TTL), `gone` |
| `account`, `touched`, `loggedIn`, `row` | `accountStatus` (LOCKED and SUSPENDED are both `blocked`), connections with `lastUsedAt`, accounts with `lastLoginAt`, rows of `auth_tokens` |
| `minted` | for whom and from which state a token was signed |
| `adrift` | transactions nobody waits for |
| `call[r].seen` | the status `resolveOAuthUser` returned, looked at after the next query |
| `call[r].eligible` | history: the account was ACTIVE at some instant since the callback arrived |

| Actions | In the code |
| --- | --- |
| `Issue`, `StoreState`, `StoreFails`, `Age` | `generateAuthorizationUrl` and `OAuthStateStore.set`, the un-awaited insert, the TTL; the memory store also drops stale states |
| `Callback`, `Consume`, `ConsumeUnacked` | `googleCallback`, `verifyOAuthState`: delete and return, the TTL checked afterwards |
| `Google` | `exchangeCodeForToken` and `getUserInfo`, from the callback's point of view one wait |
| `Resolve`, `TouchActive`, `TouchBlocked`, `TouchMissing` | `resolveOAuthUser`: find the connection with its account, update it, then look at the status that was read; sign the token |
| `Commit`, `AckLost`, `Settle` | the `$transaction` of auth.service.ts:135-152 |
| `StepFails` | a rejected query, a refusal by Google, or its 10 second timeout |
| `Deliver`, `LoseReply`, `Stop`, `Crash` | the redirect with the cookie, a browser that is gone, the end of the process |
| `SetStatus`, `DeleteUser` | an administrator's change in the tables |

`Store` selects the state store. `"memory"` is the map. The other two are
`DbOAuthStateStore`, whose `set` calls `oAuthState.create(...)` and drops the
promise: `"eager"` if the call starts the query, `"lazy"` if only awaiting it
does. Prisma's promises are lazy; the eager reading is kept because it is the
one the code's comment intends, and every safety property is checked and
proved under it as well.

`StateStoreContract` is what a store promises the callbacks: a state is
consumed in one step, by one callback, only within its time to live, and never
comes back; a restart may lose it. `OAuthLogin` implements it under the mapping
at its end. The second mapping there, to `SessionContract`, takes the rows for
the sessions: the callback itself presents and closes none, so what is left of
that contract is that a session opens once, only while its account exists, and
is orphaned with it.

### Authorization and AccessControl

`POLICY` and `Authorize` are the matrix and the decision of
`AuthorizationService`, as a set of permissions and one predicate.
`AccessControl` puts around it everything the decision depends on.

| State | In the code |
| --- | --- |
| `account`, `owner` | role and organization in `users`; `students.userId` |
| `token`, `revoked` | the claims a login read and the life of the token; `revokedAt` |
| `formerly` | history: what the account of a token has been since its login |
| `call[r]` | the request's route, cookie and header, `request.user`, and what was decided about |

| Actions | In the code |
| --- | --- |
| `LoginRead`, `Sign`, `Expire`, `Revoke`, `ChangeAccount` | a login reads the account and signs later what it read; time; logout; an administrator's change of role or organization |
| `Arrive`, `SkipAuth`, `RefuseAuth`, `VerifyToken`, `Lookup` | `AuthGuard.canActivate` (of the API, or of the package); `RoleGuard` and `CurrentUser` run where it succeeds, without a query in between |
| `Decide` | the handler has loaded a resource and asks `authorize` |

`Guards` selects the pair of guards: the package's know no `@Public`, look up no
record and prefer the header where a request has two credentials. A route is its
metadata: `@Public`, and the roles declared on the handler and on the class
under the key of either decorator. No route of the API asks the policy yet; the
handler is the one its comments and `INTEGRATION.md` describe, which fills in
the organization and the owner from the tables.

### Registration

`pc[r]` is where a registration is: before the lookup of the e-mail, before that
of the organization, in bcrypt, or before the insert. `Insertable` is what the
unique key and the foreign key of `users` let pass; `InsertRejected` is their
error, which `register` does not catch. Administrators delete accounts and
create and delete organizations (`ON DELETE RESTRICT`), and an insert sent by a
process that has ended may still be executed (`adrift`). `AccountContract` has
none of this: an e-mail is free or taken, and is given away in one step.

### WorkerLifecycle

| State | In the code |
| --- | --- |
| `proc`, `http`, `redis` | the process and how it ended, the health server, whether Redis answers |
| `stage[s]` | how far the `shutdown()` that signal `s` invoked has come; `ignored`: `shuttingDown` was set |
| `worker`, `listed`, `busy`, `awaited` | BullMQ workers, the map of the `WorkerManager`, jobs in progress, the closes `Promise.all` waits for |
| `late` | history: workers registered after the manager listed them |
| `probe`, `pings`, `timers`, `early` | requests to the health server, pings without an answer, armed timeouts; history: probes accepted before a signal |

`Signal`, `ServerClosed`, `CloseWorkers`, `WorkersSettled`, `Quit` are the
sequence of index.ts:45-80 between its awaits, `Deadline` is its timer.
`Ready` sends a ping and arms the timeout of `getHealth`; `Pong`, `PingFails`
and `PingTimeout` settle the race in any order. A client may hold its connection
open for ever, a job may never end, and Redis may go away at any time.

`server.close()` stops listening and closes the connections that are idle
(`kept`); one that carries a request may be kept alive after the answer and bring
another one, which `Connect` allows while the server closes.

`DrainContract` is what a graceful shutdown promises the clients of a server: it
opens once, accepts no connection once it drains, and ends *drained* only when
the last request it let in is over and the last connection closed; an end by
*force* may cut off anything. For the worker `http` is the server, a probe whose
connection is in use is in flight, exit code 0 is the drained end and exit code 1
the forced one.

### WebLogin

`hop[b]` follows the request of tab `b`: in the route handler, at the API, its
answer being read, on its way back. `answer` is the status and the token on that
way, `jar` the two cookies, `expiry` the tokens' `exp` claims, `hits` the
counter the throttler keeps for the Next.js server, which is one client whoever
uses it. `Relay` reads the body of the API's answer: one that breaks off counts
as an empty object. Nothing cancels the request to the API when the page is
reloaded or its request breaks off: such a login goes on as one of `abandoned`,
counts for the throttler and may sign a token nobody receives.

The API's own cookie is set in three steps with time between them: `GoogleSign`
signs the token before the transaction, `GoogleRedirect` computes `maxAge` from
what is left of it then, and the browser counts that from `GoogleDeliver`.

### ApiProcess

`Configure` is every check the environment has to pass before the process goes
on (`Rejected` lists what each parser throws at), `ConnectDatabase` is
`onModuleInit` with its caught failure, `Listen` binds the port. `Signal`,
`Disconnect`, `CloseServer`, `Exit` are what `enableShutdownHooks` does.
`Handle` is the throttler followed by the health route; `LoadPage` and `Render`
are the health page, whose server is one client of the throttler for all views.
`served` is history: views since whose request the database has been up. `kept`
are connections without a request that are kept alive; each belongs to one
client, which is a simplification of the pool the Next.js server has. `Answer`
may never come, a request may stay `open` for ever, and `$disconnect` may hang or
fail; if it fails, Nest ends the process with code 1.

Its shutdown implements `DrainContract` too: the end is drained if the shutdown
found a server to close, and forced otherwise (a signal before the server
listens, a start that failed, or a `$disconnect` that fails).

### Faulty variants

Beside some definitions stands a variant of it with a plausible bug (`Faulty
variant of ...`). `PROJECT.json` names, for each property, the variant that
breaks it; none of them is part of a specification.

## 4. Runs, bounds and fairness

| Run | Instance | Shows |
| --- | --- | --- |
| `sessions_safety` | 1 account, 2 tokens, 2 requests, symmetric | `HeldIsRevocable`, `LateNeverAdmitted`, `LogoutRevokes`; `SessionContract` is implemented |
| `sessions_live` | 1 account, 1 token, 2 requests, fair | every request is answered or abandoned (`Answered`) |
| `sessions_padded` | 1 account, 1 token, 1 request | counterexample: a 204 that revoked nothing |
| `oauth_stores` | 2 states, 1 account, 2 tokens, 2 callbacks, map and `eager` database, fair | all safety properties of the Google login, both stores implement `StateStoreContract`, the sessions `SessionContract`, every callback ends (`Answered`) |
| `oauth_lazy` | one of each, `lazy`, fair | counterexample: a state never stored |
| `access_api` | 2 accounts, 1 student record, 2 organizations, 1 token, 1 request, 1 change, 5 routes, symmetric | `TenantIsolation`, `OwnRecordOnly`, `AdminOnly`, `RestrictedRoutes`, `RefusedCredentials` |
| `registration` | 1 e-mail, 2 organizations, 2 requests, fair | `OrganizationExists`, `AccountContract` is implemented, `Answered` |
| `registration_duplicate` | 1 e-mail, 1 organization, 2 requests | counterexample: of two registrations side by side one is answered 201, the other 500 |
| `worker` | 2 queues, 2 probes, 2 signals, fair | `EarlyProbesAnswered`, `CleanExit`, `NoWorkerLeftBehind`, `Terminates`; `DrainContract` is implemented |
| `web` | 2 tabs, 2 tokens, token life 2, cookie life 1, clock to 3, 1 login a minute, 1 abandoned login, fair | `HomeMeansLogin`, `GoogleSessionLasts`, `Settles` |
| `web_cookie` | 1 tab, 2 tokens | counterexample: signed in and not accepted |
| `api` | 1 probe, 2 views, the probe and one view on connections kept alive, 1 request a minute, the environment with every default left out and each with one spoiled setting, fair | `PageIsCurrent`, `Boots`, `Stops`; `DrainContract` is implemented |

Every passing run checks the type invariant of its module, except
`sessions_live`. `MCOAuthStores` runs `OAuthLogin` with the store chosen in the
initial state, so that one run covers both.

Bounds. `Jti` bounds how many tokens are ever signed and `State` how many
logins with Google start; `Req` bounds the requests in flight, not their number,
since a request that ends becomes `idle` and serves the next one. Two requests
are enough for every race named above: a logout against a request with the same
token, two logouts, a login against a deletion, two callbacks of one state, two
registrations of one e-mail. Two tokens let a step of one session disturb the
other, and a state be used twice; two tokens of one account are what a wrong
revocation would confuse. Two organizations let a registration's be deleted
while another exists, and a grant cross them; `MaxChanges` is one change of an
account, which is what makes a token stale. Two queues let one worker close
while another hangs or fails; two signals overlap; of two probes one can come on
the connection of the other. In `web`, `MaxTime` lets a token expire in the
middle of its callback and one of its cookies end before it; one abandoned login
at a time (`MaxAbandoned`) is enough to use up the throttler's minute, or a token,
behind the back of a tab. In `web_cookie` the cookie outlives its token. A limit
of one request a minute throttles the second. In `api`, `Limit` 1 lets one view
be answered while the other is throttled. The proofs drop all these bounds.
Symmetry is used in runs of safety properties only.

Deadlock is checked in every run but `worker`: that process stops for good.

Fairness.

- `AuthSessions`: weak fairness of the steps of one request together. The event
  loop and the database get to every request in the end, with an answer or an
  error, because Prisma queries resolve or reject. It does not say which branch
  is taken, nor that a client ever logs in, that a crash happens or that an
  adrift write is decided. `Registration` assumes the same of its handler.
- `OAuthLogin`: the same for a callback, **without** Google's answer: while a
  callback waits for Google, what ends it is the failure that
  `AbortSignal.timeout(10_000)` guarantees (oauth.service.ts:146 and 155). The
  second conjunct says that the database executes or rejects an insert that was
  started.
- `WorkerLifecycle`: timers fire, the shutdown's and those of the pings. Nothing
  is assumed of Redis, of jobs or of clients.
- `WebLogin`: the API answers (`Answered` of `AuthSessions`) and so does the
  Next.js server; neither the page nor the route handler has a timeout of its
  own, so without this the page may stay pending.
- `ApiProcess`: the process takes its own steps: its start, the closing of its
  server and its end once nothing is left to wait for. No fairness of queries,
  clients or the disconnecting. `Stops` names what it needs of them as premises:
  the `$disconnect` settles (`DisconnectSettles`), and each connection is closed
  once in a while (`ConnectionsEnd`), though never two at the same time. The start
  assumes that `$connect` succeeds or fails.

## 5. Proofs

All with TLAPS, for every size of every constant set, each `Store`, both pairs
of guards where not said otherwise, any token and cookie life and any limit. The
only assumptions are the named `ASSUME`s of the modules: the values that stand
for "none" are not members of the sets they stand beside, and parameters have
their types.

`AuthSessionsProofs`. The properties are not inductive: `HeldIsRevocable` says
nothing of a login whose reply is not delivered yet, `LateNeverAdmitted`
nothing of what the guard has read. `IInv` adds

- `MintedOnly`: whatever refers to a token refers to a signed one (so that
  `Gone`, which also holds of unsigned tokens, means a deleted account);
- `Shape`: what local variables can be in each phase;
- `RowOwned` (the foreign key), `AskerHolds` (requests present held tokens);
- `Acknowledged`: a login with a 200 has its row, which makes `Deliver`
  preserve `HeldIsRevocable`;
- `LateStaysRevoked` and `LateIsSeen`: a row revoked at arrival stays revoked,
  so the guard reads it revoked, which makes `Resume` preserve
  `LateNeverAdmitted`.

Each part has a lemma with one step per action. The theorems `TypeCorrect`,
`HeldTokensRevocable`, `RevokedStaysOut` and `LogoutIsDurable` follow.
`HandlersAdvance` proves the action property `NeverSentBack` from the same
invariant: `StepAdvances` (each step of a handler lowers `StepsLeft`) and
`OthersLeaveIt` (no step of anybody else moves the request, a crash aside).

`AuthSessionsRefinement` proves `Spec => ImplementsContract`: under `IInv`,
every action is a step of the contract or a stutter. `Insert` and `Commit` of an
insert open; `Arrive` presents; `Verify` and `Lookup` judge (`QueryFails` also
where it ends the lookup); an admitted logout asks to close; `Revoke` confirms;
`Commit` and `Vanish` of a revocation close and forget; `DeleteUser` orphans;
`Deliver`, `LoseReply` and `Crash` release.

`OAuthLoginProofs`. `IInv` adds to the types `Shape` (what variables refer to),
`Spent` (a state that let a callback through is gone), `Apart` (it let one
callback through, and that callback signs one token: this carries
`OneLoginPerState` through the window between consuming and signing),
`Eligible` (an account that is ACTIVE now, or was when it was read, makes the
callback eligible) and `Backed` (a redirect has its row). The theorems are
`TypeCorrect`, `StateSingleUse`, `InactiveStaysOut`, `CookieBacked` and
`LoginAtomic`; `StoreKept` proves, action by action, that the callbacks with any
of the stores implement `StateStoreContract`. `GoogleSessionsKept` proves that
their sessions implement `SessionContract`: a transaction opens its token's
session or changes nothing (`TransactionOpens`, which needs the account to exist
when the database executes it), a deletion orphans the sessions of its account
and of tokens that were signed for it and never stored (`DeletionOrphans`), and
signing opens nothing (`SigningIsSilent`). `CallbacksAdvance` is `NeverSentBack`,
proved as for the password sessions.

`AccessControlProofs`. First, of the operators alone: `PolicyIsolates` (what a
role other than ADMIN is granted lies in the own organization) and its companion
for students, `PolicyReserves` (what only ADMIN is granted) and `PrivilegesOrdered`
(staff may whatever the student may, ADMIN whatever staff may: nothing but its
nine separate entries makes the matrix so), by the cases of `POLICY`.
Then the invariant that ties the
principal on a request to the claims of its token and those to `formerly`: a
login reads an account as it is, and `formerly` only grows. `TenantsIsolated` and
`StudentsStayHome` hold for either pair of guards, and so does
`AdministratorsOnly`, which combines what the claims say, and the account was
when the login read it, with `PolicyReserves`. `RolesEnforced` needs
`OwnDecorator`, that the routes use the decorator of the guards that run;
`LateIsRefused` holds for the API's guards only (section 6).

`RegistrationProofs`. `BodyOrNothing` says that whoever is past validation has an
e-mail and an organization; with it `OrganizationsExist` follows from the two
constraints, and `ContractKept` maps `Insert` to *create*, a 409 to *refuse*, an
unacknowledged or adrift insert to *appear*.

`WorkerLifecycleProofs`. `OneShutdown` (one signal runs the sequence),
`EarlyTimed` (a ping sent before the signal still has its timer, which is due
before the deadline), `Drained` (a closed server has no connection left) and
`Stopped` (the awaited workers have settled before Redis is told to quit) give
`EarlyProbes` and `ExitIsClean`; `Known` (the map holds every running worker that
is not late until they are closed) gives `AllWorkersClosed`. `WorkerDrains` maps
the binding of the port to *bind*, the first signal to *drain*, a probe's steps to
*enter*, *over* and *hangup*, `Quit` to the drained end and the deadline to the
forced one; that `Quit` finds no connection is `Drained`, and everything else is a
stutter.

`WebLoginProofs`. `AnswerIsGranted` (a 200 on its way was given to this tab's
login) gives `HomeIsGranted`. `CallbackLife` (the life a redirect carries, counted
from now, covers what is left of the token's) gives `GoogleSessionsLast`; with it
go `CookieSigned` (the token in the cookie is signed, so that signing another one
does not change its end) and `LifeLeft`. `PendingIsInFlight` is inductive with the types and is the
safety half of `Settles`.

`ApiProcessProofs`. `InFlightServed` and `ViewsServed` carry `served` from the
request through the answer to the page, which gives `PageCurrent`. `ApiDrains`
rests on `Serving`, which ties the server to the stages of the process and of its
shutdown: it is closing only by the shutdown that `Exit` completes once no
connection is left, and while it is unbound there is none. `Moves` says what one
step of a request does to its connection, and is what the steps of the contract
are matched with.

The invariants were checked by TLC on small instances before they were proved.
The liveness properties (`Answered`, `Terminates`, `Settles`, `Boots`, `Stops`)
need fairness, hence `ENABLED`, which TLAPS does not support: they are
model-checked only. What can be proved of them is: `NeverSentBack` says that a
fair handler reaches its end in at most five steps (a callback in six), and
`PendingIsInFlight` that the page waits for something. Every other property of a
passing run has a theorem. The four that a run refutes (section 6) have none.

Two properties are stated in the proof modules and have no run of their own,
because they serve to explain a property that has one: `NeverSentBack`
(`Answered`) and `PendingIsInFlight` (`Settles`). Before they were proved, TLC
found them true on the instances of the table above.

## 6. Disagreements between code and documentation

- **Logout of a padded header revokes nothing** (`sessions_padded`). The guard
  trims the token of `Authorization: Bearer  <token>`, the logout handler does
  not; the padded string does not decode, no row is revoked, the reply is 204.
  The route is documented as "Revoke the current session token and clear the
  cookie" (auth.controller.ts:91).
- **The database state store never stores** (`oauth_lazy`). `set` drops the
  promise of `oAuthState.create`, and a Prisma query runs when its promise is
  awaited, as auth.service.ts:135-152 itself relies on. The comment says
  "Fire-and-forget — callers don't await set(); errors surface on consume()."
  (packages/database/src/index.ts:137). If the query were started, a failure
  would be an unhandled rejection and end the process (`StoreFails`), and the
  browser could in principle return before the insert.

- **A duplicate is answered 500** (`registration_duplicate`). Two registrations
  of one e-mail both find it free; the first insert is answered 201, the unique
  key rejects the second, and `register` does not catch that (auth.service.ts:53). The route is documented
  with 409 "Email already registered." (auth.controller.ts:23).
- **The web application's cookie is not the one the guard reads**
  (`web_cookie`). The route handler stores the token under `token`
  (route.ts:36), the guard reads `jwt`: "Browser sessions → cookie (key:
  "jwt")" (auth.guard.ts:71). A browser that has signed in is not accepted.

Behaviours the models contain that have no run of their own:

- The web application's cookie lives one hour, the token in it `JWT_EXPIRATION`,
  15 minutes by default (route.ts:40; docs/1.8.md:1873 wants the two aligned).
- The cookie of the Google login outlives its token by the time its redirect
  takes, since the browser counts `maxAge` from when it arrives
  (auth.controller.ts:66-72). If the transaction takes longer than the token
  lives, `maxAge` is not positive and the redirect deletes the cookie of an
  earlier login (`GoogleRedirect`, `GoogleDeliver`).
- The API's shutdown may never end. `enableShutdownHooks` (main.ts:15) sets no
  deadline, as the worker's shutdown does (apps/worker/src/index.ts:51), and the
  readiness query has no timeout (database.health.ts:15-23): a query that the
  database never answers, a request that is never complete, a connection kept
  alive that goes on asking, or a `$disconnect` that hangs keep the process for
  ever after a signal. These are the premises of `Stops`; a `$disconnect` that
  fails cuts the requests off (exit code 1).
- A route declared with the other package's `@AllowRoles` is not restricted
  (role.guard.ts:12): `RolesEnforced` assumes `OwnDecorator`, and the run's routes
  are declared under the guards' own key. No route of the API declares roles yet.
- The guards `@verifit/auth` exports look up no record and let the header win
  over the cookie (packages/auth/src/guards/auth.guard.ts:7-35), where
  INTEGRATION.md:37 and 179 promise otherwise: `LateIsRefused` is proved for the
  API's guards and does not hold for these.
- A worker registered while the manager waits for the others is dropped from the
  map and never closed (worker-manager.ts:35-46): the exception in
  `NoWorkerLeftBehind`. Nothing registers workers yet.
- Health probes are throttled like every route (app.module.ts:14-19), so a live
  process may answer a frequent live probe with 429.
- A 200 of the API whose body breaks off sets an empty cookie and lets the page
  go on (`Relay`); all logins through the web application share one throttling
  client; a port that is taken does not end the worker (`Start`), because
  Express hands the error to the callback that logs success.
- A token revoked before its account is deleted is admitted by the guard
  afterwards, since the cascade removes the record (the properties except
  deleted accounts; `GET /auth/me` then answers 404), and a request concurrent
  with a logout may still be served.

## 7. What is left out

Of the modelled parts: signing and encoding (a token is its identity with its
claims), the work bcrypt does, audit log lines, user agents and addresses,
redirects and cookie attributes other than the life, the counters of the
throttler on routes where a 429 decides nothing further, the 503 of an API
without Google configuration, and the organization of a Google login, which no
caller passes. Password login does not look at `accountStatus` in the code, so
the status is not part of `AuthSessions`. What happens to a Google session after
its cookie is set is the matter of `AuthSessions`. Accounts only disappear in
`AuthSessions`, since a new account has no sessions to disturb. In
`AccessControl` an account is changed and never deleted; deletion is the matter
of the other modules. The package's guards are proved about and not run: where
they differ from the API's, their one difference is described in section 6. In
`WorkerLifecycle` a queue has one worker in its life, and a signal that arrives
before the handlers are installed is not an action. A value of `JWT_EXPIRATION`
that only jsonwebtoken can judge is accepted at start-up and fails at the first
login; that failure is one of the 500s of `AuthSessions`.

Not modelled, with reasons in `PROJECT.json`: audit log (output only), queue
names, job schemas and Redis configuration (data), CORS, helmet and Swagger (they
configure libraries), the factory that leaves Google out, seed and migrations,
build and CI, and nine packages that are empty.
