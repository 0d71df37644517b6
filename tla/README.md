# TLA+ models of the Enterprise Auth Server

Specifications, model-checking configurations and machine-checked proofs for the FastAPI
authentication server in `src/backend/app`. Paths below are relative to that directory unless they
start with `src/`; each definition's source lines are in `PROJECT.json` under `map`.

Run a configuration with `tlc -config <file>.cfg <module>`; check the proofs with `tlapm` on the eight modules whose
names end in `Proofs`, `Safety` or `Replay`.

## 1. Inventory

The server is a set of asyncio workers behind nginx. Every HTTP request runs in one SQLAlchemy
session (`db/session.py`); all requests share PostgreSQL and Redis. Two facts make the
interesting behaviour:

- **The commit follows the response.** `get_db` (db/session.py:45-59) commits in the part of the
  dependency that runs after the response has been sent. An exception that leaves the handler rolls
  the transaction back, possibly after the error has been sent: `db_dependency`
  (dependencies/providers.py:25-27) wraps `get_db` in `async for`, which leaves the rollback to the generator's
  finalizer. PostgreSQL locks a row from its `UPDATE` to that point.
- **Redis takes effect at once** and is never rolled back: blacklist entries, revoked flags,
  counters and one-time keys survive the rollback of the transaction they belong to.

Between any two awaits on PostgreSQL or Redis another request may run.

| Component | State | Operations | What is hard | What makes it correct |
|---|---|---|---|---|
| Sessions (`services/session.py`, `api/v1/sessions.py`, `api/v1/_login.py`, `dependencies/auth.py`) | `sessions` rows (`is_active`, `refresh_token_id`, `last_activity_at`, `expires_at`); keys `session_revoked`, `session_touch`, `session_active` | create, validate and touch, expire, revoke one / by uuid / by sid / all, rebind | validation and revocation by concurrent requests, commit after the answer, the early commit of `_expire`, row-lock cycles, limits that count from a throttled timestamp | an ended session grants nothing and never comes back; an announced logout holds; logout-all is complete; only the owner revokes; limits are enforced |
| Refresh tokens (`services/token.py`, `api/v1/auth.py`, `core/security.py`) | JWTs held by clients; `revoked_jti` keys with a lifetime | issue, verify, rotate, revoke, replay handling, logout | check-then-blacklist, burn before rebind/commit/response, lost responses and retries, truncated lifetimes | a rotated token is a replay ever after; a replay ends the family in the database |
| Transactions (`db/session.py`) | uncommitted rows, row locks | commit, rollback | commit failure after the answer | every way out closes the transaction |
| Two-factor (`services/two_factor.py`, `api/v1/two_factor.py`) | `two_factor_auth` and `backup_codes` rows; `2fa_otp_used` keys; pre-auth tokens | setup, confirm, verify OTP, generate and consume recovery codes, disable; the gate of the password login | an OTP or recovery code used by two requests at once; a setup racing a confirmation; codes replaced while they are used | a code works twice only for requests that overlap; a regeneration or disable leaves none of the old codes; only disable turns the factor off; no password login past the gate |
| Rate limits and lockout (`services/rate_limit.py`) | fixed-window counters, failure counters, lockout keys | hit, ensure_not_locked, record_failure, clear_failures | INCR and EXPIRE are two calls; concurrent failures; a success that clears a lockout; Redis errors are fail-closed or swallowed | bounded guesses per window; every lock ends, and every window that got its expiry |
| Registration and password login (`services/auth.py`) | `users` rows | register, authenticate, rehash | duplicate registration; guesses between check and count | one account per address |
| Email tokens (`services/email_account.py`, `api/v1/email.py`) | `email_tokens` rows; mails in background tasks | issue, verify, reset password, change email | mail sent before the commit; two consumers of one token; two issues at once; addresses that change meanwhile | a token works twice only for requests that overlap, and never once superseded; what is verified or reset was vouched for by the right mailbox |
| OAuth (`services/oauth/service.py`, `api/v1/oauth.py`) | `oauth_state` keys; `oauth_accounts`, `users` rows | start, link, callback (there is no unlink) | GET then DELETE of a state; two callbacks of one new account; auto-link while addresses change | a state serves two callbacks only if they overlap; an account belongs to one user; auto-link rests on two proofs of the address |
| OAuth providers, notifications, mail back ends, crypto, user agent, GeoIP | none | I/O and stateless wrappers | | |
| Users, roles, permissions, seed data | `roles`, `permissions` rows | read, seed | nothing concurrent: no route changes a role | |
| Schemas, configuration, middleware, health, logging, application | none | wiring | | |

Components meet in four ways: calls in one request (login: limiter -> authenticate -> 2FA gate ->
`_finalize_login` -> session and token services), shared rows (`users` is written by registration,
verification, change of address, reset and OAuth), shared Redis keys (the 2FA lockout uses the limiter's keys) and
the client, which carries tokens from one response to a later request.

`PROJECT.json` lists the components with their status and, under `hazards`, what in this code is
hard to test, each at the line where it bites.

## 2. Modules

| Module | Models |
|---|---|
| `SessionLedger` | abstract specification of the session store: opened once, ended by commits of one user, never brought back |
| `SessionService` | sessions and refresh tokens under concurrent requests; implements `SessionLedger` |
| `SessionServiceProofs` | the inductive invariant `Base` of `SessionService` and type correctness |
| `SessionServiceSafety` | proofs of ownership, of the refinement and of what an ended session grants |
| `SessionServiceReplay` | proofs about replayed refresh tokens and about logout-all |
| `MCSessionService` | small instances of `SessionService` |
| `SessionLifetime` | one session on a clock: limits, token lifetimes, key lifetimes |
| `SessionLifetimeProofs` | its invariants and their proofs |
| `MCSessionLifetime` | small instance of `SessionLifetime` |
| `RateLimiter` | windows, failure counters and lockout of the password login, with key expiry, failing Redis calls and requests that are cut short |
| `RateLimiterProofs` | its invariants and their proofs |
| `TwoFactor` | the second factor of one user: setup, confirmation, login gate, OTPs, recovery codes, disable |
| `TwoFactorProofs` | its invariants and their proofs |
| `AccountRows` | what the next two share: rows of users, email tokens and OAuth links, transactions, unique indexes |
| `EmailAccount` | registration and mailed tokens |
| `OAuth` | OAuth states, callback, auto-link, sign-up, linking |
| `AccountService` | composition of `EmailAccount` and `OAuth` on one database |
| `AccountServiceProofs` | its inductive invariant `IInv`, and what each action does to the request that takes it |
| `AccountServiceSafety` | proofs that every step keeps `IInv`, and what follows from it |
| `MCRateLimiter`, `MCTwoFactor`, `MCAccountService` | their instances |

### SessionService

One action per stretch of code between two awaits on PostgreSQL or Redis. `pc[r]` is where request
`r` stands, `req[r]` its parameters, `txn[r]` its uncommitted writes and what it has loaded.

| State | Code |
|---|---|
| `db` | committed `sessions` rows: `is_active` as `status`, and `refresh_token_id` |
| `lock` | PostgreSQL row locks |
| `blacklist`, `revoked` | Redis keys `revoked_jti:<jti>` and `session_revoked:<sid>` |
| `token` | refresh tokens minted so far, with session and predecessor |
| `held` | refresh tokens a client has received; it may present any of them at any time, also an old one |
| `acked` | sessions whose end a client has been told of |
| `lost` | Redis has restarted from an older snapshot |
| `req[r].since` | what was true when the request arrived; only properties read it |

Every route is a path through the steps: `GET /sessions` and the like (`me`) are check, load,
(flush_touch,) body, respond, commit; `refresh` is verify, burn, reload, flush_bind, respond,
commit, or verify, replay, blacklist, flush_end, flag, replay_commit, replayed; the revoking
routes take blacklist, flush_end, flag for each session. `Load` may find the session lapsed or its
touch key present whatever the time: that over-approximates the clock, and `SessionLifetime` makes
it exact. `LoadRows` and `RevokeByUuid` reproduce SQLAlchemy's identity map: a row loaded by validation
keeps the values it was loaded with. `Commit` writes dirty columns only. `Abort` is a failed call,
a failed commit or a crashed worker, `DeadlockVictim` PostgreSQL's detector, `RedisRestart` the loss of keys.

Not in it: the `session_active` key (the code never reads it), new-device mails, audit and
metadata columns, pagination, the credentials that precede `Login`.

### SessionLifetime

The same handlers for one session, with times: the row's `last_activity_at` and `expires_at`, the
expiry of the flag, the touch key, each blacklist entry, each refresh token and the newest access token.
`Second` ticks make a second, so that `int()` in `create_token` and `TokenService.revoke` truncates
as it does. The clock may advance whenever every request is idle or waits for a row lock or a
commit; other steps take no time. It assumes Redis and the application server agree on the time.

### RateLimiter

A login through the middleware's window (`global`), the route's window (`auth`), the lock check, the password check
and the bookkeeping after it: one action per Redis call. `count` and `ttl` are the keys of the counters (a counter
whose EXPIRE was never sent has no end), `lock` is the lockout key. Counters stop one above their limit: the code
compares a counter with its limit only, so it tells no larger values apart. A failing call lets a request through the
middleware (`HitError`), stops it at the route and at the lock check, and is swallowed in the bookkeeping, which leaves
the rest of its calls undone; a worker that is cancelled or crashes at any step leaves them undone too (`Abort`). A
failed call is taken to have had no effect in Redis. A request lives through one tick at most (it is short against a
window of a minute). `admitted`, `wrong` and `endless` (the windows that were opened and whose own EXPIRE was lost) are
history that only properties read. The OTP and recovery-code logins use the same three operations
under an identifier of their own, so one account stands for each of them.

### TwoFactor

The rows and keys of one user, with one action per stretch of code between awaits, as in `SessionService`. A row of
`two_factor_auth` is known by the secret it was inserted with, because a request can hold a row that was deleted and
inserted again. `Write` records which columns a transaction changed: `start_setup` writes only the secret of a row it
loaded as not enabled (SQLAlchemy leaves out columns whose value it finds unchanged), `confirm_setup` only `enabled`.
DELETE by user takes the rows committed when it starts (`DeleteScan`) and then waits for those that are locked
(`DeleteRows`). `used` is the time each `2fa_otp_used` key has left; a tick is one step of 30 s. Each behaviour picks
a *workload* at the start, a set of operations with its bounds (`load`), so that one run holds several small state
spaces. The pre-auth token is taken as given, password, rate limit and lockout (`RateLimiter`) only refuse requests
before their first step here, and the response and the commit are one step: what the client learns is not the question
here.

### AccountRows, EmailAccount, OAuth, AccountService

`users`, `tokens` and `links` are the committed rows; `txn[r].cols` names the columns of a user that a transaction
changed and `txn[r].new` holds their values (`Changes`, `Values`); `Updated` merges them into the row. `UserFree`,
`TokensFree`, `EmailFree` and `AccountFree` are PostgreSQL's row locks and unique indexes: a writer of a key waits for
the transaction that adds or gives up that key and then fails if it is there (`EmailTaken`, `AccountTaken`). `Mail`
sends a token's mail after the response and before the commit: `mailed` keeps the address it went to even when the
commit fails, and an id that was mailed is never handed out again. `proven` and `had` are history: which addresses a
mail or a provider has vouched for, and which ones a user had. Expired tokens, wrong passwords, failed HTTP calls and
mismatched providers are refused requests, which change nothing but the Redis state. `is_active` is never written by
any route, so every account is active. A password is the token it was reset with, or none. Foreign-key locks and audit
columns are left out.

The session that a registration or callback opens is `Login` of `SessionService`.

## 3. Runs

| Run | Instance | Shows |
|---|---|---|
| `rotation` | 2 requests, 1 session, 3 refresh tokens; abort, lost response, Redis restart | `NoAuthAfterEnd`, `RotatedTokenIsReplay`, `EndSurvivesError` |
| `revocation` | 2 requests, 2 users, 3 sessions; abort, lost response | `AckedEndHolds`, `LogoutAllComplete`, `OwnershipEnforced`, refinement of `SessionLedger` |
| `liveness` | 2 requests, 1 user, 2 sessions, under `FairSpec`, no symmetry | `EveryRequestEnds` |
| `lifetime` | 2 requests, 2 refresh tokens, half-second ticks | `LimitsEnforced`, `AnnouncedEndIsForever`, `RotatedStaysBurnt` |
| `limiter` | 2 logins, limits 3 and 2, window of 1 tick, 2 failures, lockout of 2 ticks, 1 failed call or cut-short request, under `FairSpec` | `AdmittedPerWindow`, `GuessesBounded`, `LockEnds`, `WindowReopens` |
| `two_factor` | 2 requests; workloads `Logins` (2 secrets, 2 ticks), `RecoveryCodes` (1 secret, 3 codes, 1 tick) and `Lasting` (1 secret, 3 ticks, OTP logins only) | `OtpReuseOverlaps`, `CodeReuseOverlaps`, `GateHolds`, `OldCodesDie`, `OnlyDisableTurnsOff` |
| `accounts` | 2 requests, 2 users, 2 addresses; workloads `Mails` (3 tokens), `Providers` (1 token, OAuth with links), `Moves` (2 tokens, OAuth logins while addresses change) | `OneAccountPerEmail`, `TokenReuseOverlaps`, `SupersededTokenDead`, `IssueSupersedes`, `VerifiedWasProven`, `ResetByOwnMail`, `StateReuseOverlaps`, `AccountBelongsToOne`, `AnsweredIsLinked`, `AutoLinkProven` |
| the five others | the smallest instance that shows it | a finding each, section 5 |

**Bounds.** The hazards are races of two requests: check-then-act on one token, a revocation against a touch or a
refresh, two lock orders. Two requests *at one time* suffice for these, and there is no bound on how many run one
after another. A refresh takes a token id before it knows what it meets, so three tokens allow a rotation and
after it either a replay of the first token or a rotation of its successor, by one request or by two that overlap;
one session with them and three sessions (two of one user, one of another) with plain operations split the state space
by question. `ClientOps` and `Faults` bound each run's operations and failures and are constants of the specification,
so the proofs hold for all of them. Redis restarts once. Runs take session and token ids as symmetric, except under
liveness. In `lifetime` the horizon of 6 ticks is beyond the absolute limit (4), and the access token (3) outlives the
idle limit (1) so that the limit, and not the token, has to stop the client: with the defaults (15 and 30 minutes) it
would be the token. In `limiter` two logins at a time pass the lock check together, which is the worst case the bound
on guesses allows for two, and nothing bounds how many follow. In `two_factor` a valid window of 1 step and OTPs of
steps 0 and 1 let `Logins` see an OTP become invalid while its key lives, and two secrets let a row be deleted and made
again; a key lives 3 steps, so it expires in `Lasting` only, where the key of an OTP that was used at the first moment
it is valid goes in the tick in which the OTP does. One
code per set and three sets allow a replacement during a replacement. In `accounts` three tokens supersede one
another, two addresses swap owners, and the profiles hold a verified Google address and a GitHub account that shows an
address at times. The workloads keep apart what does not meet: mail tokens of three purposes never touch OAuth rows
except through the users, which is what `Providers` and `Moves` are for. `CHECK_DEADLOCK FALSE` wherever the ids run
out or the clock reaches its horizon, and the clients may stop; `limiter` runs without such an end and is checked for
deadlock.

**Fairness** (`FairSpec`). The event loop resumes a coroutine whose call has returned: every step of a running request
is taken. Strong fairness is needed only for steps that wait for a row lock, and PostgreSQL justifies it: waiters get
a lock in the order they asked, so an `UPDATE` is not overtaken for ever. The deadlock detector is weakly fair: it
runs after `deadlock_timeout`. Nothing makes clients send requests. In `limiter`, `FairSpec` says that time passes
(`WF(Tick)`) and that a request which has begun goes on (`WF(Step)`); clients need not ever try again, and `LockEnds`
and `WindowReopens` hold although they may try for ever; `WindowReopens` lets off only the windows in `endless`. `EveryRequestEnds` thus says that no handler leaves its transaction open and no
set of handlers waits for each other without the detector seeing it; without the rollback of `get_db` it fails.

**Mutants.** For every property of a passing run `PROJECT.json` names a definition and a mutated form
of it next to it in the module (*Mutant of ...*), for which TLC finds the property violated.

## 4. Proofs

Every safety property that a passing run checks, for any values of the constants. `P` stands for `Spec => []P` with an
invariant and `Spec => P` with an action property or a specification.

| Module | Theorem | States | Rests on |
|---|---|---|---|
| `SessionServiceProofs` | `TypeCorrect` | `TypeOK` | `Base` |
| `SessionServiceSafety` | `OwnershipHolds` | `OwnershipEnforced` | `Base`, `Owned` |
| | `LedgerImplemented` | `LedgerSpec` | `Base`, `Owned` |
| | `NoAuthAfterEndHolds` | `NoAuthAfterEnd` | `Base`, `Arrived` |
| | `AckedEndHoldsAlways` | `AckedEndHolds` | `Base`, `Flagged` |
| `SessionServiceReplay` | `RotatedTokenIsReplayHolds` | `RotatedTokenIsReplay` | `Base`, `ParentsBurnt`, `Spent` |
| | `EndSurvivesErrorHolds` | `EndSurvivesError` | `Base`, `Arrived`, `Family`, `Lapsed` |
| | `LogoutAllCompleteHolds` | `LogoutAllComplete` | `Base`, `Complete` |
| `SessionLifetimeProofs` | `LifetimeTypes` | `TypeOK` | `Base` |
| | `LimitsHold` | `LimitsEnforced` | `Base`, `LimitOK` |
| | `AnnouncedEndsLast` | `AnnouncedEndIsForever` | `Base`, `EndOK` |
| | `RotatedStayBurnt` | `RotatedStaysBurnt` | `Base`, `MintOK`, `BurntOK` |
| `RateLimiterProofs` | `LimiterTypes` | `TypeOK` | |
| | `WindowsBoundLogins` | `AdmittedPerWindow` | `TypeOK`, `WindowsOK` |
| | `LockoutBoundsGuesses` | `GuessesBounded` | `TypeOK`, `GuessesOK` |
| `TwoFactorProofs` | `TwoFactorTypes` | `TypeOK` | `Base` |
| | `OtpsReusedOverlap` | `OtpReuseOverlaps` | `Base`, `OtpsOK` |
| | `CodesReusedOverlap` | `CodeReuseOverlaps` | `Base`, `CodesOK` |
| | `ClearedCodesDie` | `OldCodesDie` | `Base`, `CodesOK` |
| | `SecondFactorAsked` | `GateHolds` | `Base`, `GateOK` |
| | `OnlyDisableDisables` | `OnlyDisableTurnsOff` | `Base` |
| `AccountServiceSafety` | `AccountTypes` | `TypeOK` | `IInv` |
| | `AddressesAreUnique` | `OneAccountPerEmail` | `IInv` |
| | `TokensReusedOverlap` | `TokenReuseOverlaps` | `IInv` |
| | `SupersededTokensDie` | `SupersededTokenDead` | `IInv` |
| | `IssuingSupersedes` | `IssueSupersedes` | `IInv` |
| | `VerifiedAddressesAreProven` | `VerifiedWasProven` | `IInv` |
| | `PasswordsAreResetByOwnMail` | `ResetByOwnMail` | `IInv` |
| | `StatesReusedOverlap` | `StateReuseOverlaps` | `IInv` |
| | `AccountsBelongToOne` | `AccountBelongsToOne` | `IInv` |
| | `AnswersAreLinked` | `AnsweredIsLinked` | `IInv` |
| | `AutoLinksAreProven` | `AutoLinkProven` | `IInv` |

**Assumptions**, each in the module that declares the constant and evaluated by TLC on its instances:

- Null values are none of the others (`NullAssumption`, `NoneAssumption`, `JtiAssumption`, `RequestAssumption`).
- The bounds of a run name known operations and failures (`ClientOpsAssumption`, `FaultsAssumption`,
  `WorkloadsAssumption`), each session id has a user (`OwnerAssumption`), a profile is what a provider can answer
  (`ProfilesAssumption`).
- `TimeAssumption`, `TimesAssumption`, `LimitAssumption`, `MaxAssumption`, `WindowAssumption`, `CountAssumption`: limits
  and lifetimes are positive, OTP steps and the window of valid ones natural numbers. A refresh token lives a second
  at least and a remembered one no shorter than another: both lives are whole days in `core/config.py`.
- `RequestsAssumption`: `RateLimiter` has finitely many requests at a time, so that they can be counted. Nothing else
  is assumed finite.

In each model, typing alone is not inductive: what a step writes depends on where the request stands and what it has in
hand. Each proof therefore starts from an invariant of *control* (which operation can be at which step, with which
fields filled) and adds what the rows, keys and requests have to do with one another. The exception is `RateLimiter`,
whose `TypeOK` is inductive.

### SessionService

`Base` is `TypeOK`, `ControlOK` (a request at `flush_end` has a current session, one past it has none, an idle one
nothing), `RowsOK` (a request only revokes rows that are there, a login's row is not there yet) and `TokensOK` (a
token id is minted once, for the request that reserved it, and two logins never draw one session id; without it a
second login could re-open a session that has ended). On top of it:

- `OwnershipHolds` from `Owned`: what a request loads or revokes belongs to the owner of its session.
- `LedgerImplemented`: only `Expire`, `Commit` and `ReplayCommit` write `db` (`DbWriters`). A login's commit is `Open`
  by `TokensOK`, the others are `End` of the sessions they newly end, of one user by `Owned`. The crux is that no
  commit writes "active" over "ended": `UPDATE` writes dirty columns only.
- `NoAuthAfterEndHolds` from `Arrived`: a request that found its session ended on arrival still finds it ended
  (`StatusStep`: an ended row stays ended), hence gets nowhere past `load` or `reload`. No use is made of Redis.
- `AckedEndHoldsAlways` from `Flagged`: while Redis keeps its data, the sessions a transaction ends are flagged
  before its response leaves, so every acknowledged end is flagged and `CheckFlag` rejects.
- `RotatedTokenIsReplayHolds` from `ParentsBurnt` and `Spent`: while Redis keeps its data, a token with a successor is
  blacklisted (`Burn` does both in one step), and a request that came later is kept off the path of the rotation. It
  does not exclude the double rotation of section 5: there both requests arrive before the token has a successor.
- `EndSurvivesErrorHolds` from `Family` and `Lapsed`: a replay has only its own session in hand, and that is among its
  writes when it commits; a session that validation found past its limits is ended by the commit of `_expire`, which
  comes before the flag. `Arrived` covers a replay whose session somebody else had ended.
- `LogoutAllCompleteHolds` from `Complete`: each session that was active on arrival is still to do, being revoked,
  among the writes, or ended by somebody else.

### SessionLifetime

- `LimitsHold` from `LimitOK`: `last_activity_at`, also the one a transaction is about to write, is never later than
  the last request that was served. The throttle, late commits and rollbacks can then only make the code stricter
  than the limit.
- `AnnouncedEndsLast` from `EndOK`: the row ends at most `Absolute` from now, and the flag is set for `Absolute` from
  now; so the flag, once set, outlives the row, whatever time passes and whoever sets it again, and no end is announced
  before it is set. When the key expires, `Load` finds the row past its absolute limit.
- `RotatedStayBurnt` from `MintOK` (a token id is drawn by one request, so its expiry is set once) and
  `BurntOK` (a rotated token's blacklist entry lasts to within a second of its expiry). The second is lost in `int()`
  (`WholeSeconds`).

### RateLimiter

- `WindowsBoundLogins` from `WindowsOK`: while one request is between INCR and EXPIRE of a new counter, that counter
  has no expiry, no other request is there, and the opener is itself not yet admitted. So every admitted request is
  in the counter, and those after the limit are refused.
- `LockoutBoundsGuesses` from `GuessesOK`: every wrong guess since the last fresh start is in the counter (one that
  has reached the limit counts one less, for the request that will lock and delete it), on its way there (`Uncounted`),
  or lost to a failed call or a request cut short. The set on its way has at most all requests (`FiniteSetTheorems`).

### TwoFactor

- `Base` adds to control what a transaction has written: an insert meets no row, an update a row (`RowWrite`, from the
  unique index and the row lock, which `TypeOK` states as one holder per lock), and new recovery codes are nobody
  else's (`CodeWrite`, `Added`). `OnlyDisableDisables` follows from it alone: a setup writes no `enabled` column.
- `OtpsReusedOverlap` from `OtpsOK`: the key of an OTP that was let pass lives at least until the OTP is invalid. It
  is where the key's life (`services/two_factor.py:146`) is compared with the window.
- `CodesReusedOverlap` and `ClearedCodesDie` from `CodesOK`: codes used up on arrival stay used up or deleted and are
  never in hand (`Spent`); what was usable when a regeneration or disable came is in its DELETE, or over (`Cleared`).
- `SecondFactorAsked` from `GateOK`: a row that was enabled when a login came stays enabled or is gone for good, since
  no setup under way brings its id back.

### AccountService

`IInv` has these parts, each a conjunction per request, row or pair of requests:

- `Typed`, and `RowsOK`: unique addresses, accounts linked once, and of each user, token and state that what it says
  was vouched for (`UserOK`, `TokenOK`, `StateOK`).
- `Control`: `OpAt` for the steps, `Issues` for a request that issues a token (to whom and which address it goes),
  `Uses` for one that consumes one, `Calls` for a callback.
- `Fits`: what a transaction has written fits the committed rows (`UserWrite`, `TokenWrite`, `LinkWrite`): an inserted
  user is not there yet, an updated one is, a dropped token was issued. This is where the row locks and unique indexes
  work.
- `PastOK` (what was used up on arrival is used up still), `Supersedes` (what was valid when an issue came is in its
  DELETE, or dead) and `Apart` (two transactions neither
  create one token id nor link one account).

`AccountServiceProofs` states what each action does to its own request, `AccountServiceSafety` that each part survives
every step of that request and of another (`FitsStep`, `Apart`...). `AddressesAreUnique`, `AccountsBelongToOne` and
`AutoLinksAreProven` are parts of `RowsOK`; the others follow from it in a few lines. Two overlapping issues or links
are in the models and not excluded by any of them (section 5).

### Only model-checked

`EveryRequestEnds`, `LockEnds` and `WindowReopens`: liveness under fairness is out of the prover's reach. The runs of
section 5 show violations, which need no proof.

## 5. Findings

Each is a run whose property, taken from the repository's own words, TLC finds violated.

| Run | The repository says | The code does |
|---|---|---|
| `double_rotation` | `src/backend/tests/test_auth.py:70` "Re-using the OLD refresh token must fail" | two refreshes pass the check (services/token.py:123) before either blacklists (124); both get a new pair, bound to one session |
| `logout_during_refresh` | `api/v1/auth.py:261` "Already invalid — clearing cookies is enough." | a logout that meets a refresh of its cookie answers "logged out" and leaves the session active with a working token |
| `replay_without_rotation` | `services/token.py:111-113` a blacklisted JTI "has already been rotated ... so this means an old, already-used refresh token is being replayed" | the token is blacklisted before its successor is on its way; when that response is lost, the client's retry with its only token ends the session. The run has one request at a time and no failure but the lost response |
| `idle_refresh` | `src/README.md:302` "Sessions enforce both idle timeout and absolute expiration" | `rebind_refresh` (services/session.py:228) checks neither limit and renews the activity |
| `unproven_secret` | `services/two_factor.py:106` "Activate 2FA once the user proves they can generate a valid OTP." | `confirm_setup` checks the OTP of the secret it loaded and writes `enabled` only (services/two_factor.py:115); a setup that commits in between has put another secret there |

None contradicts a proved theorem: an ended session stays ended in all of them.

Met while modelling and seen in the model or by reading, without a run of their own:

- `_expire` (services/session.py:154) does not blacklist the refresh token; `src/README.md:300` says expired sessions
  do.
- `TokenService.revoke` truncates the remaining life (services/token.py:88): a token rotated in its last second is not
  blacklisted; the docstring says "until its natural expiry".
- A refresh that arrives before its login's commit (the client has the token with the response) burns its token
  (services/token.py:124) and then finds no row to rebind; the retry is a replay and ends the new session.
  A failed call or commit after the blacklisting leaves the client in the same place.
- A failure between INCR and EXPIRE (services/rate_limit.py:29) leaves a "fixed-window" counter
  (services/rate_limit.py:20) without an end: nobody gives it one later, and a client over the limit is refused for
  good. `WindowReopens` exempts exactly these windows (`endless`) and holds for the others whatever fails.
- Two issues that overlap leave two usable tokens of one purpose (comment at services/email_account.py:53), and two
  first generations of recovery codes leave two sets. `IssueSupersedes` and `OldCodesDie` say what does hold: what was
  valid on arrival is dead.
- The OAuth callback asks for no second factor (api/v1/oauth.py:70), while `src/README.md:374` has 2FA apply to it.
- `src/README.md:367` describes auto-link without its condition; the code demands that both sides have proven the
  address.
- An OTP of `confirm_setup` is not marked as used, and works once more for a login. `reset_password` ends no sessions.
- `TWO_FA_MAX_FAILURES` (core/config.py:40) is never read.

## 6. Not modelled, and the plan

Left out of the modelled components: the `session_active` key, new-device mails, the rehash of an old password hash and
`last_login_at`, reads that change nothing (status, QR code, lists), cookie attributes, audit records.
A Redis restart is modelled for the session keys only: elsewhere it forgets counters, used OTPs and states, and the
properties of `RateLimiter`, `TwoFactor` and `OAuth` assume it does not happen.

Every invariant and every action property that a passing run checks is proved (section 4). What would say more about
the system next, in this order:

1. An abstract specification of a single-use credential (issued, superseded, used by requests that overlap, dead for
later ones), which mailed tokens, recovery codes and OAuth states implement alike, with the refinement proved from the
invariants below `TokenReuseOverlaps`, `CodeReuseOverlaps` and `StateReuseOverlaps`.
2. A Redis restart in `TwoFactor` and `RateLimiter`, and what their theorems keep then.

Out of the models for good: OAuth provider HTTP calls, mail templates and delivery, password hashing, JWT
signatures, user-agent parsing, GeoIP, schemas, logging, health checks, security headers, migrations, nginx and
containers (pure I/O, stateless, or outside the program); roles and permissions (no route changes them).
