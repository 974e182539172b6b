# TLA+ models of the jetstream authentication core

These modules model the authentication and credential-brokering core of the
jetstream backend (`src/jetstream/auth.go` with `main.go`, `utils.go`,
`localusers.go` and the local user info provider). TLC checks them. The core
covers:

- console login, session verification and silent refresh;
- the XSRF token;
- connecting and disconnecting endpoints (CNSIs), including system-shared tokens;
- the SSO redirect flows;
- local users and their profile and password updates;
- server startup and its wait for the database.

## 1. The system

### Parts and how they interact

| Part | Code | Shared state it touches |
|---|---|---|
| Token Acquirer | `login`, `loginHttpBasic`, `fetchHttpBasicToken`, `getUAATokenWith*`, `getUAAToken`, `FetchOAuth2Token`, `ConnectOAuth2`, `RefreshUAALogin` | none of its own; it talks to identity providers (UAA, endpoint authorization servers), and `RefreshUAALogin` saves the UAA token row |
| Identity Decoder | `GetUserTokenInfo` (outside `src/`); `GetUAAUser`, `GetCNSIUserFromOAuthToken` (admin derivation) | reads the tokens table |
| Session Manager | `doLoginToUAA` (from `loginToUAA` and `ssoLoginToUAA`), `verifySession`, `ensureXSRFToken`, `RefreshUAAToken`, `logout` | session store (`user_id`, `exp`, `xsrf_token`); UAA token row per user |
| Endpoint Connector | `DoLoginToCNSI`, `logoutOfCNSI`, `ClearCNSIToken`, `DoLoginToCNSIwithConsoleUAAtoken` | tokens table keyed by (endpoint GUID, user GUID or `SystemSharedUserGuid`) |
| SSO Coordinator | `initSSOlogin`, `ssoLogoutOfUAA`, `ssoLoginToUAA` (the single callback), `ssoLoginToCNSI`, `getSSORedirectURI`, `hasSSOOption` | session store; browsers and providers |
| Credential Store | `saveAuthToken`, `setUAATokenRecord`, `GetUAATokenRecord`, `deleteCNSIToken`, `InitEndpointTokenRecord` | tokens table |
| Auth Provider Registry | `newPortalProxy` (main.go), `GetAuthProvider` | fixed at startup |
| Utilities | `utils.go`: `ArrayContainsString`, `RemoveSpaces`, `CompareURL`, `getPort` | none |
| Local users | `localusers.go`, `plugins/userinfo/local_user.go` | local users table |
| Startup | `main.go`: config, DB pool, session store, routes, HTTP clients | process-wide |

Each HTTP request runs in its own goroutine. Requests of one user, of one
browser session, and of several users therefore interleave freely. Nothing
in the core takes a lock. Every access to the tokens table, the session
store or an identity provider is a point where another request can step in.

The control flow is:

1. The browser logs in through the direct-login endpoint or the SSO Coordinator.
2. The Token Acquirer obtains a token and the Identity Decoder reads it.
3. For a console login, the Session Manager writes the session and the UAA
   token row.
4. For an endpoint connect, the Endpoint Connector runs the plugin's Connect,
   saves the token in the tokens table, validates it, and rolls back on failure.

Every session verification reads the session and the UAA token row. When the
session has expired, it refreshes the token and writes both back.

### Behaviours that make it hard

- **Interleavings of two requests on one session.** These are verify vs
  logout, verify vs login, and two `ensureXSRFToken` calls.
- **Interleavings on one UAA token row.** The row is shared by all sessions
  of a user: login, verify and `RefreshUAAToken` all write it, and the last
  writer wins (spec §5).
- **Interleavings on one endpoint token slot.** Two connects save, validate
  and roll back on the same slot. The rollback clears by key.
- **Partial failures.** Three are modelled:
  - a failed rollback whose error is ignored (auth.go:430);
  - the session written before the token save fails (auth.go:242/251);
  - `clearSession` errors, which are ignored (auth.go:708) — listed as a
    hazard but not modelled.
- **The redirect dance of SSO.** Three parties are involved. There is one
  callback route for three flows. Codes are single-use. Callback URLs can be
  replayed or opened in another browser.
- **Read-modify-write of a whole row.** `UpdateUserInfo` and
  `UpdatePassword` each read a local user's row and hash in two queries and
  write the whole row back.
- **A retry loop with a timeout.** `initConnPool` pings the database until
  it answers or a boundary passes.
- **String decisions made on configuration and token contents.** These are
  `hasSSOOption` and the admin-scope test.

## 2. Modules and how they correspond to the code

Each module states in its header what it models.

### `EndpointConnect` — the Endpoint Connector over the tokens table

**State.**

- `store[e][o]` is the token record of endpoint `e` for owner `o`. The owner
  is a user or `SystemSharedUserGuid`. A record is abstracted to:
  - an identity;
  - whether the plugin's `Validate` accepts it;
  - `Disconnected`;
  - whether it is a linked UAA token;
  - the user whose endpoint identity it carries.
- `req[r]` is the progress of request `r`.
- `nextTok` issues fresh token identities.

**Actions.**

- `DoLoginToCNSI` is split where it touches the store:
  - `ConnectStart` covers lookup, admin check, plugin match and the
    plugin's Connect. Connect runs one of the Token Acquirer's handshakes,
    which are operators: `ConnectOAuth2` over `FetchOAuth2Token` and
    `login` (a POST without username or password fails before the grant;
    the grant may fail; otherwise `InitEndpointTokenRecord` builds the
    record), or `fetchHttpBasicToken` over `loginHttpBasic`, which fails
    without credentials and otherwise panics on its nil result
    (auth.go:696): the request ends with result `Panic` and writes nothing;
  - `ConnectSave` is `setCNSITokenRecord`, which may fail;
  - `ConnectValidate` is `Validate`, and on failure the rollback
    `ClearCNSIToken`. The rollback's error is ignored, as in the code.
- `logoutOfCNSI` is `DisconnectStart` (the lookup, which may return the
  user's or the shared row, and the admin check) and `DisconnectClear`.
- `AutoConnect` is `DoLoginToCNSIwithConsoleUAAtoken`.
- `GetCNSIUser` is `GetCNSIUserAndToken`: the lookup of the user's or the
  shared row, then the user view, sanitised for a system-shared record. When
  the view cannot be built for a system-shared record, the nil user is
  dereferenced by the sanitiser; the request ends with result `Panic`.
- On success, `ConnectValidate` answers with a user view:
  `GetCNSIUserFromToken` sanitised by `santizeInfoForSystemSharedTokenUser`,
  or the `Unknown` fallback when the view cannot be built. A view is
  abstracted to the GUID it shows and to which scopes it carries.
- `ClearCNSIToken` writes the `cleared_token` placeholder for a `cf` endpoint
  whose URL is the auto-register URL, and deletes the record otherwise
  (`deleteCNSIToken`).

**Constants.** The endpoint types, the plugins, the auto-register URL match
and the UAA match are constants.

### `ConsoleSession` — the Session Manager

**State.**

- `sess[s]`: `user_id`, `exp` and `xsrf_token` of browser session `s`.
- `uaa[u]`: the expiry of user `u`'s UAA token row.
- `now`: the clock.
- `req[r]`: the progress of request `r`.
- `cookie`: the sessions whose cookie a browser holds. A response that
  wrote or renewed a session hands its cookie out (`Done`); a failure
  before that does not (`Fail`).

**Actions.** Each is one access, in the code's order.

- `doLoginToUAA`, called by `loginToUAA` (op `login`) and by the SSO
  callback `ssoLoginToUAA` (op `ssoLogin`):
  1. `LoginGrant`: the grant. Line 241 empties the request's Cookie header,
     so the session written is a new one (`NewSession`): no browser holds
     its cookie and no other request can use it until the login's response.
  2. `LoginSetSession`: `setSessionValues` into that session, with no XSRF
     token.
  3. `LoginSave`: `saveAuthToken`.
  4. Then `loginToUAA` calls `ensureXSRFToken` before responding, while
     `ssoLoginToUAA` redirects at once, leaving the session without an XSRF
     token.
- `verifySession` and `logout` act on a session in `cookie`.
- `verifySession`:
  1. `VerifyRead`: reads `exp`, `user_id` and the token row; answers 403 when
     one is absent.
  2. `VerifyRefresh`: the refresh grant (`getUAATokenWithRefreshToken`).
  3. `VerifySave`: `saveAuthToken`.
  4. `VerifySetSession`: `setSessionValues(user_id, exp)`.
- `ensureXSRFToken`: `EnsureXSRFRead`, then `EnsureXSRFWrite`. The new
  token comes from `generateRandomBytes`; when the random source fails the
  empty string is stored, which the next read treats as no token.
- `RefreshUAAToken`: `RefreshRead` (`GetUAATokenRecord`), `RefreshGrant`,
  `RefreshSave`.
- `RefreshUAALogin(username, password, store)`: `RefreshLoginGrant` (the
  password grant `getUAATokenWithCreds`), then, only when `store` is set,
  the same `RefreshSave` step. The user need not have a token row yet.
- `getUAAToken` gives the expiry of a newly issued token, `TTL` after now;
  its failures are the failing disjunct of each grant step.
  `saveAuthToken` writes through `setUAATokenRecord`.
- `logout`: `Logout` (unset `xsrf_token` and `clearSession`).
- `Tick`: `time.Now()` advances.

**Refinement.** `ConsoleSession` is shown to implement `SessionService`
(below) by `Service == INSTANCE SessionService WITH token <- tokenBar,
session <- sessionBar`. The mapping counts a half-done handler as done:

- a login that has written the session counts its token as stored
  (`tokenBar`);
- a verify that has saved the refreshed token counts the session as moved
  (`sessionBar`).

Every other step maps to itself or to a stutter.

### `SessionService` — what the Session Manager promises

An abstract specification with one atomic action per operation: `Login`
binds a session and stores the token together; `Refresh` renews the token of
an expired session and moves the session's expiry with it; `RefreshToken`
renews a token only; `StoreToken` (`RefreshUAALogin`) stores a fresh token
whether or not the user had one; `SetXsrf` sets a session's XSRF token once; `Logout`
empties a session. A new token expiry never moves backwards and lies at most
`TTL` ahead of the clock (`Fresh`).

### `LocalUsers` — local users

**State.** `users[id]`: the row of a local user (password hash, e-mail,
names) or none; `issued`: the GUIDs `AddLocalUser` returned; `req[r]`.

**Actions.**

- `AddLocalUser`: one step. A fresh GUID is stored with its row, or, when
  the repository cannot be opened, the GUID is returned and nothing is
  stored (localusers.go:54-58).
- `UpdateUserInfo`: `UIFindUser` (`FindUser`, which leaves the hash empty),
  `UIFindHash` (`FindPasswordHash`), `UIWrite` (`UpdateLocalUser` of the
  whole row).
- `UpdatePassword`: `PWFindUser`, `PWFindHash` with the old-password check,
  `PWWrite`.

`Hash(p)` models a bcrypt hash by what verification sees: it matches exactly
the password it was made from. `FindUserGUID` and `GetUserInfo` only read.

### `Startup` — main and `initConnPool`

`phase` is where `main` is; `left` is `timeout.Sub(time.Now())` inside
`initConnPool`; `lock` says whether the upgrade lock file exists. Each
initialisation step of `main` succeeds or ends the process (`log.Fatal`).

After `loadPortalConfig` (`LoadConfig`), `isConsoleUpgrading` sends `main`
to the upgrade server when the lock is present. `StartUpgradeServer` is
`start(..., true)`:

- either the server runs and `stopEchoWhenUpgraded` closes it once the lock
  is gone (`RemoveLock` is the other container finishing);
- or the server cannot start (`detectTLSCert` or `e.Start` fails), `start`
  returns and `main`, which ignores the result, goes on with the lock still
  present.

`LoadKeys` is `initializeHTTPClients`, `getEncryptionKey` and
`loadDatabaseConfig`. `Terminate` is the goroutine registered with
`signal.Notify`: from the proxy's creation on, a signal runs `cleanup` and
`os.Exit(1)` at any step. The loop sets `left` to the boundary at its top
(`LoopTop`), lets a ping take one of `PingTimes` seconds (`Ping`), and gives
up only when `left` is negative (`CheckBoundary`).

### `SSOFlow` — the SSO Coordinator

**State.**

- `inbox[b]`: the URLs browser `b` has been sent to.
- `sess[b]`: its console session user.
- `codes`: the codes the providers issued, each with its issuer, user,
  `redirect_uri` and whether it was used.
- `exch`: the exchanges the console made.
- `conn`: the endpoint connections.

A URL is a record holding what the handlers read from it (state, guid, code,
`redirect_uri`) and where it points. A state is the front end's URL,
abstracted to the host `url.Parse` finds in it.

**Actions.**

- `InitSSOLogin`, `SSOLogoutOfUAA` and `SSOConnectStart` model the
  `/auth/login/cnsi` first leg of `ssoLoginToCNSI`.
- `Callback` is the `sso_login_callback` route. It dispatches as
  `ssoLoginToUAA` does:
  1. `guid` set: go to `ssoLoginToCNSI`.
  2. `state = logout`: go to the login page.
  3. Otherwise: `doLoginToUAA`'s code exchange.
- `ConsoleLogout` ends a session.
- The providers (`ProviderAuthorize`, `ProviderLogout`) and links between
  browsers (`Forward`) are the environment.

### `JetstreamStrings` — string operators

This module translates:

- `ArrayContainsString`, recursively;
- `RemoveSpaces`;
- `strings.Split` on one character;
- `hasSSOOption`, whose option set SSOFlow uses;
- the admin decision `ScopeAdmin`:
  `strings.Contains(strings.Join(scopes, ""), adminScope)`.

Strings are sequences of one-character strings, because these operators are
about how characters are split, filtered and searched.

### `AdminScope` — the admin derivation

This module evaluates `ScopeAdmin` on every scope list over a small alphabet,
up to a bounded size.

### MC modules

Each `MC_*` module instantiates its module with model values and small
definitions for TLC.

## 3. Runs

| run | cfg | expect | what it shows |
|---|---|---|---|
| connect | `MC_EndpointConnect.cfg` | pass | See note 1. |
| connect_rollback | `MC_EndpointConnect_rollback.cfg` | violation | Rolling back a connect to the auto-registered cf endpoint leaves a disconnected placeholder, not "no TokenRecord" (spec §8). |
| connect_faults | `MC_EndpointConnect_faults.cfg` | violation | When the rollback's delete fails, the rejected token stays stored. The error is dropped at auth.go:430. |
| connect_own_rollback | `MC_EndpointConnect_ownrb.cfg` | violation | See note 7. |
| session | `MC_ConsoleSession.cfg` | pass | See note 2. |
| session_login_race | `MC_ConsoleSession_loginrace.cfg` | violation | See note 3. |
| session_xsrf_race | `MC_ConsoleSession_xsrfrace.cfg` | violation | See note 6. |
| sso | `MC_SSOFlow.cfg` | pass | See note 4. |
| sso_foreign_state | `MC_SSOFlow_foreign.cfg` | violation | A login started with a state URL on another host gives the UAA a `redirect_uri` on that host. |
| sso_login_csrf | `MC_SSOFlow_csrf.cfg` | violation | A callback URL from browser b2 opened in browser b1 logs b1 in as b2's user. The state is not bound to the browser. |
| localusers_lost_password | `MC_LocalUsers_lostpw.cfg` | violation | See note 5. |
| admin_scope | `MC_AdminScope.cfg` | violation | The scope list `["a","d"]` grants admin when the admin scope is `"ad"`. |

Notes on the longer rows:

1. **connect** checks `TypeOK`, `NoUnvalidatedTokenAtRest` and
   `SharedSlotOnlyAdmins` with two interleaved requests. Users are an admin
   and a user. Endpoints are an auto-registered cf endpoint on the console
   UAA, a k8s endpoint, and an endpoint with no plugin, plus an unregistered
   GUID. The run shows that no token that failed `Validate` stays at rest,
   and that only an admin's request changes a system-shared slot.
2. **session** checks `TypeOK`, `SessionNotBeyondToken` and
   `ImplementsSessionService`. Served one request at a time, the handlers
   implement the atomic `SessionService`. With two requests the refinement
   fails as the race runs do.
3. **session_login_race** uses two concurrent requests. TLC's trace:
   `RefreshUAALogin` with `store` set obtains a token for u1; the clock
   ticks; a login of u1 obtains a later token, writes its new session and
   stores the token; `RefreshUAALogin` then saves its older token over it
   (auth.go:646). The session's expiry is past the stored token. Spec §3
   says the session and its token are written atomically. Two concurrent
   logins of one user reach the same state in more steps.
4. **sso** checks `TypeOK` and `ExchangeMatchesIssue` with two browsers
   belonging to two users. Links between browsers and replayed callbacks are
   allowed. Every code the console exchanges goes to its issuer with the
   `redirect_uri` it was issued for. Dispatch and the rebuilt `redirect_uri`
   agree with the authorize leg.
5. **localusers_lost_password** uses two concurrent requests on one user.
   `UpdateUserInfo` reads the row and the hash, `UpdatePassword` then
   completes, and `UpdateUserInfo` writes the old hash back
   (local_user.go:84-96). The password change that answered success is
   undone.
6. **session_xsrf_race** uses two concurrent requests. An SSO login writes
   a new session with no XSRF token, because `ssoLoginToUAA` never calls
   `ensureXSRFToken` (auth.go:177). Two verifies of that session then both
   read no token, and both generate and store one (auth.go:951-964). The
   token the first response handed out is replaced. A password login
   cannot be raced this way: its session's cookie reaches the browser only
   after its own `ensureXSRFToken`.
7. **connect_own_rollback** checks `RollbackOnlyOwnToken`: the rollback of
   a connect whose token `Validate` rejects removes only that token. TLC
   finds a four-step counterexample. A user's connect to the
   auto-registered cf endpoint saves a token that `Validate` will reject;
   a concurrent `DoLoginToCNSIwithConsoleUAAtoken` stores the user's linked
   UAA token in the same slot; the rollback `ClearCNSIToken` then clears the
   slot by key and removes the linked token. This is a code bug at
   auth.go:430, which clears unconditionally.

`MC_Startup_dbdown.cfg` checks `StartupEnds` on `Startup` with a database
that never answers. TLC finds a loop `LoopTop`, `Ping`, `CheckBoundary`
that never ends: the boundary is recomputed each time round
(main.go:400), so `left` never drops below the boundary minus one ping.
This check is not yet among the runs listed in `PROJECT.json`.

`MC_Startup_upgrade.cfg` checks `NoDatabaseDuringUpgrade` on `Startup`: no
database phase is reached while the upgrade lock is present. TLC finds a
five-step counterexample. The lock is present, the upgrade server fails to
start, `start` returns, and `main` goes on to `LoadKeys` and
`GetConnection` (main.go:143-145 ignore `start`'s result). This check is
not among the recorded runs either, because the run budget is spent.

Each property of a passing run has a mutant in `PROJECT.json`. A mutant is a
plausible bug in a mapped definition, and TLC finds it violating the
property:

| Mutant | What it drops or changes |
|---|---|
| `ConnectCheckNoAdmin` | the admin check |
| `ConnectValidateClearCaller` | the rollback clears the caller's slot instead of the effective owner's |
| `EffectiveUserByName` | the sanitised name is used as the owner |
| `VerifySetSessionNowExpiry` | the session expiry is taken from the clock |
| `EnsureXSRFReadAlways` | the absence check, so an XSRF token is replaced (breaks the refinement) |
| `LogoutNil` | a nil session |
| `ExchangeRedirectURIDropGuid` | the guid is left out of the exchange's `redirect_uri` |
| `SSOLoginToCNSINoSession` | the session check |

### Bounds and why they are enough

- **EndpointConnect.**
  - Two requests is the smallest number with a race.
  - One admin and one user make the shared-slot check meaningful.
  - Three endpoints cover the three `ClearCNSIToken` and plugin-match cases.
  - `MaxTokens = 3` lets both requests connect and one reconnect.
  - A VIEW leaves the last result and user view out of the fingerprint:
    neither influences a later step. The action properties are checked on
    every step, also when it leads to a state TLC has already seen.
- **ConsoleSession.**
  - There are two users and two session slots. A login takes a slot no
    browser holds yet, so two logins fit. A third slot makes the
    refinement check run for longer than half an hour, and adds no kind of
    step.
  - `TTL = 2` and `MaxTime = 4`, so a token expires and is refreshed, and the
    clock still moves after a refresh.
  - There are two XSRF values. A new token differs from the one it replaces.
  - One request in the pass run; two in the race runs, each of which
    finds its trace within seconds.
- **SSOFlow.**
  - Two browsers and two users are needed for links between browsers.
  - There is one endpoint.
  - `MaxCodes = 3` covers a login, a connect, and a replay or a second login.
  - The pass run uses the console-host state. A foreign-host state only adds
    callbacks the console never receives. The foreign run uses both.
- **LocalUsers.** Two GUIDs, two passwords, two e-mails and two names; two
  requests, the fewest for a race. The violation appears after seven steps.
- **Startup.** The boundary is 600 seconds and a ping takes 1 or 30
  seconds, as with a responsive or a slow network.
- **AdminScope.** There are up to two scopes, each one or two characters over
  `{a, d}`.

### Fairness

The properties of the recorded runs are safety properties, so those specs
assume no fairness. Browser and user actions may stop at any time, as real
users do. Each handler is a straight sequence of steps, each of which can
always finish (every grant and save has its failure branch). A property
that every started request returns would therefore hold by the shape of
the model alone, and none is checked.

`Startup` assumes `WF_vars(Main)`, where `Main` is the steps of `main` and of
the upgrade poller. `main` is one goroutine that the runtime keeps
scheduling, and each of its steps is enabled only at its own phase. What the
database answers, when the lock file goes and whether a signal arrives are
free choices, and no fairness is assumed for them. `StartupEnds` fails under this fairness, so it is the code, not a
missing scheduling assumption, that keeps startup waiting.

## 4. Not modelled, and why

- **The grant requests** (`getUAAToken`'s HTTP request, Basic client
  auth and JSON decoding) are abstracted to the expiry of the issued token
  or a failure.
- **JWT decoding** (`GetUserTokenInfo`) is outside `src/`.
- **The Auth Provider Registry** is filled once by `newPortalProxy`. Every
  token record the code builds has `AuthType` OAuth2, for which no provider
  is registered, so `GetCNSIUserFromToken` always falls back to
  `GetCNSIUserFromOAuthToken`, which is what `EndpointConnect` models.
- **The `Admin` flag of a user view** and its cf-admin scope test are left
  out; the `Admin: true` fallback at auth.go:455 is listed as a hazard. The
  `Panic` result at 1065 is modelled; a run checking it is planned.
- **What `clearSession` does to a session a verify then writes to.**
  `verifySession` writes `user_id` and `exp`, read before its refresh,
  back after it (auth.go:918). After a concurrent logout, whether that
  write re-creates the cleared session depends on the SQL-backed session
  store outside `src/`. `ConsoleSession` takes spec §6's per-key contract,
  under which it would, so no run states it.
- **A property of the ConnectedUser view.** The view is modelled down to
  its GUID. A property that no view of a system-shared token shows its
  owner would restate the sanitiser (auth.go:514), since the flag and the
  sanitiser take the same input. The `Admin: true` of the `Unknown`
  fallback, which would be worth checking, is not modelled.
- **Session-store and database failures inside the session store**,
  **encryption at rest**, and the **periodic session cleanup** are treated as
  collaborator contracts.
- **Startup** beyond `Startup`'s steps: the migrator mode, the TLS
  certificate search, route registration and HTTP client selection are
  one-shot I/O. `cleanup` starts and stops a fresh session-cleanup
  goroutine instead of `main`'s (main.go:76). That goroutine lives in the
  session store, which is outside `src/`.
- **`ExecuteLoginHooks`** sorts the shared hook slice in place on every
  login (main.go:874). Concurrent first logins race on it. The in-place
  sort is finer than any model here, and this is listed as a hazard.
- **`AddLocalUser`'s lost write** is modelled (the GUID is returned and no
  row is stored), but no run states that an issued GUID names a stored user.
- **`log.Fatal` at auth.go:483** ends the process before anything is
  written.

## 5. Plan

Modules are built in order of risk:

1. Done: `EndpointConnect`, `ConsoleSession`, `SSOFlow`, `JetstreamStrings`,
   `AdminScope`, `SessionService` with its refinement, `LocalUsers` and
   `Startup`.
2. Done: `RollbackOnlyOwnToken`, the rollback race deleting another
   request's token (the run connect_own_rollback).
3. An abstract credential-store specification: per slot, an atomic
   connect/disconnect. `EndpointConnect` is shown to refine it for a single
   request per slot via `INSTANCE ... WITH`.
4. Done: the Token Acquirer's handshakes inside `EndpointConnect`, and
   `RefreshUAALogin` and the grant helpers inside `ConsoleSession`. Still
   open: a run that shows the HTTP basic connect panics.
5. Done: the ConnectedUser view with sanitising. Still open: a run that
   exhibits the `Panic` of auth.go:1065.
6. Done: local users. Still open: runs for `AddLocalUser`'s lost write,
   for `StartupEnds` and for the `Panic`.
7. Login-hook ordering.
8. Liveness of the session handlers was dropped: with every step able to
   finish, it holds by the model's shape.
9. Done: the upgrade-lock wait and the signal handler in `Startup`.
   `NoDatabaseDuringUpgrade` is shown violated by
   `MC_Startup_upgrade.cfg`, but is not yet a recorded run.
