# A TLA+ verification project for volq-auth

volq-auth is a licensing server: a Go backend (`src/backend`), a Next.js
dashboard (`src/frontend`), client SDKs (`src/sdks`) and a Node process runner
(`src/index.js`).  This directory models the parts of it whose correctness
depends on the order of events, checks the models with TLC on small instances
and proves their main properties with TLAPS for every value of the constants.

## 1. Inventory

| Component | State it keeps | Operations | Interacts with |
|---|---|---|---|
| Client authentication (`service/client_auth_service.go`) | none of its own; locals of each request | Init, AuthenticateLicense, AuthenticateUser, GetVariable | cache, repositories, audit log, webhooks |
| Session cache (`cache/cache.go`) | entries `session:`, `nonce:`, `ratelimit:` with an expiry; Redis, or a map under one lock | StoreSession, GetSession, SetNonce, IncrementRateLimit, the janitor | client authentication, rate limiter |
| Repositories (`repository/*`) | rows in PostgreSQL, or maps under one lock saved to `volq_data.json` after every write | one statement, or one locked section, per operation | everything |
| Dashboard handlers (`handler/dashboard_handler.go`) | none of their own | create, update, delete of applications, licenses, users, variables, files, resellers; key batches | repositories |
| Rate limiter (`middleware/rate_limiter.go`) | a counter per address and path in the cache | one increment per request | cache |
| Webhook service (`service/webhook_service.go`) | a channel of 1000 jobs, one worker | Dispatch, worker | client authentication, remote hooks |
| Process runner (`index.js`) | two child processes, a shutdown flag | start, health check, shutdown | backend, frontend |
| React SDK (`sdks/react`) | session id, token and device id per client object; the provider's state; the device id in `localStorage` | init, login, logout, variable, new client on new props | client endpoints, browser |
| Dashboard frontend (`frontend/src`) | session, applications and selection (`authContext.tsx`); list, filter, dialog and form per page; token and selection in `localStorage` | sign in and out, select, fetch, edit, submit, navigate | dashboard handlers, other tabs |
| Other SDKs (`sdks/go`, `python`, `csharp`, `cpp`, `rust`) | session id and token of one object | the same calls, one after the other | client endpoints |
| JWT middleware, crypto, config, database connection, deployment | none that changes | pure functions, I/O, configuration | |

What is hard in this code:

* **Read, decide, write with nothing held in between.**  A login reads the
  session, the application, the license and later writes the license and the
  cache, each access on its own.  The dashboard and other logins run in
  between, so the login judges a copy (`client_auth_service.go:205` to `:246`).
* **Chains of sessions.**  Every endpoint takes any live session id or token,
  and copies what it finds there into the new token.
* **Two stores that differ.**  `MemoryStore` answers an update of a missing row
  with an error, PostgreSQL with success; PostgreSQL deletes by cascade,
  `MemoryStore` does not.
* **Time limits at their boundary.**  Nonces live exactly twice the skew.
* **Several writes that belong together.**  Credits are deducted, keys drawn and
  rows inserted one after the other, with no way back.
* **Stops and failing saves.**  `MemoryStore` replaces its whole file after every
  write and drops the error.
* **Bounded queues and several processes** in the webhook service and the runner.
* **Closures that outlive their render.**  In the React SDK and the dashboard a
  handler goes on, after an `await`, with the client object, the application
  and the filters of the render that started it, while new ones are in use.
* **State shared by tabs, accounts and reloads.**  The token, the selected
  application and the device id sit in `localStorage`; each page load, each
  request and each tab reads them at its own moment.

`PROJECT.json` lists each hazard at its line with the properties that cover it.

## 2. Modules

| Module | Models | Checked and proved by |
|---|---|---|
| `LicenseRules` | `CalculateExpiration`, `ValidateHWID`, the expiry test: pure operators | through `ClientAuth` |
| `ClientAuth` | the client endpoints, the cache entries, the rows and the dashboard's edits | `MCClientAuth`, `ClientAuthProofs` |
| `NonceGuard` | the skew window and the life of a nonce, at the resolution of the window | `MCNonceGuard`, `NonceGuardProofs` |
| `RateLimiter` | the middleware and its counters, on both caches | `RateLimiter.cfg`, `CountingProofs` |
| `WebhookContract` | abstract: what the webhook service promises | |
| `WebhookService` | the channel and its worker; implements the contract | `WebhookService.cfg`, `WebhookServiceProofs` |
| `KeyBatches` | batches of keys, reseller credits, the unique index | `MCKeyBatches`, `CountingProofs` |
| `StorePersistence` | the file of `MemoryStore`, stops and failing saves | `StorePersistence.cfg`, `StorePersistenceProofs` |
| `Runner` | `index.js`: health check, children, shutdown | `Runner.cfg`, `RunnerProofs` |
| `ReactSession` | the React provider, its client objects, the fingerprint, the example | `ReactSession.cfg`, `ReactSessionProofs` |
| `ConsolePages` | what each page of the dashboard fetches, edits and submits: a table | through `Console` |
| `Console` | a tab of the dashboard with its session, its mounted page and its requests; the applications on the server; another tab | `MCConsole`, `ConsoleProofs` |

`Console` composes `ConsolePages` with the handlers of applications, and takes
up `UpdateApp` in more detail than `ClientAuth`, where only the flags that the
client endpoints read are kept.

### ClientAuth

Each element of `Requests` is a request being served.  `req[r]` holds its
program counter, the packet, the session id it named and the copies the handler
holds: the session, the application, the license.  One action is one access to
shared state together with all the computation that follows it up to the next
access:

| Action | Code |
|---|---|
| `Receive` | the handlers of `client_handler.go` |
| `ReadSession`, `ReadApp` | `GetSession`, `GetByID`, the pause, the decryption |
| `CheckNonce` | `validateNonceAndTimestamp` and the checks made on the packet alone |
| `StoreHandshake` | the rest of `Init` |
| `ReadLicense` | `GetByKey`, the status, expiry and device checks |
| `MarkExpired`, `Activate` | the two writes of a license row |
| `StoreLicenseToken`, `StoreUserToken` | the token and its cache entry |
| `ReadUser`, `UpdateLogin` | the user row of Mode B |
| `ReadVariable` | the lookup and the tier check of `GetVariable` |
| `UpdateLicenseStatus` ... `DeleteVariable` | one dashboard call each |
| `Tick`, `Restart` | the clock; the process stopping and starting |

`SqlStore` and `RedisCache` choose the engines, because they fail differently.
`req[r].stale` is a history variable: it records that the license row was
written after the request copied it, and no action reads it.  `lic[l].resumed`
is another: the dashboard has written "active" or "expired" on the license while
it had no expiry.  `AdminStatuses` are the statuses the dashboard writes: the
handler checks none of them, so the proofs allow any; each run takes two or three
that matter to it.

Abstracted: key material, signatures and messages (a packet carries at most one
`fault`, the first check it fails); audit records and webhook calls, which no
client endpoint reads back; a failing repository read, which every endpoint
answers like a missing row.  The unit of time is far longer than the 60 seconds
a nonce lives, so `Tick` empties `nonces`.  `hwid_list` is the empty set: no
statement of the program adds to it.  `UpdateApp` is one step here; the flags
it writes are arbitrary, so it covers what two overlapping calls can leave.

### NonceGuard and RateLimiter

`ClientAuth` uses a clock far coarser than the 60 seconds a nonce lives.
`NonceGuard` opens that step up: `CheckTimestamp` and `SetNonce` are the two
checks of `validateNonceAndTimestamp`, with `MaxDelay` between them.
`RateLimiter` is the other user of the same cache: `Limit` is one
`IncrementRateLimit` and the decision of the middleware, `FailOpen` a call to
Redis that errs with or without having counted.  In both, `cache` is the engine
`NewCache` found.  The engines differ at a boundary: the memory cache takes an
entry to be over at its expiry, Redis only after it; and the memory cache keeps
the expiry of a counter where Redis renews it on every request.

### WebhookService

`Dispatch` is the non-blocking `select`, `Take` and `Send` are the worker's
loop, `Stop` loses what the process held.  The refinement maps the contract's
`pending` to the job in hand followed by the channel: `Dispatch` is `Accept` or
`Drop`, `Send` is `Attempt`, `Stop` is `Lose`, and `Take` changes nothing the
contract sees.

### KeyBatches

Each element of `Requests` is one call of `GenerateLicenses`: `Order`,
`DeductCredits`, `DrawKey` until `Complete`, `BulkCreate`; `DrawFails` is the
error of `GenerateBatch`, answered 400 after the credits were taken.  `Refused`
is what the schema rejects: a `license_key` that is taken, and a `created_by`
that is no row of `developers` (no reseller is one, so on PostgreSQL every batch
of a reseller fails after it was paid).  `store` is the store `main` chose.
`duration_days` has no rule in the handler, so `Days` is any set of integers.
`Price` is what the handler bills for a key (nothing for no days, less for
fewer) and `Worth` what the key is good for: `CalculateExpiration` lets one
without a positive duration never expire, so it is worth a lifetime key.  Sizes are
validated (1 to 10000).  Not modelled: a number of days so large that its product
with the size overflows 64 bits.

### StorePersistence

`phase` is where the one writer is: serving, or in `saveToFile` before the file
is truncated (`open`) or before it is written (`write`).  The data are sets of
rows; a text cut short never parses.  `Accounts` are the two developers
`seedDefaultAdmin` can meet.

### Runner

One action is one callback.  Probes are counted by what can still happen to
them: `timers` (a `check` is scheduled), `probing` (no answer yet), `unread`
(answered; nobody reads the body, so the idle timeout is still armed).
`Settle` includes the rest of `start`, which runs before any other callback.
Children die outside the runner, which learns of it by `BackendExit` and
`FrontendExit`.

### ReactSession

`clients` are the client objects `useMemo` has made, the last one in use;
`ui` is the state of `VolqAuthProvider`; `calls[c]` is one asynchronous call and
what it awaits (`digest`, `handshake`, `login`, `variable`) with the client
object its closure holds.  One action is one task of the event loop:

| Action | Code |
|---|---|
| `Render`, `InitEffect` | `useMemo` and the effect (`volqAuth.tsx:19-63`) |
| `InitAgain`, `LoginWithLicense`, `LoginWithCredentials` | the provider's functions up to their first request (`Begin`, `Authenticate`) |
| `DigestSettles` | the Web Crypto hash of `getBrowserHWID` |
| `HandshakeSettles` | `VolqAuthClient.init`, for the provider's init and for a login |
| `AuthenticateSettles` | the answer of `authenticateLicense` and `authenticateUser` |
| `GetVariable`, `VariableSettles`, `Logout` | the same names |
| `HandleUnlock`, `LicenseProtection` | `examples/App.tsx` |
| `Reload`, `PrintChanges` | the browser |

A session id or token is named by the client object whose request it answered,
which is what the properties compare.  `env` fixes what does not change:
`autoInit`, whether `localStorage` and `crypto.subtle` work, and whether the
user of the hook is the example or any component.  `sent` and `overlapped` are
history variables.  Left out: subscription and error text, which are set with
the token and at the end of a call; the server, which may accept or refuse
anything; React's double effects in development.

### ConsolePages and Console

Nine of the eleven pages are variations of one design, so `ConsolePages` holds
them as records: a form with its required fields, what a success clears and
whether its dialog closes; a page with its forms, its list requests, what its
effect depends on, its loading flag and its row operations.  `Console` gives the
records their meaning:

| Action | Code |
|---|---|
| `Load` (in `Unload`, `Reload`) | the effect of `AuthProvider` |
| `AppsAnswered` | `refreshApps` |
| `SubmitLogin`, `LoginAnswered`, `Logout` | the login page, `login`, `logout` |
| `Select`, `SetFilter`, `SetSearch`, `RefreshLogs` | what changes or repeats a list's question |
| `Commit` | a render: the page's effect runs when something it depends on changed |
| `ListAnswered`, `Fail` | a list's answer; a failure, with the 401 interceptor |
| `EditRow`, `RowAnswered` | the row operations, which then fetch the list again |
| `OpenDialog`, `Fill`, `Submit`, `FormAnswered`, `CloseDialog`, `Done` | dialogs and forms |
| `TogglePauseApp`, `DeleteApp`, `AppAnswered` | the applications page and the webhook form |
| `ReadRow`, then `UpdateApp` in `Serve` | `UpdateApp` of `dashboard_handler.go`: the row is read at `:292`, all its columns are written at `:333` |
| `Serve` | the rest of `dashboard_handler.go`: `CreateApp`, `DeleteApp`, `ListApps` |
| `Navigate`, `Redirect`, `Unload`, `OtherTab` | links, the router, page loads, another tab |

A request carries what its handler captured: `of` is the selection, filter and
search of its render, `as` the token `localStorage` held when it was sent, `by`
whether the page that sent it is still mounted.  A row operation's effect on the
server is left out (no list shows more than the question it answers), those on
applications are kept, since `refreshApps` reads them back.  Between `ReadRow` and
`UpdateApp` other calls run: a webhook saved meanwhile writes back the pause flag it
read, and a row deleted meanwhile stays gone, with the success PostgreSQL answers or
the error of `MemoryStore`.  `view.stale` and `crossed` are history: they mark the
cases the code does not guard, so that the invariants say exactly what it does
guarantee.  Accounts are developers: a reseller, whose list is the one application
he sells for, is not distinguished.

## 3. Runs

| Run | Expect | Asks |
|---|---|---|
| `race` | pass | two logins for one license against two dashboard edits, in-memory engines; the expiry of a timed license |
| `tokens` | pass | chains of sessions over two applications, all refusals, PostgreSQL and Redis: cascades, silent updates, failing cache writes |
| `lock` | violation | "Pause, ban, or unban": is a ban lifted only by the dashboard? |
| `nonce` | pass | resent and shifted packets, delays, failing calls, restarts, both caches |
| `rate` | pass | what each cache bounds in every window, and whom it refuses |
| `webhook` | pass | does the service implement its contract, fairness included? |
| `batches` | pass | two batches against top-ups, deletions, failures and restarts, both stores |
| `store` | pass | stops and failing saves at every instant |
| `runner` | pass | every order of answers, timeouts, exits and signals |
| `react` | pass | overlapping calls, new client objects, reloads, failures, another fingerprint |
| `console` | pass | every page against late and lost answers, expired tokens, another tab, two accounts |
| `console_pause` | violation | "Update version, integrity hash, or pause state": does a call change only what it names? |

Bounds.  `ClientAuth`: `MaxSessions` (session ids and tokens), `MaxTime`,
`MaxEdits` (dashboard calls), and the packets of `MCClientAuth`.  Two requests
are what every race here needs (one reader, one writer; the dashboard is the
third party), three sessions are a handshake and two logins, and two instants
are enough for a license of one unit to expire.  `NonceGuard`: a skew of 2 has
an inside, an edge and an outside; `MaxTime` covers two lives of a nonce.
`RateLimiter`: the limit and the window are 2, `MaxTime` two windows, `MaxHits`
one request more per instant than the limit.  `WebhookService`: twice the
capacity in events.  `KeyBatches`: two batches that can collide in a key, one
mask too small for a batch of two, durations of one day and of minus
one day, which never expires, as zero days never do, and earns credits besides, and
a lifetime key at two credits for 365.  `Runner`: four attempts; the proof covers
every number.  `StorePersistence` and `WebhookService` bound nothing else.
`ReactSession`: two calls at a time (the first loser and winner of every
overlap), two client objects (the replaced and the replacing one) and two
fingerprints; the life of the page is not bounded.  `Console`: `MaxClicks` = 3
things the user does in either tab and `MaxCalls` = 2 requests in flight when he
does the next; three steps are enough to sign in, select and submit, or to
select, edit and select again from any page, since a tab starts on any page and
with any contents of `localStorage`.  With `MaxClicks` = 4 the invariants hold as
well (2.6 million states, longer than the run is given).
`CHECK_DEADLOCK FALSE` stands where the bounded clock ends (`RateLimiter`), where
the modelled process ends (`Runner`), and where nothing is in progress and no
further click or client object is left (`Console`, `ReactSession`).

Fairness.  The webhook worker is a goroutine that blocks only on its channel and
whose client times out (`WF` of `Take` and `Send`).  The event loop of the runner
runs every callback whose timer, socket or exit event is there (`WF` of each);
signals and deaths of children are not fair.  A handler of `KeyBatches` runs on, and
a uniform generator eventually produces a key not yet drawn (`WF` of `Serve`); that
a draw fails is never required.  A browser ends every `fetch` and digest and runs
pending effects (`ReactSession`: `WF` of each call's `Settles` and of the effect);
the network answers or fails the oldest request and the browser follows redirects
(`Console`).  What users do is never fair.  The client endpoints have no liveness
property: a request only waits for calls that return, so nothing but the Go
scheduler would be checked.

What the violations show.  `lock`: `Activate` writes "active" over whatever the
row holds, so a ban set between the lookup and the activation is undone.
`console_pause`: `UpdateApp` assigns the download address, the integrity hash and
the webhook whether the request names them or not, and the console's calls name
one setting each; pausing an application erases the others.

Further disagreements met while modelling, visible in the definitions named:

* Only an "unactivated" license gets an expiry (`NewExpiry`).  The console's Resume
  and Unban buttons write "active" (`licenses/page.tsx:267` and `:284`), also on a
  license paused or banned before its first use; the first login then binds it
  with no expiry, and no later one computes it, though `docs/ARCHITECTURE.md:44`
  says "First-time license key activation and rolling expiry computation".
  `TimedLicenseExpires` holds with exactly these licenses exempted (`resumed`);
  without the exemption TLC finds the violation in a few steps.
* A batch of zero days, not marked as lifetime, costs nothing, and its keys never
  expire; a negative number of days makes the cost negative, and `DeductCredits`
  adds it to the balance (`Price`, `NeverExpires`), though
  `migrations/001_initial_schema.sql:119` says "1 credit = 1 day duration".
  `batches` orders the second kind, the proofs any integers.  `KeysArePaid` exempts
  a reseller with such an order (`OrdersDays`), and is violated without the
  exemption; `OnlyFailuresForfeit` exempts nobody.

Also: Redis renews the expiry of
a counter with every request, so the counter of a client that never pauses for a
whole window only grows (`Incremented`), though `rate_limiter.go:28` speaks of a
maximum per window;
a second device evicts the first because nothing appends to `hwid_list`
(`Activate`); at the last instant of a nonce's life the memory cache admits it
again (`Recorded`, hence the `<=` of `CheckedBeforeLapse`); the memory cache's
window is fixed, so two limits fit in one (`BoundPerWindow`), though
`rate_limiter.go:12` says "sliding-window"; credits paid for a batch that fails
are gone (`OnlyFailuresForfeit` counts them on the in-memory store, where only the
draw can fail; on PostgreSQL the insertion fails too); two batches may draw the same
key, which PostgreSQL refuses and `MemoryStore` accepts (`Refused`); a webhook saved
while an application is being paused lifts the pause (`ReadRow`, `UpdateApp`);
a mask with too few keys keeps a request running for ever (`Enough`); a frontend started after a
shutdown began is told nothing (`launchedLate`), though `index.js:260` says "All
services stopped".

In the React SDK: a login answered after `logout` signs in again
(`AuthenticateSettles`), though the SDK's README says of `logout` "Clear local
session and credentials"; the first of two overlapping calls to end clears
`isLoading` for both (`Return`), where the README says "True during handshakes or
network verification calls"; new props leave `isAuthenticated` set over a client
object without a token (`Render`); a session id the server has dropped is never
replaced (`Authenticate`); the example keeps the secret it fetched after its
logout.

In the dashboard: the list fetched after an edit asks with the selection of the
edit's render, and lists are displayed in the order of their answers (both marked
`stale`); a sign-in over a live session keeps the other account's application
selected, as does `refreshApps` when the stored application is gone, though the
comment at `authContext.tsx:44` says "Restore previously selected app or default
to first" (marked `crossed`, and `AppsAnswered`); a late 401 removes a newer
token, another tab's included (`Fail`); the delayed close after "Copy Secret &
Close" may close a dialog opened meanwhile (`CloseDialog`); the CSV export opens a
URL without the `Authorization` header its endpoint needs
(`licenses/page.tsx:92-95`); `TopNav` takes `onOpenLicenseModal` and never calls it.

## 4. Proofs

The theorems hold for every value of the constants that satisfies the named
assumptions of the modules, and state every type invariant, every safety
invariant and every action property the runs check.  Each follows from an
inductive invariant `Inv` with `Init => Inv` and `Inv /\ [Next]_vars => Inv'`; an
action property from what a step does in a state of `Inv`.

| Module | Theorems |
|---|---|
| `ClientAuthProofs` | `TypeCorrect`, `SessionsAreBacked`, `VariablesAreGated`, `CopiesAreFresh`, `LocksHold`, `DevicesHold`, `ExpiriesHold`, `DeletionIsFinal`, `TimedLicensesExpire` |
| `NonceGuardProofs` | `NonceOncePerLife`, `ChecksCoverEachOther` |
| `WebhookServiceProofs` | `ImplementsContract` |
| `CountingProofs` (key batches) | `TypeCorrect`, `KeysPaid`, `OnlyFailuresCost` |
| `CountingProofs` (rate limiter) | `LimiterSafe`, `AtMostTwoLimits`, `MemoryRefusesOnlyOverLimit`, `EitherRefusesOnlyWhenBusy` |
| `StorePersistenceProofs` | `FileStaysCurrent`, `AdminAlwaysServes`, `LoadsAllOrNothing` |
| `RunnerProofs` | `ProbesAreBounded`, `ChildrenAreTold` |
| `ReactSessionProofs` | `SessionTyped`, `GrantsReach`, `ProviderFollows`, `ExampleStaysQuiet`, `IdentityIsOne` |
| `ConsoleProofs` | `ConsoleSafe`, `TypeCorrect`, `TabOfOneAccount`, `OrdersOneByOne`, `ShownFollows` |

Two assumptions are there for the proofs.  `KeyBatches!FinitelyMany`: a server has
served finitely many requests, so that their costs have a sum.
`Console!NoneType`: the value that stands for "none" is not a page.

* `ClientAuthProofs`, invariant `Inductive`.  `SessionsBacked` is not inductive
  by itself: a token is built from the request's copy of the session, from the
  key in the packet and from what the lookup established about that key several
  steps earlier.  `Resolved` records the latter (past the lookup the key is a
  license, or a user, of the session's application), and `Backed` is required
  of the copies held by requests as well as of the entries in the cache.
* `RaceInv`, in the same module, adds that a copy no write has
  touched since it was taken equals the row, which only a step of that license
  or of that request can disturb; every action property about logins then
  follows from what the lookup checked on the copy.  `TimedInv` adds, for a license
  sold for a limited time, that an expiry stands wherever a login may find the row
  usable and that a request about to write the row brings one.  `TimedLicensesExpire`
  assumes nothing of the statuses the dashboard writes.  What it writes on a license
  is recorded in `resumed`, and the invariant exempts exactly the licenses on which
  it wrote "active" or "expired" while they had no expiry, the case of section 3.
* `NonceGuardProofs`, invariant `GuardInv`: an admitted packet was in its window
  when it was admitted, and its nonce is recorded for the rest of its life.
* `WebhookServiceProofs` proves the safety part of the refinement: initial
  states map to initial states, steps to steps or stutters.
* `CountingProofs` begins with lemmas on `SumFunctionOnSet`, which sums a function
  over a finite set by a recursion on an arbitrary choice of elements.
  `SubsetInduction` turns the well-foundedness of strict inclusion into induction
  over subsets; from it follow that any element may be taken out first
  (`SumRemove`) and how a sum changes with one entry (`SumUpdate`), with all of them
  (`SumMonotone`) and with the set (`SumPart`).
* Key batches, invariant `BatchInv`.  Neither property is inductive: credits are
  taken in one step and keys inserted in a later one.  `Charged` counts each
  request at what it has been charged and not had back, and `Covered` says that the
  sum is at most what the reseller was granted and no longer holds; keys are worth
  at most their request's share.  It is conditional on `OrdersDays`, as `KeysArePaid`
  is: with a negative cost the sum can exceed what was spent.  `Exact` is the equality
  on the in-memory store, for any integer prices, while no request was lost to a
  restart; it counts a request whose draw failed at its whole price, which is why
  `OnlyFailuresForfeit` names those and nothing else.
* The rate limiter, invariant `LimiterInv`.  The counter of a key does not say what
  came before it, so the invariant relates counter and logs over two windows.
  For the memory cache (`MemoryOK`): what was admitted since the counter began is
  at most its count and the limit, what was admitted in the window before that as
  well is at most the limit and the count, and at most two limits; the count is at
  most what arrived since.  For Redis (`RedisOK`): the count covers what was
  admitted in the window that ends now, and is covered by the requests since some
  instant with no quiet window after it.  `RateLimiter` calls its specification
  `RateSpec` so that one module can extend it and `KeyBatches`.
* `RunnerProofs`, invariant `Budget`: before attempts are exhausted,
  `timers + 2 * probing + unread <= attempts + 1`, because an unanswered probe
  is worth two retries and an idle answer one; afterwards
  `attempts + timers < 2 * MaxAttempts`.
* `StorePersistenceProofs`, invariant `FileOK`: what a whole file holds in each
  phase, unless the last save failed.
* `ReactSessionProofs`, invariant `SessionInv`, has four parts: `Typed`, the type
  invariant with, for each call, the client object it belongs to; `Grants`, that
  ids and tokens sit in the object they are named after; `Provider`, that what the
  provider shows is what the objects hold; and `Quiet`, that under the example a
  login runs only while `isLoading` is set and nobody is signed in, which is what
  makes the disabled button a lock.  `Quiet` is needed because the flag is cleared
  by every call that ends: it is a lock only because the example never lets two
  run, and that has to be part of the induction.  `OneIdentity` needs `Single`: unless
  computations of different fingerprints overlapped, whatever is in progress
  computes the stored fingerprint, or the one that will be stored.
* `ConsoleProofs`, invariant `ConsoleInv`, has a part for each property.
  `OrdersOK` is `OneOrder` and, for the induction, that an order in progress belongs
  to a form of the page or is the list of applications that follows one: otherwise the
  answer could open a dialog or show a key the page does not have.  `ShownOK` is
  `ShownIsSelected`.  `AccountOK` adds to `OneAccount` where applications come from:
  the token in `localStorage`, the tokens sent with the lists still in flight, and
  the answers that wait to be read, which hold the applications of the account
  that asked.  `Console!Gone`, which removes requests when a page is left, is
  written as the sequence of those that are kept in their order; that it keeps each
  of them once (`GoneFacts`) is proved by induction on their number.

Model-checked only: all liveness (`EveryEventEnds`, `BatchEnds`,
`DeathEndsService`, `StartSettles`, `LoadingEnds`, `SessionSettles`, the fairness
of `KeepsContract`), which is out of the prover's reach, and the two expected
violations.  The prover has no induction rule that takes an operator; induction over
subsets and over natural numbers is done instead by choosing a least
counterexample.

## 5. Not modelled

* JWT verification, cryptography and configuration: pure functions of their
  input.  `ClientAuth` keeps whether decryption and passwords succeed, `Console`
  whether a token is accepted.
* The SDKs in Go, Python, C#, C++ and Rust: the same protocol, one call after the
  other on one object; what can go wrong between them and the server is in
  `ClientAuth`.
* Files, subscriptions and the audit log as rows: written and listed, read back by
  no decision.  Registration and sign-in of developers: one row each.
* In the dashboard, layout, statistics, clipboard buttons, reveal toggles, the
  code samples of the documentation page and the address normalisation of
  `api.ts`, the proxy and the health route.
* Deployment files, the connection pool and the migration runner.

What would come next: the repositories' SQL and in-memory versions as two
implementations of one abstract store, with the refinement proved for each.
