# Verification of the WebAuthn / FIDO2 identity gateway

TLA+ models of the gateway in `src/gateway`, the TLC runs that check them on
small instances and TLAPS proofs of what matters most for every instance.
Paths below are relative to the repository (`src/`).

The gateway is one FastAPI process on one asyncio event loop. A request handler
runs without interruption from one `await` to the next, so **an action of a model
is the code between two awaits**, and everything else may happen between two
actions of one handler. What lies outside the process (Redis, the database, the
browser with its authenticator, the network) is modelled by what the gateway can
observe of it.

## 1. Inventory

### Components, their state and their operations

| Component | State | Operations | Model |
|---|---|---|---|
| Challenge store, `gateway/storage/challenge_store.py` | `_memory_store`, keys `webauthn:challenge:*` in Redis with their TTL, `_redis_available` | `save_challenge`, `consume_challenge`, `initialize` | `ChallengeStore`, implementing `OneTimeNonce` |
| Login ceremony, `login_options` and `login_verify` in `gateway/main.py`, `gateway/crypto/authentication.py` | `credentials.sign_count`; challenges through the store | issue a challenge; look up, consume, verify, update the counter, create a session | `LoginCeremony` |
| Session tokens, `gateway/crypto/tokens.py`, `gateway/crypto/token_revocation.py`, `get_current_session`, `logout` and the step-up check in `gateway/main.py` | the token itself (in the cookie); `_memory_blocklist` and `webauthn:revoked:*` in Redis | create, verify, revoke, is revoked, step-up | `SessionGate`, implementing `SessionContract` |
| Reverse proxy, `gateway/middleware/auth_proxy.py`, and the service behind it, `upstream_service/app.py` | none; a request under way | token check, wait for the body, one attempt of at most 30 s of silence, the answer or a 502 | the check in `SessionGate`, the relaying in `UpstreamRelay` |
| Registration, accounts, passkeys: `gateway/main.py`, `gateway/crypto/registration.py`, `gateway/storage/database.py` | tables `users` and `credentials` | options, verify, rename, revoke; list and profile only read | `Enrolment` |
| Rate limiter, `gateway/middleware/rate_limit.py` | `_history`: address to recent admissions | `is_allowed` | `RateLimiter` |
| Telemetry, `gateway/middleware/telemetry.py`, and the audit log, `gateway/crypto/audit_logger.py` | counters, last 100 durations per route; the log's records | record, render, emit | `Telemetry`, composed in `RequestPipeline` |
| Readiness probe, `health_readiness` in `gateway/main.py` | one challenge under a fixed key | ask the database, save and consume the challenge | `ReadinessProbe`, composed in `RequestPipeline` |
| The middleware and the routes, `gateway/main.py` | the requests under way | rate limit around telemetry around proxy around routes | `RequestPipeline` |
| Demo page, `gateway/static/index.html` | which panel is shown, the countdown and its interval, the cookie | login, logout, refresh, transfer with step-up and retry, reload | `DemoPage`; of `webauthn_client.js` only what the ceremonies need |
| Portal simulator, `portal/app.js` | an imitation of the gateway in the browser | the same ceremonies, simulated | not modelled |
| Schema migration, `init_db` in `gateway/storage/database.py` | the schema | create and alter at start-up, errors swallowed | `SchemaMigration` |
| AAGUID table, configuration | none | a constant table, constants | not modelled: no state. The configuration's values are the CONSTANTS |

### How they interact

* Both ceremonies draw a challenge, `save_challenge` it, and later
  `consume_challenge` it. They rely on exactly one promise: *a challenge that was
  consumed or has gone never comes back*. This promise is `OneTimeNonce`; the
  ceremonies are modelled over it and `ChallengeStore` is shown to implement it.
* `login_verify` reads and writes the `credentials` rows that `Enrolment`'s
  operations insert and delete. `LoginCeremony` has the deletion of a passkey
  beside a login; `Enrolment` has everything that changes the rows but the counter.
* A successful login creates the token that `SessionGate` starts from. The token
  is not stored anywhere: revocation and expiry are all that ends it.
* The demo page drives login, logout, profile and transfer; it knows the session only
  through what these answer.
* The rate limiter stands in front of the ceremonies' POSTs and shares no state
  with them. It is outside `TelemetryMiddleware`, so its 429s are not counted.
* `TelemetryMiddleware` counts what comes back through it; the handlers count the
  ceremonies' outcomes and write the audit records themselves, at other moments of
  the same request. `RequestPipeline` puts the two kinds of counting side by side.
* The readiness probe uses the ceremonies' challenge store, under one key for all
  probes, and the relay holds a request while the upstream service has it.
* Every gateway process runs `init_db` before it serves; in a rolling deployment
  several do so on one file.

### What is hard here

* **Awaits.** Every database statement and every Redis call is an await. State
  read before one is used after it: the stored counter (`main.py:436`), the
  SELECT before an INSERT (`database.py:104`), the Redis miss before the memory
  lookup (`token_revocation.py:24`).
* **Two stores.** Challenges and revocations live in Redis *and* in memory, joined
  by `except Exception`. A failed call may or may not have taken effect.
* **The network** may deliver an assertion or attestation twice, late or never.
* **Restarts** lose the memory and the running handlers, not Redis, not the
  database, and not a request that the upstream service already has. SQLite keeps
  every statement of `init_db` that was done.
* **Waits** for Redis have no timeout once the connection is open; those for the
  upstream service end after 30 s of silence.
* **Clocks.** TTLs in seconds against a clock in fractions, truncations in the
  token, in the step-up age and in `Retry-After`.

### What makes each component correct

* Challenge store: each challenge is consumed at most once and never after its
  TTL, in spite of concurrent calls, failures and restarts; a lost reply of Redis
  is the one thing that breaks the first of these.
* Login: one session per challenge, and only for a genuine assertion; no clone alarm
  of an assertion against itself; the stored counter is genuine; ADR-001's rules: no count accepted
  twice, the counter never decreases.
* Sessions: a logged-out session is accepted nowhere; the step-up limit means
  what it says; one session's logout leaves the others alone.
* Enrolment: a row belongs to the user whose registration asked for it, and a
  ceremony whose row was revoked brings none back.
* Rate limiter: the bound in every window; refusals are earned and end.
* Requests: every one is answered and accounted for once, whatever fails in it; a
  relayed one is carried out at most once; a probe complains only of what happened.
* Schema: a start-up without a fault makes it whole, and every process comes to serve.
* Demo page: one click never makes two transfers; what it shows of a session is true.

`PROJECT.json` lists under "hazards" each place where these can go wrong, with
the properties that watch it.

## 2. Modules

| Module | What it is |
|---|---|
| `OneTimeNonce` | abstract: `Issue`, `Spend`, `Forget` |
| `ChallengeStore` | the store split at its awaits; refinement mapping `Live` to `OneTimeNonce` |
| `LoginCeremony` | login over `OneTimeNonce` (instance `Nonces`), the counter, passkey deletion |
| `Enrolment` | registration, rename, revocation over `OneTimeNonce` |
| `SessionContract` | abstract: a session is none, fresh, stale or ended; requests are authorised, served or refused |
| `SessionGate` | tokens, logout, requests, step-up; refinement mapping `Status`, `AnswerOf` to `SessionContract` |
| `RateLimiter` | the sliding window |
| `Telemetry`, `UpstreamRelay`, `ReadinessProbe` | the collector with the audit log; the relaying and the service behind; the probe |
| `RequestPipeline` | the middleware and routes, composing the three (instances `Metrics`, `Relay`, `Probe`) |
| `SchemaMigration` | `init_db` by several processes |
| `DemoPage` | one browser tab, its overlapping flows and its countdown |
| `ChallengeStoreProofs`, `LoginCeremonyProofs`, `EnrolmentProofs`, `RateLimiterProofs`, `SchemaMigrationProofs`, `SessionGateProofs`, `RequestPipelineProofs`, `DemoPageProofs` | inductive invariants, theorems, proofs |
| `MC*` | what TLC needs: symmetry sets, constants that are functions |

An operator called `Mut...` is a faulty variant of the definition after it, such
as a plausible slip in the code would produce. No specification uses one. They
are there to show that a property notices the fault: `PROJECT.json` "mutants"
pairs each property with a variant that violates it.

### ChallengeStore

`pc[c]` is where call `c` waits: `"setex"`/`"getdel"` after the command was sent,
`"setex_done"`/`"getdel_done"` after Redis applied it and before the reply. From
either a failure resumes the call in its `except` branch, which falls through to
memory (`SetexFails`, `GetDelFails`). After `SetexFails` from `"setex_done"` (Redis
applied the command, the reply was lost) the challenge is in both stores, and
`doubled`, which is history, remembers it: `SingleUseUnlessDoubled` allows such a
challenge two uses, the refinement mapping makes it a forgotten nonce, and
`StrictTTL` holds for it as for the others. The MULTI/EXEC pipeline of `consume_challenge` is one step
of Redis (`GetDelApplied`). `expires` is the `expires_at` computed before Redis is
tried. `redis` holds deadlines; Redis drops a key *at* its deadline, the memory
store one tick after it, as `<` in the code has it. `issued`, `returned` and
`uses` are history for the properties and for the client: a key is drawn at random
and saved once, and only a key that was returned can be presented.

### LoginCeremony

`Lookup` is `get_credential_by_id` (404 changes nothing and is left out);
`RefuseChallenge`/`Verify` are `consume_challenge` and, in the same step,
`verify_authentication` with its outcomes 400, 403 with the alarm, and success;
`UpdateSelect`/`UpdateCommit` are `update_credential_sign_count`;
`IssueSession` is the rest. `StatementFails` is any statement after the challenge was
spent that raises: this SELECT and COMMIT, the lookup of the user
(`get_user_by_id`), the DELETE of a passkey. `fresh` is what the UPDATE's own SELECT saw: the ORM
does not write a column whose value it believes unchanged, so a commit may write
nothing. A device has its own counter per credential: two devices are two copies
of one key (cloned, or synced). `form` says which check of the library an
assertion would fail; a bad client data hash fails before the counter check, a
bad signature after it, as in the library the code calls. `SignAndPost` is what an
authenticator signed; `Forge` is an assertion nobody signed, which may state any count,
also for a passkey that keeps none. So an invalid signature that states a low count is
answered by the clone alarm and 403: the README's flowchart (`README.md:124`) asks
"Signature Valid?" before "Check Signature Counter", and
`tests/test_counter_replay.py:92` expects an invalid signature to raise the standard
exception. `AlarmHasCause` therefore says that a count at least as high was shown
before, by another accepted assertion or the registration, and not that the alarm's
assertion was genuine. `raced` remembers the
credentials of which two logins were ever in progress at once; it is history and
guards nothing.

### SessionGate

A session *is* its token; two sessions are the same token when credential and
second agree (`SameToken`), because a token has no identifier and its times are
whole seconds. One second is `TPS` ticks. `LogoutBegin` writes the memory
blocklist and sends the SETEX, `LogoutApplied`/`LogoutAnswered` are Redis and the
answer. A request sends the GET, Redis applies it, and on the reply `Judge` is
everything up to the response: memory blocklist, token, step-up.

`SessionContract` is what a client may rely on: a login begins a session fresh,
it only ever grows stale and ends, and the answers follow. `KeepsContract` maps a
session to `ended` as soon as its token has expired or its logout was *answered*;
between the start of a logout and its answer the contract still allows, and the
code already refuses, its requests. The contract holds while `RevokeTTL` is at
least `SessionTTL`, as with the default settings: `revoke` keeps an entry for a
fixed 3600 s (`token_revocation.py:18`), so that with
`SESSION_EXPIRATION_MINUTES` above 60 a logged-out token is accepted again after
an hour, although the class speaks of revocation "until expiration". Two logins
with one passkey in one second get one and the same token, and the logout of one
reaches the other: `LogoutReachesItsTokenOnly` says that this is the only case.

### Enrolment

The user's row stands for its unique username. `SelectUser`/`InsertUser` are
`get_or_create_user` with the window between them, `MakeOptions`/`SaveChallenge`
the rest of the options; `Verify`/`InsertCredential` are `registration_verify`;
`SelectCredential` followed by `RenameCommit`/`DeleteCommit` the passkey
management. `Attest` may present any id, one that was registered or revoked before
included: the gateway asks for no attestation of the authenticator
(`registration.py:68`), so the client chooses id and key. While the row is there the
primary key refuses a second one (`Fail`); after a revocation a fresh ceremony brings
the id back, and a rename or a deletion that had found the old row reaches the new
one. `through` (the ceremony behind a row) and `revoked` (the ceremonies whose row was
revoked) are history: `RevocationIsFinal` says that a revoked registration is never
repeated by anything but a ceremony of its own. `Fail` is any statement that raises; `AnswerConflict` is the second of
two first registrations of one username, whose INSERT violates the unique column:
the request ends in a 500, though `get_or_create_user` is to "retrieve user by
username or create a new one" (`database.py:99`).

### RateLimiter

`is_allowed` has no await: `Admit` and `Refuse` are whole requests. `history` is
what the code remembers, `admitted` what really happened; both hold ages, so that
the clock needs no bound. `AddressOf` tells which clients share an address:
`request.client.host` is the proxy's for every client behind one, and the compose
file has one. `promise` is what is left of the longest wait an address was told.
Two requests at one reading of the clock differ in their slot.

### RequestPipeline, Telemetry, UpstreamRelay, ReadinessProbe

`pc[r]` is where request `r` waits: `"store"` for the database's or the store's
first answer, `"row"` for the commit, `"user"` for a login's last lookup,
`"session"` for the revocation lookup, `"relay"` and `"probe"` inside the composed
modules, and `"answered"` for a response on its way out. Both middlewares that see a
route's response are `BaseHTTPMiddleware`s: `call_next` runs what is inside as a task of
its own and hands the response over, so a scrape may run after a route raised its
counters (`Respond`) and before `TelemetryMiddleware` counts the response
(`CountResponse`). `CountersAgree` therefore relates the ceremony counters to the
responses *made*, counted or pending; after the last pending one they agree exactly.
`RespondUnseen` is a response that this
middleware does not see (429) or filters (`/static`), or an exception that passes
it and becomes a 500 outside. Routes are classes of paths; a 400 stands for every
refusal of what a request says. `RecordHttp` keeps the number of samples, not the
durations. `Renderable` is whether `generate_prometheus_metrics` returns: it unpacks
every key into three parts. A sum over counters is the number of the recordings they
stand for (`Total`, the size of a set of tallies), so that it can be reasoned about
without recursion.

`UpstreamRelay` separates what the gateway waits for (`relay`) from where the
request is (`upstream`): after `GiveUp` or a restart the request is still on its way and
may be carried out. A client that goes away before its body is complete,
and a username that cannot be an HTTP header, raise (`Abort`); only
`httpx.RequestError` is a 502.

`ReadinessProbe` holds the one key in Redis (`redis`) and in memory, and per probe
what has come between its save and its consumption (`disturbed`, history). As in
the code the verdict on the cache does not enter the status: a probe answers 200
with `failed_consumption`, and `ok` when Redis is down and memory stepped in, though
README.md:371 speaks of verifying "Redis challenge cache read/write".

### SchemaMigration

Each action is one statement of `init_db`. SQLite through `sqlite3`'s default
transaction control commits every DDL statement by itself: `engine.begin()` opens
no transaction for it. `create_all` looks for all tables first (`Inspect`), and
makes an index only with its table; so a crash between the two
(`Fault` at `"index"`) loses the index for good, for `users` the one behind
`unique=True` of the username (`database.py:44`), and `cut` remembers it. A column
that another process added meanwhile raises, and the `except` skips the columns
still to come (`ColumnExists`): the other process adds them, unless it fails too.

### DemoPage

A click starts a flow; `step[f]` is the request it waits for and `answered[f]` says
that the answer is under way, so a flow takes three steps per request: `Send` (in the
action before), `Answer` at the gateway, and the `...Returns` action that is the
JavaScript up to the next request. `confirm()` holds up the whole page, so the dialog is
part of `TransferReturns`. `timerGone` stands for the lost element `#stepUpTimer`.
`intervals` holds every running interval, although the code means there to be at most one: a forgotten
`clearInterval` must be visible. An interval never fires early but may fire late. Buttons of a hidden panel cannot be clicked. `disturbed`
is history: it excuses `PanelIsTrue` where two refreshes overlapped or a logout's
answer was lost.

## 3. Runs

States are distinct states; `pipeline`, `rate_limiter` and `schema` also check liveness.

| Run | Instance | Shows |
|---|---|---|
| `challenge_store` | 2 calls, 2 keys, TTL 1, clock to 4; 1.15 M states | `SingleUseUnlessDoubled`, `StrictTTL`, and that the store implements `OneTimeNonce`, lost replies of Redis included |
| `challenge_lost_reply` | 1 call, 1 key | `SingleUse` fails: stored twice, consumed twice |
| `login` | 2 handlers, 2 copies of a counting key, a counterless synced key, 2 challenges, counts to 3, forged ones too; 574 k states | `EarnedOnce`, `AlarmHasCause`, `CounterIsGenuine`; and ADR-001's two rules for every credential whose logins never overlapped (`NoDuplicateUnlessRaced`, `CounterGrowsUnlessRaced`) |
| `login_clone_undetected` | one counting key | `NoDuplicateCounter` fails: two overlapping logins present one count |
| `session` | 2 sessions of one passkey, 1 request, half seconds, session and entry lifetime 2 s, step-up 1 s; Redis failing *or* the process restarting; 1.0 M states | `LogoutTakesEffectAtOnce`, `LogoutReachesItsTokenOnly`, `StepUpIsTimely`, and that sessions keep `SessionContract` |
| `enrolment` | 2 handlers, 2 names, 2 challenges, 2 passkeys, each id attested any number of times; 591 k states | `OwnedByRegistrant`, `RevocationIsFinal` |
| `rate_limiter` | 2 clients behind one address, 3 admissions in 3 s, half seconds, 4 slots, restarts; 47 k states | `WindowBound`, `RefusedForAdmissions`, `RetryIsHonoured`, and `RefusalEnds` |
| `pipeline` | 2 requests of 9 classes of routes, 2 arrivals per life of the process, 1 sample per route, Redis up or down; 108 k states | `NothingCountedTwice`, `CountersAgree`, `SamplesMatchCounts`, `RelayedOnce`, `ProbeFailsForCause`, and `OnlyRedisOrClientStalls` |
| `pipeline_metrics_fail` | the same | `MetricsAreServed` fails: a path with a colon, and every later scrape is a 500 |
| `schema` | 3 processes, a new file or one of any older release, 2 faults; 61 k states | `SchemaRepaired` and `EventuallyServes` |
| `demo_page` | 2 overlapping flows, step-up limit 2 s, clock to 4; 638 k states | `OneTransferPerClick`, `ExpiredIsTrue`, `PanelIsTrue` |
| `demo_page_hidden` | one flow | `ProfileIsShown` fails: after the countdown ran out, a login's refresh throws and hides the panel |

The four violation runs check what a docstring, test, ADR or the README of the
repository says; `PROJECT.json` "findings" quotes the line and says what the code
does instead.

Other disagreements between code and documents are visible in the models and have
no run of their own: the alarm before the signature under LoginCeremony, the three under
SessionGate, Enrolment and ReadinessProbe
above and the lost index under SchemaMigration; a challenge saved by the fallback is
not found once Redis answers again (`challenge_store.py:102` against "transparent
fallback" in its docstring); and overlapping logins may commit their counts in the
wrong order (`database.py:180` against ADR-001's `max(stored, incoming)`), which has
the same cause as `login_clone_undetected` and is why `CounterGrowsUnlessRaced`
speaks of credentials that were not raced.

### Why the bounds are enough

* Two concurrent callers (or clicks): every interference here is pairwise (one reads, the
  other writes, the first continues). What a third could do, one of two can do
  after it has answered, since callers are reused without limit.
* Two challenges: a nonce is only ever compared with itself; the second is needed
  for two logins of one credential and for one registration beside another.
* TTL 1 with the clock from 1 to 4: a challenge may be saved, wait in a call past its
  deadline and be fetched at, before and after it; a second one may be saved late.
* `MaxCount` 3 with a registered count of 1: counts below, at and above the stored
  one, and two successive increases.
* Two ticks per second and a clock that starts at 1 s: logins in the first and the
  second half of a second, which is all that truncation tells apart.
* Faults are chosen per behaviour as "Redis fails" or "the process restarts". With
  both at once a revocation is lost with the only memory that had it, which the
  code accepts by design (memory is its only fallback); no document says otherwise.
* Two requests and two arrivals suffice for the pipeline: a request meets another one
  at every await, a route is counted beyond its one sample, and a restart makes room for
  more, while the upstream service may still hold requests of the life before.
* Three processes with two faults: one fails in the middle of its work while two
  others race over what it left.
* Three admissions in three seconds at two ticks per second: windows that slide over
  several admissions, and waits that round down. Four slots are one more than
  an address can have admissions.
* Symmetry is used over identifiers that no action compares otherwise than by
  equality, and only in runs without liveness.

### Fairness

A call of Redis has no timeout once the connection is open (`challenge_store.py:35`
bounds connecting only), so **no fairness is ever assumed of Redis**, and the
challenge store, the ceremonies and the sessions claim no liveness. What is assumed:

* `RequestPipeline`: the event loop runs what is ready; the database answers or
  reports a lock timeout; httpx ends a wait of 30 s (`auth_proxy.py:49`). The upstream
  service need not answer, but an
  answer it begins is assumed to end, since httpx' timeout is per read. Nothing is
  assumed of the client: `await request.body()` (`auth_proxy.py:46`) has no bound.
  `OnlyRedisOrClientStalls` then says that a request is answered unless it is for ever
  Redis' turn in it, or for ever that of a client whose body is incomplete.
* `RateLimiter`: time passes, a request is handled, and clients keep asking;
  `RefusalEnds` is about such clients.
* `SchemaMigration`: a running start-up goes on and an ended process is started again
  (`restart: unless-stopped` in `docker/docker-compose.yml`); faults are bounded
  by `MaxFaults`.

## 4. Proofs

All are checked by TLAPS to the last leaf, for every value of the constants under
the modules' named assumptions (`StoreAssumption`, `CeremonyAssumption` and so on), which are
weak: a number is a natural, a map has its domain.

* **ChallengeStoreProofs.** `TypeCorrect`, `SingleUseUnlessDoubledHolds`, `StrictTTLHolds`
  and `Refinement`, with no assumption about lost replies. The argument: a key that is
  not `doubled` has at most one holder among memory, Redis, a pending SETEX and a
  fetched reply; a doubled one is in both stores at most, hence twice at most.
  `SingleUseUnlessDoubled` alone is not inductive; the invariant adds that an unissued
  key is nowhere (`UnissuedIsNowhere`), that a pending save is the key's only
  holder (`SaverAlone`), that a fetched reply is alone (`CarrierAlone`), that whatever is
  stored has a use left for every copy (`StoredIsUnused`), and bounds on the deadlines
  (`DeadlinesBounded`). The refinement maps every action to a step of
  `OneTimeNonce` or a stutter: `SaveBegin` issues, the successful pop or the reply
  of the pipeline spends, and expiry, a failed call and a restart forget. For a doubled
  key it claims nothing: the key maps to a nonce forgotten when its reply was lost.
  What run `challenge_lost_reply` shows is therefore the one gap between the store and the nonce
  that the ceremonies are modelled over: a ceremony whose challenge was doubled may be
  carried through twice.
* **LoginCeremonyProofs.** `EarnedOnceHolds`, `AlarmHasCauseHolds` and
  `CounterIsGenuineHolds` follow from an invariant over challenges (a live
  challenge has no outcome; a handler past `Verify` owns its spent challenge).
  `AlarmHasCauseHolds` speaks of any assertion that raises the alarm, forged or not.
  `NoDuplicateUnlessRacedHolds` and `CounterGrowsUnlessRacedHolds` need more: for a
  credential that is not `raced` at most one handler is in a login (`Alone`), what
  it loaded is still the row's count (`LoadedIsCurrent`), and every count that
  yielded a session is at most the stored one (`BelowLoaded`, `BelowStored`). So
  the ADR's rules fail *only* through overlap, whatever else goes wrong.
* **EnrolmentProofs.** `OwnedByRegistrantHolds` and `RevocationIsFinalHolds`. The
  key fact is that a verified challenge is spent, belongs to exactly one handler, and
  is behind no row yet, present or revoked; ids may come back through other challenges.

* **RateLimiterProofs.** `WindowBoundHolds`, `RefusedForAdmissionsHolds` and
  `RetryIsHonouredHolds`, for any number of clients behind any proxies. The key fact of
  the invariant is that what the code remembers of an address and what was really
  admitted differ only in what the window has left behind; the lemmas are about the
  truncated seconds (`SecondsCover`, `RetryCovers`).

* **SchemaMigrationProofs.** `SchemaRepairedHolds`. The key facts: what a start-up has
  still to do covers what is missing (`Stages`); everybody adds the first missing
  column (`InOrder`), so whoever adds one has met nobody else's and leads; and without a
  fault a process that gives up leaves a leader behind, or nothing to add (`Led`).

* **SessionGateProofs.** `LogoutReachesItsTokenOnlyHolds` and `StepUpIsTimelyHolds` are
  unconditional; the latter is division: seconds that differ by at most the limit
  (`Truncated`, `StepUpInTicks`). `LogoutTakesEffectAtOnceHolds` and
  `KeepsContractHolds` assume `Lasting`: `RevokeTTL >= SessionTTL`, and a process that
  may restart has a Redis that does not fail. The invariant `Lasts` says where a logout
  is kept while its token lives: in memory unless the process restarts
  (`MemoryHolds`), in Redis from the SETEX on (`RedisHolds`), and a reply that missed it
  was overtaken by an entry in memory (`ReplyOrMemory`), which is why `is_revoked`
  must ask memory after Redis and not before. Under the defaults `Lasting` holds: tokens
  live 60 minutes and entries 3600 s.

* **RequestPipelineProofs.** All six invariants of the run, for any set of requests
  and any limits. `NothingCountedTwice`, `CountersAgree` and `SamplesMatchCounts` relate
  counters that different functions keep at different awaits. They become inductive
  with `RoutesFit` (a request waits only where its route can) and `Countable` (finitely many
  requests are in flight and counters positive, so that the totals exist). `StepKinds`
  reduces the steps to a few kinds: a request arrives, moves, is answered, is counted,
  is answered unseen, takes a step of its ceremony, of its relaying or outside, or leaves; one
  lemma per kind then serves (`HttpRecorded`, `QuietStep`, `CeremonyAgree`). The
  subtle case is a login's last lookup: it is counted as an attempt and not yet as a
  response, so the argument carries the number of requests that wait there (`Waiting`),
  and a response made moves from the pending ones to the counted ones without changing their
  sum (`AnsweredAdds`, `AnsweredCounted`).
  `RelayedOnceHolds` needs where a relayed request may be outside and whether it was
  carried out (`RelayFits`); `ProbeFailsForCauseHolds` that a probe nobody disturbed will
  find its key (`ProbeFits`).
* **DemoPageProofs.** `OneTransferPerClickHolds`, `ExpiredIsTrueHolds` and
  `PanelIsTrueHolds`, for any set of clicks. The countdown never ends early
  because there is at most one interval (`OneInterval`), whose seconds reach to
  the limit of the session shown (`CountdownCovers`), as those of an answered profile
  do until it is shown (`ProfileCovers`). A transfer is not repeated
  because a click whose transfer was made is done with it or holds the `ok` that ends it
  (`TransferEnds`). The panel is true while refreshes do not overlap (`OneRefresh`),
  because the logout's own refresh is then the last (`RefreshSeesLogout`,
  `PanelAwaitsRefresh`).

`LoginCeremonyProofs` and `EnrolmentProofs` also show (`UsesNonces`) that the
ceremonies use their challenges only as `OneTimeNonce` allows, the
specification that `ChallengeStoreProofs` shows the store to implement: this is what
lets the ceremonies be modelled over the abstract store.

Only model-checked: the liveness properties `OnlyRedisOrClientStalls`, `RefusalEnds` and
`EventuallyServes`. Liveness under fairness, `ENABLED`, and induction over recursively
defined data are out of the prover's reach; no module here declares a RECURSIVE operator.

## 5. Not modelled

Cryptography, CBOR and JWT encodings: an assertion is genuine or not. The wording of
responses, headers and cookies, durations and latencies, and the components marked so
above: the AAGUID table and the configuration have no state, and `portal/app.js` only
imitates a gateway inside a browser. A PostgreSQL database is mentioned by the documents
but its driver is not among the requirements; `init_db`'s PRAGMA is SQLite's.
The database is one whose statements and commits are atomic, as SQLite's are, and whose
unique constraints hold.

## 6. Plan

Done, by what the system depends on most: the challenge store, the ceremonies, sessions
with their contract, the rate limiter, the page that drives them, the requests' way
through the middleware with telemetry, relay and probe, and the start-up;
and a proof of every safety property that a passing run checks.

What is left:

1. `Gateway`: login, revocation of passkeys and sessions in one module, over the
   contracts that the parts were shown to keep.
2. `PortalSimulator`: `portal/app.js` with its delayed callbacks.
