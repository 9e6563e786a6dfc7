# Verification of keiyaku-go

TLA+ modules of the plugin system, the accounts and login sessions, the schema
migrator and the storage watcher of keiyaku-go, the TLC configurations that check
them, and theorems about them that TLAPS proves. Paths below are those of the
repository.

The core of the program is its plugin system. Remote plugin services register
with the main service over HTTP and keep a lease alive with heartbeats. The
main service grants each of them gateway routes, watches their health, and
proxies requests to them. Everything that can go wrong there involves several
actors: HTTP handlers, two background goroutines, a cache, and tables that all
of them share.

## Inventory

| component | state it keeps | operations | talks to | what is hard | what makes it correct |
| --- | --- | --- | --- | --- | --- |
| Routes (`internal/domain/plugin`, `route_matcher.go`, `routesOverlap`) | none | match, overlap, choose | registration and gateway | the same question answered by two packages with two algorithms | two routes overlap exactly when some request matches both; the choice is unique |
| Registry tables (`persistence/mysql/plugin_repository.go`) | `plugin_services`, `plugin_instances`, `plugin_routes`, `plugin_route_claims`, `plugin_signature_nonces`, `plugin_audit_events` | one method per statement or transaction | MySQL | read-modify-write without a lock (`TouchInstance`), blind updates, a re-check under lock | claims exclude each other; routes follow the service |
| Control plane (`internal/application/plugin`) | configuration, round-robin counters, route cache | Register, Heartbeat, Unregister, enable and disable of services and instances, CheckHealth, Maintain | repository, probe, audit, metrics | calls interleave between two queries; a sweep works from a listing; a statement that was applied may be reported as failed | ownership is exclusive; health agrees with the counted failures; leases end |
| Route resolution (`ResolveRoute`, `findRoutable`, the route cache) | one cache entry, mutex | resolve, invalidate | repository, gateway handler | three queries in no transaction; a store after an invalidation; leases that end inside a cache entry | bounded staleness; no silent instance is picked |
| Control signature (`trust.go`, `pkg/plugin/signature.go`, `nonce.go`) | nonces with an expiry | verify, use a nonce, prune | repository | a window computed from several clock readings, pruning under another | a signed call is accepted once |
| Lifecycle runner (`pkg/plugin/runner.go`) | backoff | register, heartbeat, re-register, unregister | control plane over HTTP | lost answers, retries, a status that no retry repairs | a running plugin is registered again |
| Manifest and trust (`pkg/plugin/manifest.go`, `trust.go`, `outbound_transport.go`) | none | normalise, validate, hash, check a URL and its addresses | registration, every outbound call | several rounds of a normalisation that is not idempotent; two sets of rules for one URL | what is stored was granted; a hash names its routes |
| Gateway handler (`handler/plugin.go`) | none | authenticate, rewrite, proxy, record | resolver, IAM, plugin | a transport that sends again, timeouts, answers that overtake writes | the caller is the author; the answer is true; every request ends |
| Blog plugin (`src/plugins/blog`) | articles | create, read, list | gateway, its database | a count and a page in two queries, a pagination in machine integers | a page holds what the count promised |
| IAM sessions (`iam_session_repository.go`, `cmd/iam`) | refresh sessions | login, rotate, logout | MySQL | rotation against logout | one token, one successor; logout ends all |
| Users (`application/auth`, handlers, middleware) | users, access tokens at the clients | register, login, refresh, introspect, log out | MySQL, sessions | check, then create; a token that outlives its session | who gets a session owns the account; access ends |
| Migrator (`cmd/migrate`) | `schema_migrations` | up, down | MySQL, files | an interruption between statements, or before a version is recorded | success means the schema of the files; an interrupted run can be repeated |
| Storage watcher (`pkg/storage/watch.go`) | pending events, timer, two channels | watch, walk, flush, close | fsnotify, the reader | debounce and close against flush; directories created during a walk | every event reaches the reader; every directory is watched; a closed watcher ends |
| Bootstrap (`internal/bootstrap`, `cmd/api`) | the running application | start, shut down | all | loops that are cancelled and not waited for | a loop never overlaps itself |
| Middleware, configuration, logging, CLI, OpenAPI tooling, i18n | | | | sequential, or a thin layer over a library | |

`PROJECT.json` lists the components with their status, and every hazard at its
line.

## Modules

| module | models |
| --- | --- |
| `RoutePaths` | routes and requests, `Matches`, `RoutesOverlap`, the order of the matcher |
| `RouteOwnership` | the abstract promise of registration: a plugin's set of requests is replaced in one step and never meets another plugin's |
| `PluginTables` | the four registry tables, each repository operation that writes them, and the queries of `FindRoutable` |
| `ControlPlane` | calls, health sweep, maintenance, restart and clock over the tables, and what `Diagnose` and `ResolveRoute` make of them; its specification is `Spec` |
| `RouteResolver` | resolution and the route cache, composed with the control plane; its specification is `ResolverSpec` |
| `LifecycleRunner` | the plugin's side: `LifecycleRunner.Run` of the SDK, composed with the control plane; its specification is `RunnerSpec` |
| `Admission` | what a registration is checked for before the tables, and what an outbound call is checked for after it |
| `SignatureNonce` | signed calls and their nonces, in the table of the main service and in the memory of a plugin |
| `BlogArticles` | the blog plugin's handlers, its article service and its table |
| `GatewayRequest` | a request from the client to the plugin and back, composed with `BlogArticles` |
| `SessionChains` | the abstract promise of the refresh sessions: a login is a chain with one tip, and one that lost its tip has ended |
| `RefreshSessions` | logins, refreshes and logouts of the IAM service over the session table |
| `Accounts` | registration, login, refresh, introspection and logout from the handler to the answer, composed with `RefreshSessions` |
| `Migrate`, `MigrationFiles` | the migrator, and the six migrations of the repository as statements for it |
| `StorageWatcher` | a watcher between fsnotify and its reader |
| `*Proofs` | theorems about the module of that name; `ControlPlaneProofs` has those about `RoutePaths`, too, `AccountsProofs` those about `RefreshSessions`, `GatewayRequestProofs` those about `BlogArticles` and `MigrateProofs` those about `MigrationFiles` |
| `MC*` | instances for TLC |

`RouteResolver` extends `ControlPlane`, which extends `PluginTables`, which
extends `RoutePaths`. A step of the composition is a step of the control plane
or of one resolver. A control plane step that calls `invalidateRouteCache`
empties the cache, a restart empties the cache and drops the resolutions, and
the others leave both alone. `LifecycleRunner` extends `ControlPlane` as well: a
step that starts a runner's call is a step of the thread that serves it, and the
step that ends the call hands the runner its answer.

The IAM service is a process and a database of its own; `RefreshSessions` shares
nothing with the plugin modules, and `Accounts` composes it with the users: each
step of a request that reaches the session table is a step of `RefreshSessions`.
In the same way `GatewayRequest` composes the gateway with the plugin behind it,
with what `ResolveRoute` answers left free, since `RouteResolver` is about that.
`Admission` and `SignatureNonce` are what a call goes through before the step with
which it begins in `ControlPlane`. `Migrate` and `StorageWatcher` stand alone.

### How state and actions correspond to the code

`service[p]` is the row of plugin `p` in `plugin_services` (or `None`),
`instance[p][i]` the row of instance `i`, `routes` and `claims` the rows of
`plugin_routes` and `plugin_route_claims`. A manifest is a value that stands
for its hash, with the plugin (`PluginOf`) and the routes (`RoutesOf`) in it;
the base URL, version and health path of an instance row are written by the
same statements as its hash, and the `manifest` column stands for them.

`call[t]` is the call that handler thread `t` serves.

| action | code |
| --- | --- |
| `Register`, `RegisterCheck`, `RegisterRefused`, `RegisterCommit`, `RegisterRollback` | `Service.Register`: the clock reading, one query of `FindRouteConflict` per route, its refusal, and the transaction of `UpsertRegistration`, which commits or finds a conflict of its own and rolls back |
| `HeartbeatRead`, `HeartbeatSave` | `Service.Heartbeat`: the two halves of `TouchInstance` |
| `Unregister`, `AdminSetInstance`, `AdminSetService` | one UPDATE each |
| `Return` | `invalidateRouteCache` and the end of the call |
| `CallFails`, and the second disjunct of `AfterWrite` | a statement fails: before it was applied, or after |
| `HealthList`, `HealthProbe`, `HealthUpdateFails`, `HealthReload`, `HealthInvalidate` | `CheckHealth` and `checkInstanceHealth`, where `UpdateInstanceHealth` is an UPDATE and a separate read of the row |
| `MaintainDisableStale`, `MaintainInvalidate` | `Maintain`, but for the nonces, which `SignatureNonce` prunes |
| `Diagnose`, `Reasons`, `Resolvable` (operators) | `Diagnose` and `instanceRoutabilityReasons`; what `ResolveRoute` may answer on the tables as they are |
| `ServerRestart` | the process ends and a new one starts: calls, sweep, maintenance and cache are gone, the tables stay |
| `Tick` | time |
| `ResolveStart`, `CacheHit`, `CacheMiss`, `ReadServices`, `ReadInstances`, `ReadRoutes`, `CacheStore`, `Choose`, `Done`, `ReadFails` | `ResolveRoute`, `findRoutable`, `routeCacheGet`, the three queries of `FindRoutable`, `routeCacheSet`, the choice |

In `LifecycleRunner`, `runner[r]` says where the `Run` of a plugin process is and
which thread serves the call it waits for.

| action | code |
| --- | --- |
| `SendRegister`, `SendHeartbeat`, `SendUnregister` | a call of the client that gets past the server's first query |
| `HeartbeatRefused` | a heartbeat answered 404 or 409, for which `shouldReregister` holds; the backoff follows |
| `ServerStep` | a step of the control plane, and `AfterCall` for the runner whose call it ends |
| `GiveUp`, `RegisterLost` | a timeout or a lost message; the server goes on with a call it has |
| `Cancel`, `Exit`, `Launch` | the end of the context, the end of the process, a new process |

In `Admission`, a configuration stays in force from one start to the next, and the
rows stay for longer; `instances[i].under` is the configuration a row was admitted
under.

| action | code |
| --- | --- |
| `Start` | `NewService`, which refuses prefixes outside the public one |
| `Register` | `Service.Register` up to the rows: `commandToManifest`, `ValidateManifest`, `validateManifestGatewayPaths`, `validatePluginURL`, `ManifestHash`, and the routes that `UpsertRegistration` writes |
| `RoundTrip`, `DialContext`, `Finish` | `OutboundGuardTransport`: the URL, then every address of its host |

In `SignatureNonce`, `attempt[t]` is a delivery that thread `t` verifies, and
`nonces[c]` the expiry recorded for call `c`, in the table or in a plugin's memory.

| action | code |
| --- | --- |
| `SignRequest` | the signer, by a clock of its own |
| `Verify`, `ExpiresAt`, `UseSignatureNonce`, `UseFails` | `validateControlSignature`, whose three clock readings are apart, and the transaction of the repository's `UseSignatureNonce` |
| `VerifySignedRequest`, `UseNonce` | `VerifySignedRequest` and `MemoryNonceStore`, under one reading |
| `MaintainBegin`, `PruneSignatureNonces` | `Maintain` and its pruning |
| `ServerRestart`, `PluginRestart` | the table survives its process; a plugin's memory does not |

In `GatewayRequest`, `request[r]` is the handler of one client request; a delivery
`<<r, k>>` is the k-th time net/http sends it, and `handling` is where the plugin is
with that delivery.

| action | code |
| --- | --- |
| `Gateway`, `ResolveRoute`, `AuthorizeGateway`, `Forward` | the handler up to the signed request on its way |
| `GatewaySignature`, `Create`, `CreateFails`, `FindPublishedByID`, `Count`, `Find`, `QueryFails` | the plugin's signature check, then one statement or transaction of its handler each |
| `ConnectionBroken`, `Lose`, `Timeout`, `PluginRestart` | what goes wrong on the way, while the plugin goes on with the deliveries it has; the timeout ends a wait with 504 and cuts short a body that is being copied |
| `Respond`, `Copy`, `RecordGatewayFailure` | the status, then the body as far as the plugin sends it, then the deferred record |

In `RefreshSessions`, `sessions[s]` is the row of session `s`, which stands for its
refresh token too; in `Accounts`, `users` is the table of users and `request[t]` what
a thread does for a client.

| action | code |
| --- | --- |
| `LoginIssue`, `LoginCreate` | `Register` and `Login` from `newTokenPair` on, and `CreateRefreshSession` |
| `RefreshParse`, `RefreshCommit`, `RefreshRefused` | the `refresh` handler: the token's check, and the transaction of `RotateRefreshSession` or its refusal |
| `Logout` | the `logout` handler: `RevokeActiveRefreshSessionsByUser`, one UPDATE |
| `CallFails` | a failing statement, or the end of the process: nothing written |
| `RegisterOrLogin`, `FindByUsername`, `Create`, `IssueToken`, `CreateRefreshSession` | `Service.Register` and `Service.Login`, statement by statement |
| `Refresh`, `RefreshEnsureActive`, `RotateRefreshToken` | the `refresh` handler with its look at the user |
| `Introspect`, `EnsureActive`, `Auth`, `LogoutUser` | `introspect`; the middleware and the `logout` handler behind it |
| `Disable` | an operator's UPDATE of a user; no handler does it |

In `Migrate`, `schema` is what the statements have made and `recorded` the rows of
`schema_migrations`.

| action | code |
| --- | --- |
| `MigrateUp`, `MigrateDown` | the start of a run |
| `MigrationApplied`, `ExecFile`, `ExecFileEnd`, `RecordVersion` | one query, one statement of a file, the end of the file, the insertion or deletion of its record |
| `Interrupt` | the process or its connection ends |

In `StorageWatcher`, `loop` is where the goroutine is, with the directories it has
still to walk.

| action | code |
| --- | --- |
| `Watch`, `Walk` | `Watch` and `addRecursive`, one directory at a time |
| `TakeEvent`, `TakeError`, `TakeTimer`, `TakeDone` | the cases of the loop's `select` |
| `SendEvent`, `FlushReturns`, `SendDone`, `SendError` | where the loop waits for the reader, or is told that nobody reads any more |
| `CloseDone`, `CloseRaw` | the two halves of `Close` |
| `CreateDirectory`, `RemoveDirectory`, `ChangeFile`, `RawError`, `ReadEvent`, `ReadError` | the file system, fsnotify and the reader |

Histories are variables that are written and never steer an action, but for `login`,
from which a session inherits its own, and `forgotten`, which also counts the
plugin's one restart: `login` (the session a session's chain began with), `over`
and `ended` (the chains a logout found, and when), `contact` (the clock reading of
the last registration begun or heartbeat accepted), `lastSelectable` (when an instance
was last fit to be selected but for its lease), `accepted` (deliveries accepted within
their window), `forgotten` (requests under way when the plugin restarted), `undone`
and `refused` (versions with an unfinished roll-back, or with a refused statement),
`owed` (events the reader has still to get), and the `under` of `Admission`. `cut` of
`StorageWatcher` is the error that `addRecursive` returns, kept for good.

### What is abstracted

- A path is a sequence of segments. In the control plane, stored paths went through
  `cleanPath`, so the string tests for a prefix at a segment boundary are the prefix
  relation; what `cleanPath` does with blanks and slashes at the end of a path, where
  it takes several rounds, is in `Admission`.
- A call in `ControlPlane` begins after its signature, nonce, manifest and URL were
  accepted. A call that ends in an error before it writes anything is no step.
- `UpsertRegistration` is one step: it locks the service row and reads all
  other claims FOR UPDATE before it inserts its own, so under InnoDB one of two
  transactions that could miss each other's claims waits or is a deadlock's
  victim (`CallFails`). `HeartbeatSave`, by contrast, is separate from
  `HeartbeatRead`, since `TouchInstance` has no transaction around them.
- `FindRouteConflict` checks the routes in manifest order; here in any order.
  So does the sweep with its targets. Both allow more than the code does.
- Where the clock was read before a query (`HealthList`, `HeartbeatRead`,
  `MaintainDisableStale`) any earlier reading is allowed.
- Audit records and metrics are best effort and have no effect on the tables.
- `pickInstance` takes any candidate: the counter it goes by is shared by all
  requests and the set of candidates changes under it.
- The transaction of `RotateRefreshSession` and the UPDATE of a logout are one step
  each. The transaction locks the current row; the UPDATE visits the user's active
  sessions by id, the new one after the one it replaces, so the two wait for each
  other or one is a deadlock's victim and fails.
- Session and token ids come from one generator; each session gets one that was
  not given before. Signatures and tokens cannot be forged, and passwords differ.
- A granted prefix is trimmed in one round (`InputAssumption` of `Admission`): an
  operator does not write blanks between the slashes at its end. Otherwise a path
  could be checked as equal to a prefix and stored with fewer blanks than that.
- `DialContext` is given the addresses it checks; that the dialer connects to one
  of those and does not resolve the name again is not in the model.
- One main service process. A second one would share the tables but not the
  cache. One migrator at a time.
- The two files of a migration are the statements of the repository's own files, two
  tables standing for the eleven of the first.
- `EveryRequestEnds` counts the reading of a client's body as part of `Forward`,
  whose end the server's `ReadTimeout` brings about. A client that reads slowly is
  bounded by the server's `WriteTimeout`, which is not in the model either.

## What is checked

| run | instance | properties |
| --- | --- | --- |
| `ownership` | 3 plugins, 5 manifests over 4 paths, 2 threads; registration, service and instance status, failures, restart; no clock | `TypeOK`, `ClaimsExclusive`, `RoutesFollowService`, `SingleOwner`, `OneBestRow`, `DiagnosticsAgree`, `OwnershipSpec` |
| `lifecycle` | 1 plugin, 1 manifest, 1 instance, 2 threads; registration, heartbeat, unregistration, instance status, health sweep, maintenance, failures, restart; clock to 3 | `HealthCoherent`, `LeaseFollowsContact` |
| `resolver` | 1 plugin, 2 manifests with the same route, 1 instance, 1 thread, 1 resolver; registration, heartbeat, service status, failures, restart; clock to 3 | `BoundedStaleness`, `PickedHeard` |
| `runner` | 1 plugin, 2 instances with a runner and a manifest each, 2 threads; instance status, failures, restart; no clock | `RunnerType`, `ShutOutUntilReadmitted`, `Reregisters` |
| `admission` | 2 instances, 21 manifests, 5 configurations, 4 addresses, one of each kind | `StoredTrusted`, `HashMeansRoutes`, `AdmittedReachable` |
| `nonces` | 1 call of the control plane, 1 gateway request, 2 threads; clock to 3 | `AcceptedOnce`, `KeptWhileFresh`, `ExpiredPruned` |
| `gateway` | 2 requests, 2 users, 1 slug; 2 deliveries of a request, 1 restart of the plugin | `GatewayType`, `AuthorIsCaller`, `AnswerTellsTruth`, `PageCoversTotal`, `EveryRequestEnds` |
| `sessions` | 2 users, 3 sessions, 2 threads; TTL 2, clock to 3 | `OneActivePerLogin`, `LogoutEnds`, `RefreshedInTime`, `ChainsSpec` |
| `accounts` | 2 people with one name, 2 users, 2 sessions, 2 threads; access TTL 1, refresh TTL 2, clock to 2 | `AccountsType`, `AnswersOwner`, `AccessEnds` |
| `migrate` | the 6 migrations; 4 interruptions or roll-backs | `MigrateType`, `RecordedPrefix`, `RefusedOnlyAltering`, `SuccessMeansCurrent`, `EventuallyCurrent` |
| `watcher` | 2 directories, one in the other, 1 file; 1 write, 2 errors, channels of 1; debounced or not, recursive or not | `EveryEventRead`, `DirectoriesWatched`, `ClosedEnds` |
| `mismatch` | as `runner` | `ReregistersOnMismatch`, which is violated |

The registry and the gateway:

- `ClaimsExclusive`, `SingleOwner`: however registrations interleave, no request
  has routes of two plugins.
- `RoutesFollowService`: routes and claims are exactly those of the manifest in
  the service row, after every commit, rollback, failure and restart.
- `OwnershipSpec`: the control plane implements `RouteOwnership`, with
  `owned[p]` the requests that some route row of `p` matches.
- `OneBestRow`: the matcher has no ties to break.
- `DiagnosticsAgree`: what makes an instance routable is stated three times, in the
  queries, in the filter of `ResolveRoute` and in `Diagnose`, and the last looks at
  one plugin's routes alone. They agree, since no other plugin has a route for the
  request.
- `HealthCoherent`: unhealthy means exactly that the failures reached the
  threshold. It includes rows that a heartbeat has read and will write back and
  rows that the sweep has listed, which is what makes it inductive.
- `LeaseFollowsContact`: no lease lasts longer than TTL after the last contact.
- `BoundedStaleness`: what the gateway picks was selectable at a moment less than
  the cache's TTL before the request. An entry may be stored after the invalidation
  that should have removed it, and this is the bound on what that costs.
- `PickedHeard`: what the gateway picks was heard of at most TTL before, cached
  or not.
- `RunnerType`: a runner does not wait for a call that nobody serves.
- `ShutOutUntilReadmitted`: an instance that is disabled or incompatible, and of which
  no registration or heartbeat is under way, comes back only when a registration of
  its own begins, or when an administrator activates it: `TouchInstance` refuses every
  later heartbeat. Late calls of runners that gave up, failures and restarts are in the run; the
  sweep and the maintenance, which write rows that they listed before, are in the
  theorem `AlwaysShutOutUntilReadmitted`. A heartbeat that is under way at the
  disabling is outside the property, since it does bring the instance back (see the
  departures below).
- `Reregisters`: a running plugin that was marked incompatible registers again.
  Under the fairness below this holds although any single call may fail.
- `StoredTrusted`, `HashMeansRoutes`: routes are normalised again between their
  check, their hash and their rows; what is stored was granted nonetheless, and an
  instance with the service's hash declared what is stored.
- `AdmittedReachable`: the rules for a URL at registration and those for every later
  call agree.
- `AcceptedOnce`, `KeptWhileFresh`: between pruning, restarts and clock readings taken
  at different moments, a signed call is accepted once while its timestamp would
  pass. A plugin that restarts forgets its nonces; the property counts from there.
- `ExpiredPruned`: no expired row of the nonce table stays for good.
- `AuthorIsCaller`: the author of an article is the user of the token, whom the
  route's policy let pass, whatever the client wrote in the gateway's own headers.
- `AnswerTellsTruth`: a success means the article is there, and a refusal means that
  no delivery of the request, late or repeated, writes it. The exceptions are stated:
  a 401 for a nonce that was seen before, 500, 502 and 504, which promise nothing, and
  a plugin that restarted under the request.
- `PageCoversTotal`: a page is as full as the total that was counted before it,
  also where the offset wraps around.
- `EveryRequestEnds`: every request ends, also when the plugin does not answer, or
  answers and then stalls in the middle of its body: `io.Copy` has no deadline but the
  request's.

Accounts, migrations and files:

- `OneActivePerLogin`, `ChainsSpec`: a token presented twice, or after its session
  was replaced, does not give a login a second session.
- `LogoutEnds`: a refresh that a logout overtook does not bring a login back.
- `RefreshedInTime`: a refresh that waits for its transaction does not extend a
  session that had expired when it looked.
- `AnswersOwner`: who gets a session owns its account, although `Register` looks a
  name up before it creates the user.
- `AccessEnds`: an access token is not asked about its session, so it outlives a
  logout, by its own TTL at most, and no refresh under way extends that.
- `RecordedPrefix`: records have no gap, wherever runs and roll-backs end.
- `RefusedOnlyAltering`: every other file can be started again.
- `SuccessMeansCurrent`: a run that reports success left the schema of the files,
  unless an unfinished roll-back of a recorded version came before it.
- `EventuallyCurrent`: run again and again, the migrator gets to the last version,
  unless the database refused a statement of an altering file.
- `EveryEventRead`, `DirectoriesWatched`, `ClosedEnds`: no event is lost between the
  debounce and a slow reader, also from directories that appear during a walk, and a
  closed watcher ends though nobody reads.

### Where the code departs from what is said of it

`mismatch` shows the one departure that lasts: a heartbeat reads its row, a newer
version registers and marks it incompatible, and the heartbeat's save makes it
active again with the old manifest. Every later heartbeat is accepted, so the plugin
never registers again and gets no requests.

Others were met while the models were written, and have no run of their own:

- An instance that an administrator disables between the two halves of
  `TouchInstance` is made active again by the heartbeat's save.
- A resolution that read the tables before an invalidation stores its entry after
  it. A registration that commits between the queries of `FindRoutable` pairs a
  route of the new manifest with an instance of the old one. `BoundedStaleness`
  bounds both where the cache keeps them.
- A registration that is overtaken between its check and its transaction is answered
  as a failing dependency, not with 409.
- A registration whose routes become equal only in the round after the last check is
  admitted, and then refused by the unique key at every attempt (`SameRow`).
- Rows admitted under one configuration stay in routing after a restart with a
  narrower one; `StoredTrusted` speaks of the configuration of the registration.
- A timeout while the body is copied leaves the plugin's status, where
  `plugin-system.md` speaks of 504; a disabled plugin is answered with 404, where it
  speaks of 503.
- A failure `plugin_unavailable` is not audited: there is no plugin key to audit it
  under.
- A roll-back that was interrupted and is followed by a run upwards ends in success
  without the tables that the roll-back had dropped; this is the condition in
  `SuccessMeansCurrent`.
- A directory that is removed during a walk ends the walk, and its siblings stay
  unwatched (`cut`). A reader of only one of the two channels blocks the loop. The
  debounce has no longest wait. `Close` drops the rest of a batch.

### Bounds

Two threads are enough for each hazard listed: the races are between one call and
one other call, the sweep, the maintenance or a resolution. Three plugins let a
third one meet what the other two left. The paths of `MCOwnership` have each case
of `routesOverlap` (exact and prefix on either side, equal, above, apart; `ANY`
and a named method) and a plugin whose own routes overlap, so the matcher has to
choose. Threshold 2 with at most 2 counted failures reaches the threshold and lets a
row be probed again at it. In `MCLifecycle` TTL is 1 and the clock goes to 3, the
first moment at which the maintenance can find a lease that has been over for more
than a whole TTL. In
`MCResolver` TTL and CacheTTL are 2, so that a lease can end inside a cache entry and an
entry can outlive what it holds; with a shorter TTL the lease alone would bound the
staleness. The maintenance takes no part in it, since a row that it disables has been
unroutable for a TTL. In `MCRunner` each runner can have one call under
way and one it gave up. Its time stands still, since neither the refusals nor the
runner's loop depend on the length of a lease.

`MCAdmission` has routes with up to five rounds of blanks, before and after a slash:
the checks see the third round and the rows the fourth. Its configurations grant the
public prefix, another one, one of each kind of restriction, and nothing. With Skew
and Grace 1 and the clock to 3, `MCNonces` has timestamps before, in and behind the
verifier's clock, and nonces that expire in both ways. A second delivery of a request
(`MaxCopies`) is the first that can be refused for its nonce, and `IntMax` 7 makes the
offset of page 5 wrap around. `MCSessions` has room for a login that is refreshed
twice, and for two logins of one user or of two; a session expires one tick before
the clock stops. `MCAccounts` has room for one name under two people, and for a
refresh of a login. `MaxTrouble` 4 lets a migration be interrupted, rolled back, interrupted in
the roll-back and interrupted again. In `MCWatcher` channels of one place are full
after one event; the file is in the inner directory, so it is reported only when
that was added during a walk.

Threads, users, people, sessions, instances of `MCAdmission`, and the manifests of
`MCResolver` are interchangeable and declared symmetric. No run with
a liveness property uses symmetry.

### Fairness

- `RunnerSpec`: weak fairness of each thread's own steps (`Finish`, `Check`): a handler
  goroutine is scheduled and its statements return. Weak fairness of `Beat`: the
  ticker fires and heartbeats are not lost for good. Strong fairness of
  `SendRegister`, `CheckFor` and `CommitFor` for each runner: its registrations may
  be lost, fail or be rolled back any number of times, but not every one of them
  for ever. Nothing is assumed of timeouts, cancellation, process ends,
  administrators, restarts or failures, and nothing of the other runner.
  `RegisterLost` waits for an idle thread: the bound on threads is the model's, not
  the server's.
- `FairSpec` of `SignatureNonce`: the maintenance loop ticks (weak), and a restart
  does not end every maintenance before it prunes (strong). Nothing is assumed of
  calls.
- `FairSpec` of `GatewayRequest`: a handler goroutine goes on, and its timeout ends
  (weak), in the wait and in the copying of the body. Nothing is assumed of the network
  or the plugin, so neither of `Copy`.
- `FairSpec` of `Migrate`: a run goes on, and the migrator is run again (weak). The
  bound on trouble is what lets it get there.
- `WatcherSpec`: the goroutine runs and the timer fires (weak), each case of its
  `select` that is ready again and again is taken (strong: Go chooses among the ready
  cases uniformly), and the reader reads both channels until it closes the watcher
  (weak). It may close it at any time or never.

## What is proved

Every invariant and action property that a passing run checks is a theorem as well,
and so is every refinement. A run says that TLC found no counterexample in one small instance; a
theorem says it for any values of the constants that satisfy the assumptions named.
The assumptions say what the constants are (numbers, functions between the sets, a
`None` that is nobody's row), and a run of each module evaluates them; a few theorems
about runners and migrations have hypotheses of their own, given below.

`ControlPlaneProofs`, for any segments, paths and methods:

- `OverlapComplete`: two routes that match one request overlap.
- `OverlapSound`: two routes that overlap match a common request.
- `OrderTotal`: of two different routes that match one request, one is before the
  other.

and, for any plugins, instances, manifests, routes, threads, TTL, threshold and
bounds, from `PathAssumption`, `TablesAssumption`, `NoneAssumption` and
`ControlPlaneAssumption`:

- `TypeCorrect`.
- `ClaimsAlwaysExclusive`, `RoutesAlwaysFollowService`: together with `TypeOK` they
  are inductive (`OwnershipInv`). Exclusiveness alone is not: a registration
  removes the claims of "its" plugin, and that these are all the claims the plugin
  has, and cover its routes, is the other conjunct.
- `AlwaysSingleOwner`: from `OwnershipInv` and `OverlapComplete`, since every route
  row has a claim.
- `AlwaysOneBestRow`: from `AlwaysSingleOwner` and `OrderTotal`, since rows of one
  plugin with equal routes are equal rows.
- `AlwaysDiagnosticsAgree`: an instance is a candidate exactly when `Diagnose` has no
  reason against it, and by `AlwaysSingleOwner` the best row of all is the best row
  of its plugin.
- `ImplementsOwnership`: each step changes `Owned` of one plugin at most, and a
  commit leaves it disjoint from the rest.
- `AlwaysHealthCoherent`: `HealthInv`, which is `HealthCoherent` with the rows in
  flight, is inductive.
- `AlwaysLeaseFollowsContact`: `LeaseInv` adds that the clock reading a call holds is
  no later than its instance's contact, and contacts no later than the clock.
- `AlwaysShutOutUntilReadmitted`: an action property, shown step by step from
  `TypeOK`. A call that is under way after a step was so before, or the step began it
  (`ServeBegins`). With none under way, a step on behalf of a call leaves out whom it
  found out, unless it is the administrator's (`ServeLeavesOut`), and so do the sweep
  and the maintenance: a probe's result is written with the status that the row has,
  and only active rows are disabled as stale (`BackgroundLeavesOut`).

`RouteResolverProofs`, from the same assumptions and `ResolverAssumption`:

- `AlwaysBoundedStaleness`, `AlwaysPickedHeard`: `ResolverInv` is inductive over
  `LeaseInv`. It says of whatever was read, in a resolution or in the cache, that each
  instance in it was selectable within the age it may reach: since the request began
  (`ResolveSound`), or, in the cache, less than CacheTTL before the entry expires
  (`CacheSound`). That a fit instance was seen now (`SelectableSeen`) is what a read
  starts from. The lease is compared with the request's own clock at the choice, and
  `LeaseInv` turns it into a contact.
- `ResolverImplementsControlPlane`: a resolution only reads, and the steps that drop
  the cache are steps of the control plane, so every behaviour of the composition is
  one of `Spec`. By `ResolverReadsSound` what was proved of the control plane alone
  therefore holds of the tables the gateway reads.

`LifecycleRunnerProofs`, for any runners, with the assumptions of `ControlPlane` and
`RunnerAssumption`:

- `AlwaysRunnerType`, `AlwaysRunningHasRow`: with `FirstCalls` they are inductive
  (`RunnerInv`). `FirstCalls` says that the call a first registration waits for is
  still that registration, or was written and the row is there; without it an
  answer to the first call would not imply a row. They rest on `ServerEffect`: no
  step of the server removes a row, and a call under way goes on as it was, ends, or
  was written.
- `RunnersAreClients`, and from it `RunnersKeepOwnership` (ownership, leases and
  `ShutOutUntilReadmitted`): lost answers, late calls and processes that end ask
  nothing of the server that `Spec` has no step for. The
  hypothesis is that clients register, send heartbeats and unregister at all;
  `Operation` leaves these out in `MCRunner`, where only the runners send them.

`AdmissionProofs`, for any manifests, addresses and configurations, from
`AdmissionAssumption` and `InputAssumption`:

- `AlwaysStoredTrusted`, `AlwaysHashMeansRoutes`, `AlwaysAdmittedReachable`:
  `AdmissionInv` is inductive. It adds that every instance was admitted with a valid
  URL and carries the hash of its command, that the service's hash stands for the
  stored routes, and that a call under the configuration of its instance passed the
  first check. `CleanStaysUnder` is the heart of the first: one more round of trimming
  keeps a path under a prefix that needs none.

`SignatureNonceProofs`, for any calls, threads, skew and grace, from
`NonceAssumption`:

- `NonceTypes`, `Once`, `Kept`: they are inductive with the fact that an attempt
  under way holds a clock reading no later than the clock and an expiry that outlasts
  its timestamp's window.

`AccountsProofs`, for any users, sessions, threads, TTL and clock, from
`SessionsAssumption` and `NoRowAssumption`:

- `AlwaysOneActivePerLogin`, `AlwaysLogoutEnds`, `AlwaysRefreshedInTime`: together
  with `TypeOK` and `LoginsExist` they are inductive (`Inv`). `LoginsExist` says that
  a session is of the same user as the one its chain began with, which is why a
  logout, which goes by users, ends whole chains.
- `ImplementsChains`: a login begins a chain at a session that was in none, a
  refresh advances one from its only active session, and a logout takes the tip of
  those chains whose sessions it revokes.

and of the whole service, for any people, names and both TTLs, with
`AccountsAssumption` and `NoUserAssumption`:

- `AlwaysAccountsType`, `AlwaysAnswersOwner`, `AlwaysAccessEnds`: `AccountsInv` is
  inductive. It says of every request what it has learned so far and still may rely
  on (`Knows`): a registration or login past its query has a user of its own person
  (`EntryKnows`), a request with a token has a session that exists and, if it is an
  introspection, came in while the token was valid (`TokenKnows`). What it rests on is
  that names are unique (`NamesUnique`), which makes two registrations of one name
  that both found it free harmless, and that no session, nor the expiry that a login
  or refresh under way holds, is later than one TTL after now, or after the end of its
  login (`IssuedBefore`). The second half is what `AccessEnds` needs: a refresh that a
  logout overtook must not have prolonged what the access token is measured by.
- `ImplementsSessions`: each step of a request is one step of `RefreshSessions` or
  none. `ServiceSessions` takes the theorems above over to the service.

`GatewayRequestProofs`, for any requests, users, policies, roles, articles and pages,
any number of copies and any width of the machine's integers, from
`GatewayAssumption`, `BlogAssumption`, `NoRequestAssumption` and `NoArticleAssumption`
(roles are numbered, as the slice they stand for is):

- `AlwaysGatewayType`, `AlwaysAuthorIsCaller`, `AlwaysAnswerTellsTruth`,
  `AlwaysPageCoversTotal`: `GInv` is inductive. It relates the two ends of a request:
  what the client is told comes from the handler of the last copy (`Told`); of the
  deliveries of one request the plugin accepts one, as long as it has not forgotten the
  nonce (`AcceptedOnce`); an article was written by a handler that ended with 200, or
  with 500 when its commit was reported as failed (`ArticlesKnown`); a handler that
  creates has a user whom the policy let pass (`RequestKnown`); and a count is never
  more than what is published later (`HandlerKnown`). `AnswerTellsTruth` is not
  inductive by itself: that a refusal means nothing was written rests on every late
  delivery being refused, which is `AcceptedOnce`.
- `LeastOf`: a set of natural numbers has a least one. The roles of a token are gone
  through in order, and the first that is permitted decides (`DecisionEntitles`); that
  there is a first one follows from the order of finite sets by inclusion being
  well-founded. `OnPageGrows` says that a page does not shrink when the total grows,
  where offsets wrap around, too.

`MigrateProofs`, for any files, from `MigrateAssumption`:

- `AlwaysMigrateType`, `AlwaysRecordedPrefix`: with `RunFits`, by which the versions a
  run upwards has left follow those recorded, and those a roll-back has left are the
  last ones recorded.
- `AlwaysRefusedOnlyAltering`, under `RepeatableFiles`: each file that alters no table
  drops IF EXISTS, and creates IF NOT EXISTS or a table that it dropped before and has
  not created since. `RepeatInv` adds that what the file under way has dropped is gone
  (`DroppedIsGone`).
- `RepositoryRefusedOnlyAltering`: the twelve files of the repository
  (`RepositoryFiles`) satisfy `RepeatableFiles` (`RepositoryRepeatable`), so the
  hypothesis is discharged for them; the one that alters a table is the third.
- `AlwaysSuccessMeansCurrent`, under `ConvergentFiles`: for each table there are sets of
  what it may be while the first n versions are recorded (`ok[n]`) and of what it may
  be at any time (`all`), such that an up file started on any of `ok[n - 1]` ends in
  `ok[n]` or is refused and leaves nothing that it could not be started on again, that
  a down file makes what it names right from anything in `all`, and that nothing but
  the schema that the files describe is right in the end (`ConvergesAt`).
  `ConvergeInv` adds to `IInv` that each table is in these sets (`Settled`), that the
  run under way is as far as its file has come (`Progress`), and that what is being
  undone is still recorded (`Books`). `SuccessMeansCurrent` alone says nothing of a
  schema between two statements. `TablesCurrent`, which follows as well, says more of
  a success after an unfinished roll-back: only the tables that it names are spoiled.
- `RepositorySuccessMeansCurrent`, `RepositoryTablesCurrent`: the repository's files
  satisfy `ConvergentFiles` (`RepositoryConvergent`). What a file does to a table is one
  of three things: it leaves it, it makes sure that it is there (`Ensures`), or makes
  it one thing from whatever it is (`Empties`, `Rebuilds`); the files are put together
  of such parts (`FillsOn`), and each table has one of four lives (`CreatedOnce`,
  `RegistryLife`, `NoncesLife`, `InstancesLife`). Only the third file needs refusals:
  it adds a column and an index that may be there already, and the database then
  refuses it rather than let it go on (`HardeningInstances`).
- What a file makes of a schema (`Executed`), and all files of the empty one
  (`Built`), are recursive functions. That they are what they say (`ExecutedDef`,
  `BuiltDef`), and that a proof outline of a file tells what it makes of a table
  (`RunsExecuted`), is induction, done without the library's theorems on it, which
  take an operator that no prover here can instantiate: a set of natural numbers has
  a least one (`Least`, from the well-foundedness of inclusion on finite sets), and
  the least number at which the claim failed would not be one.

### Only model-checked

- `Reregisters`, `ExpiredPruned`, `EveryRequestEnds`, `EventuallyCurrent`,
  `EveryEventRead`, `DirectoriesWatched` and `ClosedEnds`: liveness under fairness,
  which needs ENABLED and is out of reach of TLAPS 1.4. `StorageWatcher` promises
  nothing but liveness, and so has no theorem.
- `ReregistersOnMismatch` is refuted, by the run `mismatch`.

There are no RECURSIVE operators in the modules.

## Plan

Done: every component that keeps state under concurrency or failure has a module,
every invariant a proof, and the compositions implement what they are composed of.
What would add most next, in this order:

1. More action properties beside `ShutOutUntilReadmitted`: that a login and a record
   of the migrator change only in the ways their handlers allow.
2. `Admission` and `SignatureNonce` composed with `ControlPlane`, so that a call is
   one behaviour from its signature to its rows.
3. Two main services over one set of tables, each with a cache of its own.
4. `Shutdown` with the two loops and the database under them.

## Not modelled

The components that `PROJECT.json` marks `not_modelled` or `partly`, with the reason
there: configuration, logging, translations, the command line and the OpenAPI tooling
are sequential and keep no state of the running system; the rate limiter and the
circuit breaker are libraries; Casbin's decision is a constant (`Permitted`). Of the
modelled components: the audit table and the metrics, the listing queries (which change
nothing), the round-robin counter, `HeartbeatRunner` (the loop of `LifecycleRunner`
without registrations), the storage calls besides the watcher, and the blog's own
migration runner.
