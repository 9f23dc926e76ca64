# SubForge: models, checks and proofs

SubForge fetches proxy subscriptions through plugins, stores the nodes, and
exports them as profiles behind read-only links. A Rust core (`apps/core`,
`crates/*`) serves an HTTP API on several threads over one SQLite connection; a
Tauri shell (`apps/desktop`) starts the core and shows it. This directory holds
TLA+ models of its parts, the TLC runs that check them on small instances, and
machine-checked proofs for the refresh engine, export tokens, the export cache,
plugin installation, the desktop shell, authentication, the source service, and
the way of the nodes through parsers, aggregator and exports.

## Inventory

| Part | State | Operations | What is hard | What makes it correct |
| --- | --- | --- | --- | --- |
| Refresh engine (`app-core/engine.rs`, `refresh_registry.rs`, `fetcher.rs`; `app-http-server/handlers/sources.rs`, `handlers/profiles/write.rs`; `bootstrap.rs`) | `refresh_jobs`, `node_cache`, routing templates, the set of sources being refreshed | refresh a source, refresh a profile's sources, delete a source, recover at start | dropped futures, panicking tasks, crashes, deletion in the middle, failing statements | one refresh per source, one running row, verdicts that are true and final, nothing kept for deleted sources |
| Export tokens (`engine.rs`, `export_token_repo.rs`, `handlers/profiles/tokens.rs`, `headless/token.rs`) | `export_tokens`, the clock | create, rotate with grace, validate, delete, headless start | racing rotations, expiry as text, crashes in a start | one primary per profile, grace honoured and ended |
| Profile export (`handlers/profiles/*`, `state.rs`) | TTL cache of loaded profiles | load, invalidate, expire | loads that overlap writes, writers that do not invalidate | stale entries have a known reason and end |
| Plugin installation (`plugin_install.rs`, `handlers/plugins.rs`) | `plugins` rows, directories | install, upgrade, roll back, delete | file system and database are not one transaction | row and directory agree, nothing is lost |
| Source service (`source_service/*`), script executor (`script_executor/*`), secret stores (`app-secrets`) | `source_instances` with configuration and script state, the secrets of a source's scope and of the legacy scope | create, update, delete, migrate legacy secrets, run login/refresh/fetch, set a secret | secret store and database share no transaction; whole-row write after a long await; a file rewritten for one key; a key index beside the entries | calls are all or nothing, placeholders are true, deleted stays deleted |
| Headless configuration (`headless/apply.rs`, `headless/token.rs`) | settings, plugins, sources, profiles | synchronise with a file | interruption anywhere, names changed over the API | repeating it converges |
| Authentication, limits (`middleware.rs`, `state/security_limits.rs`), admin token (`handlers/settings.rs`, `security.rs`) | windows per key, the token in memory and on disk | allow, record a failure, cool down, clean up, evict, rotate, load | locks taken one after the other, a bound on tracked keys, file and memory changed in turn | rate and guesses bounded, nobody refused without cause, the owner's token works |
| Fetcher, parsers (`app-core/fetcher*`, `parser/*`), transport (`app-transport`) | cached nodes, routing template | request, retry, decode, parse | misbehaving servers, a dozen formats | every fetch ends, what is read is what was sent |
| Aggregator (`app-aggregator`), transforms (`app-transform`), template export | none | deduplicate, rename, group, render | names and members must agree after every renaming; what one side writes the other must read | nodes, encryption, credentials and groups survive |
| Desktop shell (`core_manager*.rs`, `tray.rs`, `main.rs`) and front end (`core-connection-provider.tsx`) | the child process, its token, the event bridge, what the window shows | start, stop, ask, stream, close | the lock is released at every await; processes die; events are late or never come | one owner per core, no token outlives its core, the window ends up right |
| Plugin runtime, settings and logs API, storage | see `PROJECT.json` | | | |

The parts interact through the database (every statement or transaction is
atomic: one connection behind a mutex), through three in-memory structures of
the server (the refresh registry, the profile cache, the security windows),
through the plugin directory and the data directory (its lock, the token file,
the secret file), and over HTTP: the desktop shell is a client of the core, and
an instance may subscribe to the export of another. Handlers are futures: a client that goes away
drops the handler at its await, which stops everything the handler runs itself
but not a task it spawned.

## Modules

| Module | Models | Run(s) |
| --- | --- | --- |
| `RefreshEngine` | refresh engine with its callers | `RefreshSafety`, `RefreshFaults`, `RefreshAutoStart` (via `MCRefreshEngine`) |
| `<Module>Proofs` | theorems about `RefreshEngine`, `ExportTokens`, `ProfileExport`, `PluginInstall`, `DesktopCore`, `AdminAccess`, `SourceService` and `Relay`, one module each | tlapm |
| `ExportTokens` | tokens of profiles | `Tokens`, `TokensConfigured` (via `MCExportTokens`) |
| `ProfileExport` | the export cache and its writers | `Exports` (via `MCProfileExport`) |
| `PluginInstall` | one plugin's row and directories | `Plugin`, `PluginAttached` (via `MCPluginInstall`) |
| `SourceService` | sources, their secrets, scripts and the headless sources | `Sources` (via `MCSourceService`) |
| `SecretMap` | what the `SecretStore` trait promises; `SourceService` implements it | `Sources` (`StoreIsMap`) |
| `AdminAccess` | rate limits, failed authentications, the admin token | `Server` (via `MCAdminAccess`) |
| `ShareUris` | nodes, and the share URIs of eleven protocols, parsed and built | `Relay` |
| `ClientConfigs` | their form in Clash, sing-box and INI configurations; extends `ShareUris` | `Relay` |
| `Aggregation` | deduplication, naming, templates and groups; extends `ClientConfigs` | `Relay` |
| `NodeTypes` | the types of texts, nodes, items, groups and payloads; extends `Aggregation` | `Relay` |
| `Relay` | fetch, parse, cache, export, and the next instance; extends `NodeTypes` | `Relay` (via `MCRelay`) |
| `DesktopCore` | the shell's core manager, event bridge and window | `Desktop` (via `MCDesktopCore`) |

Definitions introduced as *mutant* stand for plausible bugs of the definition
that follows. No specification uses them; `PROJECT.json` names the property
each of them breaks.

### RefreshEngine

A worker is a request that may be inside `Engine::refresh_source`; its `pc`
walks the statements of the function: `load` (source and plugin), `takeover`
(rows left running are failed), `insert` (its own row), `fetch` (the only
await), `template` and `set` (routing template), `cache` and `upsert` (nodes),
`success` or `failed` (the verdict), `release` (the guard's drop). `trig` tells
the two callers apart: a source refresh (`manual`) runs in a spawned task, so
`Disconnect` only clears `attached`; a profile refresh (`manual-profile`) runs
inside the handler, so `Disconnect` drops it at its await and the guard with
it. `Panic` unwinds the fetch; if the handler of the task still waits it goes
on to `aborted` and fails every running row of the source, since it does not
know the job's id. `DeleteSource` cascades to rows and nodes and deletes the
template in a step of its own. `Crash` clears what is in memory; `Restart` is
`recover_incomplete_refresh_jobs`. `Faults` says which of storage errors,
crashes, leaving clients and panics may happen; ids of jobs and sources are
timestamps, so one is used once.

The download, its retries, and script stages are one `Fetch` step with every
outcome; a body is `routing`, `plain` or `garbled`, which is all that the later
statements distinguish.

### ExportTokens

Time is counted in half seconds, because expiry is compared as RFC 3339 text,
in which `:07.5Z` sorts before `:07Z`; `TextBefore` is that order. A rotation
request reads the clock and draws its token in `StartRotation` and runs its
transaction in `CommitRotation`. A headless start is `Restart`, `BootProfile`
and `BootToken`, and may be interrupted between them. `configured` is the
configuration's `export_token`, the same at every start; `promised` remembers
the deadline that a rotation's response gave. Profile names given by the API
are taken to be distinct from the configured one (a headless start refuses a
database with two profiles of one name: listed under hazards).

### ProfileExport

An export is `Authorize`, `Lookup`, then for a miss `ReadProfile`,
`ReadMembers`, `ReadSource` for each source, `Insert`. A management request
writes, lists the profiles concerned and invalidates them, each in a step of
its own and in the order of its handler. The nodes of a source are a version
number. `excused` is a history variable: it marks an entry (or a load under
way) for which one of the four causes named at `StaleIsExplained` happened.
A handler that has written may find no list of profiles to invalidate and end
there (`ListFails`); a refresh that fails after its write does not look for one
(`AbandonedRefresh`).
Aggregation and rendering of an entry are pure: they are the subject of
`Aggregation` and `Relay`.

### PluginInstall

Every file-system call and statement is a step. A directory is a version and
whether it is whole, since a failed `remove_dir_all` may leave a part. `env` is
the scenario of a behaviour (which operations, one request at a time or not,
how many calls fail, crashes), chosen at the start from `Scenarios`, so that
one run covers several circumstances and each property names those it is
claimed for. Names of staging directories hold a nonce: what an earlier request
left stays on disk in `left`.

### SourceService and SecretMap

A worker's `task` is a call in progress: what it was asked, what it read
(`seen`, `had`, `eff`), and the store calls it still has to make (`todo`, a set
of calls that each have a place: equal places are called in any order, as the
keys of a hash map are). The
transaction of an update and the insert, configuration and deletion of a source
are one step each; every call of the secret store is one step in memory and in
the environment, two under the file store's mutex (load, save), three in the
keyring (entry, index read, index written). `DbFails` and `StoreFails` are the
same steps failing, with the undo that the code then runs; a failed
`set_permissions` leaves the new file in place. A call that finds its source
gone when it writes the configuration fails at the foreign key, or, when the
configuration has no key besides the secrets, goes on to those. A script run migrates secrets,
passes its stages, may call `secret.set` once, and saves a state by writing back
the row it read. A start applies the configuration file before it serves; a
start that fails ends the process, and a process that died starts again.

A configuration or a secret is the number of the call that wrote it. `ack` is
what the callers were last told and `mixed` marks the sources on which calls
overlapped, an undo itself failed or the process died in a call: `CallsAreWhole`
and `MaskIsTrue` are claimed for the others. The overlaps stay in the model:
two updates may mix row and secrets, and a script's save may undo a rename.
Encryption of the secret file is exact in both directions and left out.

`SecretMap` is the abstract specification: a map of which one call changes one
entry, kept by a restart or, in a volatile back end, replaced by what the
process starts from. The refinement (`Store == INSTANCE SecretMap WITH ...`)
maps it to `get`; a file rewritten as a whole must not lose another call's
entry, and an entry of the keyring appears before its index does.

### AdminAccess

A request passes the rate limiter (`Arrive`), the cooldown check
(`InCooldown`), the token comparison (`CheckToken`), and the record of a failure
or the reset: each takes its own lock and is its own step. A management request
is limited by peer, a read by its token. `Cleaned` and `Victims` are the cleanup
and the eviction at `MAX_TRACKED_KEYS`; of several oldest windows any may go,
since the code picks by hash order. A rotation is `Persist`, `Swap`, `Forget`,
and `Stop` may come between them or leave a half-written file; `Start` is
`load_or_create_admin_token_with_override`. Tokens are numbered in the order
they were generated, and 0 is an empty file. `passed` and `tried` are
histories: when requests got through, and when a peer showed a wrong token since
its last right one (or since its window was evicted). `torn` marks a rotation
that failed, was cut short or overlapped another: after it nobody can say which
token the owner has seen, and `TokenSurvives` claims nothing until the next
start.

### ShareUris, ClientConfigs, Aggregation, NodeTypes and Relay

A node is the `ProxyNode` of `app-common`; its `extra` map is kept key by key,
because parsers and builders disagree exactly there. Values are constants,
except texts that are escaped on the way: a text is its parts and how often it
has been percent-encoded, so that a missing or a second decoding shows. An
address is one of `dns`, `DNS`, `v6`, `[v6]`. Base64 around a part is undone
exactly and left out, and so are aliases of one parameter, comments, rules and
DNS sections. Each format has a builder (`build_share_uri`, `build_clash_proxy`,
`build_singbox_node_outbound`, `node_to_ini_line`), what it requires
(`Builds`), its parser, and what the parser requires (`ItemParses`).

`Aggregation` is the aggregator, the join with the nodes of the template's
source, and the groups. Names are sequences of parts, so that `X (s2)` and
`X (s2) #2` are told apart from `X`; a number is the part `#` and tallies
(`Labelled`, `Numbered`). A filter of the code (`retain`, `filter_map`) is
`Picked`, the elements at a set of places.

`NodeTypes` says what a payload is: what a subscription may serve and a parser may
leave. Its conditions are those of the formats themselves: a proxy has the
credentials of its protocol and no others, each one text; the protocols without
TLS (ss, ssr, WireGuard) carry no field that turns it on; a port is above zero
(0 stands for a URI without one); an ss or ssr line names its credential. Nothing is asked of the values, and required
fields may be missing: items that lack them are what the parsers skip. `Relay`
names the assumptions that follow for its constants: payloads are well-formed,
what joins an instance leaves `s1` to the export, and stored templates came from
Clash documents, the only ones an earlier version read. The order in which a
profile lists its sources is the constant `Order`.

`Relay` runs them: `Request` (with retries after 429 and 503 in the browser
profiles), `Store` or `Reject`, `Export` in one of four formats with or without
a template, and `Subscribe`, by which the export becomes the source of another
instance, alone or beside a source of its own. A server marked flaky may answer
any status, a wrong content type, an error page, an oversized body, or a body
whose encodings do not fit its header. `was` keeps what was exported.

The properties name the exceptions that the code has, so that what they say is
exact: a URI's user part is read back still encoded; a name with a separator
breaks an INI line; Socks5 and HTTP proxies lose their password in Clash and
sing-box; an SSR line with an IPv6 address is not read back; a Trojan node
without TLS comes back with TLS; a numbered name may collide with an equal name
(although a comment at `region.rs:47` says numbers make names unique); a
template member that names none of its own source's nodes dangles.

### DesktopCore

An actor is a run of the window's bootstrap effect, its heartbeat, the setup
hook that may preload the core, or someone who closes the window or uses the
tray. Each runs the commands of `CoreManager`; a command's `pc` moves from one
critical section or awaited exchange to the next, `tok` is the token it read
before its await, and `hand` the process it holds outside the shared state. A
core process is starting, serving, closing or exited; the lock of the data
directory lets one of them serve. The bridge's tasks send `connected` and
`disconnected` through `inbox` to the window's listener. The shell may start
beside a core that an earlier session left.

A core may die at any moment, also between its bootstrap line and
`store_started_child_state`: with two overlapping starts the dead child then
displaces the running one (`core_manager.rs:251`). `NoOrphan` is therefore
claimed for one run of the bootstrap effect, which is what a build without
React's strict mode has; `LostOnlyToDead` says what holds of any number: a
running child drops out of the state only to a child that had exited when it
was stored.

Left out: failures of the operating system to terminate a process, and
overlapping heartbeats, since a round's requests end before the next timer.

## Runs

| Run | Bounds | Shows |
| --- | --- | --- |
| `RefreshSafety` | 2 sources, 2 workers, 3 jobs; crashes, leaving clients, panics | types, `OneRunningRow`, `RegistryExact`, `OnlyAbortedHandlerFailsWork`, `SuccessMeansCached` |
| `RefreshFaults` | 1 source, 2 workers, 3 jobs; storage errors too; fair | `NothingForDeletedSource`, `VerdictsStand`, `NoZombieRow`, `EveryRowFinishes`, `GuardReleased` |
| `RefreshAutoStart` | as named in the cfg; fair | violated: no source is refreshed after a start, although the guide says `auto_on_start` does so |
| `Tokens` | 3 profiles, 4 tokens, 2 rotations, 7 half seconds, grace 4; fair; 579,068 states | types, `OnePrimary`, `GraceExact`, `TokenNeverMoves`, `StartsAgain` |
| `TokensConfigured` | 2 profiles, 4 tokens | violated: after an API rotation the configured token cannot be inserted again and the start fails |
| `Exports` | 2 profiles, 1 shared source, 1 export, 2 writers, 1 refresh, TTL 0 (an entry is fresh in the tick it was made in); fair; 1,487,491 states | `StaleIsExplained`, `EventuallyFresh` |
| `Plugin` | 2 workers, 3 versions, 4 rows; three scenarios; 75,709 states | `Recoverable`, `SomeCopyLeft`, `ReturnsInOrder` |
| `PluginAttached` | 2 workers, 2 rows, 1 source | violated: a source is created while its plugin is deleted |
| `Sources` | 2 sources (one exists), 2 workers, 2 secret fields, 4 back ends, 2 calls, 3 calls and faults together; 1,461,606 states | `CallsAreWhole`, `MaskIsTrue`, `DeletedStaysDeleted`, `BootConverges`, `StoreIsMap` |
| `Server` | 3 peers, 2 requests at a time, 4 in all, 2 tracked keys, threshold 1, cooldown 2, 3 tokens, two kinds of traffic; 3,647,019 states | `RateBounded`, `GuessesBounded`, `TokenSurvives`, `RefusedForCause` |
| `Relay` | every protocol with the variants its code tells apart, 4 formats, 3 sources, 2 hops; fair; 122,830 states | `NodesKept`, `TlsNeverDropped`, `CredentialsKept`, `RelaySettles`, `GroupsResolve`, `NamesDistinct`, `FetchEnds` |
| `Desktop` | 2 cores, 2 bridge tasks, 1 window, 1 closer, 1 crash or lost answer; fair; 251,112 states | `NoOrphan`, `TokenHasOwner`, `WindowNotices`, `StreamReturns` |

Why the bounds suffice. Two workers are enough for every pairwise race, since a
step involves the state of at most one other request; three jobs let a row be
left behind, taken over and followed by another. Two sources show that a
refresh of one leaves the other alone. Seven half seconds let a rotation at an
odd half second run out its grace time and one more second. Two writers are
needed for the source that is taken up by a profile while it is being deleted.
Three plugin versions allow an upgrade over a leftover of another. Two calls
and a fault let a failing update meet a script run or a deletion, or a crash
fall into either; the second source is the one a start creates. Three peers and
two tracked keys force an eviction; with a threshold of one and a cooldown of two
both requests can be past the check when it is reached, and again when the
cooldown ends. Two hops show that what the first one changed
stays as it is. Two cores are what overlapping starts need, one upset is a crash
or a lost answer at any step of them.

Larger instances were checked by hand with the same result: `Server` with a
configured admin token (3,502,956 states); the invariants of
`Desktop` with two closers and two upsets (7,662,349 states);
`Exports` with a TTL of 1 (2,640,000), and its invariant with a TTL of 1 and two
versions under symmetry (1,340,000).

Fairness. The runtime polls every task that can make progress, so each step of
a handler or task that has started is weakly fair; a fetch ends because the
HTTP client and the script sandbox have time limits. A service manager (or the
desktop shell) starts a core that died. The window's heartbeat is a timer and
fires; every request of the fetcher has a timeout, so `Relay`'s `Fetch` is weakly
fair; a core that was told to exit does, since the shell kills it after three
seconds. Requests, users, faults and the clock's reader get no fairness, except
that time passes for the cache's TTL. `Sources` and `Server` check no liveness
and assume no fairness. Deadlock
checking is off: a system without requests may rest, and the bounds stop it.

Three runs show disagreements between the code and what the repository says of
it; `PROJECT.json` quotes the lines (`findings`).

## Proofs

Each `<Module>Proofs` proves theorems about its module for all values of the
constants, from nothing but the named assumptions of that module. They say that
the "none" values are no members of the sets beside them, and what the numbers
are: `GraceAssumption` (a whole, positive number of seconds), `TtlAssumption`,
`ScenariosAssumption` (the scenarios are ones that the operations define).
`AccessAssumption` needs finitely many requests at a time and windows that are
kept at least as long as they count, `PluginInstall`'s `WorkerAssumption`
finitely many requests. `Relay`'s are those of `NodeTypes` above: what its
sources may serve is any set of well-formed payloads, with any number of items,
sources and hops. One theorem has a hypothesis of its own: `NoOrphanHolds`
has one run of the bootstrap effect (see `DesktopCore` above).

An invariant is seldom inductive as a run states it. What each module adds, and
why:

| Module | Theorems | What makes the proof go through |
| --- | --- | --- |
| `RefreshEngine` | `TypeCorrect`, `RegistryCorrect`, `TakeOverCorrect` (`OneRunningRow`), `DeletionCorrect`, `SuccessCorrect`, `VerdictsCorrect`, `AbortedCorrect`, `NoZombieCorrect`, `Invariance` | `RegInv`: the registry pointwise, whoever is inside the engine holds its source. `RowInv`: what a worker's job is to it; only a used row has a source, and the row of a fetching call is its source's and never succeeded. `TakenOver`: between takeover and insert the source has no running row, since only the holder may insert. `CacheInv`: a call near its end has its own nodes and template stored, unless the source is gone. |
| `ExportTokens` | `TypeCorrect`, `OnePrimaryHolds`, `TokenNeverMovesHolds`, `GraceExactHolds` | `PrimaryInv`: `RowsInv` (a row's profile is live, its token was drawn or configured), `RotationsInv` (a token drawn by a rotation under way is in no row and in no other rotation, so its insert cannot move one), `BootInv` (between a start's two statements only the headless profile lacks a primary) and `UniqueInv`. `DeadlineInv`: a row has a deadline only if a response promised it, and a promised token loses its row only when that second has come; from it `GraceExact` follows by the order of the text form. |
| `ProfileExport` | `TypeCorrect`, `StaleIsExplainedHolds` | `HandlerInv`: whom a handler works for. `LoadInv`: the same claim for entries being built: a load has read what the database holds, or is marked, or a handler has still to invalidate its profile. |
| `PluginInstall` | `TypeCorrect`, `RecoverableHolds`, `ReturnsInOrderHolds`, `SomeCopyLeftHolds` | `LocalInv`: what a request knows of its own directories. `SoloInv` (one request at a time: what it read is still so), with `KeptInv` for a disk that works and `OrderInv` for one failure: the target is the registered version's except during a swap, when the backup is. `CopyInv`, for racing installs: an install that will remove a target it takes for its own (an undoer) may remove another's, so it counts: there are always more copies that nobody is about to drop than undoers. This is the theorem for which finitely many requests are needed. |
| `DesktopCore` | `TypeCorrect`, `TokenHasOwnerHolds`, `LostOnlyToDeadHolds`, `NoOrphanHolds`, `Invariance` | `BootInv` (who may be starting a core when), `HandInv` (who holds a process outside the shared state), `PidHasToken` and `ChildInv` (a child is stored with what its line said), `CoreInv` (the lock admits one core). `StartInv`: with one start at a time, a start past its check finds nothing stored. |
| `AdminAccess` | `TypeCorrect`, `TokenSurvivesHolds`, `RateBoundedHolds`, `GuessesBoundedHolds`, `RefusedForCauseHolds`, `Invariance` | `RotationInv`: at most one rotation is past the file, and its place tells how file, server and owner differ. `RateInv`: a window's count against the history of its key, for every key that was never evicted. `GuessInv`: a peer's failures against the guesses it made, plus the requests of it that are in flight: each of these may still add one. |
| `SourceService` | `TypeCorrect`, `StoreIsMapHolds`, `DeletedStaysDeletedHolds`, `MaskIsTrueHolds`, `CallsAreWholeHolds`, `BootConvergesHolds` | `Confined`, a lemma and not an invariant: each step touches its own task and its own source only; all else follows for other workers by the frame. `ShapeInv`: what each place in a call has behind it. `FileInv`: whoever is between load and save holds the mutex and has loaded what is on disk. `InsertInv`: a row is inserted once. `AloneInv`: calls on an unmixed source do not overlap. `SubInv` and `IndexInv`: the keyring's index lists the entries there are, but for those a call has still to write. `StoreIsMapHolds` is the refinement: every step of the four back ends is a step of `SecretMap` or none. `CallsInv` follows a call from its first statement to its last: `LocalInv` (what it has still to write, or to put back), `ToldInv` (how row, secrets and what it remembers compare with what the callers were told, while the source is not mixed), `BornInv` (a source without a row has no secrets) and `BootingInv` (a start's call is on the only source of its file's name). A call that ends then leaves what it answers, and one that fails leaves what was answered before. |

| `Relay` | `RelayNodesKept`, `RelayTlsNeverDropped`, `RelayCredentialsKept`, `RelayNamesDistinct`, `RelayGroupsResolve`, `RelayInvariant` | `RelayInv`: payloads, caches, templates and exports are well-formed (`NetOK`, `FetchOK`, `OutOK`), and a relayed source serves what the last builder made of the nodes in `was` (`RelayOK`). The argument is below. |

The invariants in this table were checked by TLC on the instances of the runs
before they were proved. Each has a lemma with one step per action; the
invariance theorem puts them together, and an action property follows from it
and one more step.

How `RelayProofs` goes. The state machine is the small part: `RelayInv` is
inductive, with one lemma per action, and on a state that has it the five
properties are facts about the model's functions.

- *What a format carries.* For each protocol there is a lemma on what its builder
  writes (`WriteSs`, `WriteVmess`, ... for URIs, `ClashItem`, `IniNode`,
  `SingboxItem`) and on what its parser reads (`ReadSs`, ...). Together they say what
  comes back of a node in each format (`KeptUri`, `KeptClash`, `KeptSingbox`,
  `KeptIni`): its protocol, one of its endpoints, its TLS and its credentials, up
  to the exceptions of `NodesKept` and `CredentialsKept`. `RoundTrip` is the four
  in one.
- *What aggregation does.* `FoldLeft` is a recursive function on sets of places,
  which takes the greatest first; that it exists, and which step it makes, is
  `FoldExists` and `FoldRun`, by `Induction` on the number of places.
  From it follow `PlacesAll` and `PickedAt` (a filter keeps just what it should, in
  order), `DedupedIn`, `RenamedConflicts` and `PushedAll`: what a fold's result
  has at every step of it.
- *Distinct names.* A label ends in a bracket and a number in a tally
  (`NumberedOnce`), so two numbered names are equal only if their names and
  numbers are, and numbers differ among equal names; what remains is a number
  that meets a name a node came with (`Resolved`, `DistinctNames`). In
  `rename_appended_conflicts` the search for a free number ends because the
  names in use are fewer than the numbers tried (`FreeNumber`).
- *Groups.* `GroupFilled`: a member of a rendered group is a member of the
  template's group or a candidate. A candidate is a node of the export; a member is
  a policy, a group, or the name of a node of the template's source, whose nodes
  come first and keep their names, or it dangled already (`ResolvedGroups`).

The proof found `NamesDistinct` too generous: its second exception used to admit
any name of a number's shape, and now admits only one that a cached node has.
And it made the assumptions on payloads explicit: a Trojan proxy with a stray
`uuid` loses it in a URI, a Shadowsocks proxy with a TLS field loses that.

Two properties that the runs had claimed turned out stronger than the code is,
because the instances were too small, and were corrected: `NoOrphan` with
overlapping starts, and `GuessesBounded`, which had allowed one guess too few
for requests in flight at a cooldown of two ticks or more.

Only model-checked: liveness (`EveryRowFinishes`, `GuardReleased`, `StartsAgain`,
`EventuallyFresh`, `WindowNotices`, `StreamReturns`, `FetchEnds`), which is
beyond the proof system; and `RelaySettles`, which holds of the payloads of the
run and not of all: a name that the server encoded twice loses one level with
each hop, so the second hop still changes it.

## Not modelled, and what is left

`PROJECT.json` lists every part with its status. Not modelled: the layout of
exported documents and the rules and DNS sections copied into them; the Lua
interpreter, its limits and its pure libraries; validation of configurations and
manifests, which rejects before anything is written; user agents and TLS
settings of the HTTP client; log queries and single-statement settings; pages
and forms of the window; opening and migrating the database.

Known behaviour of the code that the models contain and no property rules out,
because nothing in the repository promises otherwise:

- a routing template written after its source was deleted stays
  (`fetcher/routing_template.rs:36`);
- a plugin directory without a row after a crash makes installs refuse
  (`plugin_install.rs:125`), and a deletion by an id read earlier removes the
  directory of an upgrade (`handlers/plugins.rs:122`);
- overlapping updates of one source mix row and secrets
  (`source_service/ops.rs:169`), and a script's late write leaves a secret of a
  deleted source (`ops.rs:213`);
- two sources or profiles of one name make a headless start refuse
  (`headless/apply.rs:125`, `:176`);
- quit-and-stop during a boot leaves the core that is launched afterwards
  running (`tray.rs:116`); two calls may open two bridges
  (`core_manager_events.rs:196`); after a rotation by another client the shell
  reports its core as not running (`core_manager.rs:126`);
- an error page with status 200 empties a source's cache (`fetcher.rs:303`); one
  node that a format cannot carry fails the whole export (`base64.rs:19`); one
  sing-box outbound without an endpoint or a key its protocol requires fails its
  payload (`routing_template_singbox.rs:36`);
- two overlapping starts of the shell (React's strict mode runs the bootstrap
  effect twice in development) may store a dead child over the running one
  (`core_manager.rs:251`), which then is nobody's;
- requests that passed the cooldown check together each record a failure, so a
  peer has `AUTH_FAILURE_THRESHOLD` guesses plus two for every other request
  that may be in flight, where the threshold alone suggests itself
  (`middleware.rs`, `security_limits.rs`).

Proofs worth adding: `RelaySettles` for texts encoded at most once, which needs
every other field of a node through a builder and its parser, not only its
endpoint, TLS and credentials.
