# Formal models of oc-codex-multi-auth

The plugin rotates several ChatGPT accounts behind one OpenCode provider. What
can go wrong in it is seldom in one function: refresh tokens are single-use and
shared by processes, an account record lives in two files and in the memory of
several managers, saves are debounced, every lease can be lost by a process that
slept, quota is judged from three sources of different age, and a migration to
the keychain can stop half-way. This directory holds TLA+ models of those parts,
their TLC configurations and TLAPS proofs. Source references are to paths of the
repository; line numbers are those of the commit the models were written from.

## 1. Inventory

| Component | State it keeps | Hard behaviour | What makes it correct |
| --- | --- | --- | --- |
| Coordinated refresh (`lib/storage/coordinated-refresh.ts`) | refresh lease, one record per account in the accounts and in the flagged store, one journal per consumed token, the session's copy | crash at every await, lost replies, lost leases, failing transactions, writers without the lease | a stored token is live or leads to the live one; no consumed token is presented again; tokens never move backwards |
| Leases (`lib/storage/transaction-lock.ts`) | a lock directory and its mtime, each holder's own mtimes and last proof | stalls longer than the stale window, death, two contenders breaking one directory, late file calls | at most one process verifies; a live directory is not removed by others; a dead one is broken in time |
| Debounced saves (`lib/accounts/persistence.ts`, `lib/shutdown.ts`) | debounce timer, `pendingSave`, mutex queue, cleanup hook | overlapping saves and flushes, failing saves, drains, replacement with a save queued | the disk never rolls back; an armed timer is hooked; every change gets out |
| Merge on save (`saveToDisk`) | the list on disk, each manager's copy, marks, stamps, tombstones | stale and replaced managers, stamps as the only order | newer credentials win, removed accounts stay removed, operators' choices and running blocks survive |
| Circuit breaker (`lib/circuit-breaker.ts`) | state, failure times, last change, probe slots | verdicts of requests admitted long ago, probes that never report | one fresh probe at a time, fixed cooldown, the gate reopens |
| Request pipeline (`index.ts` 3182-4475, `lib/request/*`, `lib/codex-credits.ts`) | per fetch: attempts, budgets, pass; shared: buckets, gates, blocks, failure counts | budgets against rotation, changes during waits, two fetches on one login | every fetch ends; an account is disabled on the provider's word; a pool answer means the pool was tried |
| Selection and health (`lib/accounts/rotation.ts`, `state.ts`, `lib/rotation.ts`) | pool order, cursor, current, trackers by position | removals and reloads under requests in flight | trackers follow their account; nobody is passed over for ever |
| Error verdicts (`fetch-helpers.ts`, `quota-windows.ts`, `rate-limit-backoff.ts`) | blocks, backoff | copied quota headers, answers handled out of order | a long block has a real cause; a spent account stays blocked |
| Request body, model choice, response (`request-transformer.ts`, `model-map.ts`, `response-handler.ts`) | the history, the fallback chain, the reader | trimming a conversation between turns, chains of fallbacks, streams cut anywhere | calls and results stay paired; the wire is acceptable; an answer is read as sent, or given up |
| Session recovery hook (`lib/recovery.ts`, `lib/recovery/*`) | message parts, messages under repair | two handlers about one message, a session that goes on | a repair is of the message complained about, once |
| Refresh queue (`lib/refresh-queue.ts`) | pending exchanges, recent rotations | eviction of a call in flight, late settlement | one exchange per token |
| Account and flagged stores (`lib/storage/load-save.ts`, `keychain.ts`, `flagged.ts`) | JSON file, keychain entry, markers, legacy file | failure or death between any two steps of a migration | a load returns the last saved pool; a clear spares what was flagged later |
| Manager cache (`index.ts` 1926-2250) | cached manager, shared load, watcher, retry | late loads, empty reads, tools that overlap requests | the manager at rest is current; what is replaced is retired |
| Quota alerts and guard (`lib/quota-notifications.ts`, `codex-usage.ts`, `codex-reset.ts`) | state file, claims, stored block, credits | several processes, failed deliveries, readings older than the record | one announcement per crossing; one credit per spent week; blocks only lifted by newer evidence |
| Status line (`tui.ts`, `tui-quota-cache.ts`) | shared, session and process caches | slow answers beside polls, rotated tokens, a switch of account | a reading is no older than its stamp; the line settles |
| Pool line (`tui-quota-overview.ts`, `tui.ts`) | overview cache file, the line of each terminal | passes of several terminals over one file, accounts that cannot be read, a pool that changes | a reading is no older than its stamp; nobody is dropped or shown another's numbers |
| Custom rotation (`lib/custom-rotation/*`) | policy children, observations, poll times | a child that is killed while it answers; polls beside redemptions, headers, moves and disposal | what is served may serve; slots come back; observations are honest and spaced |
| Worktree lock (`lib/storage/worktree-lock.ts`) | the lock file, the warnings given | read, truncate and write are separate calls; shutdown beside a check | a live session's lock gives way without a word only in a race |
| Prompt caches (`lib/prompts/*`) | memory, text file, meta file | shared files, failed writes, restarts | a text passes only for its own source and version |
| Sign-ins (`lib/auth/*`, `login-runner.ts`) | loopback listeners, sessions, the pool | concurrent sign-ins, abandoned ones, records with missing ids | a login lands on its own seat; the port is given back |
| Pool tools and order of the pool (`lib/tools/codex-*.ts`, `storage/normalize.ts`, `identity.ts`, `export-import.ts`) | the pool file, its indexes, the account picked | other sessions saving between the look and the edit, duplicates merged on every load and save, indexes into a list that shrinks | no seat lost, nobody enabled unasked, indexes follow their accounts, a saved pool is in order |
| Account check (`index.ts` 4880-5430) | snapshot, verdicts | seconds on the network between snapshot and merge | no account lost, no token of another's |
| Settings file (`lib/config.ts`, `codex-pool`) | text, stat, process caches, lock | an editor and two processes | a request is routed by what the file said |
| Installer and update (`scripts/*-core.js`, `auto-update-checker.ts`) | config files, host cache, check file | killed anywhere, run again, files edited meanwhile | nothing of the user's is lost; the plugin loads once; a promised update comes |

How they interact: the **pipeline** shapes the **body**, chooses a **model**, lets
the **rotation** pick an account, asks its **breaker**, and refreshes through the
**coordinated refresh**, which takes the **refresh lease**, opens short
transactions (process mutex, then **storage lease**) on the two **stores**, and
calls the **refresh queue** for the exchange. The result is copied into the
**manager's** memory and reaches the list again through a **debounced save** whose
**merge** must not undo what others wrote. What the provider answers becomes an
**error verdict**, a block, and a reading for the **status line**; the **guard**
writes and lifts the same block from usage reads. Sign-ins, the check and the
tools write the same records in transactions of their own, and the **manager
cache** replaces the manager when they did.

`PROJECT.json` lists every component with its sources, status and what is left
out, and every hazard at the line where it bites.

## 2. Modules and how they correspond to the code

| Module | Models | Actions |
| --- | --- | --- |
| `CircuitBreaker` | one breaker with its time stamps turned into ages, and the requests through it | one per call of the gate and of each verdict, `NoVerdict` for the paths that end without one, `Tick` |
| `Gate` | what a breaker promises, without counters: closed, cooling, ready, probing | operators, and the state machine that `CircuitBreaker` implements |
| `CoordinatedRefresh` | one account's refresh by several processes | one per await of `coordinateRefresh`; `Crash`, `ExpireAccess`, stolen leases; `Remove` and `Quarantine` for writers without the lease |
| `StorageLease` | the lease under both | one per file call of proper-lockfile through the shim, `Crash`, `Tick` |
| `DebouncedSave` | when a manager's state is written | `Change`, `TimerFires`, `Merge`, `Settle`, flush, disposal, drains |
| `AccountMerge` | what is written | the three steps of `saveToDisk`; refresh, tools, login, menu, retire and load |
| `RequestPipeline` | the fetch of `index.ts` from its first selection to its answer, several at a time; imports `Gate` | one per await or branch: selection, credits turn, refresh outcomes, bucket, gate, every kind of response, retries, degradation, waits; lapse of blocks, operator changes |
| `Rotation` | the order in which accounts serve; trackers by position | `Pick`, `Consume`, `Serve`, `Fail`, `Limit`, refills, `SetActive`, `RemoveAccount`, `Reload`, other processes |
| `ErrorVerdict` | what an answer says of its account | answers sent, handled in any order, by the branches of the handler |
| `RequestBody`, `ModelChoice`, `Responses` | the items, the model, effort and tier, and the reading of the body | turns of a conversation; build and fallback; chunks, stalls, deadlines |
| `RecoveryHook` | `handleSessionRecovery` and its repairs over the stored parts | one per wait for the host |
| `RefreshQueue` | single flight per token | `Ask` (join, reuse or start), `AskUnqueued`, `Provider`, `Settle`, `Tick` |
| `AccountStore`, `FlaggedClear` | a store over file, keychain entry, markers, legacy file; the clear with a cutoff | one per step of load, save, clear, rollback, each with its failures and `Crash` |
| `ManagerCache` | which manager requests use | fetches, invalidation, external changes (a reload may be rejected; the watcher gives up after three), empty reloads and the retry with its own incumbent, the tools' reload |
| `QuotaNotify`, `QuotaGuard` | alerts; the stored block and credits | check, claim, deliver, give back; load, read, conclude, redeem |
| `StatusLine`, `PromptCache`, `ConfigFile` | three caches over shared files | the steps of their refreshes, polls and writes, with faults |
| `PoolReadings` | the readings of the pool's line, from the endpoint and the last response, through the shared file | a pass step by step: cache, storage, one read per account, write, merge; the world: requests, dead logins, new ones, moves |
| `CustomSelection` | the choice by a policy of the user's in a child process | `Select`, `Choose`, `Attempt`; the events of the child, in any order; blocks, reloads, moves, aborts |
| `RotationMonitor` | the observations a policy is given | timer, load, chunks of two, credentials, answers, `Refresh`, `Dispose`; responses, redemptions, moves |
| `WorktreeLock` | the advisory lock beside the accounts file and its warning | one per file call of a check and of the release; `Tick`, `Crash` |
| `PoolTools` | what a load and a save make of the pool; the tools that edit, export and import it | per tool the user's `PickTo...` and its transaction (`RemoveAccount`, `EnableAccount`, `SwitchAccount`, `LabelAccount`, `NoteAccount`, `TagAccount`); `ExportAccounts`, `PreviewImport`, `ImportAccounts`, `Refuse`, `Refresh` |
| `LoginMatch`, `LoginFlow`, `AccountCheck` | the record a login lands on; how a sign-in gets there; the long menu jobs | selection and write; authorize, callback, poll, persist; snapshot, per-account work, merge |
| `Installer`, `UpdateCheck` | the commands over the user's config files; the daily check | one per file operation; check, promise, exit |

**Composition.** `CoordinatedRefresh` takes a lease that is held by one process and
may be stolen from a stalled one (hazard `lease_loss`), which is what
`StorageLease` establishes and where it ends. `AccountMerge` takes a save as
snapshot, merge and persist in mutex order, the order of `DebouncedSave`; its
`Exchange` is `CoordinatedRefresh` seen from the record. `RequestPipeline` keeps one
`Gate` per account and family, the abstract machine that `CircuitBreaker` is proved
to implement. The modules `...Proofs` hold theorems and model nothing (section 4).

**Combined instances.** The smaller modules are instantiated together, one TLC run
for a group: `MCServices` (what processes share), `MCRequests` (one request on its
way), `MCOperations` (stores and user commands), `MCLiveness`. In each a variable
`part` says which module a behaviour is of, the generic variables `x1`, `x2`, ... are
substituted for the module's own, and an invariant such as `SharedSafe` is the
conjunction, part by part, of the modules' type invariant and named safety
properties. The constant `Parts` selects parts; `Case` selects a disagreement
(section 6) whose invariant `Refuted` then fails.

Abstractions, and why they are sound for the properties:

- Tokens are numbers in the order the provider issues them. The code only
  compares tokens for equality and orders them by `tokenRotatedAt`; the models
  keep the stamps as state where the code uses them, and use the numbers in
  properties.
- A storage transaction is one step where the module is about something else: it
  runs under the process mutex and its own lease, and its write is a rename. What
  a lost storage lease could do is in `StorageLease`; what a transaction is made
  of is in `AccountStore`.
- `CoordinatedRefresh`, `AccountMerge`, `QuotaGuard` and `ErrorVerdict` are about
  one account; which record an identity resolves to is the subject of `LoginMatch`,
  and which records are one of `PoolTools`, where a token carries the seat the
  provider issued it to and only properties look at it.
- Clocks are ages or small counters; where a module does not compare two times
  (`RequestPipeline`, `Rotation`), a block lapses and a bucket refills at any time.
- Conversions are classified by what the code tells apart: an item of a
  conversation by type, pairing and size class, a line of a stream by its event, a
  model by the parts of its name, a file by its contents' version.
- Hazards are constants: `Hazards`, `Faults` and `Worlds` name what the environment
  may do beyond the ordinary, so that a run says under which its properties hold.
- Ghosts ("history" in the declarations) record what happened for a property and
  are read by no action. `StorageLease.apart` records the one thing the code cannot
  exclude: that a process is overtaken between two calls that should be one.
- `AccountMerge` assumes that an exchange takes time (the clock advances), and
  that an access token outlives the moments between commit and `updateFromAuth`
  (hazard `rotation_in_window` drops that). Per-family rate limits and cooldowns
  merge as the quota block does, without tombstones, and are left out.

## 3. Runs

State counts are TLC's, on two workers.

| Run | Shows | Bounds and why they are enough | States |
| --- | --- | --- | --- |
| `breaker` | one fresh probe; fixed cooldown; the gate reopens; the breaker is a `Gate` | three requests: one that trips, a probe and a late one; threshold 3, so that the window can drop one failure of a full count; window 4 > timeout 2 as in the defaults | 95,810 |
| `refresh` | no record stranded, no consumed token presented, success is live, records heal, journals drain | two processes (the lease admits a pair at a time), three rotations (a chain needs two), three faults (fail commit, salvage, then crash); also from chained leftovers | 239,279 |
| `refresh_hazards` | tokens never regress, late commits adopt newer tokens, journals are not overwritten, with stolen leases and unreadable journals | as above with two faults | 691,359 |
| `saves` | no roll-back, hooked timer, covered flush, every change gets out | four changes: one being written, one queued, one pending, one armed; one failure, one drain | 255,062 |
| `merge` | credentials, membership, enabled flag, running blocks, tombstones under full and volatile merges | two managers (a stale one and one it could undo); clock to 3; budgets of three changes of one kind with two of the life cycle, or one of each: fields of different kinds are merged independently | 1,648,170 |
| `lease` | a verifying process made the directory; nobody removes a live one; a dead holder is broken before a contender gives up | two processes; stale 2 < patience 4, the code's order (10 s < 15 s, 60 s < 90 s) and the least that differs under an off-by-one; five ticks: hold, go stale, be broken | 5,357,261 |
| `pipeline` | every retry, restart, degradation and wait of a fetch ends | one fetch over two accounts of one login, with or without plan quota left, a cyclic fallback chain, five configurations, each with budgets of one or two: a loop needs an edge that charges nothing, which small budgets expose as well as large ones | 237,302 |
| `pipeline_shared` | accounts are disabled on the provider's word; a pool answer leaves nobody who could serve | two fetches on two accounts of one login, so that one counts failures the other acts on; one change by time or the operator, because a second only repeats what the first undoes | 774,097 |
| `services` | refresh queue, manager cache, worktree lock, policy children, rotation monitor, alerts, guard, status line, pool line, prompts, routing file | two callers or processes where they share state; three versions of the accounts file (own, foreign, own again); two levels and a threshold between them; two credits; two faults (a failure and the retry's) | 5,709,484 |
| `requests` | items, model, account, verdict, answer, repair | six items: head, call, result, and a window of three to trim; every model name, alias and tier of the catalogue; two or three accounts, so that a removal shifts one; two answers in flight; every stream of three lines; two handlers | 2,090,593 |
| `operations` | stores, clears, tools over the pool, sign-ins, check, installer, update | per world two processes or one with every operation and two faults; pool files of up to three records in seven variants of what a record tells, under one call, and a full pool under two sessions with two calls and a refresh (a duplicate needs two records, an index that goes wrong a third); three seats: same person, same workspace, neither; two sign-ins of four methods; two seats of two addresses; plugin lists of two entries, one run over whatever an interrupted one leaves, one edit; two processes, one of them perhaps a checkout, and two versions | 4,539,316 |
| `liveness` | blocks are lifted, line and prompt settle, waits end | one actor each and the changes of the world bounded; faults two | 101,082 |

`CHECK_DEADLOCK FALSE` is set where the system may really stop: the saves, the
merge and the combined runs once the bounded changes, clock or faults are used up,
and a fetch that was answered. `MC...` bounds are named `Max...`; they limit the world
(versions, tokens minted, faults, ticks), never the code's own counters, which keep
the code's bounds as constants (budgets, capacities, thresholds).

Every property has a mutant: a plausible bug in a mapped definition (a dropped
guard, a missing reset, a wrong comparison) under which TLC finds it violated.

**Fairness.** The breaker's liveness assumes that time passes (`WF(Tick)`) and
nothing of the requests. The refresh assumes that a process that is in a refresh
takes its next step (its file operations and lease retries end; the exchange is
a plain `fetch`, which the runtime's own timeouts settle) and that refreshes keep
being begun on each store (every request probes, and the tools go over both);
crashes are not fair but bounded, as TLC's `MaxFaults`. The saves assume that an
armed timer fires and that the promise at the head of the mutex makes progress;
flushes, disposal and drains are not fair. `EveryFetchEnds` assumes that a fetch
takes its next step (each `await` settles: the upstream call and the stream have
timeouts, waits are timers) and nothing of the accounts. In `MCLiveness` the monitor's
interval, the line's one-second poll and the poll of a sign-in are timers and weakly
fair; answers come, or fail, and the ones that must sometimes succeed although
failures disable them for a while (`QuotaGuard!Read`, `PromptCache!FromMemory`,
`Cold`) are strongly fair; users, requests, failures and other processes are not
fair. Merge, lease and the other combined runs state safety only.

## 4. Proofs

The breaker's proofs stand at the end of its own module, and the modules `...Proofs`
`EXTEND` the module they are about; `ServiceProofs`, `OperationProofs` (which extends
`ConfigFile`) and `RequestProofs` (which extends `RequestPipeline`) instantiate the
smaller ones, each section with its own constants and variables. Constants are
arbitrary within the named assumptions. Every invariant below was first checked by
TLC on the instance of the module's run.

| Module | Theorem | For all |
| --- | --- | --- |
| `CircuitBreaker` | `TypeCorrect` | configurations of the breaker, any number of requests |
| | `OneProbeAtATime` (`OneFreshProbe`) | the same, with one probe slot |
| | `BreakerIsGate` (`ImplementsGate`) | the same, with one probe slot |
| | `CooldownHolds` (`CooldownIsFixed`) | configurations of the breaker, any number of requests |
| `CoordinatedRefreshProofs` | `TypeCorrect` | processes, rotations, fault budgets, sets of hazards |
| | `TokensOnlyMoveForward` (`TokensNeverRegress`) | the same, without `stale_quarantine` |
| | `AdoptionsAreNewer` (`AdoptedTokenIsNewer`) | the same |
| | `JournalsKeptApart` (`JournalNotClobbered`) | processes, rotations, faults, sets of hazards |
| | `TokensStaySafe` (`TokensSafe`) | processes, rotations, faults; no hazard |
| | `RefreshesReturnTheLiveToken` (`SuccessMeansLive`) | the same |
| | `LeftoversStaySafe` (both) | the same, from any state `LeftBehind` allows |
| `StorageLeaseProofs` | `TypeCorrect` | processes, stale windows, patience above the window |
| | `ValidIsOwner` (`ValidMeansOwner`) | the same |
| | `LiveLeaseStays` (`LiveLeaseNeverRemoved`) | the same |
| | `DeadHolderBreaks` (`DeadHolderIsBroken`) | the same |
| `RequestProofs` | `DisabledOnRefusal` (`AutoDisableJustified`) | finite pools, any grouping into logins, bounds and options, when the host stores what it is given |
| | `PoolAnswerIsHonest` (`PoolAnswerMeansPoolTried`) | finite pools, any grouping, bounds and options |
| | `NobodyIsSkipped` (`NoOneSkipped`) | finite non-empty sets of accounts, requests, strategies, limits, hazards |
| | `AccountsKeepTheirRecord` (`RotationSafe`) | the same; no hazard |
| | `RepairsStaySafe` (`RecoverySafe`) | calls, kinds of complaint, parts, any faults but a failing write; events that name their message |
| | `VerdictsStaySafe` (`VerdictSafe`) | windows within the horizon, causes, retries, answers in flight, clocks; errors with a message |
| | `ReadingsStaySafe` (`ReadingsSound`) | terminals, pools, requests, clocks, any hazards but a slow start |
| | `ObservationsStaySafe` (`MonitorSafe`) | seats, paths, intervals, moves, failures; headers recorded in their own tick |
| | `StampsStayHonest` (`HonestStamps`) | accounts, sessions, requests, clocks; lines of separate terminals, responses handled in their own tick |
| | `AnswersAreReadWhole` (`ReadSafe`) | bodies and ways to cut them, statuses, limits, deadlines |
| `DebouncedSaveProofs` | `NewestSnapshotStays` (`DiskNeverRollsBack`) | changes, failures, drains |
| | `HookBehindTimer` (`ArmedTimerIsHooked`) | the same |
| | `NoSaveForgotten` (`PendingSafe`) | the same, any number of flushes |
| `AccountMergeProofs` | `RecordsStayWellFormed` (`RecordsSafe`) | managers, clocks, resets, bounds, sets of hazards |
| | `MembershipIsTheDisks` (`MembershipRespected`) | the same |
| | `SavesRespectBlocks` (`BlocksRespected`) | the same |
| | `StaleSavesKeepTheToken` (`CredentialsNeverRegress`) | managers, clocks, resets, bounds; no hazard |
| `ServiceProofs` | `ExchangesStaySpaced` (`QueueSafe`) | callers, staleness limits, exchanges |
| | `CacheStaysSafe` (`CacheSafe`) | fetches, writes, loads, failures; no overlap of tools, no failing start |
| | `LocksStaySafe` (`LockSafe`) | sessions on any hosts, thresholds, old locks |
| | `PoliciesStaySafe` (`SelectionSafe`) | finitely many requests and accounts, pools, modes, limits of children |
| | `AnswersAreGenuine` (`Genuine`) | processes, fetches, sources, versions, faults |
| | `BlocksStaySafe` (`GuardSafe`) | monitors, tools, credits, settings; one window, within one week |
| | `AlertsStaySafe` (`NotifySafe`) | accounts, windows, levels, thresholds; one process with any faults (but a crossing whose delivery and give-back both fail), or any number, in order, without |
| `OperationProofs` | `CachedSettingsAreTheFiles` (`CacheIsTrue`, `StallBounded`) | processes, texts, calls, bounds, sets of hazards |
| | `MutationsArePreserved` (`ConfigSafe`) | processes, calls, bounds, texts with one key per model; a lock may be left behind |
| | `SignInsStaySafe` (`FlowSafe`) | sign-ins, methods, projects, waits, bounds |
| | `UpdatesStaySafe` (`UpdateSafe`) | processes, checkouts, faults, versions, clocks; the cache can be deleted |
| | `WipesStaySafe` (`FlaggedSafe`) | faults of any number but a locked keychain or a marker that cannot be read |
| | `StoreStaysSafe` (`LoadIsCurrent`, `PoolSurvives`) | processes, markers kept, failing renames and writes, refusals and crashes of any number; files of the current version |

**The breaker.** `OneFreshProbe` is not inductive: nothing in it prevents a
half-open breaker with a free slot next to a young probe. `ProbesOlderThanChange`
says that outside the closed state no probe in flight is younger than the last
change of state, and `HalfOpenSlotTaken` that a half-open gate has handed out its
slot; so the gate admits again only once `sinceChange`, and with it the age of
every older probe, has reached the reset timeout. The theorem is about
`HalfOpenMaxAttempts = 1`, the default.

**The refinement.** `Gate` is the breaker as its users see it. The mapping
`GateOf` reads the gate off the breaker: closed, and otherwise cooling, ready or
probing by whether `sinceChange` has reached the timeout and whether the slot is
taken. `BreakerIsGate` shows that an initial breaker maps to a closed gate and that
each action maps to a step of the gate or to a stutter; `HalfOpenSlotTaken` is what
rules out a half-open breaker that would map to a gate the abstract machine does
not have. `ImplementsGate` is also a PROPERTY of `breaker`.

**The refresh.** `IssuedInv` bounds every token in a record, a journal or a call by
the live one. `ForwardInv` says that a journal's replacement is newer than the
token it consumed (`ForwardJournals`), and of each call (`ForwardCall`) that the
entries it replays are, that the token it brings is newer than the one it replaces,
and that the record of its primary store is at least the token it exchanged for as
long as it works on it. Then every action satisfies `RecordsForward`, and so
`NoRecordRegresses`. The assumption `"stale_quarantine" \notin Hazards` is necessary:
the behaviour without it is in section 6. Thefts of the lease, crashes,
storage failures and journals read as absent are all allowed, so this property
rests on the compare-and-swap of the transactions, not on the lease.

`TokensSafe` needs more: that the lease is exclusive, that every journal is read and
that a session flags only a token it knows to be live, which is `Hazards = {}`; each
of the three hazards alone strands a token (section 6, and the run `refresh_hazards`
for what survives them). `SafeInv` says that one process at most is between lease
and release (`Alone`), that a journal lies under the token it consumed (`Keyed`),
and, unless a reply was lost together with its only journal, that every stored
token leads to the live one over the journals that are kept or being visited
(`StoredReach`), with one clause per phase of the call (`SafeCall`). A replay is
safe in `ReplayInOrder` only: the links still to visit connect every stored token to
the live one, and no link that remains, kept ones included, leads to the consumed
token of one this pass visits, so that stamping a link and dropping its journal cuts
no chain behind it. The chains of an arbitrary set of journals are reasoned about
without induction over paths: a set leads from a token to a goal when every set
that holds the goal and is closed under predecessors holds the token, and the
lemmas on `LeadsTo` show what adding, dropping and replaying a link keeps.
`RefreshesReturnTheLiveToken` then reads the last clause off at the return.
`LeftoversStaySafe` starts where the run's `InitChained` does, in general:
`LeftBehind` allows any journals as long as the stored tokens lead to the live one.

**The lease.** `LeaseInv` holds, while no calls were pulled apart, for each
process that has set its lease up: the directory is *mine*, i.e. made by this
process, no older than its last proof of ownership, and no mtime the process
remembers is younger than the directory by more than the probe's rounding; or it
is *gone*, and then every mtime the process remembers is older than now and than
whatever directory is there, so that `Recognised` is false and stays so. The step
that turns mine into gone is the stale break, whose `foreign` mtime was judged
older than the window (`Judged`), and the recheck under `StillStale` makes that the
directory's mtime at the removal. `NotLate`, `SettingUp` and `LettingGo` carry what
`~apart` means at the intermediate steps, and `NoFuture` bounds every mtime by the
clock and the rounding. `ValidIsOwner` is then immediate; `LiveLeaseStays` adds that
a valid lease has a proof, hence a directory, younger than the window.
`DeadHolderBreaks` is arithmetic on `LeaseAssumption` (`PATIENCE > STALE + 1`,
`transaction-lock.ts:17-29`).

**The pipeline.** `DisabledOnRefusal` rests on `RefusalInv`, which counts: a
login's failure counter never exceeds the number of refusals the provider has
actually given it (`CountsRefusals`), and a request that is counted against a login
is on an account of the pool (`Accountable`). Reaching the threshold then means
that many real refusals. The assumption `~HostStoreFails` is necessary: a host that
fails to store a rotation is counted as an authentication failure (section 6).
`PoolAnswerIsHonest` rests on `TraversalInv`: the accounts a round has attempted
are accounts of the pool, so that when it has attempted as many as there are it has
attempted all of them (`AllAttempted`, by cardinality: this is why the pool is
assumed finite), and only `GiveUp` answers for the pool.

**The saves.** `OrderInv` says that the queued snapshots ascend, none older than
the disk nor newer than memory (`Ascending`), and that the write in progress is the
head's, or, once the manager is replaced, evidence that reflects memory
(`WriteInOrder`, `EvidenceInOrder`). Every new save goes to the end with the newest
snapshot (`GrownAtEnd`), so a settled head leaves a queue that starts no older than
the new disk. `HookInv` adds to `ArmedTimerIsHooked` that the manager remembers a
handler only while it is registered.

`NoSaveForgotten` adds three parts. `TrackInv` numbers the queued saves: pendingSave
is the last of them (`PendingIsLast`), and a flush waits on a save whose snapshot is
at least what it must cover, or has stopped tracking (`Tracked`). `RestInv` bounds
what a flush refers to. `CountInv` is why the numbers suffice and the bound of the
run loses nothing: every doSave that ever ran, every caller still waiting behind a
queued save and the armed timer came from a change of their own, so there are never
more of them than changes; it is a count over the finite set `Waiting` of callers.

**The merge.** `MergeInv` is what every save keeps whatever the hazards: types, a
quota block and its tombstone never both (`CopyInv`), a write in progress that
carries no block older than the tombstone on disk (`WriteInv`), and a disable mark
only on a copy that is disabled (`MarkInv`). `MembershipRespected` and
`BlocksRespected` follow step by step. `CredentialsNeverRegress` rests on `CredInv`
over `Copies`, the credentials on disk and every pair a save may still write: the
disk has the newest issued token, and a copy with an older token has an older stamp
than every copy with the newest, so that `DiskIsNewer` finds in time what the token
numbers say. The stamps keep that order because an exchange is stamped after every
copy and a manager adopts only the token last issued; a login under managers that
hold the old account, or a second rotation before the first is adopted, break it,
hence `Hazards = {}`.

**The shared services.** `ServiceProofs` proves, for each module that `SharedSafe`
and `QuotaSafe` combine and for the prompts, and `OperationProofs` for the settings
file, what the run checks on its instance. *Queue*: two exchanges of one
token are apart by the staleness limit, or the first one was rejected, because what
a token's entry points to is its newest exchange (`Linked`, `Spaced`) and a waiter's
exchange has not ended (`Awaited`). *Cache*: `CacheInv` orders what each manager
was loaded from behind the file's writes (`Past`, `OnLoads`) and says which managers
may be retired while a request holds them (`Retired`) and when the cached one is
current (`Current`); `ToolsOverlap = FALSE` and `StartFails = FALSE` exclude exactly
the two disagreements `"tools"` and `"start"` of section 6. *Lock*: what a check has
read is at most as old as the check (`Checked`), a session that leaves is past its
last write (`Leaving`), and a warning has a live owner behind it (`Warned`). *Policies*:
the count of active children is their number (`Slots`), something will end each of
them (`Ends`), a decided request keeps its decision (`Kept`), and the least candidate
exists because `<` on the accounts' numbers is well-founded. *Prompts*: every text in
flight, in memory or in the files' hash is one upstream has published, so that a
body that has the hash is one too; the body itself may be anything, damaged included,
and a release only adds texts. *Guard*: whoever posts a redemption has claimed, and no
second claim is granted in that week (`OneClaim`); every stored block ends with a quota
that was spent (`Blocks`), so a job that may clear the block it loaded has a proof that
this quota is over (`Clears`): it read the usage as not spent, or the credit is gone. That
stays true because a window spent again ends later than before. With two windows the
one that is spent may end before the stored block and leave no trace in it, and an older
reading lifts the block: the disagreement `"lifted"`. `MaxElapsed <= Week` keeps the
behaviour within one claim, as a week is not spent twice within one. *Alerts*:
the book a process looks in is its own memory when it is alone and the shared file
otherwise; the announcements counted are exactly what the levels of the book say
(`Exact`; `Lost` where giving a claim back failed too, which the code only logs), or what a failed delivery is about to give back (`Reverted`), and a claim
comes after everything the book says (`Stands`). The hypothesis excludes the two
disagreements `"alert lost"` and `"alert twice"`: claims of several processes out of
the order of their looks, and faults when there are several. *Settings file*: a stat
taken is never newer than the file's, so a text cached under the file's own stat is
the file's, and what is cached says what its text says (`Remembered`). Mutations
are preserved because the one process that is past the lock has it (`Exclusive`) and
what it has read is still the file; a rename gives its own model the seats the call
asks for and leaves the other models' (`RewriteRoutes`). A text with two keys for one
model, an edit inside a mutation, a live holder taken for dead, or a seat that joins
after the call loaded the accounts each break it. `Stalls` counts the wait of a queue:
the first call waits a full budget, and each later one asks at the instant the one
before it was refused, so it tries once.

**The user's operations.** *Sign-ins*: whoever has an address of the loopback port
is open, unsettled and by a method that listens, and a session has closed its
listener exactly if it is settled (`Listens`); what the last step did (`Harmless`)
then follows step by step. Where the credentials go is proved for one project; with
two, one sign-in sets the path under another (`"path"`). *Update check*: an answer,
in the file or on its way to a process, is of its stamp's time or later and of a
version that is published (`Timely`), so no promise exceeds the registry and what an
eviction brings is at least what was promised; `Linked = FALSE` excludes the
disagreement `"linked"`. *Clear*: before each step the invariant says where the
pieces are. While there are survivors to save, a load finds them: in the file that
was there, in the marker it was retired to, in the entry once that is written, and
from then on in a file or an entry that holds exactly them (`Saving`); without
survivors nothing fresh was ever stored, and each place is empty once its step is
past or a complaint was made (`Found`). The two faults left out let the clear take
records it could not read for absent (`"locked keychain"`, `"marker lost"`).

**The account store.** A load visits four places while others change them, so
`LoadIsCurrent` needs to know at every step what it would still find. `Kept` says it
of a load that starts now: the entry, if there is one, is current; so is the file;
without a file the newest marker is; and if all three are empty, no pool is current.
`Reader` says it of a load under way: all that was current since it began is in its
window, and what it would find from where it is, too. One frame lemma carries both
over a step of whoever has the lease (`PlacesChange`): a step may empty a place only
if what is found next is current as well (`FoundIsCurrent`). That is what the order
of the code's steps is for: the file is a marker before the entry is written, the
entry replaces the old one before the markers are rewritten, the file is written
before a refused entry is dropped (`Writer`), and a clear takes the file first, so
that from then on "none" is one of the answers. A rollback of accounts chooses its
marker before it has the lease; `Mover` and `ChoiceStands` say why the choice is still
the newest marker, or the file is gone, when it does. The worlds are those of
`Shared` in `MCOperations`, for any number of processes, operations and faults;
`StoreWorld` names what is left out; beyond `Alone`, the cases `"transient"`,
`"locked"`, `"refused then cleared"`, `"legacy cleared"` and `"old"` show where it
does not hold.

**The order of the accounts.** That an account is passed over fewer times than there
are accounts is kept by a measure: how often it was passed plus its distance from the
cursor is less than their number (`InTurn`). A pick that passes it over brings the
cursor nearer by at least one, a removal never takes the cursor further away, and
the user's choice of an account and a reload begin the count anew. `RotationSafe` adds that what a
request holds points at its account wherever the list has put it, so that a charge or
a verdict goes to the account's own trackers; a request that outlives its account, and
a removal by another process (`"dropped"`), are the hazards it excludes.

**The repairs.** A mark is held by exactly one call that is past its look at the marks
(`Holds`), the repairs on their way into a message count the calls that prompt for it,
and what a call will report has been seen cured (`Knows`). The exclusions are the
cases `"write"`, `"unnamed"` and `"shift"`.

**The verdicts.** Headers are true when they are sent, so no window in them ends beyond
the horizon of what the answer could know (`Near`, `Sent`), and handling them late only
shortens what is left. A long block therefore needs a reset that only a quota answer is
believed about, and a stored block is only ever extended (`SpentStaysBlocked`), which
is what makes the order of handling immaterial. `Bare = FALSE` excludes `"bare"`.

**The answers.** What a body means (`Meaning`) is defined of the whole text, by its line
ends; the reader goes through it atom by atom. The invariant says what the reader holds
after any prefix: as long as it has no result, the line that has not ended, the data
lines since the last blank one in their order, as an increasing map onto their places
(`Collects`), and whether a line proved it to be events (`Undecided`); with a result,
the first event that tells one tells that one (`Decided`). One atom keeps this
(`FeedKeeps`), since what a longer text says before its end is what the shorter one
said (`EventStays`), hence a chunk does (`DrainedHolds`, by a least counterexample); and
the flush of the residue completes it to the meaning of all that arrived (`FlushGives`).

**What is read and shown.** Three protocols, one idea: a reading is at least what was
true when its stamp began, and `base`, a history of the world by time, says what that
was. *Pool line*: a reading without a stamp of its own has the snapshot's, so the
invariant bounds both (`BorneOut`): the stamp lies between the snapshot's and the
reader's now, and a pass that carries a reading over pulls the new snapshot's stamp
down to the old one's (`Gathered`). A failure's stamps lie after the reading they mark.
A pass that reads the file long after it took its now breaks it (`"slow start"`).
*Line*: a refresh in flight reads its account at its stamp or later (`Refreshes`), and a
response in flight is of this tick (`Arriving`); a line that shares the answer of
another's refresh stamps it with its own time, which is `"together"`. *Monitor*: there
is one check at a time and polls only while it waits (`WatchChecks`); a poll of this
generation asks for what is from after the last redemption, and one of an older
generation is not recorded (`Present`); a reading that succeeded last falls due only
when its interval is over (`Lasts`), so whatever a poll has decided to ask for is over
or has failed (`Rests`).

**Out of the prover's reach.** Liveness under fairness and `ENABLED`, and the theorems
of induction, which take an operator as a parameter: where a function over a sequence
is recursive, its existence and what it computes are shown by a least counterexample
(`Smallest`), which `Responses` needed and its folds were restated for. No module
declares a `RECURSIVE` operator.

## 5. Model-checked only

Liveness (`GateReopens`, `JournalsHeal`, `ChangesReachDisk`, `EveryFetchEnds`,
`ReadingsSettle`, `WaitsEnd`), since TLAPS has no fairness or ENABLED. Of `requests`,
the request body and the model choice; of `operations`,
the worlds `Alone` of the store (one process, old files, places that cannot be read or
removed), the tools over the pool, the record a login lands on, the check of all
accounts and the installer. They are conversions, and protocols of a few actors over
small data, whose instances hold every case the code tells apart. Everything the run
`services` checks is proved part by part, within the hypotheses of the table.

## 6. Disagreements between the code and its documentation

Each was reached by TLC; the quotations are in `PROJECT.json`. To see one, use the
instance named (for the combined modules: set `Case`, take the part's name into
`Parts`, and check INVARIANT `Refuted`).

| Instance | What happens | Where |
| --- | --- | --- |
| `MCCoordinatedRefresh`, `Hazards = {"unreadable_journal"}`, `NoStrandedRecord` | a transient read error makes a journal look absent, and the refresh strands a record | `coordinated-refresh.ts:433` |
| the same, `{"stale_quarantine"}`, `AdoptedTokenIsNewer` | the adopt guard takes any foreign token for a newer one; a quarantine from stale memory is an older one | `:565` |
| `DebouncedSave`, three changes, no failure, `FlushCoversPending` | a flush awaits `pendingSave` once; saves queued behind it start after it returned | `persistence.ts:502` |
| `MCAccountMerge`, `LoginBudgets`, `{"stale_login"}`, `CredentialsNeverRegress` | a login writes a token without a rotation stamp; the next save of a stale manager undoes it | `login-runner.ts:906` |
| the same, `ClearBudgets`, `ClearedStaysCleared` | a save without a block erases the tombstone, and an older block returns | `persistence.ts:314` |
| `StorageLease`, `StolenLeaseFails` | a late `utimes` lands on the thief's directory, and the stolen lease verifies | `transaction-lock.ts:294` |
| `MCRequestPipeline`, `r1`-`r3`, `OnlyPaying`, two changes, `CreditsServeASpentPool` | an account the plugin disabled counts as one with plan quota, so credits are never turned to | `codex-credits.ts:266` |
| `r1`, `r2`, one account, `OnlyPatient`, `EmptyRetryReissues` | an empty answer to a probe is not retried on its account: its own slot refuses it | `index.ts:4442` |
| `OnlyBackoff`, `HostStoreFails = TRUE`, `AutoDisableJustified` | the host's failure to store a login counts as the provider's refusal | `index.ts:3600` |
| `MCOperations`, `"transient"` | a save falls back to the file, the older keychain entry is loaded | `load-save.ts:943` |
| `"locked"` | a locked keychain reads as an empty pool | `keychain.ts:254` |
| `"old"` | the rewrite of an old file undoes another process's save | `load-save.ts:459` |
| `"legacy cleared"`, `"refused then cleared"` | a clear leaves a legacy file, or a marker, that the next load brings back | `load-save.ts:1058`, `:938` |
| `"locked keychain"`, `"marker lost"` | a clear with a cutoff deletes a fresh flagged record it could not read | `flagged.ts:561` |
| `"workspaces"`, `"pointer"` | a second workspace's login overwrites the first one's; the active index moves to another account | `login-runner.ts:826`, `:1106` |
| `"page"`, `"path"` | a sign-in shown as done times out; one is saved in another project | `server.ts:180`, `index.ts:5767` |
| `"login"`, `"cli"`, `"restoring"`, `"unnamed"`, `"crash"` | the check overwrites or loses an account | `index.ts:5240`, `:4985`, `:5416`, `:5204`, `:5255` |
| `"overtaken"` | the check flags the copy it has of an account that another process refreshed meanwhile, and drops the live token | `index.ts:5204` |
| `"dangling"` | an update leaves a config entry that points into the emptied cache | installer core `:3455` |
| `"linked"` | an update is promised although the eviction will be refused | `auto-update-checker.ts:273` |
| `MCServices`, `"foreign"`, `"start"`, `"tools"` | a foreign change hidden by an own save is not adopted; a failed read installs an empty pool; a tool's reload drops a manager unretired | `index.ts:2224`, `:2743`, `:2018` |
| `"alert lost"`, `"alert twice"` | a claim that failed is not given back; two stamps out of order deliver twice | `quota-notifications.ts:341`, `:413` |
| `"lifted"` | an older reading lifts a block | `codex-usage.ts:622` |
| `"together"` | a line stamps another's reading with its own time | `tui.ts:405` |
| `"late exit"`, `"late write"` | a shutdown removes a newer session's lock; a check in flight leaves one behind | `worktree-lock.ts:271`, `:145` |
| `"retired"` | a request goes on with the accounts of a replaced manager | `index.ts:3420` |
| `"hurried"` | a failed credential makes the monitor ask for reset credits early | `monitor.ts:98` |
| `"newest"` | a response's older numbers replace a poll's | `tui-quota-overview.ts:273` |
| `StatusLine`, `NeverBack` | a refresh shows an answer older than the line's | `tui.ts:407` |
| `"pair"` | text and hash of different releases | `prompts/codex.ts:883` |
| `PromptCache`, `Codex`, `Faults = {"write"}`, `FetchedIsServed` | a fetched text is thrown away when it cannot be written | `prompts/codex.ts:884` |
| `MCRequests`, `"heads"`, `"kinds"` | leading instructions are what a fast session drops; a shell call is not seen as a tool turn | `request-transformer.ts:1034`, `:1074` |
| `"mixed"`, `"names"` | a mixed chain of fallbacks fails with models untried; an alias takes an effort its model lacks | `fetch-helpers.ts:573`, `request-transformer.ts:662` |
| `"bare"` | an overload without a message blocks by a copied snapshot | `fetch-helpers.ts:1349` |
| `"dropped"` | after a removal elsewhere the trackers belong to the neighbour | `rotation.ts:514` |
| `"unread"` | an answer complete but for a blank line is thrown away at the timeout | `response-handler.ts:346` |
| `"shift"` | the wrong message is repaired | `recovery/storage.ts:339` |

Further cases are limits of the code that no text of the repository denies:
`MCRequests` `"late"` (an account removed while a request holds it), `"write"` and
`"unnamed"` (a repair whose write fails, a tool part without a call id);
`MCServices` `"edit"`, `"stale"`, `"join"`, `"scoped"` and `"spellings"` (an editor's
save between the read and the rename of a rewrite, a lock taken over from a
blocked holder, a seat that joins a workspace pooled under its legacy key, account
storage per project, two spellings of one model), a crossing that is forgotten when
its delivery and giving its claim back both fail (`Lost`: `quota-notifications.ts:348`), `"late headers"` and `"slow start"`
(headers recorded long after their response, across a redemption; a pass that reads
the overview file long after the time it takes for now); `MCOperations` `"older"` (an update
offered to a process that read its version after another one emptied the cache),
`"unowned"` (a record that names no member is taken for the only known member's of its
workspace, or merged with an organization's record of the same address, and a seat is
lost: `identity.ts:346`, `:256`), `"last"` (a removal of an earlier account while the
last one is active makes the first one active: `codex-remove.ts:175`) and
`"renumbered"` (remove, enable, switch and label edit, by number, another account
when another session saved in between: `codex-remove.ts:138`; note and tag find
theirs by its identity).

Noted while reading, in no run: `docs/development/ARCHITECTURE.md:91` has journals
"applied on the next load", while the code replays them on the next refresh.

## 7. Not modelled

- **Process mutex**: it is the queue of `DebouncedSave` and the atomicity of the
  transactions. **Shutdown registry**: its drains are in `DebouncedSave`; signal
  re-delivery is the runtime's.
- **Parallel probe** (off the default path) and **proactive refresh** (a choice of
  accounts whose refreshes `CoordinatedRefresh` models).
- **User interface, OpenCode V2 adapters, reporting tools**: rendering and wiring,
  with no state of their own that a property could be about.
- Parts of modelled components: the breaker's registry of 100, per-family blocks
  and cooldowns in the merge, additions at construction, the files of export and import, the repair
  of damaged JSON, the flagged store's backup file, layout of overview and status
  line, warm-up requests. Each is named in the component's note.

What would come next: proofs for the modules section 5 leaves to TLC; the
breaker's registry with its eviction, composed with `RequestPipeline`; the lease as
an abstract lock that `StorageLease` implements and `CoordinatedRefresh` uses.
