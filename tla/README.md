# Replex in TLA+

Replex is a reverse proxy in front of a Plex Media Server. It caches and
reshapes Plex's answers, and enforces per-account limits on what may be played.
This directory holds TLA+ specifications of its stateful parts, TLC
configurations that check them on small instances, and TLAPS proofs.

Source paths are relative to the repository; `src/hub_cache.rs` is written
`src/src/hub_cache.rs` in `PROJECT.json`.

## How to run

    tlc -workers 2 -config HubOrder.cfg MCHubCache.tla    # any run: cfg + its MC module
    tlapm HubCacheProofs.tla                              # any ...Proofs module

`PROJECT.json` lists every run with its module, configuration and expected
outcome, the source lines of every definition, the seeded faults, findings,
hazards and theorems.

## Inventory

| Component | State | Operations | Interacts with |
|---|---|---|---|
| Hub cache (`hub_cache.rs`, `cached_hubs_response` in `routes.rs`) | payloads (`metadata_cache`), ages (`HUB_FETCHED_AT`), last attempts (`HUB_LAST_REFRESH_ATTEMPT`), claims (`REFRESH_INFLIGHT`) | hit, miss, stale hit, background refresh, warm cycle, mark all stale | client requests, spawned refresh tasks, the warmer, proxied playback events, webhooks, admin purge |
| Disk cache (`disk_cache.rs`) | files, temporary files, `CURRENT_SIZE`, `COMMIT_LOCK`, `CLEAN_LOCK` | get, put, remove, clean, clear all, init | library cache, photo cache, warmer, admin purge |
| Job supervisor (`jobs.rs`, `ntf_watchlist_force`) | in-flight keys, one-hour cooldown | try_start, finish | requests to `/media/providers`, detached tasks |
| Library page cache (`library_cache_lookup`, `library_cache_store`) | disk records without expiry | look up and transform, store the raw body | disk cache, policy transforms, warmer |
| Photo cache (`photo_cache_hoop`) | memory and disk copies | look up, store | disk cache, warmer |
| Policy store, identity and security context (`policy_store.rs`, `auth/context.rs`, `plex_client.rs`) | policy snapshot with generation, identity cache, per-request security context | snapshot, reload, resolve identity, purge | every protected route and transform |
| Resolution policy (`resolution_policy.rs`) | none | resolve a policy, classify, choose the best allowed version | policy, playback, stream gate |
| Playback pipeline (`force_maximum_quality`, `auto_select_version`, `enforce_resolution_policy`, the fallbacks) | the request's query | rewrite the query step by step | Plex, policy |
| Stream gate (`protected_redirect_stream`) and part cache | part classification | redirect, proxy or refuse | policy, playback |
| Transforms (`transform/*.rs`) | none | filter, restyle, interleave, page | all response handlers |
| Plex Web assets and global cache (`web_assets.rs`, `cache.rs`) | assets in memory for a month | cache-aside | web client |
| Admin endpoints | none of their own | purge, reload, explain, status | all caches, policy store |
| Timeout (`timeout.rs`) | none | drops a handler's future between two awaits | every request |
| Config, models, headers, logging, metrics, scripting, process start | | parsing, conversion, output | |

The hard behaviour comes from three sources: every handler is a future that
other handlers interleave with at each `await` and that a timeout or a hung-up
client may drop there; tasks that nobody waits for (`tokio::spawn`) outlive
the request that started them; and several caches keep content of several
accounts whose policies can change while requests are under way.

What makes each component correct:

* **Hub cache**: one background fetch per key; later writes are never older;
  a failed fetch loses nothing; ages do not flatter; scoped content stays with
  its account; marks are not lost; claims end.
* **Disk cache**: readers see whole records; the tracked size is the size on
  disk; the limit is acted on; temporary files go away; locks are released.
* **Job supervisor**: one job per key at a time and one per cooldown.
* **Library and photo cache**: what is stored is raw, for one account, and is
  filtered again by the current policy.
* **Policy**: one request is decided by one snapshot; failing closed really
  closes; an identity purge takes effect.
* **Playback and stream gate**: a restricted account never gets a version
  above its limit, whatever the order of rewrites and fallbacks.
* **Transforms**: nothing restricted survives, nothing else is lost.

## Modules

| Module | Part | Proofs |
|---|---|---|
| `HubCache`, `SerialRefresh` (abstract) | hub cache, refresh tasks, warmer | `HubCacheProofs` |
| `DiskCache` | records on disk, cleaning, crash | `DiskCacheProofs` |
| `ResolutionRules` | rules without state, used by the next two | with the modules that use them |
| `Playback` | one playback request through its handlers | `PlaybackProofs` |
| `Access` | identity, policy snapshots, stream gate | `AccessProofs` |
| `Jobs` | job supervisor and its one job | `JobsProofs` |
| `Pages`, `DirectService` (abstract) | library pages, artwork, web assets | `PagesProofs` |
| `Responses` | chains of transforms | `ResponsesProofs`, `ResponsesRowsProofs` |

`MC*` modules give the instances for TLC. The modules meet where the code does:
`Pages` takes from `DiskCache` that records are whole or absent, and from
`Access` that a request carries one policy snapshot; `Responses` takes the raw
payloads that `HubCache` and `Pages` deliver; `Playback` and `Access` share
`ResolutionRules`.

Every invariant and action property of the passing runs is also a theorem for
all constants. Only TLC checks liveness (`WarmKeysHeal`, `ClaimsEnd`, `PutsEnd`,
`JobsGiveBack`), which is out of the prover's reach.

## HubCache

### State and steps

`cache`, `fetchedAge`, `attemptAge` and `inflight` are the four stores of the
code; ages replace timestamps and stop at the value past which the code treats
them alike (`StaleTTL`, `MinInterval`), a missing record being as good as an
old one (`is_older_than`). `pc` and `job` say where each fetcher stands; `todo`
is what is left of the warmer's cycle. `upstream` counts playback changes Plex
has applied: it stands for the content. A payload carries its version, the
account it was fetched with, and, as history, its true age and the number of
marks when it was requested.

| Actor | Steps | Code |
|---|---|---|
| request | `RequestHit`, `ServeFresh`, `ServeStale` | the hit branch of `cached_hubs_response`; the age is read after the payload |
| request | `RequestMiss`, then the fetch | the miss branch; claims nothing |
| any request | `CancelRequest` | `Timeout::handle`, or the server dropping a closed connection |
| refresh task | `TaskCheckRate`, `TaskClaim`, `TaskStartFetch`, fetch, `Release` | `spawn_hub_refresh` |
| warmer | `WarmCycleStart`, `WarmListFailed`, `WarmNext`, fetch, `Release` | `warm_cycle`, `warm_paths`, `warm_hubs_for_token` |
| fetch | `UpstreamRead`, `FetchFail`, `InsertPayload`, `TrackFetched` | `fetch_hubs_payload`, cache insert, `track_fetched` |
| playback | `ProxyMark`, `ProxyApply`, `ProxyDrop`, `ExternalChange`, `WebhookPlex`, `LoseWebhook` | `proxy_request`, `webhook_plex` |
| store | `Evict`, `Tick` | expiry, capacity, purge; time |

Each action covers the code between two awaits. `cache_key_for_request` and
`canonical_fetch_path` normalise the query; here a path is already canonical.
The warmer takes its paths in any order, which includes the code's. A stale hit
needs a free task slot, so the number of `Tasks` bounds how many spawned tasks
exist at once. Marks clear all age records at once, as `invalidate_all` does.
Not modelled: the 10 000-entry limit of the two age caches (losing an age
record only makes a payload stale), and the fallback from `/hubs/home` to
`/hubs/promoted` (a second fetch inside the same step).

`Tick` does not happen while a fetcher stands between its insert and its age
record. The two calls follow each other without waiting for the network, so no
time that matters at the scale of the staleness window (seconds) passes there.
It does not happen past `FetchTimeout` on an answer under way either: the
upstream client gives up after 120 seconds.

### Properties

* `TypeOK`: the shape of the state.
* `SingleFlight`: at most one background fetch per key; a claim exists exactly
  while one runs.
* `BackgroundWritesInOrder`: what tasks and warmer write for a key never goes
  back to an earlier version.
* `RefreshIsSerial`: with `phase` of a key read off its holder, the module
  implements `SerialRefresh`.
* `PayloadsSurvive`: a failed fetch or a mark never empties a key.
* `ScopedResponsesOwnContent`: outside the merged paths a response shows the
  requester's own content.
* `BoundedStaleness`: a payload counted as fresh is at most its counted age
  plus one fetch old.
* `ClaimsEnd`, `WarmKeysHeal` (liveness): a claim is given up; once playback is
  quiet, failures and evictions end, warmed keys hold the current content for
  good, whatever raced before.

A request that misses claims nothing, so its late insert may go back to an
earlier version: `BackgroundWritesInOrder` is about background writes only, and
`WarmKeysHeal` shows that the setback does not last for warmed keys.

### Runs

| Run | Instance | Question |
|---|---|---|
| `hub_order` | 1 request, 2 tasks, warmer, 1 key, webhook, one change, mark, failure, eviction | order, refinement, single flight, survival |
| `hub_scope` | 2 accounts, a merged and a scoped path, one failure | whose content |
| `hub_live` | 1 request, 1 task, warmer, `FetchTimeout` 2, proxied event, one failure and eviction | ages, liveness |
| `hub_mark_race` | the smallest instance that shows it | a documented claim that fails |

One key is enough for order and age: keys share no state except the marks,
which the instances include. Two tasks and the warmer are the smallest number
with three competitors for a claim, one of each pairing; one request suffices
because requests influence each other only through the cache and the tasks.
`MaxChanges`, `MaxMarks`, `MaxFailures` and `MaxEvictions` bound the outside
events; one of each already interleaves with every step of a fetch, and two
versions of the content suffice to see one overwrite another. Requests and
tasks are symmetric in the safety runs; the liveness run uses no symmetry.

Fairness (`Fairness`): weak fairness of every refresh task and of the warmer.
`tokio::spawn` tasks are never cancelled, each upstream fetch ends by its
timeout, and `spawn_warmer` loops forever. Clients, playback, webhooks and the
clock get none.

### Findings

* `hub_mark_race`: a fetch answered before a mark records its age after it,
  and the mark is lost.

Observed while modelling, without a run of their own:

* `/hubs/promoted*` and `/hubs/home*` share one key for all accounts
  (`hub_cache.rs:63`), against the module's header (`hub_cache.rs:4`) and
  `docs/FEATURES.md:150`. `MergedPaths` are these paths.
* The mark is made before the event is proxied (`routes.rs:938`); a refresh in
  between keeps the old content as fresh, until the warmer comes by.
* The rate check is not part of the claim (`hub_cache.rs:107`); two refreshes
  can follow each other at once.
* A cold miss claims nothing: any number of requests that miss together all
  fetch.

### Proofs (`HubCacheProofs`)

For all accounts, paths, slots and times that satisfy the module's assumptions:

* `TypeCorrect`, one lemma per actor.
* `SingleFlightCorrect`. Steps are first sorted by what they do to claims:
  quiet, claim, end of fetch, release (`StepKind`, `NextKind`); the invariant,
  which is inductive with `TypeOK`, follows from the kinds.
* `WritesInOrder`, from `OrderInv`: what a holder has read is no older than the
  last write of its key, and stays so because nobody else may write the key
  before the holder releases it (`SingleFlight`).
* `HubCacheIsSerial`, the refinement of `SerialRefresh`: each kind of step is a
  stutter, or `Begin`, `Write`/`Fail`, `End`.
* `PayloadsAreKept`, `ScopedCorrect`, `StalenessBounded`: steps are sorted by
  what they do to payloads and ages (`Moves`, `NextMoves`). `ScopeInv` adds
  that fetchers carry their own account's content and that only merged paths
  share keys; `AgeInv` adds that a carried answer is at most `FetchTimeout` old
  and that between an insert and its record the cached payload is as young,
  even if another fetcher's.

Only model-checked: `ClaimsEnd` and `WarmKeysHeal` (liveness is out of the
prover's reach), and the violated claims.


## DiskCache

### State and steps

`files` are the records in place, `temps` the temporary files, `size`,
`counter`, `commitLock` and `cleanLock` the statics of `disk_cache.rs`. `pc` and
`job` say where each caller stands; `scan` is the directory walk of the cleaner
(only the holder of `CLEAN_LOCK` has one) or, before the process is `up`, of
`init`. A record is its length; `whole` tells a file under way from a complete
one, and `Unusable` lengths stand for records that a reader cannot decode or
parse. A temporary file is named by key and counter; the process id in its name
tells nothing apart here, since a restarted process may have the same one (as in
a container). Two history variables say what failing removals left behind:
`litter` the temporary files, `scan.stuck` the records an eviction could not
remove.

| Caller | Steps | Code |
|---|---|---|
| writer | `PutStart` ... `PutAccount` | `put_full`, `commit_record` |
| writer | `CheckCapacity`, `TakeCleanLock`, `ScanVisit`, `ScanDone`, `EvictNext`, `Unlink` or `UnlinkFails`, `Deduct`, `EvictStop` | `ensure_capacity` |
| reader | `ReadBad`, `RemoveStat`, `Unlink` or `UnlinkFails`, `Deduct` | `get_full` or `library_cache_lookup`, then `remove` |
| administrator | `PurgeStart`, `PurgeVisit` or `PurgeSkip`, `PurgeDone` | `cache_purge`, `clear_all` |
| any in `Cancellable` | `Drop`, then `Stray` or `StrayFails` | `Timeout::handle`, or a closed connection |
| process | `Crash`, `BootVisit`, `BootDone` | `init`, awaited by `main` before anything is served |

Each file operation and each access to `CURRENT_SIZE` is a step. The walks
visit the keys in any order, one at a time, so they see a mixture of old and new
files as the real walk may. Dropping a future releases its locks, but
`tokio::fs` and `spawn_blocking` have handed the operation under way to another
thread, which finishes it: that is a stray. Reading a usable record changes
nothing but its modification time, which only orders eviction; eviction takes
the files in any order here. One purge runs at a time.

Any write, rename or removal may fail (`Fails`, at most `MaxFailures` in a
behaviour): a failed removal leaves the file, and the code looks no further
(`Discard`, `BootVisit`), deducts nothing and goes on (`UnlinkFails`) or does not
count it (`PurgeSkip`). Left out: a look at the length of a file, or at a
directory entry, that fails although the file is there (the file then counts as
absent in `PutStat` and `RemoveStat`, and is missed by a walk), and a walk that
cannot be joined (the panic of a blocking task).

### Properties

* `NoTornRecords`: what is read under a key is one whole record.
* `TempsOwned`: unless a caller is dropped, a temporary file belongs to a put
  under way, or the put that failed (or `init`) tried to remove it and could
  not. A dropped put does leave its file, until the next start, and cleaning
  does not count it.
* `AccountingExact`: commits and removals, failing ones included, never make the
  tracked size drift, and a cleaning walk that runs alone repairs any drift. The
  history variables `exact` and `calm` say when one of the unprotected sections
  (walk and eviction, `remove`, `clear_all`) overlapped another section, a caller
  was dropped in one, or a purge left a record behind; then the size may be
  wrong, until a walk runs alone.
* `PutsLeaveRoom` (while the size is exact): a put that returns at the limit or
  above it leaves nothing on disk but records its own eviction tried to remove
  in vain.
* `PutsEnd` (liveness): every put ends.

### Runs

| Run | Instance | Question |
|---|---|---|
| `disk_commit` | 2 keys, lengths 1 and 3, limit 3 (target 2), 2 writers, 1 reader, 2 puts (1 after the crash), 2 failures, 1 crash | commit, clean, crash, removals that fail |
| `disk_exact` | 1 key, length 3, limit 3, 2 writers, purges, 1 failure; one writer and the administrator may be dropped | drops, purges, repair of the size, liveness |

Two puts are the least with a replacement during a commit and a second writer
at the clean lock; the records already on disk give the walk and the eviction
more to do. The lengths make one record stay below the limit and two pass it.
Runs end in `Rest` when nobody asks for anything; every other stop would be a
deadlock, which TLC looks for.

Fairness: every step of a writer that does not start a put is weakly fair, and
taking a lock strongly fair because tokio's mutexes are handed over in the
order of asking; removals, purge and `init` are weakly fair. Starting a put, a
removal or a purge, drops and crashes get none.

### Observations

`remove` (`disk_cache.rs:253`), eviction (`:322`) and `clear_all` (`:390`) take
no commit lock, so a put that commits meanwhile leaves the tracked size wrong,
although `remove` is there for "keeping the tracked size consistent"; eviction
may also remove a record newer than its walk. The next cleaning walk that runs
alone, or the next start, repairs the size. A dropped writer drifts it too: it
gives the commit lock back while its rename is still carried out (`Lost`,
`strays` in the history of `AccountingExact`).

What a removal cannot remove: `clear_all` stores 0 over the records it had to
leave (`disk_cache.rs:380-390`; `Skipped`), so the cache may then grow by as much
past its limit; an eviction whose removals fail runs out of files and returns
with the size above the limit (`:322`), and every later put at the limit walks the
directory again; a temporary file that neither the failed put (`:217`, `:228`) nor
`init` (`:348`) could remove stays, uncounted.

### Proofs (`DiskCacheProofs`)

For all keys, lengths, writers, readers, limits and sets of droppable callers:

* `TypeCorrect` and `RecordsNeverTorn`, from the inductive `IInv`: a put under
  way, or its stray, has a name that `WRITE_COUNTER` is past (`NamesInv`), so no
  later put writes to its file, which therefore stays whole once it is written
  (`WholeInv`). All steps but `PutStart` and `Crash` satisfy `Keeps`
  (`NextKeeps`), from which the invariant follows at once.
* `TempsAreOwned`, from `IInv` and `OwnedInv`: while the process starts, what is
  left of temporary files is still ahead of `init`'s walk or in `litter`.

* `AccountingCorrect`, from `IInv` and `AccInv`. The bytes on disk are counted as
  the cardinality of a set of pairs of a key and a position (`BytesOf`), so a
  commit, a removal and a visit of the walk are facts about finite sets
  (`BytesReplace`, `BytesMore`). `AccInv` says who is where (`PlaceInv`,
  `LockInv`), that a temporary file keeps the length its put will account for
  (`LenInv`), that what the history variables vouch for ran alone (`ApartInv`),
  that a walk that runs alone has counted what it has visited (`WalkInv`), and,
  while the size is exact, by how much the size and the disk differ between a
  change and its accounting, and what the actor under way knows (`Dues`,
  `Finds`: what an eviction has still to try are the records outside
  `scan.stuck`). Steps are sorted into those beside the accounting (`AsideSize`),
  those of commits, and those of the sections that must be alone.
* `RoomIsLeft`, an action property, from the same invariant: a put that is not
  dropped returns from the check below the limit, from a walk below the
  threshold, or from an eviction that has tried every record, and then only what
  it could not remove is left on disk. It uses that `MaxSize` is positive and
  `Keys` is finite.

Only model-checked: `PutsEnd` (liveness).


## ResolutionRules and Playback

### State and steps

`ResolutionRules` holds the pure part: limits in the order of
`ResolutionLimit`, `Classify` by label and dimensions (the higher class counts),
`MediaAllowed`, the choice of the best permitted version and of the best fit to
a screen, fallback candidates, and `ResolvePolicy`, which picks an account's
entry. Lists of versions keep Plex's indexes. What a choice finds is a set with
at most one element, empty when there is nothing to choose.

`Playback` follows one request of the decision, start or subtitles route. `q`
is what its query says about version, bitrate and direct play; each handler is
one or two steps, in the order of `pc`:

| Steps | Code |
|---|---|
| `Secure` | `SecurityContextMiddleware::handle`: policy snapshot, identity or none |
| `EnforceRefuses`, `EnforcePasses`, `EnforceStart`, then `LoadFails`, `NothingToCheck`, `PinVersion` or `NothingAllowed` | `enforce_resolution_policy` |
| `AutoSelect` | `auto_select_version` |
| `ForceQuality` | `force_maximum_quality` |
| `VideoFallback`, `NoFallback`, `TrialFails` | `video_transcode_fallback`, with the trial at Plex |
| `DirectStream` | `direct_stream_fallback` |
| `Send` | `proxy_request` |
| `Reload`, `ItemChanges` | `policy_reload`; new or replaced versions at Plex |

Every handler loads the item for itself, so `ItemChanges` may come between any
two. One request stands for all, because requests share nothing here. Only the
routes with the policy switched on are modelled.

### Properties

* `PlaysWithinPolicy`: whatever leaves for Plex, trials included, names a
  permitted version of the list it was taken from. `checked` is that list. What
  happens when the list changes after that is Plex's index on Plex's new list:
  no handler could prevent it, and the stream gate is there for it (`Access`).
* `BitrateCapped`: `max_bitrate` holds for what is sent, unless global maximum
  quality removes it, which `docs/FEATURES.md:81` says.
* `ChoiceKept`: a permitted version that the client chose is not exchanged.

### Run, proofs

`playback`: 5 version lists (mislabelled, unknown, single, empty), clients of
all three routes with and without screen, version and bitrates (two that
disagree, one that is no number), 3 configurations and 3 policies; reloads and
changes at any step. Three versions are the least with one above, one at and
one below a limit.

`PlaybackProofs` proves all four invariants, for all inputs. They are nearly
inductive: `IInv` adds that nothing was checked and the index is the client's
until the policy has its say (`Unchecked`), and states the cap and the choice
for every handler and not only the last (`CapHeld`, `ChoiceHeld`). The lemmas
above it show that what the rules choose is permitted.

Observed: 8K dimensions with the label `1080` are classified by the label,
since the dimensions have no class. A `videoBitrate` above the cap survives
beside a `maxVideoBitrate` within it. `enforce_resolution_policy` reads
`fail_closed` from a snapshot of its own.

## Access

### State and steps

`store`, `identities` and `facts` are the policy snapshot in force, the identity
cache (by token) and the part facts (by part number); each request slot has its
input, its own snapshot `snap` and its identity `sec`. A request is for one of the
approved upstream servers (`Servers`). What a token is shared as, and what a part
number stands for, depends on the server (`SharedUser`, `ServerUser`, `FactOf`),
while both caches are common to all. `NoPart` in the path of a part is a part id
that is no number.

| Steps | Code |
|---|---|
| `Arrive`, `RejectHost` | `RequestContextMiddleware` |
| `Secure`, `UseCached`, `StartLookup`, `Identify`, `StoreIdentity` | `SecurityContextMiddleware`, `get_current_identity` |
| `LearnFacts`, `ServeUnidentified` | `cache_part_classification`, called as metadata passes |
| `Gate` | `protected_redirect_stream` |
| `Reload`, `ForgetIdentity`, `ForgetFact` | `policy_reload`; expiry, eviction, `cache_purge` |

`Fetched` is the set of results a lookup may have: plex.tv, the resources
endpoint, the admin's shared servers, then the configured bindings, clients and
names; any of the first three may fail. The lookup and the insert into the
cache are separate steps.

### Properties

* `IdentityIsPlexs`: a token that Plex can name, by itself or for every approved
  server, is only taken for an account Plex names for it: with one server, for
  that account and no other. It says nothing of a token that only some of the
  approved servers can name (see Observed).
* `StreamsWithinPolicy`: what an account of the token is allowed in the snapshot
  of its request bounds what is delivered: only by proxy, and a numbered part
  only if it is allowed by what an approved server says of that number, not by
  what is recorded of it. With one server that is what the part is. It says
  nothing of a part path without a number beyond the proxying.
* `FailsClosed`: nobody unidentified gets a stream under a policy that fails
  closed.

The snapshot of the request is the measure, as in `docs/OPERATIONS.md:89`: a
stream that started before a reload goes on.

### Run, proofs

`access`: 2 requests, 2 servers that disagree on everything, tokens of four
kinds (verified, shared by both servers with different accounts, known to the
admin of one server only, bound to a client), 1 part number, 2 policies that
disagree on everything. Requests meet only in the caches, so two are enough for one to use
what another has stored, and slots are used again. Slots are symmetric.

`AccessProofs` proves all four invariants for all constants. Besides the type,
`IInv` says that recorded facts are true at some server (`FactsAreTrue`) and that a request
has no outcome before its answer (`Quiet`); each step is then compared with the
gate, the only one that delivers.

Observed: an answer of shared servers other than 200 counts as a list without
the token, so configured identities are tried next. What a transcode session
plays is not known at the gate: it is proxied, never redirected, to whoever is
restricted. The same holds for a part path whose `partid` is not an `i64`
(`routes.rs:1253`): it takes the session's branch (`:1306-1315`) and is proxied
without a look at the facts, although `docs/FEATURES.md:120` says that unknown
direct parts are rejected.

With several approved servers (`docs/FEATURES.md:187`) the lookup asks about the
server of the request (`context.rs:184`, `plex_client.rs:604`, `:740`, `:832-835`)
but its result is cached by the token alone (`:372`): the server asked first
decides for all. A token that one server can name and another cannot may so be
taken, until the entry expires, for what the configuration makes of it. Facts
about parts are kept by part id alone (`plex_client.rs:110`), so those of one
server also decide about the part with that id on another.

## Jobs

A request checks the cooldown (`CheckCooldown`), claims under the lock
(`Claim`) and spawns (`SpawnTask`); the task asks for the user, posts one
setting and two opt-outs (`GetUser`, `Write`), and finishes whatever failed
(`Finish`). `Drop` ends a handler at any await. `Tick` is the clock.

* `OneJobPerScope`: jobs of one account never overlap, although the cooldown is
  read outside the lock.
* `FurtherAttemptsCoolDown`: whoever arrives after a claim claims again only
  when the hour is over. Two requests that were both there before the claim
  may follow each other: the second claims as soon as the first job has ended.
* `JobsGiveBack` (liveness): a spawned job gives its account back.

Run `jobs`: 3 attempts on one account, an hour of 2 ticks, a clock of 3: enough
for an attempt within and one after the cooldown, and a third that was there
from the start. Accounts share nothing but the lock. Fairness: weak, of the
task's steps only. `tokio::spawn` tasks run to their end, and a call without
an answer fails by its timeout. Handlers get none.

`JobsProofs` proves the type (with it that a task holds its claim),
`OneJobPerScope` and `FurtherAttemptsCoolDown` from one inductive invariant, which adds that what is past the cooldown check finds
the cooldown over or came before the claim (`ChecksAreRecent`).
`JobsGiveBack` is only model-checked.

Observed: a handler dropped between claim and spawn leaves its account claimed
until the next start (`jobs.rs:43`, `Drop` at `claimed`).

## Pages and DirectService

### State and steps

`disk`, `memory` and `assets` are the disk cache, `PHOTO_CACHE` and the web
assets; `warm` is what the warmer is about to store; `body` is each response's
body. A record says from which of the approved servers it comes, whose it is, what
it is, whether it has all fields, whether it is `sound` (a page that parses, a
photo that is an image), and whether its status was 200 (`status`, of pages
only: 3xx and errors end the chain, every other success goes on). A request is
routed to one of `Servers`; the warmer and Plex Web use `Home`, the configured
one. Keys name no server, and caches keep no status.

| Steps | Code |
|---|---|
| `PageLookup`, `PageRemove`, `PageFetch`, `PageStore`, `PageTransform` | `library_cache_lookup`, `proxy_for_transform`, `library_cache_store`, `transform_policy_response` |
| `PhotoSkip`, `PhotoDiskLookup`, `PhotoMemoryLookup`, `PhotoFetch`, `PhotoKeep`, `PhotoStore` | `photo_cache_hoop` |
| `PhotoResolve`, `PhotoProxy` | the handlers of the route after it |
| `AssetLookup`, `AssetFetch`, `AssetStore` | `serve_web_asset` |
| `WarmPage`, `WarmPhoto`, `WarmStore` | `warm_library_pages`, `warm_hubs_for_token` |
| `ForgetDisk`, `ForgetPhoto`, `ForgetAsset`, `Drop` | eviction, expiry, `cache_purge`; dropped handlers |

Storing may fail, and a full cache keeps what it has; a purge is a sequence of
`Forget` steps, so requests run in between.

### Properties

* `AnswersDirectly`: the module implements `DirectService`, where each request
  is answered as if Plex had been asked for it with its own token, in full, and
  a library page of status 200 filtered by the policy in force when the request
  came. A page of another status is shown as the server asked sent it. A page of
  status 200 may be that of any approved server, because its key names none:
  with one server it is that server's, which is what the configuration without
  routing has. Artwork is always the server's that was asked, for the reason of
  the finding below. An answer is the request's `body` once it is `done`.
* `OneSource`: a request that goes to Plex has no answer of a cache yet.

### Runs, finding, proofs

`pages`: 2 requests, one account that is warmed and one without token, 2 servers
(the account asks the one the warmer does not use), one item, whose artwork is
hero artwork, 1 file and 1 image at most, 2 policies, slots and policies
symmetric. One place in each cache makes every second store an eviction's
subject; two accounts and two servers are the least that can mix. Items only
tell keys apart, as accounts do.

`photo_hits` (violated) with 1 request: an image from a cache is put into the
response, and the rest of the route asks Plex for it all the same, because the
hoop returns without `skip_rest`. The handler at the end of the route overwrites
the image, so answers are right but no request is saved. This is why photos
may be unsound in `DirectService`, and why a streamed image, which the hoop
takes out of the response, still reaches the client.

`PagesProofs` proves `TypeOK`, `OneSource` and the refinement. `IInv` says that
every entry of a cache was fetched for the account and item of its key, in full,
and is served with 200 (`EntriesOwn`); a body on its way to a cache or to the
transforms is moreover from the server that was asked (`BodiesOwn`, `Fresh`). It is proved in two parts, the stores and the slots
(`InvParts`), with a lemma per step. For the refinement each step is one
that nobody sees, an `Ask`, or an `Answer`.

Observed: only a body of status 200 is filtered (`routes.rs:1767`); other successes
are stored all the same (`routes.rs:760`), and a later hit serves and filters
them as 200. With several approved servers the pages of one account and path
meet under one key (`routes.rs:640`), so a page of one server may answer a
request to another; the same keys are used for artwork. Removing an unusable page may remove a fresh one stored since
(`routes.rs:729`); the page is then fetched again. A purge of photos leaves the
disk, which is read first (`routes.rs:3283`, `docs/OPERATIONS.md:70`). Library
pages have no expiry. Web assets are kept for a month, `index.html` included,
while clients are told `no-cache` "so updates can propagate"
(`docs/FEATURES.md:171`, `web_assets.rs:106`). A purge of an account's metadata
matches keys by `:u:<scope>:`, which misses the shared home rows and the
lookups keyed by token (`routes.rs:3256`).

## Responses

### State and steps

A request runs a chain: `todo` is what is left of it, `left` and `kept` the
children that the transform at work has before and behind it, `at` whether it
filters or changes the next one, `seen` the answer to its lookup at Plex, and
`meta` the cache of such lookups. Rows carry their items, their title, the
collections their key names and their size. Items carry the set of the classes of
their versions (`media`) and every descendant with those of its own (`inner`,
all depths in one set: `filter_media_recursive` does the same at each); a class
that cannot be determined is above every limit. Whether a descendant is
`playable` (a movie, episode, clip or track) is a fact about it.

| Steps | Code |
|---|---|
| `AskHome`, `AskPage`, `Refresh` | `cached_hubs_response`, `transform_policy_response`, and for a row that was shown `get_collections_children` or `default_transform` |
| `Look` | `get_cached` |
| `FilterChild`, `ChangeChild`, `MixCollection`, `FinishTransform` | `TransformBuilder::apply_to` with the transforms of the chain |
| `Relabel`, `Share`, `Reload`, `Forget` | labels and sharing at Plex, `policy_reload`, expiry and purge |

The code's lookup is an await inside filter or change, so anything may happen
between `Look` and the step that uses it.

### Properties

* `HiddenStayHidden`: a collection hidden from the account has no row on a home
  screen and is no item of a library page. The items inside a row are not
  meant: the code does not look at them (below).
* `PagesFiltered`: library pages show no version above the limit at any depth, and
  every version within it. An item that had versions and keeps none is gone;
  an item without any stays, and so do descendants that are containers;
  playable descendants without a version are gone, if there is a limit, whether
  they had one or not. Without identity, and with `fail_closed` throughout, no
  version is left.
* `RowsAreShared`: with `hub_restrictions`, a row names only collections Plex
  has listed for that account, however merged.
* `RowsComplete`: merging and watched filtering lose nothing else.
* `RefreshAgrees`: the refresh of a row begins with what the row showed.

The last two hold where their definitions say: Plex answers, nothing changes
meanwhile, rows are not cut short. `RowsComplete` speaks of a title at a time
and leaves out, in `Plain`, the titles where the code does lose items (below):
those whose first staying row the watched filter has emptied, and those with a
row as long as the client's `count`. It also leaves out titles that Continue
Watching shares with another row when the client drops Continue Watching,
because merged rows are dropped or kept as one. `RefreshAgrees` speaks of home
screens whose rows came whole (`WholeRows`): the row of a collection names it and
has its items in its order, no more than a page of them (nor than the 250 that
are asked for with `exclude_watched`), and no row of Plex's own has its title.
Otherwise the two need not agree: Plex may have sent a part of the collection, and
a row that is merged into Plex's own keeps items that no collection of its key
has.

### Run, proofs

`responses`: 1 request at a time with its follow-up, 2 accounts, 2 collections
that share a title, a row of Plex's own, 6 items (a watched movie in two
versions, of which one is above the limit; a movie above it; a clip without
media; a show, partly watched, with these three and a season below it; a
collection, which is in Plex's row and on a page), 2 pages, 2 configurations, 2
policies (a limit and a hidden title; no limit), 3 clients, one change.
Requests meet only in `meta`, and a request after another shows that. Two rows
of a title are the least to merge, one longer than the other.

The proofs are for all constants that satisfy `WorldAssumption` (their shapes,
some account, sentinels apart from what they stand for), `SizeAssumption`,
`KidsAssumption` and `KeyAssumption`. Sizes: Plex counts the items it sends with
a row, as in every answer of the tests' mock; so it changes nothing that
`HubStyleTransform` sets the size of a hero row anew (`hub_style.rs:233`), and
the style transforms are the identity. Kids: playable descendants have none of
their own, so that `prune_children` never keeps one for what is below it. Keys: the
key of a raw row leads to Plex, and names no collection but the row's own. That
it leads to Plex holds because Plex wrote it, and only `HubKeyTransform` writes keys
that lead to Replex. The rest is Plex's doing:
`merge_children_keys` takes the id from `/library/collections/<id>/children`, and
in every collection row that the tests answer with (`src/tests/mock`) it is the
last part of the `hubIdentifier`, which is what the transforms look up.

`ResponsesProofs`: `HiddenStayHidden` and `PagesFiltered`. `IInv` follows what
each transform has done to the children it is done with: titles behind
`visibility` are not hidden (merging keeps the title of the first row), items
before `policy` have all their versions (`Originals`), those behind it have only
permitted ones (`Clean`), and of every item of the raw page that the rules allow
there is, in `left` or `kept`, one with the same permitted versions, of itself
and of the descendants that remain (`Same`, `Survives`). `Same` compares what is
permitted, so that it holds across the transform that removes the rest.

`ResponsesRowsProofs`:

* `TypeCorrect`, from `TypeInv`, which tells the kinds of requests apart: what
  children each holds at what point of its chain (rows, items, or the stubs of
  collections until the first transform of a refresh is done), and that an
  answer is one to what is wanted, labels for a collection and a list for the
  list. What watched filtering and interleaving return is stated by
  `UnwatchedFacts` and `InterleavedFacts`. `Unwatched` is a recursive function,
  and what holds of it for every length is shown with a least counterexample
  (`Least`, `Induction`, from the library's `WFMin`).
* `SharedCorrect`, `Spec => []RowsAreShared`. `SharedInv` says that lists, cached
  or on their way, are from what Plex has ever listed for the account
  (`ListsInv`), and where a request stands: rows are still Plex's
  (`Unrestricted`); those that have passed may be shown and the rest are Plex's
  (`BeingRestricted`); all may be shown, and nothing later adds a collection
  that may not (`HasBeenRestricted`). A merged row's key is that of its rows
  (`MergedMayShow`). Each step is then compared with the stages, and what it
  does to the other requests is stated once (`OthersStay`).
* `CompleteCorrect`, `Spec => []RowsComplete`. The rows before and behind the
  transform at work are taken together, title by title, and as kinds of rows
  (sets) instead of positions: `Some` row is of a kind, `Each` row is, the first
  row of one kind `Leads`, being of another. `Progress` says, for a stage of the
  chain, what rows that are through have in common (`Passed`: visible, shared,
  trimmed, kept for the client), that the first row of a title still has items
  when the others are merged into it (`Led`; without it `set_children` drops
  theirs), and that an item is offered or shown by some row if, and only if, the
  rows of Plex offer it (`Undiminished`). Before merging a row offers what
  watched filtering will leave of it (`Offered`), so that no row has to be
  followed to its filter; `Uncut` comes in with `shape`, the first transform
  that drops or cuts what it should show. `Current` and `MetaCurrent` add that
  a lookup, cached or under way, has found what is at Plex while nothing
  changes there. `CompleteInv` adds these to `SharedInv`.
* `AgreeCorrect`, `Spec => []RefreshAgrees`. A row and its refresh go through
  different chains: the row's collections are filtered row by row and then merged,
  the first with the second, the result with the third; the refresh asks for them
  anew, filters each as it comes and mixes it in. Both are the same folding of what
  each collection shows (`Showable`) along the key. `Mixing(f, key)` says that `f`
  gives its result for each beginning of the key, so that no recursion is
  needed: `BlendedMix` prolongs `f` by one collection when a row is merged, and
  `GatheringMoves` goes one along it when a collection is mixed in. The kinds
  `WholeKind`, `SiftedKind`, `MixedKind` and `ShownKind` say what a row is at each
  stage of the home screen (all of its collection, what is to be shown of it, a
  folding along its key or nothing, a beginning of one), and `Gathering` and `Runs` how far the
  refresh has come, the latter by ids, because the last transforms may drop
  counts of leaves and rows are cut to the client's `count`. `AgreeInv` adds this
  to `CompleteInv`, whose `Current` gives that both found the same labels.

Observed:

* With interleave off a row's refresh answers with no items
  (`library_interleave.rs:22`), against `docs/FEATURES.md:27`.
* When the watched filter empties the first row of a title, `set_children` only
  sets its size, and the items of the rows merged into it are dropped
  (`models.rs:1448`).
* Rows are merged with the first row of their title, which may be Plex's own
  (`hub_interleave.rs:41`); `docs/FEATURES.md:25` says these remain separate.
  Only the missing key of some of them prevents it.
* A row's size is not set anew after the watched filter.
* With `exclude_watched` every page of a refresh starts at 0 and ends at 250;
  `total_size` is the length of the page.
* `HubWatchedTransform` does nothing to the items of a default row.
* After `disable_leaf_count` a show is judged watched by its view count.
* A failed label lookup excludes nothing; without identity, hidden collections
  show on the home screen even when `fail_closed` is set.
* A collection among the items of a row is neither checked nor removed:
  `CollectionVisibilityTransform` looks at the children of the response
  (`transform/resolution_policy.rs:224`), which on a home screen are the rows,
  while the comment above it speaks of hub rows, section listings and collection
  metadata (`:218`). The instance has such an item, in Plex's own row.
* Nested movies, episodes, clips and tracks that have no media are dropped with
  the prohibited ones, if there is a limit (`prune_children`,
  `transform/resolution_policy.rs:173`); at the top of a response they stay.

## Not modelled

* Metrics, logging, explain, status and readiness: they report only.
* Script transforms: user programs in an interpreter.
* Process start, reading and validating the configuration: sequential. `init`
  of the disk cache is modelled.
* Artwork and styles (`hub_style`, `media_style`, `collection_style`) beyond the
  lookups they cost, hero artwork, XML and JSON, header forwarding: data and
  layout.
* `hub_limit`, `hub_section_directory`, content directories and guids: routes
  that proxy with the transforms already modelled.
* The generic request cache of `cache.rs` (`RequestIssuer`): no route installs
  it.
* Routes with the policy switched off: they are the modelled ones with less.
* The bytes of a stream, and the remaining encoder parameters of playback.
