# A TLA+ development of DDRS

DDRS is a dynamic DNS client: it looks up the public address of its host once
per interval, compares it with a small file, and tells its DNS providers when it
changed. This directory models it in TLA+, checks the models with TLC on small
instances, and proves the most important results with TLAPS for all instances.
Source paths are relative to the repository (`src/client.rs`, ...).

## 1. The system

| Component | State it keeps | Operations | Interacts with |
|---|---|---|---|
| Update loop (`src/client.rs`) | configuration, cancellation token, the locals of a pass | `run`, `update_providers`, `shutdown` | all the others |
| Address update (`src/ip.rs`) | none (pure) | `is_empty`, `changed_since`, `merge_into_cache`, `iter` | update loop, providers |
| File cache (`src/cache.rs`) | one file, its temporary files, its directory | `new`, `set`, `get` | update loop, file system |
| HTTP lookup (`src/ip_lookup.rs`) | tasks, votes and failures of one lookup | `fetch_ip_http`, the parsers, `resolve_ip_quorum` | lookup services, retry middleware |
| Interface lookup (`src/ip_lookup.rs`) | none | `fetch_ip_interface` | the operating system |
| Configuration (`src/config.rs`) | the validated values | `try_from` and the checks it calls | main, lookup, loop |
| Providers (`src/providers*`) | credentials and domains; the records live at the services | `validate_config`, `update` | update loop (one task each), the services |
| Process (`src/main.rs`) | the join handle of the client task | start, signals, shutdown | user, service manager, update loop |

How they interact. `main` reads and validates the configuration, spawns the
client task, and waits for a signal or for the end of the task. The task sleeps
two seconds and then loops over a biased `select!` between the cancellation token
and the interval's tick. A pass looks up each configured IP version in turn
(several concurrent requests each), reads the cache, keeps what differs from it,
spawns one task per provider, waits for all of them, and stores the merged update
if none failed. The cache and the providers share nothing but this order of
calls; the records at the providers are never read back to be compared.

What is hard about it:

* **Stale knowledge.** The cache stands for the state of the DNS records.
  A provider that fails after another succeeded, a cache that cannot be written,
  a crash, an edited configuration: each makes the two differ.
* **Dual stack.** One pass may observe one IP version only, change the other, and
  still has to store both.
* **Crashes** between any two steps of `set()`, and between the push and the save.
* **Concurrency.** Lookup tasks end in any order while the host's address may
  change; provider tasks run concurrently and each may fail half-way.
* **Shutdown** in the middle of a pass, with signals, panics and the end of the
  task racing each other in `main`.
* **Retries, lost answers and late effects** of requests that are not idempotent,
  and provider entries that cover the same names.
* **Time**: passes that take longer than the interval.

What makes each component correct:

* Update loop: the cache never claims more than was sent (`CacheIsEvidence`,
  `DiskIsEvidence`); it converges without help (`CacheFollowsAddress`,
  `RecordsFollowAddress`); a pass is skipped only when there is nothing to
  publish (`SkipMeansPublished`); shutdown completes (`ShutdownCompletes`).
* Address update: merging loses no version (`NoVersionForgotten`).
* HTTP lookup: an accepted address is real (`AcceptedWasHeld`), is the only
  possible one (`NoRival`), and none is missed (`FailsOnlyWithoutQuorum`); the
  lookup ends (`Terminates`).
* File cache: after `Ok` only the new value is found, whatever the machine does
  (`PowerFailureKeepsPromise`), and only stored values are read
  (`GetIsAuthentic`); together, a single-value store (`ImplementsStore`).
* Configuration: a client runs on a configuration exactly when it is sound
  (`OnlySoundRuns`, `RefusedForCause`).
* Process: it reports success only when the last pass is finished
  (`SuccessMeansDrained`), reports panics (`PanicIsReported`), and ends on a
  signal (`SignalEnds`).
* Timing: no bursts (`OnePassPerPeriod`), no drift (`KeepsGrid`), no silence
  (`NeverSilent`), and no pass after a shutdown (`StopsInTime`).
* Providers: after `Ok` every domain has a record with the address
  (`OkMeansPublished`), and as long as no request was repeated no other
  (`OkMeansOnly`); duplicates do not add up (`DuplicatesBounded`); every call ends
  (`UpdateEnds`), after a bounded number of requests (`RequestsRunOut`); together,
  `update()` as the loop expects it (`ImplementsUpdateTask`).

`PROJECT.json` lists the hazards one by one, at the line where each bites.

## 2. The modules

| Module | Models |
|---|---|
| `IpUpdate` | `src/ip.rs` as operators |
| `CacheStore` | what the cache promises: the abstract specification of `src/cache.rs` |
| `Client` | `src/client.rs` with the process around it and the world it acts on |
| `LookupDecision` | what an HTTP lookup promises: the abstract specification of `fetch_ip_http` |
| `IpLookup` | one HTTP lookup in `src/ip_lookup.rs` |
| `Cache` | `src/cache.rs` at the level of the file system |
| `UpdateTask` | what `Provider::update()` promises the loop: the abstract specification of the providers |
| `RecordSync` | the tasks of a push and the services that keep the records: what `src/providers/*.rs` share |
| `Cloudflare`, `Porkbun`, `DuckDns` | the requests of each provider and the checks of the answers, on top of `RecordSync` |
| `Push` | the three together: `update_providers` with entries of any type |
| `Config` | `src/config.rs` and every `validate_config()` as operators |
| `Startup` | one run of `src/main.rs`, from the arguments to the exit status |
| `Ticker` | when passes begin: the interval of `run()` in `src/client.rs` |
| `ClientProofs`, `IpLookupProofs`, `CacheProofs`, `PushProofs`, `TickerProofs`, `StartupProofs` | the theorems about the module each is named after |
| `MCClient`, `MCIpLookup`, `MCCache`, `MCPush`, `MCStartup`, `MCTicker` | constants for TLC |

`IpLookup` takes `ensure_http_lookup_quorum` from `Config`: what its proofs assume
is the operator that `Startup` is checked with.

### Client

`pc` is the place of the client task: `stopped` and `crashed` (no process),
`sleeping` (the two seconds at the start), `select`, and the phases of a pass,
`lookup`, `read`, `push` and `save`. `todo`, `observed`, `update`, `next_cache`,
`unsent` and `failed` are the locals of a pass and of `update_providers`; they are
reset when they go out of scope (`EndPass`). `config` is reduced to what the loop
depends on: the records of the providers, the IP versions and `dry_run`.

Each `.await` at which something else may happen separates two actions: the
lookups (`LookupOk`, `LookupErr`), the read of the cache (`ReadCache`, whose
disjuncts are the two `continue`s and the spawn of the provider tasks), the steps
of the providers, the end of `join_next` (`JoinAll`), and the save (`SaveOk`,
`SaveErr`). A lookup returns the address the host has when the lookup ends. That
is what `IpLookup` delivers except that an address may already have been replaced
when it is returned, which `ChangeIp` just after the lookup covers, and that a
quorum of liars is left out.

A provider writes its records one at a time, in any order, and may end in an error
before or after any of them (`ProviderErr`, `ProviderLostAnswer`); it is `Ok` only
when all are written. This is wider than each provider's own order. It leaves
out a request that takes effect after its task has ended, and duplicate records of
one name: `dns` says that a name has a record with the address, which is also what
`UpdateTask` promises and the provider modules are checked against.

`file` and `disk` are the variables of `CacheStore`: what `get()` reads now, and
what a power failure may leave. `drift` is a history variable: for each IP
version, the records that the cache says nothing about. A record joins it when it is
written, or when a cache of another configuration is stored, and leaves it when a
save succeeds in a pass that wrote it. `Faults` selects what can go wrong:
`lookup`, `provider`, `cache` (failing reads and saves, damage) and `crash`
(panic, kill, power failure, also inside `set()`).

### IpLookup

One element of `Url` per configured URL; a task retries up to `Retries` times,
then returns an address or a failure. `reply` is what the task returned, `joined`
the tasks whose result the loop has taken, `votes` and `failures` its counters.
A response is reduced to whether its status is a success and whether its body is
an address of the version, oversized, or something else. `held` is a history
variable: the addresses the host has had since the lookup began. URLs in `Liar`
may report any address. `LookupDecision` knows only the replies and the result.

### Cache

`tmp` and `entry` are files: the value they hold, how many bytes are written, how
many are synced, and which header fields and checksums are as written. `synced`
is the set of files that the path may name after a power failure; a directory
made by `create_dir_all` is `unsynced`, because nothing syncs its parent. The
client awaits each call before the next, so calls do not overlap. `Cache`
implements `CacheStore` by the mapping `file <- Reading(entry)`,
`disk <- {Reading(c) : c \in AfterFailure}`: the rename is `SetUnsynced`, the
directory sync is `SetDurably`, an error is `SetAborted` or nothing.
`Client` instantiates `CacheStore`, so what it assumes of its cache is what
`Cache` is checked against.

### Push and the providers

`UpdateTask` knows the argument of `update()`, whether it is running and how it
ended, and for each name and version the set of addresses found in its records.
A step may only add the asked address to a name that was asked for (and replace
what was there); `Ok` requires it under every such name; and a request may take
effect after the task has given it up.

In `RecordSync` each entry is a task. `config` says of what type an entry is, which
domains it has (one may be listed twice, and entries of one type may overlap) and how often
requests are repeated. A task walks through `todo`, the domains times the
versions of the update in the order of the loops (`Work`), and `step` is the request
it makes next. `records` is the services: a sequence of addresses per name and
version, where the index is the record's id. Each request is one action. An answer is
reduced to what the code looks at: its status, whether the body is the expected
JSON, the `success` (or `status`) field, and whether there is a result (`Verdicts`). The
service never claims success for what it has not done; it may refuse after having
done it. `NoAnswer` is a request whose answer does not arrive: the service may
have carried it out, may do so later (`late`, one by one), or never; the middleware
repeats it up to `Retries` times, whatever the method, and then `update()` ends in
an error. Between the list and the write other tasks, and late requests, may act.

`Call` begins a push: the loop awaits all tasks first (`client.rs:184`), and the
model assumes that what the service has not carried out by then, an interval
later, it never will. Without the assumption a `PUT` delayed by more than an
interval could overwrite a newer address, and no client could exclude it.

Duck DNS has one request for all names (`send`). An answer is what the service
writes, a status with other lines after it, behind any number of blank lines;
the parser has only the text, whose lines are the words the code knows, blank,
or something else, and has to find the status in it.
`Push` instantiates the three modules and lets each task take the steps of its
type.

### Config and Startup

A raw configuration is a record of the fields of `RawConfig`; `try_from` is the
conjunction of its checks, because every check that fails ends in an error and
none has an effect. URLs are reduced to their scheme, texts to blank, with a
comma, or plain.

`place` is where `main` is. The file may vanish or be replaced between
`canonicalize()` and the read. The handlers of SIGINT and SIGTERM are installed
when the futures are first polled; before that a signal kills the process, and
installing may fail. `select` takes any branch that is ready. `Exit` ends the
client task with the process: `task` becomes `cut` if a pass was under way. The task
itself is reduced to sleeping, waiting and passing. A second signal changes
nothing, because the handlers stay.

A Cloudflare or Porkbun domain without `name` is read with an empty name
(`#[serde(default)]` on the whole struct), and `validate_config()` only counts the
domains. `README.md` of the repository calls the name required; the models have
the check the code has, and `Sound` does not ask for names.

`Sound` has three parts. `WithinLimits` are the limits of each field by itself; they
hold for every field, whether the configuration uses it or not: a URL that is not
HTTP(S) is refused in the list of a version that is not selected, and a quorum of
zero although the source is an interface. `SourceSound` and `ProvidersSound` are
about fields that are used: the number of URLs and its quorum count for the
selected versions of the source `http` only. `RefusedForCause` names these causes.

### Ticker

`deadline` is that of tokio's `Interval`, which is due at once when it is created
and with `MissedTickBehavior::Skip` moves on to the next multiple of the interval.
The task is polled as soon as what it waits for is ready (`Patient`); a pass takes any time
up to `MaxPass`, which exists because every request has a timeout. Ticks late by
no more than tokio's 5 ms count as timely (`Tolerance`); the interval is assumed
to be longer than that.

## 3. The runs

| Run | Instance | What it shows |
|---|---|---|
| `client_failures` | 2 providers, 2 records, 2 addresses, 3 configurations, all faults | `TypeOK`, `CacheIsEvidence`, `DiskIsEvidence`, `ShutdownCompletes`, `CacheFollowsAddress` |
| `client_dualstack` | 1 record, 2 addresses, v4 / v6 / both, faults of lookups, providers and the process | `CacheIsEvidence`, `NoVersionForgotten` |
| `client_faultfree` | 1 record, dual stack, lookups may fail | `SkipMeansPublished`, `RecordsFollowAddress` |
| `client_reversal` | 2 providers, one may fail | violates `SkipMeansPublished` |
| `client_added_record` | no faults, a record added between starts | violates `SkipMeansPublished` |
| `lookup_even` | 4 URLs, quorum 3, 2 liars, 1 retry: ties, splits, and the even majority | every property of `IpLookup` |
| `cache_files` | 2 storable values, one too large; directory exists | the cache's properties and the refinement |
| `cache_new_directory` | the same, directory does not exist | violates `PowerFailureKeepsPromise` |
| `push_overlap` | 2 entries of one type for 1 name, 2 addresses, 1 retry | `TypeOK`, `OkMeansPublished`, `DuplicatesBounded`, `ImplementsUpdateTask`, `RequestsRunOut` |
| `push_mixed` | Cloudflare or Porkbun, with a name listed twice, next to Duck DNS; or 2 Duck DNS entries with a retry; both versions | `OkMeansPublished`, `OkMeansOnly`, `ImplementsUpdateTask`, `UpdateEnds` |
| `startup` | some 400 configurations: 0 to 4 URLs for IPv4, 0 to 3 for IPv6, quorum 0 to 5, each other field at and beyond its bound, every entry of a provider; signals at any moment | every property of `Startup` |
| `ticker` | interval 4, first sleep 6, passes up to 10, 32 units of time | every property of `Ticker` |

The bounds. Two addresses are enough to leave the cached address and come back
to it; two providers to have one succeed and the other fail; one record is enough
where the question is about the two IP versions, which do not look at records.
No counter of the models is unbounded, so no state constraint is used: the runs
explore every reachable state of their instance. The configurations of a run are
those a user may switch between; `client_failures` removes and adds a record and
toggles dry run. Lookup runs stop when the lookup has returned, and `Ticker` when the client
has, or its clock at `MaxTime`; they switch the deadlock check off for that
reason, and in all other runs it is on. `OkMeansOnly` is about pushes without retries,
because a repeated `POST` does leave a second record with the old address behind
(`DuplicatesBounded` says how many). A domain listed twice is enough for an
iteration that succeeds before one that fails; two entries are enough to race;
texts of two lines have a blank one before the status, or another status before a
line that reads `OK`; four URLs
and quorums up to five cover too few, half, majority, all and too
many. The time bounds of `Ticker` are several intervals beyond the longest
pass, and the state then repeats on the grid of the interval.
In `push_overlap` addresses and entries are symmetric; no other run uses symmetry.

The history variables do not constrain any action.

### Fairness

`Client`: weak fairness of the loop (a timer fires, and the task is scheduled by
the tokio runtime), of each provider's task (every request ends by
`timeout`/`connect_timeout` and a bounded number of retries, `client.rs:46-59`)
and of the restart after a crash (`Restart=on-failure`, `restart:
unless-stopped` in the repository's README). Nothing is assumed about signals,
address changes, users or faults. `CacheFollowsAddress` and
`RecordsFollowAddress` have the form "either disturbances never end, or the state
is eventually right for good". `IpLookup`: weak fairness of each task and of the
loop, for the same reasons. `Push`: weak fairness of each
task, since a request ends by its timeout at the latest; nothing is assumed of
the service. `Startup`: weak fairness of `main` and of the client task, whose
passes end for the reasons above; nothing is assumed about signals.

### What the failing runs say

* `client_reversal`. Cache and records hold address a. The host gets b; one
  provider takes it, the other fails, the cache is rightly not updated. The host
  gets a back before the next pass. The pass compares a with the cache, finds no
  change and stops, and the first provider's record keeps b until the address
  changes again. A failed save and a crash after the push lead to the same
  state.
* `client_added_record`. A record is added to the configuration and the program
  restarted. The address is still the cached one, so the record is not written.
* `cache_new_directory`. `set()` makes the directory, syncs it, but not its
  parent; `Ok` is returned and a power failure may still lose the directory.
  POSIX allows it; with the service file of the README the directory exists
  before the program starts, which is the instance of `cache_files`.

### Mutants

Operators marked `Mutant:` are changed forms of the definition that follows
them: a dropped guard, an off-by-one, a missing sync. No action uses them. With
the mutant in the place of the definition, the property named in `PROJECT.json`
fails.

## 4. The proofs

The proofs assume only the `ASSUME`s of the modules. They say that the constants
have their types, that `None` and `Corrupt` are not values, that a record has an
owner (`Client`); that the quorum is a majority no larger than the number of URLs,
as `ensure_http_lookup_quorum` enforces (`IpLookup`); that values are not empty
and no file is `None` (`Cache`); that there are finitely many entries, and at
least one (`Push`); that the interval is not zero and longer than tokio's
tolerance (`Ticker`). The sets are otherwise arbitrary, and `Faults`, `Configs` and
`Files` are any. Some theorems have a hypothesis of their own, named with them.

### The update loop and the lookup

* `TypeCorrect`: `TypeOK` is inductive by itself, one step per action.
* `CacheCorrect`, `DiskCorrect`: from the invariant `IInv`. `CacheIsEvidence`
  is not inductive: at the save it depends on what the push did. `IInv` adds that
  every content a power failure may leave is evidence; that in a push a
  record that is not waiting holds the address sent; that what is stored is the
  sent address, or for a version not sent an address that is evidence already
  (this is where `merge_into_cache` and `changed_since` have to fit:
  `MergeChanged`); and that no record waits at the save (`JoinNext`).
* `VersionsKept`: `NoVersionForgotten` when `"cache"` is not among the faults:
  what is going to be stored knows every version the file knows.
* `SkipsCorrect`: `SkipMeansPublished` under `NoFailures`: a single
  configuration and no fault but those of lookups. The two failing runs drop one
  half of this hypothesis each.
* `LookupTypeCorrect`, `AcceptedIsHeld`, `QuorumIsUnique`, `FailureIsRight`,
  `LoopAlwaysDecides`: from `LInv`, which says that the counters are what the
  joined tasks returned, that honest replies are addresses the host has had, and
  how the result relates to the threshold. `QuorumIsUnique` is the pigeonhole
  argument on two disjoint sets of URLs.
* `LookupIsDecision`: every step of `IpLookup` is a step of `LookupDecision` or
  leaves its variables alone, by `LInv` before and after the step.

### The file cache

* `CacheTypeCorrect`, `GetAuthentic`: from `CInv`, which follows a file through
  `set()`: how much of the temporary file is written and synced at each `pc`, that
  every file the path may name is whole, and that what it reads as has been
  promised. `DamageIsDetected` is the lemma about the format: a changed field, a
  changed byte, a byte more or less, and `get()` no longer accepts the file;
  `CompleteIsAccepted` is the other half.
* `PromiseKept`: `PowerFailureKeepsPromise` under `DirectoryExists`, the
  instance in which the directory does not have to be made; `cache_new_directory`
  shows that the hypothesis is needed. `PInv` adds to `CInv` that whatever the
  path may name after a power failure is promised, also between the rename and the
  sync of the directory, when that is both the old value and the new one.
* `StoreImplemented`: under the same hypothesis every step of `Cache` is a step of
  `CacheStore` or leaves its variables alone. What `Client` is proved about is
  what `Cache` is proved to be.

### The providers

`StepMoves` reduces the three providers to one: whatever the type of the entry, a
step is one of six moves (on to the list; the list has come; one record written;
all sent at once; failed; repeated), and a request whose answer is bad or missing
has had its effect, will have it, or never will. The rest is about the moves. Under
it are the lemmas that a task takes for done only what its service claims; for Duck DNS
that is `StatusIsFound`, about every number of lines.

* `PushTypeCorrect`, `OkIsPublished`: from `PInv`. `OkMeansPublished` is not
  inductive: `PInv` says of a task that has not failed that each name and version it
  was asked for is published or still in `todo`, and of each late request that it
  is for names its task was asked to write in this push (so that it can only write
  the address that was sent) and that the record it edits exists. `WorkIs`
  says what the two nested loops visit.
* `PushImplemented`: every step of `Push` is a step of `UpdateTask` or leaves its
  variables alone. `published` is what the records contain, `Status` how
  `update_providers()` joins the results.
* `FewDuplicates`, `OkIsAllThereIs`: `DuplicatesBounded` and `OkMeansOnly` under
  `StoredOnce`, which says that no name starts with several records of a version:
  what the client has not created it cannot be held to. `DInv` counts with
  tokens, one for each entry that covers the name and each attempt it has. A name
  has no more records than there are tokens whose create cannot come any more;
  a task that is about to create, and a create that is late, hold theirs back. A
  new push cannot use a token again while there are records, since an entry that
  finds a record edits it: that is why the duplicates of several pushes do not add
  up.
* `PushRunsOut`: `RequestsRunOut`, for every number of entries, names and retries:
  each request lowers `Remaining` of its task, a natural number, and no other task
  changes it. That is the variant behind `UpdateEnds`; what the prover cannot add
  is only that a task which may step does (the fairness).

### The interval

`TickerInv` says that the deadline is a multiple of the interval, later than the
start of the last pass and at most an interval away, and that nothing begins
after a shutdown was asked for. From it `TickerTypeCorrect`, `LoopNeverSilent`,
`LoopStopsInTime`, `OnePassEach` (`OnePassPerPeriod`) and `GridIsKept`
(`KeepsGrid`), for every interval, delay, tolerance and length of a pass. The
arithmetic is in four lemmas about multiples and remainders, and in
`NextTimeout`: tokio's `Skip` gives the first multiple that is later.

### The configuration and the process

* `ValidIsSound`: the checks of `src/config.rs` and of the providers, in the order
  the code has them, accept exactly what `Sound` asks for (limits of unused fields included, see section 2). `Sound` speaks of
  sets (no version twice; there is a quorum, and any two have a URL in common), the
  code of lengths and of `quorum > urls / 2`; that the two agree for every
  number of URLs is `QuorumChecked`, with a pigeonhole argument one way and two
  disjoint quorums constructed the other.
* `ChecksMeetAssumptions`: an accepted configuration satisfies what `IpLookup`
  (`QuorumAssumption`) and `RecordSync` (entries with domains) assume. This closes
  the chain from the file to `QuorumIsUnique`.
* `StartupTypeCorrect`, `SoundRuns`, `RefusalsJust`, `SuccessIsDrained`: from
  `StartupInv`, which says what is known at each `place`: a task exists only
  for a valid configuration, main waits for the task only after a signal.

### Only model-checked

The liveness properties (`ShutdownCompletes`, `CacheFollowsAddress`,
`RecordsFollowAddress`, `Terminates`, `UpdateEnds`, `PanicIsReported`,
`SignalEnds`): they need fairness and `ENABLED`, which are out of the prover's
reach. Every invariant, every action property and every refinement that a
passing run checks is also proved, some of them under the
hypothesis named above.

## 5. What is not modelled

Error texts, logging, `Display`, the syntax of TOML, durations and URLs,
serialization beyond the format's fields, collisions of checksums, `ttl`, comments
and notes of records, leftover temporary files, and which address of an
interface comes first (the order is the operating system's, and no document says
which one is meant). Requests that a DNS service carries out more than an interval
after the client gave them up are excluded by an assumption.

## 6. Plan

Done, in this order: `IpUpdate`, `CacheStore`, `Client` and its proofs,
`LookupDecision`, `IpLookup` and its proofs, `Cache`, `UpdateTask`, `RecordSync`
with `Cloudflare`, `Porkbun` and `DuckDns`, `Push`, `Config`, `Startup`, `Ticker`;
then the proofs of `Cache`, `Push`, `Ticker` and `Startup`.

Next: the composition of `Client` with `UpdateTask` in the place of its own
provider steps, so that late requests reach the loop's properties, and its proof
from `PushImplemented`.
