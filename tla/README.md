# QuotaClock in TLA+

QuotaClock polls the usage endpoints of several providers, one request per access
key, and serves the latest results as one JSON snapshot. It is one Go process with a
collection loop, one goroutine per request, HTTP handlers, a goroutine that writes
the cache, and a few files in one directory. This directory holds its model: what the
parts do, which properties make them correct, the TLC runs that check them on small
instances and the TLAPS proofs that show the most important ones for all instances.

To reproduce a run: `tlc -config MCScheduler_reloads.cfg MCScheduler` (names in the
table below). To check a proof: `tlapm SchedulerProofs.tla`.

## 1. Inventory

| Component | State it keeps | Operations | Talks to |
| --- | --- | --- | --- |
| Collection scheduler, `internal/collector/scheduler.go` | configuration and `defs`, `states`, `backoffs`, `platformBackoffs`, `inflight` (all under `mu`), the `wake` channel | `Run`/`runTick`, `planTickLocked`, `collectProvider` per key, `Reload`, `SeedCached` | snapshot store (publish), cache writer (Save), called by the PUT handler (Reload) and by main |
| Back-off records, `backoff.go` | failures in a row, earliest next try, stopped | `OnFailure`, `OnRateLimited`, `OnSuccess`, `OnSuccessAt`, `Stop` | owned by the scheduler |
| Snapshot store, `snapshot.go` | one immutable snapshot behind an atomic pointer, its revision | `Publish` with the field-by-field diff, `Load` | scheduler writes, GET handlers read |
| Cache conversion, `collector/cache.go` | none | `CacheFromStates`, `RestoreFromCache` | scheduler, main |
| Cache writer, `persist/cache.go` | `pending`, `wake`, `stop`, `done` | `Save`, `loop`, `flush`, `Close` | atomic write |
| Atomic file write, `persist/persist.go` | `<target>`, `<target>.tmp` | `AtomicWrite`, `CleanTmp`, `BackupConfig` | every writer of a file |
| Configuration save, `server/server.go` | pointers `file`, `cfg`, `masks`; `config.json` | `handlePutConfig`, `mergeForSave`, `handleExportConfig` | tokens, atomic write, `Scheduler.Reload` |
| Single-instance lock, `lock/` | the lock file beside the configuration | `Acquire`, `Release`, `probeAlive` | main |
| Sessions and login limiter, `server/session.go`, `ratelimit.go`, `crypto/session.go` | list of logged-out sessions; failure count and lock | `Issue`, `Verify`, `Revoke`, `Revoked`; `Allow`, `Fail`, `Success` | login, logout and every guarded handler |
| Configuration model, `config/` | none | parse, validate, `BuildRuntime` | main, PUT handler |
| Configuration migration, `config/migrate.go`, `platform.go` | none | `MigrateV1`, `MigrateV3`, `MigrateV4`, `groupLegacyProviders` | main |
| Start, `cmd/quotaclock/main.go`, `persist/load.go` | `config.json`, its backups, the order of the steps | clean, load, migrate, back up, save, apply flags, reset the password, lock, seed, serve | everything |
| Shutdown, `cmd/quotaclock/main.go` | order of the steps, the goroutines it waits for | cancel, wait, drain, close, release | scheduler, HTTP server, cache writer, lock |
| Outbound client and classes, `client.go`, `classify.go` | none | one request, its class, message and `Retry-After` | scheduler |
| Tokens and key file, `crypto/` | `key.bin` | `EnsureKey`; seal, open, mask | start, configuration save, export, migration |
| Read endpoints, logging, web page, scripts | none that others read | encode what the pointers show | – |

What is hard here, and what a unit test hardly reaches:

* A job keeps the definition it was planned with through its delay and a request of up
  to 25 s, while saves redefine, rename, switch off or delete its key. Its result meets
  a different configuration.
* `Reload` unlocks, then sends without blocking into a channel of one place; the loop
  may be anywhere between plan and sleep.
* An in-flight slot is taken and returned in different critical sections, with early
  returns, deletion and cancellation between.
* Nobody may read more than the published snapshot, and publishing is skipped when a
  hand-written comparison finds nothing new.
* Offsets, staggers, jitter and latencies decide whether a key is due at the next tick.
* Files are replaced while the process may die or a step may fail; two PUTs run at the
  same time and share a temporary name; two processes may start at the same time,
  and load, migrate and save before either has the lock.
* `key.bin` is created and filled in two steps; every stored token depends on it.
* A signal meets `Run` before it has added itself to what `Wait` waits for, jobs in every
  place, handlers that outlive the drain, and a writer in the middle of a file.
* The login limiter's check and count are apart by a slow comparison; a signature is
  checked before the list of logged-out sessions is.

The list with lines and the properties that cover each item is under `hazards` in
`PROJECT.json`.

## 2. Modules

```
Response, Backoff, Snapshot  <- Scheduler <- SchedulerProofs
Backoff            <- Cadence <- CadenceProofs
AtomicFile         <- CacheWriter (refines DurableCell) <- Shutdown <- ShutdownProofs
AtomicFile, Vault  <- ConfigSave <- ConfigSaveProofs
                      Lock  <- LockProofs
                      Login <- LoginProofs
Migration, AtomicFile <- Startup <- StartupProofs
Induction          <- CadenceProofs, StartupProofs
```

`MC*` modules instantiate each of them for TLC. Definitions whose comment begins with
"Fault:" are not part of the system; each is a plausible mistake in the definition next
to it, and the properties are known to catch it.

**Scheduler.** One action per critical section of `s.mu` or channel step. `PlanTick`,
`TickDone`, `TimerFires`, `WakeUp` and `ExitLoop` are `Run`; `StartJob`, `SkipBusy`,
`AbortJob`, the six `Collect…` actions and `EndInflight` are a key's goroutine; `Reload`
and `SendWake` are a handler before and after its unlock; `SeedCached` is the start.
`job[k]` is the goroutine with the definition it captured. Time is a logical clock,
durations are open. A payload is the token that fetched it, which is all the properties
tell apart; the one path that each built-in platform has is one answer. The cache handed to the writer
is `saved`, the file of the previous process is `file`.

**Response.** How a request ends: a status (0 without an answer), what the body reports,
the `Retry-After` header; the class `ClassifyHTTP` gives it, the text shown with the error,
and whether the whole platform is held responsible. The `Collect…` actions of Scheduler
take an answer and go by its class.

**Backoff**, **Snapshot.** The records and their methods as operators; `Snapshot!Publish`
contains the diff `snapshotChanged` and the revision, which wraps at `RevisionRange`
(2^64 in the code).

**Cadence.** The same loop with lengths: offsets inside the interval, staggers that add up,
latency, the sleep measured from the start of the tick. Durations have the unit of
`time.Duration`, `Second` of them to a second: a key's share of the interval (`keyOffset`) is
exact, its `KeyPeriod` (`keyPeriodS`, an int) whole seconds. The configuration stays put. The
clock moves only when nothing is left to do at an instant. A behaviour draws its interval,
delays and latencies from one `Setting`; properties state for which settings they hold.
A stagger below zero, which `Validate` lets pass, is left out.

**AtomicFile.** The steps of `AtomicWrite` on names and inodes. A descriptor keeps its
inode across a rename, `O_TRUNC` takes over an existing temporary file, a write over
somebody else's content can leave a mixture. **DurableCell** is the abstract promise: the
stored content is a whole one that was given, and it is replaced by a newer one only.

**CacheWriter.** `Save` (two steps), `loop`, `flush` and `AtomicWrite` step by step, every
step may fail, `Close`, crash and restart. A cache is its number in the order of Saves.

**Shutdown.** The process around the cache writer, which it EXTENDS: the loop and the
goroutines of a tick, handlers that save, and main from the signal to the exit: `cancel`,
`httpSrv.Shutdown` with its deadline in a goroutine of its own, `sched.Wait`, `Close`,
`Release`. Every `Save` is made by a job or a handler; `Kill` is a crash, `NextProcess` the
next start. What a result is applied to is Scheduler's, and left out here.

**Vault.** The forms a token takes: sealed with a master key, opened, masked, exported,
sent in a body, merged with what is stored. A cipher is the pair of key and token.

**ConfigSave.** `handlePutConfig` for several requests at once: load, check, merge, atomic
write, three pointer swaps, `Reload`, answer. The start: `CleanTmp`, `LoadFile`, and
`EnsureKey` with the two steps in which `key.bin` comes into being; its loss and its removal
(`RemoveKey`, by somebody outside). The export, which later PUTs may send as their body.
Crashes at any place of all this. A configuration is the token of each key.

**Lock.** `Acquire` and `Release`, one system call per action, for any number of
processes, over any file left behind. A process is its pid with its start time.

**Login.** Login, logout and the guarded handlers, one action per critical section of the
limiter or the session list; the password comparison and the signature check lie between.

**Migration.** The three migrations, the grouping by platform, the renaming of ids and
the rules of `Validate`, as operators. An id is a name or `k<number>` with its count of `-2`;
an address stands for all that name one host. `Settings` is what the migrations fill in, the
flags override and `Validate` looks at: interval, host (an IP address, a name, none), port,
mode; jitter, stagger and back-off within the limits of R5 to R8 or not (`pacing`); a balance
that is not set, or is within the limits of R13 or not.

**Startup.** Any number of starts of one configuration, from `CleanTmp` to the lock:
`LoadFile`, the template, migration, `BackupConfig` (read, find a free name, write),
`SaveConfig`, the overrides of interval, host and port, the password reset; and the PUT of the
process that has the lock, with the backup before an import. `disk` has an `AtomicFile` for
`config.json` and for each backup. Every write is `OpenFile`, `WriteFile` and a rename
(`RenameBackup`, `RenameConfig`), so starts that write the same path meet under its temporary
name; `RemoveStale` is the `CleanTmp` of a start that removes the names it found, also under
the hands of a running process. `Exit` is a failure, a crash or a signal at any place, in the
middle of a write too. `clashed` remembers the paths that two processes have had open for
writing at once. The lock's `Acquire` (`Lock`) is one step.

## 3. Runs

| Run | Module, configuration | Shows |
| --- | --- | --- |
| `sched_reloads` | `MCScheduler_reloads` | two saves of any of six kinds at any step of a tick, two keys of one platform, with and without a cache file; fair behaviours |
| `sched_results` | `MCScheduler_results` | three instants, one save, three keys on two platforms, two ways into each class, a `Retry-After` in the past |
| `cadence` | `MCCadence_settings` | seven settings, three ticks, one key of one platform before three of another, shares of whole and of broken seconds |
| `shutdown` | `MCShutdown_stop` | two keys and one handler, three Saves, one crash, any number of signals and restarts, every step of a write may fail; fair behaviours |
| `save_one` | `MCConfigSave_one` | four PUTs one after the other, an export and its import, two crashes, three master keys, every step may fail |
| `lock` | `MCLock_serial` | four starts that do not overlap, over any leftover, with crashes; the calls of two of them may fail; fair behaviours |
| `login` | `MCLogin_sessions` | three requests at once, two sessions, a limit of two, locks and sessions that run out, restarts |
| `startup` | `MCStartup_upgrade` | two processes, three starts in any overlap over a missing file and files of versions 1 to 5, ending at any step of a write, two backups of a version, settings saved or an older export imported |
| `sched_stale_stop`, `startup_interval`, `save_torn`, `lock_race` | see section 6 | counterexamples to what a comment or the README says |

### Properties

*Scheduler.* `WakeNotLost`: a saved configuration that no tick has planned yet has a token
in the channel, a handler about to send, or a loop on its way to the plan. `SnapshotFresh`:
whenever the mutex is free the published list is the list of the configured states.
`RevisionTracksResponse`: the revision moves exactly with the list. `InflightMatchesJobs`
and `OneFetchPerPlatform`: slots are neither leaked nor exceeded. `NoEarlyRefetch`: however
often saves wake the loop, a key with a fresh result waits for its share of the period.
`StopUntilRedefined`, `InvalidNeverFetched`: a 401 lasts until the definition changes.
`HistoryKept`: good data goes only with its definition or a 401. `OnlyLateAnswersDiffer`:
the page parts from the configuration (a name, a key switched off, data of another token)
through nothing but the answer to a request planned under an older definition. `CacheHoldsEveryOk`,
`CacheOnlyConfigured`: what a restart would show. `ReloadTakesEffect`, `CancelEndsLoop`:
liveness of a save and of the shutdown.

*Cadence.* `EveryKeyEveryTick` (staggers, a request and the overhang fit into the smallest
jitter), `NoKeyMissesTwice` (requests shorter than a key's exact share),
`PlatformFailsOncePerTick`.

*CacheWriter, Shutdown.* `DiskIsWhole`, `CloseKeepsLast`, `StoresInOrder` (the refinement of
`DurableCell`), `SavedReachesDisk`: of the writer, whoever saves. `NoFetchAfterWait`: once
`Wait` has returned nothing is requested any more, also if the signal came before `Run`
added itself to its group (the context is done by then, so the late tick only aborts).
`StoppedIsSaved`: after a drain that ended nothing that was saved is missing on disk.
`SignalEndsProcess`: the signal ends the process.

*ConfigSave.* `DiskLoads`, `MemoryIsDisk`, `RefusedNotOnDisk`, `AnsweredIsDurable`: disk,
memory and answers agree. `EmptyTokenKeeps`: a token left out keeps its cipher.
`SealedCanBeOpened`: a token on disk is sealed with the key in `key.bin`, unless somebody
took that away. `ImportRestores`: importing an export brings back what was readable when it
was made, whatever became of `key.bin` and the configuration in between.

*Lock.* `HolderIsNamed`, `StaleIsTakenOver` (a start that meets only what dead processes
left gets the lock, and its attempts suffice for that).

*Login.* `LimitMeansLock`, `AttemptsBounded`, `LogoutSticks`.

*Startup.* `OldFileSurvives`: the file of an older version is `config.json` or stands in a
backup, unless two starts have had the same backup open at once. `MigrationKeepsKeys`: every
credential of a known platform arrives once, in order, with its own token and switch, whatever
is written at once. `SavedFileLoads`: what the program wrote, it loads, unless two processes
have had `config.json` open at once. Section 6 says what happens in the excepted behaviours.

Scheduler's type invariant is checked in `sched_reloads`; those of CacheWriter, Shutdown,
ConfigSave, Lock and Login are part of the invariants proved in section 4. Migration,
Response, Vault, Backoff and Snapshot have no state.

### Bounds, and why they are enough

* Two keys of one platform are the smallest number that compete for a slot and share a
  period; a third on another platform shows that platforms are independent. Two saves
  make one change and one change back, or one beside another, each at every step of a
  tick. Several instants (`MaxTime`) let a back-off of one or two units run out and be
  entered again; `MaxTime = 1` in `sched_reloads` costs nothing because a zero time is
  always eligible and the interleavings, not the lengths, are the question there. The
  revision wraps at 2, so an extra or a missing step shows at once.
* Cadence: a second has three units, so a share can end inside a second (2 s for three keys)
  and a `KeyPeriod` can be shorter than the share (5 s for three keys). The settings lie on
  both sides of each condition: spread at most the jitter (`Margin`), beyond it (`Tight`),
  failures (`Failing`), requests longer than a share (`Slow`), and each again with more keys
  than seconds (`Crowded`). A key left out of two ticks is first seen in the third.
* Answers: `OneOfEachClass` has one status of each way the scheduler goes on;
  `ManyAnswers` the other way into each class: a 206, a 403 with a body that reports a
  fault, a 429 with a date in the past, a 200 with a fault, no answer.
* Shutdown: three inodes are the target, its temporary file and the next one; three
  Saves are one on disk, one being written and one pending. Two jobs and a handler are one
  that fetches, one that waits and one that outlives the drain, and two that compete for
  `Save`.
* ConfigSave: a body adds, replaces, keeps or removes a token of either key; a keep after a
  replacement takes three PUTs, and the import of an export made in between is the fourth.
  Two crashes and three master keys let a key be lost while it is created, and again when
  tokens are sealed with it.
* Lock: three attempts (as in the code) and four processes: a holder, one that died, a
  starting one and the next.
* Login: a limit of two with three requests lets failures arrive after the lock.
* Startup: two processes meet under a temporary name, and the third start is the one that
  cleans up after a dead one, reads what was left, and is refused by a holder. Two backups of
  a version let starts choose different names. Three inodes are the target, its temporary file
  and one that lost its name while a process writes to it; a fourth adds no state. The old
  files mix platforms, equal and missing ids, ids that look generated, every route of the old
  proxy, unknown hosts, entries without a path, and half a section of settings. The commands
  are none, and one with an interval, an address, a port and a password that `Validate` would
  take; an interval below 30 is left to `startup_interval`, and ids on which the renaming fails
  are left out (section 6). Processes are symmetric.

No state constraint is used: every bound is a guard on a counter or a finite constant.
Deadlock is checked in all runs; where the system really stops, an action of the module
says so (`Terminated`, `Finished`).

### Fairness

Weak fairness of the steps the Go runtime owes: the loop, each key's goroutine (every
request ends at the latest with the client's 25 s timeout, every delay with its timer or
the context), the handler between unlock and send, the cache writer's goroutine, main after
the signal (`Shutdown` ends with its 10 s), a process inside `Acquire`. Not assumed: that the sleep timer fires (a save must not need it), that
anybody saves, logs in, stops or restarts, that a handler ever ends, or that a write
succeeds.

## 4. Proofs

All proofs are for arbitrary constants under the named assumptions of the modules
(`KeysAssumption`, `CollectorAssumption`, `NoneAssumption`, `RecordsNotNone`,
`CacheWriterAssumption`, `LockAssumption`, `LoginAssumption`, `RequestNotNone`,
`StartupAssumption`, `MigrationAssumption`, `ConfigSaveAssumption`, `CadenceAssumption`,
`NoneIsNoJob`): finite sets of keys and requests, positive periods, different places in the
list for different keys, and a `None` that is none of the records. One theorem,
`SavedFileAlwaysLoads`, has a hypothesis of its own (`FitInputs`, below).

**SchedulerProofs** proves `TypeCorrect` (`Spec => []TypeOK`). The strengthening is
`TypeInv`, which adds that no platform's record
is ever stopped; lemmas give the types of the back-off
operators and of `Publish`, and `ResultStepApplies` reduces the six result actions to one
`Apply` with a state and two back-off records of the right types.

It proves, on top of that, `SnapshotAlwaysFresh`, `WakeNeverLost`,
`SlotsMatchJobs`, `OneFetchAtATime`, `NeverRefetchedEarly`, `InvalidIsNeverFetched`,
`StoppedUntilRedefined`, `HistoryAlwaysKept`, `OnlyLateAnswersEverDiffer`, `RevisionTracks`,
`CacheAlwaysHoldsOk` and `CacheConverges`. `WakeNotLost` is inductive as it stands; the
others share four inductive invariants:

* *Snapshot.* `PublishShows`: after `Publish` the list of the snapshot is the given one,
  because the comparison leaves nothing out. The property itself is then inductive, and the
  revision follows from the same lemma about `Publish`.
* *Slots* (`SlotInv`). Jobs exist only during a tick, and the counter equals the number of jobs between taking and returning; the proof
  adds and removes one element per step. `OneFetchAtATime` adds that the count is at most 1.
* *States* (`StateInv`). A key is configured exactly if it has a state. A key with status `ok` has a back-off record whose next try is at least
  `last` plus the share of the period for the largest number of keys the platform can have. A
  state that shows an invalid token or a disabled key is never eligible: its record is
  stopped, its token unreadable, or its definition is switched off.
* *Cache* (`CacheInv`). A good state is complete, and what is recoverable agrees with every state that is `ok` or `cached`; a success
  and a save rewrite it from the states, nothing else makes a state good.

**ShutdownProofs** proves, of the cache writer, `DiskAlwaysWhole`, `CloseAlwaysKeepsLast` and
`WriterImplementsCell`: every step maps to `Give`, `Store`, `Lose` or a stutter of
`DurableCell`. `WriterInv` says that the
open file is the temporary one and not the target, what it holds at each place, and that
stored, taken and pending caches are in this order; `CloseInv` adds where the last cache
handed over is until it is stored or its write fails.

Of the process around it, it proves `ShutdownUsesWriter` (every step of the process is one of the
writer's specification, or none of its variables change: all that is proved of the writer
holds in the process), and on the writer's invariant `NoFetchEverAfterWait` and
`StoppedIsAlwaysSaved`. `ShutdownInv` says who is inside `Save` and what main has waited
for: a job exists only while `Run` collects, so a process whose `Run` has not begun has none,
and one that begins later finds the context done.

**ConfigSaveProofs** proves `SealedCanAlwaysBeOpened` and `ImportAlwaysRestores` for any
number of overlapping PUTs. `SaveInv` says that whatever is sealed anywhere, in a file being
written, in memory or in a request, is sealed with the key in `key.bin` or a removed one,
that the export is what its tokens were, and that a request stores the merge of its body.
`DiskAlwaysLoads`, `MemoryIsAlwaysDisk`, `RefusedIsNeverOnDisk`, `AnsweredIsAlwaysDurable` and
`EmptyTokenAlwaysKeeps` assume that one handler works at a time (`Handlers = {h}`): without
it they are false (section 6). `OneInv` ties the phase of the request to the file: which of
the target and the temporary file holds the new configuration, and how far memory follows.

**LockProofs** proves `HolderAlwaysNamed` and `AtMostOneHolder` under the assumption
`Serial` that starts do not overlap; without it TLC shows the contrary. The invariant ties
the place of the one starting process to the holder: a start that probes has read the
holder's name, and one that removes meets no holder.

**LoginProofs** proves `LimitAlwaysLocks`, `AttemptsAlwaysBounded` and
`LogoutAlwaysSticks`. `AttemptsBounded` becomes inductive together with `LimitMeansLock`:
a login is let in only when the count is below the limit or is set back to zero, and a
count it adds takes one comparison away. For the sessions: a logged-out session is on the
list with the expiry of its cookie, or that expiry is past.

**StartupProofs** proves `OldFileAlwaysSurvives` for any number of starts. It rests on
`WriteInv`: of a path that is not in `clashed`, at most one process has a file open
(`Sole`); that file is not the target, and stands under the temporary name or, after somebody's
`CleanTmp`, under none (`OwnFile`). So the target changes only by the rename of its one writer,
to what that had to write (`FileEffect`). On top of it the invariant has two phases.
`Untouched`: nobody has come as far as a save, and every copy under way is one of the original.
`Kept`: a backup that is not in `clashed` holds the original, and whoever still has a copy under
way to that name has the original in hand. The first backup leads from one to the other; after
it the name is not free for anyone, so nobody new can choose it.

It also proves what a migration does to a configuration of any length. `MigrateKeepsKeys`
holds for every file of version 2, 3 or 4: each credential of a known platform arrives
once, in order, with its own token and switch. `MigrateIsCurrent` adds that the result is one
that `Validate` accepts, for files that are `Fit`. Its core is `DedupedCounts`, about the loop
that appends `-2` to an id: while every key of a platform carries as many `-2` as keys before
it have its name (`Counted`), the loop makes the same true of the new key, so no two ids are
equal. A first id `x-2` breaks this. `FewSuffixes` is the condition under which it holds from
the first key to the last: an id with n times `-2` comes after at least n importable items of
its platform with the same name.

On these rest `MigrationAlwaysKeepsKeys` and `SavedFileAlwaysLoads`. `ConfigInv` says that
every inode that `config.json` was or is written to is empty, torn, the first file or a
current configuration (`DataEffect`: whoever clashes with whom, a write adds only what its
writer had to write), so that every migration under way, however late, is one of the first
file; and that what a process has in memory past its load, or is about to save, is valid. The
second theorem assumes `FitInputs`: older files that are `Fit` (ids the renaming tells apart,
settings that `Validate` takes after the migration), and an `-interval`, `-addr` and `-port`
that `Validate` takes. The files and commands of the `startup` run satisfy it (`MCStartup`
asserts that); those of `startup_interval` do not, and that run ends in the counterexample of
section 6.

**CadenceProofs** proves the three properties of Cadence for any number of keys and
platforms, any interval, unit of time, delays and latencies: `EveryTickFindsEveryKey`,
`NoKeyIsLeftOutTwice` and `OneFailurePerTick`. `OffsetAndPeriod` bounds a key's place and its
`KeyPeriod` by the interval and the `Overhang`. `Timing` gives the place of every instant:
when a tick was planned, when a job starts (the sum of the staggers before it), when a key is
due. `EveryInv` then bounds the distance from an answer to the next tick, `OrderInv` keeps
the jobs of a platform in the order of the list, `MissInv` and `RaiseInv` follow a key or a
platform through a tick. `BackoffDelayGrows` is what the recursion of `BackoffDelay` computes
for every number of failures.

**Induction** has what both share. The provers take no operator as a parameter, so the
induction theorems of the library cannot be instantiated; `NatSet` and `SeqSet` state
induction for a set that holds 0 (the empty sequence) and every successor (every sequence with
one element more), which is first order. From them: functions defined by recursion exist,
finite sets of integers have a greatest element, sums over a set, and what `FoldLeft` does
to a sequence with one element appended (`FoldedAppend`, with `LoopIs` to recognise a fold).
`SelectSeq` stays opaque to the provers; what a migration owes is therefore said by places
in the list of items (`Importable`, `SameCredentials`) and not by filtered lists.

Only model-checked: liveness (`ReloadTakesEffect`, `CancelEndsLoop`, `SavedReachesDisk`,
`SignalEndsProcess`, `StaleIsTakenOver`), because the provers handle neither fairness nor
ENABLED. Every invariant and every action property that a passing run checks is proved.

## 5. Not modelled

* How a body is taken for JSON, strict parsing of a PUT, the ranges of its fields:
  sequential functions, covered by unit tests. A body reports a fault or it does not.
* Several paths of one key and the merging of their results: every built-in platform has
  one path, and no configuration can give it another.
* Cryptography: a token opens under the key it was sealed with, and no other; a cookie
  cannot be forged.
* Loss of power (against which `AtomicWrite` syncs): a crash is the death of the process.
* GET and test endpoints: they change no state.
* Logging, web page, browser start, scripts.
* The migration of names, paths and password hash: copied or only logged.
* Two configurations in one directory: one `cache.json` and one `key.bin` for both, and the
  `CleanTmp` of a start of one against a write of the other's holder.

## 6. Where code and words part

Four runs end in a counterexample; each is a finding in `PROJECT.json`.

* `sched_stale_stop`, `StopNeedsCurrentToken`: token replaced while a request with the old
  one is under way, the 401 arrives, the new token is never tried. The same missing
  comparison in `collectProvider` lets a success of the old token be shown as the new
  one's data and delay its first request, a late result show a key that was switched
  off as collected (until its next change), and bring an old display name back.
  `OnlyLateAnswersDiffer` says that these are the only ways in which the page parts from
  the configuration.
* `startup_interval`, `SavedFileLoads`: `-interval` overwrites the loaded configuration
  unchecked, `-admin-password` saves that configuration, and with an interval below 30 no
  later start accepts the file. A PUT writes the flag's interval in the same way. `-addr` with
  a host name and `-port` beyond 65535 end like that too (`server.go:535`, `main.go:133`).
* `save_torn`, `StartsAgain`: two PUTs write the same `config.json.tmp`, one renames what
  the other has just truncated, and a crash leaves a file no start accepts.
* `lock_race`, `OneHolder`: a start sees the lock file before it is written, takes it for
  damaged and removes it.

Known from exploring the models, without a run of their own:

A cap `backoff_max_s` below the interval is accepted (`validate.go:59`). With it the wait
that a platform's first failure starts can be over before the last key of the tick is
requested, and one tick then raises the wait twice, against the comment on
`CollectPlatformError`; `PlatformFailsOncePerTick` assumes that the cap is no shorter than the
interval. Nothing limits the keys of a platform: with more of them than the interval has
seconds, `keyPeriodS` (`scheduler.go:336`) still says one second where a share is less, so the
last key's wait ends up to a second after the interval. `Overhang` is that second;
`EveryKeyEveryTick` and `NoKeyMissesTwice` count it in.

A migration whose old ids are x-2, x and x, in this order, writes x-2 twice (the
renaming goes over the platform's keys once and does not look back), and the next start
refuses the file, although `migrate.go:47` says ids are unique in a platform. With three
overlapping starts a late one can write over a backup that is not the last
(`persist.go:98` says never); and a start that the lock will refuse can write its older
view, or a password the holder does not have, over what the holder saved.

Two overlapping starts of an older version can lose the old file. Both find the same backup
name free and write through one temporary name: one has written its copy, the other opens
the name with `O_TRUNC`, the first renames the now empty file, goes on to save the migrated
`config.json`, and the second dies (`persist.go:33` to 52, `main.go:109` to 120). Without its
exception `OldFileSurvives` ends in this behaviour after 18 states. In the same way two
processes that write `config.json` at once (two first starts, a migration or a password reset
beside another or beside the holder's PUT) can leave an empty or a torn one, which no start
accepts; `SavedFileLoads` excepts that. It is the interleaving of `save_torn` across processes,
possible because everything before `Acquire` is written without the lock.

A start that dies between the creation of `key.bin` and its content leaves a file of another
length, and every later start refuses it until somebody deletes it, as `EnsureKey` intends;
the repository's README.md:182 says of a damaged one that a start makes a new one by itself.

A failing key keeps its last good data on the page, but the next success of another key
writes a cache without it (`cache.go` means it so). With staggers and latency beyond the
jitter a later key is not due at the next tick and misses it, where README.md:126 says
once per 300 s; `EveryKeyEveryTick` states the limit.

With two PUTs at a time
`MemoryIsDisk` and `EmptyTokenKeeps` fail as well (swaps interleave; a kept token is the one
loaded before another PUT replaced it). With requests longer than a key's share,
`NoKeyMissesTwice` fails: a slow sibling can make a key give way tick after tick. With three
keys and staggers as long as a share, a success between two failures makes a platform's
wait count twice in a tick. A password comparison that began before the lock and ends during
it still logs in and clears the lock, although `ratelimit.go` says the right password is
refused as well while it is on.

## 7. Plan

Done: Scheduler (with Response), Cadence, CacheWriter with its refinement, Shutdown,
ConfigSave (with Vault), Lock, Login, Migration and Startup, all with proofs. Left, in this
order:

1. **Directory**: two configurations of one directory: `CleanTmp` against another's
   write, one `cache.json` and one `key.bin` for both (abstract promise: no start changes
   another's files).
2. A composition of Scheduler and CacheWriter: after a crash a start shows what the page
   showed, up to the debounce; proved as a refinement.
3. The loop with lengths under settings that change, for the periods that are zero or
   negative and for a `Retry-After` beyond what a duration holds.
