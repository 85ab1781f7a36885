----------------------------- MODULE Scheduler -----------------------------
(***************************************************************************)
(* internal/collector/scheduler.go: the collection scheduler.              *)
(*                                                                         *)
(* One goroutine (Run) loops over ticks.  A tick plans the keys that are   *)
(* due, starts one goroutine per key and waits for all of them.  A key's   *)
(* goroutine waits for its delay, takes the in-flight slot of its platform *)
(* (or gives up this tick), fetches, applies the result to the shared      *)
(* state and gives the slot back.  HTTP handlers call Reload at any        *)
(* moment, also while results for the old definitions are on their way.    *)
(*                                                                         *)
(* Every action is one critical section of s.mu, or one step on a channel. *)
(* Time is logical: a request, a delay and a sleep last as long as they    *)
(* like (the Cadence module adds their lengths).  A map miss of the Go     *)
(* maps is None in states and the zero record in the two back-off maps.    *)
(***************************************************************************)
EXTENDS Integers, FiniteSets

CONSTANTS
    Keys,               \* runtime ids "<platform>.<keyID>"
    Platforms,
    PlatformOf,         \* key -> platform: the prefix of its id
    Tokens,             \* definitions as sameDefinition compares them: token
                        \* cipher, base URL, paths, headers
    Unreadable,         \* the tokens this process cannot decrypt
    Names,              \* display names
    None,               \* absent key, nil pointer
    Configs,            \* the configurations a save may install
    Files,              \* the cache files this process may find when it starts
    Base,               \* interval_base_s
    Mult,               \* backoff_multiplier
    BackoffMax,         \* backoff_max_s
    Faults,             \* failures that the body of an answer may report
    Answers,            \* the answers requests may get
    RevisionRange,      \* number of values of the uint64 revision
    MaxTime,            \* bound: the last instant modelled
    MaxReloads          \* bound: number of configuration saves

\* One access key of the runtime configuration.
KeyDef == [token : Tokens, enabled : BOOLEAN, name : Names]

\* One entry of cache.json.  Data stands for the token that fetched it.
CacheEntry == [name : Names, data : Tokens, last : Nat]

ASSUME KeysAssumption ==
    /\ IsFiniteSet(Keys)
    /\ PlatformOf \in [Keys -> Platforms]
    /\ Unreadable \subseteq Tokens
    /\ Configs \subseteq [Keys -> KeyDef \cup {None}]
    /\ Files \subseteq [Keys -> CacheEntry \cup {None}]

INSTANCE Response
INSTANCE Backoff
INSTANCE Snapshot WITH Payloads <- Tokens

\* Validate: interval_base_s >= 30, multiplier >= 1; the cap has no lower limit.
ASSUME CollectorAssumption ==
    /\ Base \in Nat \ {0}
    /\ Mult \in Nat \ {0}
    /\ BackoffMax \in Int
    /\ Answers \subseteq Responses
    /\ RevisionRange \in Nat \ {0, 1}
    /\ MaxTime \in Nat
    /\ MaxReloads \in Nat

ASSUME NoneAssumption ==
    /\ None \notin Nat
    /\ None \notin Tokens
    /\ None \notin KeyDef
    /\ None \notin CacheEntry

\* The goroutine of a key keeps the definition it was planned with.
Job == [token : Tokens, name : Names, count : Nat,
        phase : {"waiting", "fetching", "ending"}]

ASSUME RecordsNotNone ==
    /\ None \notin ProviderState
    /\ None \notin Job
    /\ None \notin [Keys -> CacheEntry \cup {None}]

VARIABLES
    cfg,                \* s.cfg and s.defs: key -> KeyDef, None if not configured
    states,             \* s.states
    backoffs,           \* s.backoffs
    platformBackoffs,   \* s.platformBackoffs
    inflight,           \* s.inflight: platform -> requests under way
    job,                \* key -> its goroutine of the current tick, or None
    loop,               \* where main and then Run stand
    wake,               \* s.wake holds a token
    waking,             \* Reloads that have unlocked and not yet sent
    cancelled,          \* ctx is done
    snap,               \* the snapshot readers get
    file,               \* the cache file found at start
    saved,              \* the last cache handed to the writer, None before that
    now,                \* s.clock()
    reloads,            \* bound counter
    planned             \* history: a tick was planned under the current cfg

vars == <<cfg, states, backoffs, platformBackoffs, inflight, job, loop, wake,
          waking, cancelled, snap, file, saved, now, reloads, planned>>

TypeOK ==
    /\ cfg \in [Keys -> KeyDef \cup {None}]
    /\ states \in ProviderStates
    /\ backoffs \in [Keys -> Backoffs]
    /\ platformBackoffs \in [Platforms -> Backoffs]
    /\ inflight \in [Platforms -> Nat]
    /\ job \in [Keys -> Job \cup {None}]
    /\ loop \in {"boot", "plan", "collecting", "sleeping", "exited"}
    /\ wake \in BOOLEAN
    /\ waking \in Nat
    /\ cancelled \in BOOLEAN
    /\ snap \in Snapshots
    /\ file \in [Keys -> CacheEntry \cup {None}]
    /\ saved \in [Keys -> CacheEntry \cup {None}] \cup {None}
    /\ now \in Nat
    /\ reloads \in Nat
    /\ planned \in BOOLEAN

-----------------------------------------------------------------------------
(* Helpers: periods, eligibility, and what is built from the states.       *)

KeysOf(p) == {k \in Keys : PlatformOf[k] = p}

KeyCount(k) == Cardinality({j \in KeysOf(PlatformOf[k]) : cfg[j] # None})

\* Seconds between two requests of one of n keys of a platform.
KeyPeriod(n) ==
    IF n <= 1 THEN Base ELSE IF Base \div n < 1 THEN 1 ELSE Base \div n

\* Fault: the plan forgets the switch.
DueWhenOff(k) ==
    /\ cfg[k] # None
    /\ cfg[k].token \notin Unreadable
    /\ Eligible(platformBackoffs[PlatformOf[k]], now)
    /\ Eligible(backoffs[k], now)

\* planTickLocked: the keys of this tick.
Due(k) ==
    /\ cfg[k] # None
    /\ cfg[k].token \notin Unreadable
    /\ cfg[k].enabled
    /\ Eligible(platformBackoffs[PlatformOf[k]], now)
    /\ Eligible(backoffs[k], now)

SameDefinition(d, e) == d.token = e.token /\ d.enabled = e.enabled

\* The state of a key that is new or redefined.
FreshState(d) ==
    LET st(status, code) ==
            [name |-> d.name, status |-> status, data |-> None, last |-> None,
             err |-> ErrorOf(code)]
    IN  IF ~d.enabled THEN st("disabled", "DISABLED")
        ELSE IF d.token \in Unreadable
             THEN st("token_invalid", "TOKEN_DECRYPT_FAILED")
             ELSE st("failed", "NOT_COLLECTED_YET")

\* publishLocked and saveCacheLocked walk the configured keys only.
Listed(c, sts) == [k \in Keys |-> IF c[k] = None THEN None ELSE sts[k]]

\* Fault: a restored state is not kept for the next restart.
CacheOfFetched(sts) ==
    [k \in Keys |->
        IF sts[k] # None /\ sts[k].status = "ok"
        THEN [name |-> sts[k].name, data |-> sts[k].data, last |-> sts[k].last]
        ELSE None]

\* Fault: states that hold no result are cached too.
CacheOfAll(sts) ==
    [k \in Keys |->
        IF sts[k] # None
        THEN [name |-> sts[k].name, data |-> sts[k].data, last |-> sts[k].last]
        ELSE None]

CacheFromStates(sts) ==
    [k \in Keys |->
        IF /\ sts[k] # None
           /\ sts[k].status \in {"ok", "cached"}
           /\ sts[k].data # None
           /\ sts[k].last # None
        THEN [name |-> sts[k].name, data |-> sts[k].data, last |-> sts[k].last]
        ELSE None]

-----------------------------------------------------------------------------
(* Start: NewScheduler publishes the first snapshot, main seeds the cache  *)
(* and starts Run.                                                         *)

Init ==
    /\ cfg \in Configs
    /\ states = [k \in Keys |-> IF cfg[k] = None THEN None ELSE FreshState(cfg[k])]
    /\ backoffs = [k \in Keys |-> ZeroBackoff]
    /\ platformBackoffs = [p \in Platforms |-> ZeroBackoff]
    /\ inflight = [p \in Platforms |-> 0]
    /\ job = [k \in Keys |-> None]
    /\ loop = "boot"
    /\ wake = FALSE
    /\ waking = 0
    /\ cancelled = FALSE
    /\ snap = Publish(NewStore, Listed(cfg, states))
    /\ file \in Files
    /\ saved = None
    /\ now = 1
    /\ reloads = 0
    /\ planned = FALSE

\* RestoreFromCache keeps the keys that can be collected; SeedCached only
\* fills a state that holds no result yet.
Restorable(k) ==
    /\ file[k] # None
    /\ cfg[k] # None
    /\ cfg[k].enabled
    /\ cfg[k].token \notin Unreadable
    /\ states[k] # None
    /\ \/ states[k].status = "cached"
       \/ states[k].status = "failed" /\ states[k].err.code = "NOT_COLLECTED_YET"

SeedCached ==
    /\ loop = "boot"
    /\ states' = [k \in Keys |->
            IF Restorable(k)
            THEN [name |-> file[k].name, status |-> "cached", data |-> file[k].data,
                  last |-> file[k].last, err |-> NoError]
            ELSE states[k]]
    /\ snap' = Publish(snap, Listed(cfg, states'))
    /\ loop' = "plan"
    /\ UNCHANGED <<cfg, backoffs, platformBackoffs, inflight, job, wake, waking,
                   cancelled, file, saved, now, reloads, planned>>

-----------------------------------------------------------------------------
(* Run: plan a tick, wait for its jobs, sleep until the timer or a wake-up. *)

PlanTick ==
    /\ loop = "plan"
    /\ job' = [k \in Keys |->
            IF Due(k)
            THEN [token |-> cfg[k].token, name |-> cfg[k].name,
                  count |-> KeyCount(k), phase |-> "waiting"]
            ELSE None]
    /\ loop' = "collecting"
    /\ planned' = TRUE
    /\ UNCHANGED <<cfg, states, backoffs, platformBackoffs, inflight, wake,
                   waking, cancelled, snap, file, saved, now, reloads>>

TickDone ==
    /\ loop = "collecting"
    /\ \A k \in Keys : job[k] = None
    /\ loop' = IF cancelled THEN "exited" ELSE "sleeping"
    /\ UNCHANGED <<cfg, states, backoffs, platformBackoffs, inflight, job, wake,
                   waking, cancelled, snap, file, saved, now, reloads, planned>>

TimerFires ==
    /\ loop = "sleeping"
    /\ loop' = "plan"
    /\ UNCHANGED <<cfg, states, backoffs, platformBackoffs, inflight, job, wake,
                   waking, cancelled, snap, file, saved, now, reloads, planned>>

WakeUp ==
    /\ loop = "sleeping"
    /\ wake
    /\ wake' = FALSE
    /\ loop' = "plan"
    /\ UNCHANGED <<cfg, states, backoffs, platformBackoffs, inflight, job,
                   waking, cancelled, snap, file, saved, now, reloads, planned>>

\* Fault: the select of the sleep has no branch for ctx.Done.
ExitNever == FALSE

ExitLoop ==
    /\ loop = "sleeping"
    /\ cancelled
    /\ loop' = "exited"
    /\ UNCHANGED <<cfg, states, backoffs, platformBackoffs, inflight, job, wake,
                   waking, cancelled, snap, file, saved, now, reloads, planned>>

-----------------------------------------------------------------------------
(* The goroutine of one key.                                               *)

\* Fault: one request more than allowed.
TwoSlots(p) == inflight[p] <= 1

\* beginInflight: one request under way per platform.
SlotFree(p) == inflight[p] = 0

\* Also after the cancellation: ctx may be cancelled between the goroutine's
\* test of it and beginInflight.
StartJob(k) ==
    /\ job[k] # None
    /\ job[k].phase = "waiting"
    /\ SlotFree(PlatformOf[k])
    /\ inflight' = [inflight EXCEPT ![PlatformOf[k]] = @ + 1]
    /\ job' = [job EXCEPT ![k].phase = "fetching"]
    /\ UNCHANGED <<cfg, states, backoffs, platformBackoffs, loop, wake, waking,
                   cancelled, snap, file, saved, now, reloads, planned>>

\* Another key of the platform is being fetched: this tick goes without k.
SkipBusy(k) ==
    /\ job[k] # None
    /\ job[k].phase = "waiting"
    /\ ~SlotFree(PlatformOf[k])
    /\ job' = [job EXCEPT ![k] = None]
    /\ UNCHANGED <<cfg, states, backoffs, platformBackoffs, inflight, loop, wake,
                   waking, cancelled, snap, file, saved, now, reloads, planned>>

AbortJob(k) ==
    /\ job[k] # None
    /\ job[k].phase = "waiting"
    /\ cancelled
    /\ job' = [job EXCEPT ![k] = None]
    /\ UNCHANGED <<cfg, states, backoffs, platformBackoffs, inflight, loop, wake,
                   waking, cancelled, snap, file, saved, now, reloads, planned>>

EndInflight(k) ==
    /\ job[k] # None
    /\ job[k].phase = "ending"
    /\ inflight' = [inflight EXCEPT ![PlatformOf[k]] = IF @ > 0 THEN @ - 1 ELSE @]
    /\ job' = [job EXCEPT ![k] = None]
    /\ UNCHANGED <<cfg, states, backoffs, platformBackoffs, loop, wake, waking,
                   cancelled, snap, file, saved, now, reloads, planned>>

-----------------------------------------------------------------------------
(* collectProvider, from the answer on: one critical section per outcome.  *)
(* The result is applied to whatever is configured by now under the same   *)
(* id; only a key that is gone is dropped.                                 *)

Answered(k) ==
    /\ job[k] # None
    /\ job[k].phase = "fetching"

\* The part every outcome shares: store the state, publish, save on success.
Apply(k, st, b, pb) ==
    /\ Answered(k)
    /\ cfg[k] # None
    /\ states' = [states EXCEPT ![k] = st]
    /\ backoffs' = [backoffs EXCEPT ![k] = b]
    /\ platformBackoffs' = [platformBackoffs EXCEPT ![PlatformOf[k]] = pb]
    /\ snap' = Publish(snap, Listed(cfg, states'))
    /\ saved' = IF st.status = "ok" THEN CacheFromStates(Listed(cfg, states')) ELSE saved
    /\ job' = [job EXCEPT ![k].phase = "ending"]
    /\ UNCHANGED <<cfg, inflight, loop, wake, waking, cancelled, file, now,
                   reloads, planned>>

\* Fault: the second failure in a row drops what the first one kept.
PriorOkData(k) ==
    IF states[k] # None /\ states[k].status = "ok" THEN states[k].data ELSE None

PriorData(k) == IF states[k] = None THEN None ELSE states[k].data

PriorSuccess(k) == IF states[k] = None THEN None ELSE states[k].last

\* A failure keeps the last good data and tells when the next try is due; all but
\* a 429 tell no wait below zero.
FailedState(k, code, a, delay) ==
    [name |-> job[k].name, status |-> "failed", data |-> PriorData(k),
     last |-> PriorSuccess(k),
     err |-> [code |-> code, message |-> Message(a), retry |-> delay]]

AtLeastZero(delay) == IF delay < 0 THEN 0 ELSE delay

CollectOk(k) ==
    /\ \E a \in Answers : Class(a) = "OK"
    /\ Apply(k,
             [name |-> job[k].name, status |-> "ok", data |-> job[k].token,
              last |-> now, err |-> NoError],
             OnSuccessAt(backoffs[k], now, KeyPeriod(job[k].count)),
             OnSuccess(platformBackoffs[PlatformOf[k]]))

\* 401 or 403: no more requests with this token.
CollectTokenInvalid(k) ==
    /\ \E a \in Answers : Class(a) = "TOKEN_INVALID"
    /\ Apply(k,
             [name |-> job[k].name, status |-> "token_invalid", data |-> None,
              last |-> None, err |-> ErrorOf("TOKEN_INVALID")],
             Stop(backoffs[k]),
             platformBackoffs[PlatformOf[k]])

\* 429: the key alone waits.
CollectRateLimited(k) ==
    \E a \in Answers :
        LET period == KeyPeriod(job[k].count) IN
        /\ Class(a) = "RATE_LIMITED"
        /\ Apply(k,
                 FailedState(k, "RATE_LIMITED", a,
                     RateLimitDelay(backoffs[k], RetryAfter(a), period, Mult, BackoffMax)),
                 OnRateLimited(backoffs[k], now, RetryAfter(a), period, Mult, BackoffMax),
                 platformBackoffs[PlatformOf[k]])

\* Other 4xx, or 200 with a business error: the key alone backs off.
CollectKeyError(k) ==
    \E a \in Answers :
        LET period == KeyPeriod(job[k].count) IN
        /\ Class(a) \in {"CLIENT_ERR", "BIZ_ERROR"}
        /\ Apply(k,
                 FailedState(k, ClassCode(Class(a)), a,
                     AtLeastZero(FailureDelay(backoffs[k], period, Mult, BackoffMax))),
                 OnFailure(backoffs[k], now, period, Mult, BackoffMax),
                 platformBackoffs[PlatformOf[k]])

\* Network error or 5xx: the platform backs off, unless it does already.
CollectPlatformError(k) ==
    \E a \in Answers :
        LET pb == platformBackoffs[PlatformOf[k]]
            failed(delay) == FailedState(k, ClassCode(Class(a)), a, AtLeastZero(delay))
        IN  /\ IsPlatformLevel(Class(a))
            /\ IF Eligible(pb, now)
               THEN Apply(k, failed(FailureDelay(pb, Base, Mult, BackoffMax)), backoffs[k],
                          OnFailure(pb, now, Base, Mult, BackoffMax))
               ELSE Apply(k, failed(pb.next - now), backoffs[k], pb)

\* Fault: the early return gives no slot back.
DroppedWithSlot(k) ==
    /\ Answered(k)
    /\ cfg[k] = None
    /\ job' = [job EXCEPT ![k] = None]
    /\ UNCHANGED <<cfg, states, backoffs, platformBackoffs, inflight, loop, wake,
                   waking, cancelled, snap, file, saved, now, reloads, planned>>

\* The key is no longer configured: drop the result.
CollectDropped(k) ==
    /\ Answered(k)
    /\ cfg[k] = None
    /\ job' = [job EXCEPT ![k].phase = "ending"]
    /\ UNCHANGED <<cfg, states, backoffs, platformBackoffs, inflight, loop, wake,
                   waking, cancelled, snap, file, saved, now, reloads, planned>>

JobStep(k) ==
    \/ StartJob(k) \/ SkipBusy(k) \/ AbortJob(k) \/ EndInflight(k)
    \/ CollectOk(k) \/ CollectTokenInvalid(k) \/ CollectRateLimited(k)
    \/ CollectKeyError(k) \/ CollectPlatformError(k) \/ CollectDropped(k)

-----------------------------------------------------------------------------
(* Reload: a handler installs the saved configuration under the mutex,     *)
(* then, after it has released it, wakes the loop.                         *)

\* Fault: a rename counts as a new definition.
KeptUnlessRenamed(k, new) ==
    /\ cfg[k] # None
    /\ new[k] # None
    /\ new[k].token \notin Unreadable
    /\ SameDefinition(cfg[k], new[k])
    /\ cfg[k].name = new[k].name

\* reloadLocked: a key whose definition did not change keeps its history.
Kept(k, new) ==
    /\ cfg[k] # None
    /\ new[k] # None
    /\ new[k].token \notin Unreadable
    /\ states[k] # None
    /\ SameDefinition(cfg[k], new[k])

\* Fault: an unchanged definition keeps the old display name.
ReloadedNameKept(k, new) ==
    IF new[k] = None THEN None
    ELSE IF Kept(k, new) THEN states[k]
    ELSE FreshState(new[k])

ReloadedState(k, new) ==
    IF new[k] = None THEN None
    ELSE IF Kept(k, new) THEN [states[k] EXCEPT !.name = new[k].name]
    ELSE FreshState(new[k])

\* Fault: the cache waits for the next result.
CacheLater(new, sts) == saved

CacheOfReload(new, sts) == CacheFromStates(Listed(new, sts))

Reload(new) ==
    /\ loop # "boot"
    /\ reloads < MaxReloads
    /\ cfg' = new
    /\ states' = [k \in Keys |-> ReloadedState(k, new)]
    /\ backoffs' = [k \in Keys |-> IF Kept(k, new) THEN backoffs[k] ELSE ZeroBackoff]
    /\ platformBackoffs' = [p \in Platforms |->
            IF \E k \in KeysOf(p) : new[k] # None
            THEN platformBackoffs[p]
            ELSE ZeroBackoff]
    /\ snap' = Publish(snap, Listed(new, states'))
    /\ saved' = CacheOfReload(new, states')
    /\ waking' = waking + 1
    /\ reloads' = reloads + 1
    /\ planned' = FALSE
    /\ UNCHANGED <<inflight, job, loop, wake, cancelled, file, now>>

\* Fault: a channel without a buffer; nobody hears the send unless Run sleeps.
HeardAsleep == wake \/ loop = "sleeping"

\* The channel holds one token; a second send falls into the default branch.
TokenAfterSend == TRUE

SendWake ==
    /\ waking > 0
    /\ waking' = waking - 1
    /\ wake' = TokenAfterSend
    /\ UNCHANGED <<cfg, states, backoffs, platformBackoffs, inflight, job, loop,
                   cancelled, snap, file, saved, now, reloads, planned>>

-----------------------------------------------------------------------------
(* The environment: a signal cancels ctx, time passes.                     *)

Cancel ==
    /\ loop # "boot"
    /\ ~cancelled
    /\ cancelled' = TRUE
    /\ UNCHANGED <<cfg, states, backoffs, platformBackoffs, inflight, job, loop,
                   wake, waking, snap, file, saved, now, reloads, planned>>

Advance ==
    /\ now < MaxTime
    /\ now' = now + 1
    /\ UNCHANGED <<cfg, states, backoffs, platformBackoffs, inflight, job, loop,
                   wake, waking, cancelled, snap, file, saved, reloads, planned>>

\* The loop has returned and no handler is left: the process is over.
Terminated ==
    /\ loop = "exited"
    /\ waking = 0
    /\ UNCHANGED vars

Next ==
    \/ SeedCached \/ PlanTick \/ TickDone \/ TimerFires \/ WakeUp \/ ExitLoop
    \/ \E k \in Keys : JobStep(k)
    \/ \E new \in Configs : Reload(new)
    \/ SendWake \/ Cancel \/ Advance \/ Terminated

\* The Go runtime runs every goroutine that can run: the loop, the jobs (a
\* request ends at the latest with the client's 25 s timeout, a delay with its
\* timer) and a handler between its unlock and its send.  Nothing is assumed of
\* the sleep timer: a reload must not need it.
Fairness ==
    /\ WF_vars(SeedCached) /\ WF_vars(PlanTick) /\ WF_vars(TickDone)
    /\ WF_vars(WakeUp) /\ WF_vars(ExitLoop) /\ WF_vars(SendWake)
    /\ \A k \in Keys : WF_vars(JobStep(k))

Spec == Init /\ [][Next]_vars

FairSpec == Spec /\ Fairness

-----------------------------------------------------------------------------
(* What the scheduler promises.                                            *)

InFlightJobs(p) ==
    {k \in KeysOf(p) : job[k] # None /\ job[k].phase \in {"fetching", "ending"}}

\* The slot counter of a platform is the number of its keys between
\* beginInflight and endInflight: no path of a job leaks or returns a slot it
\* does not have (also when its key was deleted under it, or it gave way).
InflightMatchesJobs ==
    \A p \in Platforms : inflight[p] = Cardinality(InFlightJobs(p))

\* Two keys of one platform are never fetched at the same time
\* (beginInflight: one request per platform).
OneFetchPerPlatform ==
    \A j, k \in Keys :
        /\ job[j] # None /\ job[j].phase \in {"fetching", "ending"}
        /\ job[k] # None /\ job[k].phase \in {"fetching", "ending"}
        /\ PlatformOf[j] = PlatformOf[k]
        => j = k

\* A saved configuration that no tick has planned yet still has something that
\* will make the loop plan it: a token in the channel, a handler about to send
\* one, or a loop on its way to the plan.  Reload sends outside the mutex and
\* drops the token when the channel is full; the loop may be anywhere.
WakeNotLost ==
    planned \/ wake \/ waking > 0 \/ loop \in {"boot", "plan", "exited"}

\* Readers, who take no lock, are never behind the scheduler: whenever the
\* mutex is free the published list is the list of the configured keys' states,
\* although publishing is skipped when the diff finds nothing new.
SnapshotFresh == snap.provs = Listed(cfg, states)

\* snapshot.go: the revision moves exactly when the response moves.
RevisionTracksResponse ==
    [][snap'.rev = snap.rev <=> snap'.provs = snap.provs]_vars

\* Whatever wakes the loop, saves and renames included, a key that holds a
\* fresh result is not fetched again before its share of the period is over
\* (OnSuccessAt).
NoEarlyRefetch ==
    [][\A k \in Keys :
        /\ job[k] = None /\ job'[k] # None
        /\ states[k].status = "ok"
        => now >= states[k].last + KeyPeriod(Cardinality(KeysOf(PlatformOf[k])))]_vars

\* A key stopped by a 401 stays stopped until its definition changes or it is
\* removed (Stop's comment): no other key's result, no rename and no unrelated
\* save revives it.  A save also resets a key whose token cannot be decrypted;
\* that one is not collected either.
StopUntilRedefined ==
    [][\A k \in Keys :
        backoffs[k].stopped /\ ~backoffs'[k].stopped
        => \/ cfg'[k] = None
           \/ ~SameDefinition(cfg[k], cfg'[k])
           \/ cfg'[k].token \in Unreadable]_vars

\* The last good data of a key goes away only with its definition or with a
\* 401: no failure, no skipped tick and no save of another key loses it.
DataLost(k) ==
    /\ states[k] # None /\ states[k].data # None
    /\ states'[k] = None \/ states'[k].data = None

HistoryKept ==
    [][\A k \in Keys :
        DataLost(k)
        => \/ states'[k] # None /\ states'[k].err.code = "TOKEN_INVALID"
           \/ cfg'[k] = None
           \/ ~SameDefinition(cfg[k], cfg'[k])
           \/ cfg'[k].token \in Unreadable]_vars

\* No job is planned for a key the page shows as invalid or switched off,
\* whatever order results and saves came in.
InvalidNeverFetched ==
    [][\A k \in Keys :
        job[k] = None /\ job'[k] # None
        => states[k].status \notin {"token_invalid", "disabled"}]_vars

\* What the page shows of a key is what the configuration says of it: its name,
\* whether it is switched off, and good data fetched with its token.
ShownAsConfigured(k) ==
    cfg[k] # None =>
        /\ states[k].name = cfg[k].name
        /\ states[k].status = "disabled" <=> ~cfg[k].enabled
        /\ states[k].status = "ok" => states[k].data = cfg[k].token

\* The answer k waits for belongs to a definition that was saved over.
LateAnswer(k) ==
    /\ Answered(k)
    /\ \/ job[k].token # cfg[k].token
       \/ job[k].name # cfg[k].name
       \/ ~cfg[k].enabled

\* Once started, the page parts from the configuration through nothing but the
\* answer to a request planned under an older definition, so at most once per
\* key and save: no save, no failure and no other key's result does it.
OnlyLateAnswersDiffer ==
    [][\A k \in Keys :
        loop # "boot" /\ ShownAsConfigured(k) /\ ~ShownAsConfigured(k)'
        => LateAnswer(k)]_vars

\* The content that the next crash will leave behind: what was handed to the
\* writer last or, before that, the file found at start.
Recoverable == IF saved = None THEN file ELSE saved

\* Every key that shows good data now would show it again after a restart.
CacheHoldsEveryOk ==
    \A k \in Keys :
        states[k] # None /\ states[k].status \in {"ok", "cached"}
        => /\ Recoverable[k] # None
           /\ Recoverable[k].data = states[k].data
           /\ Recoverable[k].last = states[k].last

\* Reload's comment: a removed key leaves the cache at once, and no late result
\* brings it back.
CacheOnlyConfigured ==
    \A k \in Keys : saved # None /\ cfg[k] = None => saved[k] = None

\* A saved configuration is planned, or the process is asked to stop: without
\* waiting for the sleep timer.
ReloadTakesEffect == (loop # "boot" /\ ~planned) ~> (planned \/ loop = "exited")

\* After the signal Run returns, whatever jobs, waits and saves were under way.
CancelEndsLoop == cancelled ~> loop = "exited"

-----------------------------------------------------------------------------
(* What the comments and tests say, and a late result breaks: a job keeps  *)
(* the definition it was planned with through its delay and its request,   *)
(* and its result is applied to whatever the id means by then.             *)

\* backoff.go, Stop and OnSuccessAt: only a 401 for the configured token stops
\* a key; a key whose token was just replaced is collected at once.  (Every
\* other result of the old definition is applied in the same way: the data and
\* the time of its success, its delay, its name, and its status over the
\* disabled state of a key switched off meanwhile.)
StopNeedsCurrentToken ==
    [][\A k \in Keys :
        ~backoffs[k].stopped /\ backoffs'[k].stopped
        => job[k].token = cfg[k].token]_vars
=============================================================================
