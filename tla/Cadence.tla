------------------------------ MODULE Cadence ------------------------------
(***************************************************************************)
(* The timing of internal/collector/scheduler.go: when ticks start, when   *)
(* each key of a tick is requested, and which keys the next tick finds     *)
(* due.  Scheduler leaves durations open; here every delay, request and    *)
(* sleep has its length, and the configuration stays put.  All keys are    *)
(* enabled and decryptable.                                                *)
(*                                                                         *)
(* Time is counted in the unit of time.Duration.  The configuration, and   *)
(* all that is computed from it as an int, is in seconds: a key's share of *)
(* the interval is exact, keyPeriodS is whole seconds.                     *)
(***************************************************************************)
EXTENDS Integers, FiniteSets, FiniteSetsExt

CONSTANTS
    Keys,
    Platforms,
    PlatformOf,         \* key -> platform
    Position,           \* key -> its place in the list of the configuration
    Second,             \* time.Second
    Mult, BackoffMax,
    Settings,           \* see IsSetting; a behaviour has one of them
    None,               \* no goroutine; no Retry-After header
    MaxTicks            \* bound: number of ticks

\* The interval and the delays a tick may draw, in seconds; how long requests may
\* take (at most the 25 s client timeout), and the results they may have.  Validate
\* asks for an interval of 30 s and lets a stagger below zero pass, left out here.
IsSetting(s) ==
    /\ s.interval \in Nat \ {0}
    /\ s.jitter \subseteq Int /\ s.jitter # {} /\ IsFiniteSet(s.jitter)
    /\ s.stagger \subseteq Nat /\ s.stagger # {} /\ IsFiniteSet(s.stagger)
    /\ s.latency \subseteq Nat /\ s.latency # {} /\ IsFiniteSet(s.latency)
    /\ s.outcomes \subseteq {"ok", "platform_error"}

\* Validate: multiplier >= 1; the cap may be anything up to a day, also less than
\* the interval.  Two keys have two places in the list.
ASSUME CadenceAssumption ==
    /\ Second \in Nat \ {0}
    /\ Mult \in Nat \ {0}
    /\ BackoffMax \in Int
    /\ IsFiniteSet(Keys)
    /\ PlatformOf \in [Keys -> Platforms]
    /\ Position \in [Keys -> Int]
    /\ \A j, k \in Keys : Position[j] = Position[k] => j = k
    /\ \A s \in Settings : IsSetting(s)

INSTANCE Backoff

\* The goroutine of a key, until its start or its answer.
Job == [phase : {"waiting", "fetching"}, until : Nat]

ASSUME NoneIsNoJob == None \notin Job

VARIABLES
    settings,           \* interval, jitter, stagger, latency and outcomes
    now,
    phase,              \* of Run: "plan", "collecting" or "sleeping"
    tickStart,          \* when the current tick was planned
    wakeAt,             \* when the sleep timer fires
    ticks,              \* bound counter
    job,                \* key -> its goroutine, waiting until its start or fetching
                        \* until its answer, or None
    backoffs,           \* key-level back-off
    platformBackoffs,   \* platform-level back-off
    missed,             \* history: ticks in a row without a request for a key
    raised              \* history: failures of a platform counted in this tick since
                        \* its last success

vars == <<settings, now, phase, tickStart, wakeAt, ticks, job, backoffs,
          platformBackoffs, missed, raised>>

-----------------------------------------------------------------------------
Siblings(k) == {j \in Keys : PlatformOf[j] = PlatformOf[k]}

KeyCount(k) == Cardinality(Siblings(k))

KeyIndex(k) == Cardinality({j \in Siblings(k) : Position[j] < Position[k]})

\* interval_base_s as a duration.
Base == settings.interval * Second

\* backoff_max_s as a duration.
Cap == BackoffMax * Second

\* Fault: the whole period for every key.
WholePeriod(k) == Base

\* Fault: multiplied where the code divides.
LongPeriod(k) == Base * KeyCount(k)

\* keyPeriodS: whole seconds and at least one.
KeyPeriod(k) ==
    IF KeyCount(k) <= 1 THEN Base
    ELSE IF settings.interval \div KeyCount(k) < 1 THEN Second
    ELSE (settings.interval \div KeyCount(k)) * Second

\* A key's share of the interval.  It is less than KeyPeriod where the interval has
\* fewer seconds than the platform has keys.
Share(k) == Base \div KeyCount(k)

\* keyOffset: the place of k in the interval its platform's keys share.
KeyOffset(k) == KeyIndex(k) * Share(k)

Due(k) ==
    /\ Eligible(platformBackoffs[PlatformOf[k]], now)
    /\ Eligible(backoffs[k], now)

\* The staggers drawn for the keys planned before k add up.
Accumulated(k, stagger) ==
    Second * MapThenSumSet(LAMBDA j : stagger[j],
                           {j \in Keys : Due(j) /\ Position[j] < Position[k]})

Busy(p) == \E k \in Keys : PlatformOf[k] = p /\ job[k] # None /\ job[k].phase = "fetching"

-----------------------------------------------------------------------------
Init ==
    /\ settings \in Settings
    /\ now = 1
    /\ phase = "plan"
    /\ tickStart = 1
    /\ wakeAt = 1
    /\ ticks = 0
    /\ job = [k \in Keys |-> None]
    /\ backoffs = [k \in Keys |-> ZeroBackoff]
    /\ platformBackoffs = [p \in Platforms |-> ZeroBackoff]
    /\ missed = [k \in Keys |-> 0]
    /\ raised = [p \in Platforms |-> 0]

PlanTick ==
    /\ phase = "plan"
    /\ ticks < MaxTicks
    /\ \E stagger \in [Keys -> settings.stagger] :
         job' = [k \in Keys |->
             IF Due(k)
             THEN [phase |-> "waiting", until |-> now + KeyOffset(k) + Accumulated(k, stagger)]
             ELSE None]
    /\ missed' = [k \in Keys |-> IF Due(k) THEN missed[k] ELSE missed[k] + 1]
    /\ raised' = [p \in Platforms |-> 0]
    /\ tickStart' = now
    /\ phase' = "collecting"
    /\ ticks' = ticks + 1
    /\ UNCHANGED <<settings, now, wakeAt, backoffs, platformBackoffs>>

\* The delay is over and the platform's slot is free: request, for some time.
StartJob(k) ==
    /\ job[k] # None /\ job[k].phase = "waiting" /\ job[k].until = now
    /\ ~Busy(PlatformOf[k])
    /\ \E latency \in settings.latency :
         job' = [job EXCEPT ![k] = [phase |-> "fetching", until |-> now + latency]]
    /\ missed' = [missed EXCEPT ![k] = 0]
    /\ UNCHANGED <<settings, now, phase, tickStart, wakeAt, ticks, backoffs,
                   platformBackoffs, raised>>

\* The delay is over and another key of the platform is still being fetched.
SkipBusy(k) ==
    /\ job[k] # None /\ job[k].phase = "waiting" /\ job[k].until = now
    /\ Busy(PlatformOf[k])
    /\ job' = [job EXCEPT ![k] = None]
    /\ missed' = [missed EXCEPT ![k] = @ + 1]
    /\ UNCHANGED <<settings, now, phase, tickStart, wakeAt, ticks, backoffs,
                   platformBackoffs, raised>>

Answered(k) == job[k] # None /\ job[k].phase = "fetching" /\ job[k].until = now

CollectOk(k) ==
    /\ Answered(k)
    /\ "ok" \in settings.outcomes
    /\ backoffs' = [backoffs EXCEPT ![k] = OnSuccessAt(@, now, KeyPeriod(k))]
    /\ platformBackoffs' = [platformBackoffs EXCEPT ![PlatformOf[k]] = OnSuccess(@)]
    /\ job' = [job EXCEPT ![k] = None]
    /\ raised' = [raised EXCEPT ![PlatformOf[k]] = 0]
    /\ UNCHANGED <<settings, now, phase, tickStart, wakeAt, ticks, missed>>

\* Fault: every failing key doubles the platform's wait.
Raises(p) == TRUE

\* The platform is not waiting yet.
Escalates(p) == Eligible(platformBackoffs[p], now)

\* Network error or 5xx: counted only if the platform is not waiting already.
CollectPlatformError(k) ==
    LET p == PlatformOf[k] IN
    /\ Answered(k)
    /\ "platform_error" \in settings.outcomes
    /\ IF Escalates(p)
       THEN /\ platformBackoffs' = [platformBackoffs EXCEPT ![p] =
                   OnFailure(@, now, Base, Mult, Cap)]
            /\ raised' = [raised EXCEPT ![p] = @ + 1]
       ELSE UNCHANGED <<platformBackoffs, raised>>
    /\ job' = [job EXCEPT ![k] = None]
    /\ UNCHANGED <<settings, now, phase, tickStart, wakeAt, ticks, backoffs,
                   missed>>

\* The tick is over: sleep(max(0, base + jitter - elapsed)).
TickDone ==
    /\ phase = "collecting"
    /\ \A k \in Keys : job[k] = None
    /\ \E jitter \in settings.jitter :
         LET due == tickStart + Base + jitter * Second IN
         wakeAt' = IF due > now THEN due ELSE now
    /\ phase' = "sleeping"
    /\ UNCHANGED <<settings, now, tickStart, ticks, job, backoffs, platformBackoffs,
                   missed, raised>>

TimerFires ==
    /\ phase = "sleeping"
    /\ wakeAt = now
    /\ ticks < MaxTicks
    /\ phase' = "plan"
    /\ UNCHANGED <<settings, now, tickStart, wakeAt, ticks, job, backoffs,
                   platformBackoffs, missed, raised>>

-----------------------------------------------------------------------------
\* Instants at which a timer fires or an answer arrives.
Pending ==
    {job[k].until : k \in {j \in Keys : job[j] # None}}
        \cup (IF phase = "sleeping" THEN {wakeAt} ELSE {})

\* Nothing is left to do at this instant: on to the next one.
Advance ==
    /\ phase # "plan"
    /\ Pending # {}
    /\ \A t \in Pending : t > now
    /\ now' = Min(Pending)
    /\ UNCHANGED <<settings, phase, tickStart, wakeAt, ticks, job, backoffs,
                   platformBackoffs, missed, raised>>

\* The bound on ticks is reached.
Finished ==
    /\ phase = "sleeping"
    /\ ticks = MaxTicks
    /\ UNCHANGED vars

Next ==
    \/ PlanTick \/ TickDone \/ TimerFires \/ Advance \/ Finished
    \/ \E k \in Keys : StartJob(k) \/ SkipBusy(k) \/ CollectOk(k) \/ CollectPlatformError(k)

Spec == Init /\ [][Next]_vars

-----------------------------------------------------------------------------
(* What the timing promises, and under which settings.                     *)

\* The last key planned starts this much after its place in the interval.
LastStagger == Second * ((Cardinality(Keys) - 1) * Max(settings.stagger))

\* A key is answered at most this much after its place in the interval.
Spread == LastStagger + Max(settings.latency)

MinJitter == Min(settings.jitter) * Second

\* The last key's place and its KeyPeriod end with the interval, or less than a
\* second after it where a platform has more keys than the interval has seconds.
Overhang ==
    IF \A k \in Keys : KeyCount(k) <= settings.interval THEN 0 ELSE Second

AllSucceed == settings.outcomes = {"ok"}

\* README: with N keys on a platform each key is still collected once per
\* period.  While requests succeed, every tick finds every key due.
EachKeyOncePerPeriod == AllSucceed /\ phase = "plan" => \A k \in Keys : Due(k)

\* That holds as long as the staggers of the keys before it and one request, and
\* the overhang of a crowded platform, fit into the smallest jitter: OnSuccessAt
\* counts from the answer, the tick from its own start.
EveryKeyEveryTick == Spread + Overhang <= MinJitter => EachKeyOncePerPeriod

Brief == \A k \in Keys : KeyCount(k) > 1 => Max(settings.latency) < Share(k)

\* README: N keys of a platform are collected a share of the period apart, each
\* once per period.  A key whose requests succeed is left out of at most one tick
\* in a row while requests are shorter than that share; beyond it, a slow sibling
\* can make it give way tick after tick.
NoKeyMissesTwice ==
    AllSucceed /\ Brief /\ Spread + Overhang <= Base /\ MinJitter >= 0
    => \A k \in Keys : missed[k] <= 1

\* CollectPlatformError's comment: several failing keys of one platform count
\* as one failure per tick, so the platform's wait doubles once.  A success
\* between two failures takes the wait back, and a sibling that starts a whole
\* share of the period late may find it over; so may any sibling if the cap on
\* waits is below the interval.
PlatformFailsOncePerTick ==
    Cap >= Base /\ (\A k \in Keys : Spread < Share(k))
    => \A p \in Platforms : raised[p] <= 1
=============================================================================
