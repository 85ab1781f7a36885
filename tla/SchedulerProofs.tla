-------------------------- MODULE SchedulerProofs --------------------------
(***************************************************************************)
(* Theorems about Scheduler, for every set of keys, platforms, tokens and  *)
(* configurations and every value of the collector parameters.             *)
(***************************************************************************)
EXTENDS Scheduler, FiniteSetTheorems, TLAPS

-----------------------------------------------------------------------------
(* The operators the model is built from.                                  *)

\* A back-off delay lies between zero and the cap, or is a cap below zero.
LEMMA BackoffDelayType ==
    ASSUME NEW base, NEW mult, NEW maxS \in Int, NEW pow
    PROVE  /\ BackoffDelay(base, mult, maxS, pow) \in Int
           /\ BackoffDelay(base, mult, maxS, pow) <= maxS
           /\ maxS >= 0 => BackoffDelay(base, mult, maxS, pow) >= 0
  BY DEF BackoffDelay

LEMMA OnFailureType ==
    ASSUME NEW b \in Backoffs, NEW t \in Nat, NEW base, NEW mult, NEW maxS \in Int
    PROVE  /\ FailureDelay(b, base, mult, maxS) \in Int
           /\ OnFailure(b, t, base, mult, maxS) \in Backoffs
           /\ OnFailure(b, t, base, mult, maxS).stopped = b.stopped
<1>1. FailureDelay(b, base, mult, maxS) \in Int
  BY BackoffDelayType DEF FailureDelay
<1> DEFINE d == FailureDelay(b, base, mult, maxS)
<1>2. /\ b.fails + 1 \in Nat
      /\ t + d \in Int
  BY <1>1 DEF Backoffs
<1> QED  BY <1>1, <1>2, Zenon DEF OnFailure, Backoffs

LEMMA OnRateLimitedType ==
    ASSUME NEW b \in Backoffs, NEW t \in Nat, NEW ra \in Nat \cup {None},
           NEW base, NEW mult, NEW maxS \in Int
    PROVE  /\ RateLimitDelay(b, ra, base, mult, maxS) \in Int
           /\ OnRateLimited(b, t, ra, base, mult, maxS) \in Backoffs
           /\ OnRateLimited(b, t, ra, base, mult, maxS).stopped = b.stopped
<1>1. RateLimitDelay(b, ra, base, mult, maxS) \in Int
  BY BackoffDelayType DEF RateLimitDelay
<1> DEFINE d == RateLimitDelay(b, ra, base, mult, maxS)
<1>2. t + d \in Int
  BY <1>1
<1> QED  BY <1>1, <1>2, Zenon DEF OnRateLimited, Backoffs

\* The period of a key is at least a second.
LEMMA KeyPeriodType ==
    ASSUME NEW n \in Nat
    PROVE  KeyPeriod(n) \in Nat \ {0}
  BY CollectorAssumption DEF KeyPeriod

\* Sharing the period among more keys does not lengthen it.
LEMMA KeyPeriodMonotone ==
    ASSUME NEW m \in Nat, NEW n \in Nat, m <= n
    PROVE  KeyPeriod(n) <= KeyPeriod(m)
<1>1. CASE n <= 1
  BY <1>1, CollectorAssumption DEF KeyPeriod
<1>2. CASE n > 1 /\ m <= 1
  <2>1. Base \div n \in Nat /\ Base \div n <= Base
    BY <1>2, CollectorAssumption
  <2> QED  BY <2>1, <1>2, CollectorAssumption DEF KeyPeriod
<1>3. CASE m > 1
  <2> DEFINE q == Base \div n
  <2>1. /\ q \in Nat
        /\ n * q <= Base
    BY <1>3, CollectorAssumption
  <2>2. m * q <= Base
    BY <1>3, <2>1, CollectorAssumption
  <2>3. q <= Base \div m
    BY <1>3, <2>1, <2>2, CollectorAssumption
  <2> QED  BY <2>1, <2>3, <1>3, CollectorAssumption DEF KeyPeriod
<1> QED  BY <1>1, <1>2, <1>3

-----------------------------------------------------------------------------
(* Type correctness.                                                       *)

\* Only keys are stopped, never a platform: a platform that is not eligible
\* waits, and its wait ends.
PlatformNeverStopped == \A p \in Platforms : ~platformBackoffs[p].stopped

TypeInv == TypeOK /\ PlatformNeverStopped

LEMMA ZeroBackoffType ==
    ZeroBackoff \in Backoffs /\ ~ZeroBackoff.stopped
  BY DEF ZeroBackoff, Backoffs

LEMMA FreshStateType ==
    ASSUME NEW d \in KeyDef
    PROVE  FreshState(d) \in ProviderState
  BY DEF FreshState, KeyDef, ProviderState, Statuses, ErrorInfo, Codes, ErrorOf, Messages

LEMMA ListedType ==
    ASSUME NEW c, NEW sts \in ProviderStates
    PROVE  Listed(c, sts) \in ProviderStates
  BY DEF Listed, ProviderStates

LEMMA PublishType ==
    ASSUME NEW s \in Snapshots, NEW sts \in ProviderStates
    PROVE  Publish(s, sts) \in Snapshots
<1>1. (s.rev + 1) % RevisionRange \in 0 .. RevisionRange - 1
  BY CollectorAssumption DEF Snapshots
<1> QED  BY <1>1, Zenon DEF Publish, Snapshots

\* Publishing always leaves the given list published: the diff compares every
\* field a state has.
LEMMA PublishShows ==
    ASSUME NEW s \in Snapshots, NEW sts \in ProviderStates
    PROVE  Publish(s, sts).provs = sts
<1>1. CASE SnapshotChanged(s.provs, sts)
  BY <1>1 DEF Publish
<1>2. CASE ~SnapshotChanged(s.provs, sts)
  <2>1. Publish(s, sts).provs = s.provs
    BY <1>2 DEF Publish
  <2>2. s.provs \in ProviderStates
    BY DEF Snapshots
  <2>3. ASSUME NEW k \in Keys
        PROVE  s.provs[k] = sts[k]
    <3>1. CASE s.provs[k] = None
      BY <3>1, <1>2 DEF SnapshotChanged
    <3>2. CASE s.provs[k] # None
      <4>1. sts[k] # None
        BY <3>2, <1>2 DEF SnapshotChanged
      <4>2. s.provs[k] \in ProviderState /\ sts[k] \in ProviderState
        BY <3>2, <4>1, <2>2 DEF ProviderStates
      <4>3. /\ s.provs[k].name = sts[k].name
            /\ s.provs[k].status = sts[k].status
            /\ s.provs[k].data = sts[k].data
            /\ s.provs[k].last = sts[k].last
            /\ s.provs[k].err.code = sts[k].err.code
            /\ s.provs[k].err.message = sts[k].err.message
            /\ s.provs[k].err.retry = sts[k].err.retry
        BY <3>2, <4>1, <1>2 DEF SnapshotChanged, SameError
      <4>4. s.provs[k].err = sts[k].err
        BY <4>2, <4>3 DEF ProviderState, ErrorInfo
      <4> QED  BY <4>2, <4>3, <4>4 DEF ProviderState
    <3> QED  BY <3>1, <3>2
  <2> QED  BY <2>1, <2>2, <2>3 DEF ProviderStates
<1> QED  BY <1>1, <1>2

LEMMA CacheType ==
    ASSUME NEW sts \in ProviderStates
    PROVE  CacheFromStates(sts) \in [Keys -> CacheEntry \cup {None}]
  BY DEF CacheFromStates, ProviderStates, ProviderState, CacheEntry

LEMMA KeyCountType ==
    ASSUME NEW k \in Keys
    PROVE  /\ KeyCount(k) \in Nat
           /\ Cardinality(KeysOf(PlatformOf[k])) \in Nat
           /\ KeyCount(k) <= Cardinality(KeysOf(PlatformOf[k]))
<1>1. IsFiniteSet(KeysOf(PlatformOf[k]))
  BY KeysAssumption, FS_Subset DEF KeysOf
<1> QED  BY <1>1, FS_Subset, FS_CardinalityType DEF KeyCount

LEMMA TypeInit == Init => TypeInv
<1> SUFFICES ASSUME Init PROVE TypeInv
  OBVIOUS
<1> USE DEF Init
<1>1. cfg \in [Keys -> KeyDef \cup {None}]
  BY KeysAssumption
<1>2. states \in ProviderStates
  BY <1>1, FreshStateType DEF ProviderStates
<1>3. NewStore \in Snapshots
  BY CollectorAssumption DEF NewStore, Snapshots, ProviderStates
<1>4. snap \in Snapshots
  BY <1>2, <1>3, ListedType, PublishType
<1>5. file \in [Keys -> CacheEntry \cup {None}]
  BY KeysAssumption
<1>6. /\ backoffs \in [Keys -> Backoffs]
      /\ platformBackoffs \in [Platforms -> Backoffs]
      /\ PlatformNeverStopped
  BY ZeroBackoffType, Zenon DEF PlatformNeverStopped
<1> QED  BY <1>1, <1>2, <1>4, <1>5, <1>6 DEF TypeInv, TypeOK

\* What Apply stores is well typed when its arguments are.
LEMMA ApplyType ==
    ASSUME NEW k \in Keys, NEW st \in ProviderState, NEW b \in Backoffs,
           NEW pb \in Backoffs, ~pb.stopped, TypeInv, Apply(k, st, b, pb)
    PROVE  TypeInv'
<1> USE DEF TypeInv, TypeOK
<1>1. states' \in ProviderStates
  BY DEF Apply, ProviderStates
<1>2. snap' \in Snapshots
  BY <1>1, ListedType, PublishType DEF Apply
<1>3. saved' \in [Keys -> CacheEntry \cup {None}] \cup {None}
  BY <1>1, ListedType, CacheType DEF Apply
<1>4. backoffs' \in [Keys -> Backoffs]
  BY DEF Apply
<1>5. PlatformOf[k] \in Platforms
  BY KeysAssumption
<1>6. platformBackoffs' \in [Platforms -> Backoffs]
  BY <1>5 DEF Apply
<1>7. PlatformNeverStopped'
  BY <1>5, Zenon DEF Apply, PlatformNeverStopped
<1>8. job' \in [Keys -> Job \cup {None}]
  BY DEF Apply, Answered, Job
<1> QED  BY <1>1, <1>2, <1>3, <1>4, <1>6, <1>7, <1>8 DEF Apply

LEMMA JobType ==
    ASSUME NEW k \in Keys, TypeOK, Answered(k)
    PROVE  /\ job[k] \in Job
           /\ job[k].name \in Names
           /\ job[k].token \in Tokens
           /\ job[k].count \in Nat
           /\ PriorData(k) \in Tokens \cup {None}
           /\ PriorSuccess(k) \in Nat \cup {None}
<1>1. job[k] \in Job
  BY DEF TypeOK, Answered
<1>2. states[k] # None => states[k] \in ProviderState
  BY DEF TypeOK, ProviderStates
<1> QED  BY <1>1, <1>2 DEF Job, ProviderState, PriorData, PriorSuccess

\* What an answer becomes has the types of the page.
LEMMA AnswerType ==
    ASSUME NEW a \in Responses
    PROVE  /\ Message(a) \in Messages
           /\ RetryAfter(a) \in Nat \cup {None}
           /\ ClassCode(Class(a)) \in Codes
<1>1. Class(a) = "BIZ_ERROR" => a.fault \in Faults
  BY DEF Class, Responses
<1>2. Message(a) \in Messages
  BY <1>1 DEF Message, Messages, Responses
<1>3. RetryAfter(a) \in Nat \cup {None}
  BY DEF RetryAfter, Responses
<1>4. ClassCode(Class(a)) \in Codes
  BY DEF ClassCode, Codes
<1> QED  BY <1>2, <1>3, <1>4

LEMMA FailedStateType ==
    ASSUME NEW k \in Keys, TypeOK, Answered(k),
           NEW code \in Codes, NEW a \in Responses, NEW delay \in Int
    PROVE  FailedState(k, code, a, delay) \in ProviderState
  BY JobType, AnswerType DEF FailedState, ProviderState, Statuses, ErrorInfo

\* The result of a request for k is applied.
ResultStep(k) ==
    \/ CollectOk(k) \/ CollectTokenInvalid(k) \/ CollectRateLimited(k)
    \/ CollectKeyError(k) \/ CollectPlatformError(k)

\* What a result makes of the state and the back-off of its key.
ResultOf(k, st, b) ==
    /\ st.name = job[k].name
    /\ \/ /\ st.status = "ok" /\ st.last = now
          /\ st.data = job[k].token
          /\ b.next = now + KeyPeriod(job[k].count)
          /\ b.stopped = backoffs[k].stopped
       \/ /\ st.status = "token_invalid" /\ st.err.code = "TOKEN_INVALID"
          /\ b.stopped
       \/ /\ st.status = "failed"
          /\ st.data = PriorData(k)
          /\ b.stopped = backoffs[k].stopped

\* Every outcome is one Apply of well typed arguments.
LEMMA ResultStepApplies ==
    ASSUME NEW k \in Keys, TypeInv, ResultStep(k)
    PROVE  \E st \in ProviderState, b \in Backoffs, pb \in Backoffs :
              /\ Apply(k, st, b, pb)
              /\ ~pb.stopped
              /\ ResultOf(k, st, b)
<1> USE DEF TypeInv
<1> DEFINE p  == PlatformOf[k]
           pb == platformBackoffs[p]
           Goal(st, b, q) == Apply(k, st, b, q) /\ ~q.stopped /\ ResultOf(k, st, b)
<1>0. /\ p \in Platforms
      /\ pb \in Backoffs
      /\ ~pb.stopped
      /\ backoffs[k] \in Backoffs
      /\ now \in Nat
      /\ Mult \in Nat /\ BackoffMax \in Int /\ Base \in Nat
  BY KeysAssumption, CollectorAssumption DEF TypeOK, PlatformNeverStopped
<1>1. Answered(k)
  BY Zenon DEF ResultStep, CollectOk, CollectTokenInvalid, CollectRateLimited,
     CollectKeyError, CollectPlatformError, Apply
<1>2. KeyPeriod(job[k].count) \in Nat
  BY <1>1, JobType, KeyPeriodType
<1>5. CASE CollectOk(k)
  <2> DEFINE st == [name |-> job[k].name, status |-> "ok", data |-> job[k].token,
                    last |-> now, err |-> NoError]
             b == OnSuccessAt(backoffs[k], now, KeyPeriod(job[k].count))
             q == OnSuccess(pb)
  <2>1. st \in ProviderState
    BY <1>0, <1>1, JobType DEF ProviderState, Statuses, ErrorInfo, Codes, NoError, ErrorOf, Messages
  <2>2. now + KeyPeriod(job[k].count) \in Int /\ 0 \in Nat /\ 0 \in Int
    BY <1>0, <1>2
  <2>3. /\ b \in Backoffs
        /\ b.next = now + KeyPeriod(job[k].count)
        /\ b.stopped = backoffs[k].stopped
    BY <1>0, <2>2, Zenon DEF OnSuccessAt, Backoffs
  <2>4. q \in Backoffs /\ ~q.stopped
    BY <1>0, <2>2, Zenon DEF OnSuccess, Backoffs
  <2>5. ResultOf(k, st, b)
    BY <2>3, Zenon DEF ResultOf
  <2>6. Apply(k, st, b, q)
    BY <1>5, Zenon DEF CollectOk
  <2> QED  BY <2>1, <2>3, <2>4, <2>5, <2>6, Zenon
<1>6. CASE CollectTokenInvalid(k)
  <2> DEFINE st == [name |-> job[k].name, status |-> "token_invalid", data |-> None,
                    last |-> None, err |-> ErrorOf("TOKEN_INVALID")]
             b == Stop(backoffs[k])
  <2>1. st \in ProviderState
    BY <1>1, JobType DEF ProviderState, Statuses, ErrorInfo, Codes, ErrorOf, Messages
  <2>2. b \in Backoffs /\ b.stopped
    BY <1>0, Zenon DEF Stop, Backoffs
  <2>3. ResultOf(k, st, b)
    BY <2>2, Zenon DEF ResultOf, ErrorOf
  <2>4. Apply(k, st, b, pb)
    BY <1>6, Zenon DEF CollectTokenInvalid
  <2> QED  BY <1>0, <2>1, <2>2, <2>3, <2>4, Zenon
<1>7. CASE CollectRateLimited(k)
  <2> DEFINE period == KeyPeriod(job[k].count)
             delay(a) == RateLimitDelay(backoffs[k], RetryAfter(a), period, Mult, BackoffMax)
             after(a) == OnRateLimited(backoffs[k], now, RetryAfter(a), period, Mult, BackoffMax)
             st(a) == FailedState(k, "RATE_LIMITED", a, delay(a))
  <2>1. PICK a \in Answers : Apply(k, st(a), after(a), pb)
    BY <1>7, Zenon DEF CollectRateLimited
  <2>5. a \in Responses
    BY CollectorAssumption
  <2>6. PICK ra \in Nat \cup {None} : ra = RetryAfter(a)
    BY <2>5, AnswerType
  <2>7. /\ RateLimitDelay(backoffs[k], ra, period, Mult, BackoffMax) \in Int
        /\ OnRateLimited(backoffs[k], now, ra, period, Mult, BackoffMax) \in Backoffs
        /\ OnRateLimited(backoffs[k], now, ra, period, Mult, BackoffMax).stopped
              = backoffs[k].stopped
    BY <1>0, OnRateLimitedType
  <2>2. delay(a) \in Int /\ after(a) \in Backoffs /\ after(a).stopped = backoffs[k].stopped
    BY <2>6, <2>7, Zenon
  <2>3. st(a) \in ProviderState
    BY <1>1, <2>2, <2>5, FailedStateType DEF Codes
  <2>4. ResultOf(k, st(a), after(a))
    BY <2>2, Zenon DEF ResultOf, FailedState
  <2> QED  BY <1>0, <2>1, <2>2, <2>3, <2>4, Zenon
<1>8. CASE CollectKeyError(k)
  <2> DEFINE period == KeyPeriod(job[k].count)
             delay == FailureDelay(backoffs[k], period, Mult, BackoffMax)
             after == OnFailure(backoffs[k], now, period, Mult, BackoffMax)
             st(a) == FailedState(k, ClassCode(Class(a)), a, AtLeastZero(delay))
  <2>1. PICK a \in Answers : Apply(k, st(a), after, pb)
    BY <1>8, Zenon DEF CollectKeyError
  <2>5. delay \in Int /\ after \in Backoffs /\ after.stopped = backoffs[k].stopped
    BY <1>0, OnFailureType
  <2>2. AtLeastZero(delay) \in Int
    BY <2>5 DEF AtLeastZero
  <2>3. st(a) \in ProviderState
    BY <1>1, <2>2, AnswerType, FailedStateType, CollectorAssumption
  <2>4. ResultOf(k, st(a), after)
    BY <2>5, Zenon DEF ResultOf, FailedState
  <2> QED  BY <1>0, <2>1, <2>3, <2>4, <2>5, Zenon
<1>9. CASE CollectPlatformError(k)
  <2> DEFINE st(a, delay) == FailedState(k, ClassCode(Class(a)), a, AtLeastZero(delay))
  <2>0. PICK a \in Answers :
            IF Eligible(pb, now)
            THEN Apply(k, st(a, FailureDelay(pb, Base, Mult, BackoffMax)), backoffs[k],
                       OnFailure(pb, now, Base, Mult, BackoffMax))
            ELSE Apply(k, st(a, pb.next - now), backoffs[k], pb)
    BY <1>9, Zenon DEF CollectPlatformError
  <2>1. CASE Eligible(pb, now)
    <3> DEFINE delay == FailureDelay(pb, Base, Mult, BackoffMax)
               after == OnFailure(pb, now, Base, Mult, BackoffMax)
    <3>1. Apply(k, st(a, delay), backoffs[k], after)
      BY <2>0, <2>1
    <3>5. delay \in Int /\ after \in Backoffs /\ ~after.stopped
      BY <1>0, OnFailureType
    <3>2. AtLeastZero(delay) \in Int
      BY <3>5 DEF AtLeastZero
    <3>3. st(a, delay) \in ProviderState
      BY <1>1, <3>2, AnswerType, FailedStateType, CollectorAssumption
    <3>4. ResultOf(k, st(a, delay), backoffs[k])
      BY Zenon DEF ResultOf, FailedState
    <3> QED  BY <1>0, <3>1, <3>3, <3>4, <3>5, Zenon
  <2>2. CASE ~Eligible(pb, now)
    <3> DEFINE delay == pb.next - now
    <3>1. Apply(k, st(a, delay), backoffs[k], pb)
      BY <2>0, <2>2
    <3>2. AtLeastZero(delay) \in Int
      BY <1>0, <2>2 DEF AtLeastZero, Backoffs
    <3>3. st(a, delay) \in ProviderState
      BY <1>1, <3>2, AnswerType, FailedStateType, CollectorAssumption
    <3>4. ResultOf(k, st(a, delay), backoffs[k])
      BY Zenon DEF ResultOf, FailedState
    <3> QED  BY <1>0, <3>1, <3>3, <3>4, Zenon
  <2> QED  BY <2>1, <2>2
<1> QED  BY <1>5, <1>6, <1>7, <1>8, <1>9 DEF ResultStep

\* A step of a job keeps the types.
LEMMA TypeJobStep ==
    ASSUME NEW k \in Keys, TypeInv, JobStep(k)
    PROVE  TypeInv'
<1> USE DEF TypeInv
<1>0. PlatformOf[k] \in Platforms
  BY KeysAssumption
<1>1. CASE StartJob(k)
  BY <1>0, <1>1 DEF StartJob, TypeOK, Job, PlatformNeverStopped
<1>2. CASE SkipBusy(k)
  BY <1>2 DEF SkipBusy, TypeOK, PlatformNeverStopped
<1>3. CASE AbortJob(k)
  BY <1>3 DEF AbortJob, TypeOK, PlatformNeverStopped
<1>4. CASE EndInflight(k)
  BY <1>0, <1>4 DEF EndInflight, TypeOK, PlatformNeverStopped
<1>5. CASE ResultStep(k)
  BY <1>5, ResultStepApplies, ApplyType
<1>6. CASE CollectDropped(k)
  BY <1>6 DEF CollectDropped, Answered, TypeOK, Job, PlatformNeverStopped
<1> QED  BY <1>1, <1>2, <1>3, <1>4, <1>5, <1>6 DEF JobStep, ResultStep

LEMMA TypeReload ==
    ASSUME NEW new \in Configs, TypeInv, Reload(new)
    PROVE  TypeInv'
<1> USE DEF TypeInv, TypeOK
<1>1. new \in [Keys -> KeyDef \cup {None}]
  BY KeysAssumption
<1>2. states' \in ProviderStates
  <2>1. ASSUME NEW k \in Keys
        PROVE  ReloadedState(k, new) \in ProviderState \cup {None}
    <3>1. CASE new[k] = None
      BY <3>1 DEF ReloadedState
    <3>2. CASE new[k] # None /\ Kept(k, new)
      <4>1. states[k] \in ProviderState /\ new[k].name \in Names
        BY <3>2, <1>1 DEF Kept, ProviderStates, KeyDef
      <4> QED  BY <3>2, <4>1 DEF ReloadedState, ProviderState
    <3>3. CASE new[k] # None /\ ~Kept(k, new)
      BY <3>3, <1>1, FreshStateType DEF ReloadedState
    <3> QED  BY <3>1, <3>2, <3>3
  <2> QED  BY <2>1 DEF Reload, ProviderStates
<1>3. snap' \in Snapshots
  BY <1>2, ListedType, PublishType DEF Reload
<1>4. saved' \in [Keys -> CacheEntry \cup {None}] \cup {None}
  BY <1>2, ListedType, CacheType DEF Reload, CacheOfReload
<1>5. backoffs' \in [Keys -> Backoffs]
  BY ZeroBackoffType DEF Reload
<1>6. platformBackoffs' \in [Platforms -> Backoffs] /\ PlatformNeverStopped'
  BY ZeroBackoffType, Zenon DEF Reload, PlatformNeverStopped
<1>7. /\ waking' = waking + 1 /\ reloads' = reloads + 1 /\ ~planned'
      /\ cfg' = new
      /\ UNCHANGED <<inflight, job, loop, wake, cancelled, file, now>>
  BY Zenon DEF Reload
<1>8. waking' \in Nat /\ reloads' \in Nat
  BY <1>7
<1>9. planned' \in BOOLEAN
  BY Zenon DEF Reload
<1> QED  BY <1>1, <1>2, <1>3, <1>4, <1>5, <1>6, <1>7, <1>8, <1>9

LEMMA TypeNext == TypeInv /\ [Next]_vars => TypeInv'
<1> SUFFICES ASSUME TypeInv, [Next]_vars PROVE TypeInv'
  OBVIOUS
<1> USE DEF TypeInv
<1>1. CASE SeedCached
  <2>1. ASSUME NEW k \in Keys
        PROVE  states'[k] \in ProviderState \cup {None}
    <3>1. CASE Restorable(k)
      <4>1. file[k] \in CacheEntry
        BY <3>1 DEF Restorable, TypeOK
      <4>2. states'[k] = [name |-> file[k].name, status |-> "cached",
                          data |-> file[k].data, last |-> file[k].last,
                          err |-> NoError]
        BY <1>1, <3>1 DEF SeedCached
      <4> QED  BY <4>1, <4>2 DEF CacheEntry, ProviderState, Statuses, ErrorInfo,
                                 Codes, NoError, ErrorOf, Messages
    <3>2. CASE ~Restorable(k)
      BY <1>1, <3>2 DEF SeedCached, TypeOK, ProviderStates
    <3> QED  BY <3>1, <3>2
  <2>2. states' \in ProviderStates
    BY <1>1, <2>1 DEF SeedCached, ProviderStates
  <2>3. snap' \in Snapshots
    BY <1>1, <2>2, ListedType, PublishType DEF SeedCached, TypeOK
  <2> QED  BY <1>1, <2>2, <2>3 DEF SeedCached, TypeOK, PlatformNeverStopped
<1>2. CASE PlanTick
  <2>1. ASSUME NEW k \in Keys, Due(k)
        PROVE  [token |-> cfg[k].token, name |-> cfg[k].name,
                count |-> KeyCount(k), phase |-> "waiting"] \in Job
    BY <2>1, KeyCountType DEF Due, TypeOK, KeyDef, Job
  <2>2. job' \in [Keys -> Job \cup {None}]
    BY <1>2, <2>1 DEF PlanTick
  <2> QED  BY <1>2, <2>2 DEF PlanTick, TypeOK, PlatformNeverStopped
<1>3. CASE TickDone \/ TimerFires \/ WakeUp \/ ExitLoop
  <2>1. CASE TickDone
    BY <2>1 DEF TickDone, TypeOK, PlatformNeverStopped
  <2>2. CASE TimerFires
    BY <2>2 DEF TimerFires, TypeOK, PlatformNeverStopped
  <2>3. CASE WakeUp
    BY <2>3 DEF WakeUp, TypeOK, PlatformNeverStopped
  <2>4. CASE ExitLoop
    BY <2>4 DEF ExitLoop, TypeOK, PlatformNeverStopped
  <2> QED  BY <1>3, <2>1, <2>2, <2>3, <2>4
<1>4. CASE \E k \in Keys : JobStep(k)
  BY <1>4, TypeJobStep
<1>5. CASE \E new \in Configs : Reload(new)
  BY <1>5, TypeReload
<1>6. CASE SendWake
  BY <1>6 DEF SendWake, TokenAfterSend, TypeOK, PlatformNeverStopped
<1>7. CASE Cancel \/ Advance
  <2>1. CASE Cancel
    BY <2>1 DEF Cancel, TypeOK, PlatformNeverStopped
  <2>2. CASE Advance
    BY <2>2 DEF Advance, TypeOK, PlatformNeverStopped
  <2> QED  BY <1>7, <2>1, <2>2
<1>8. CASE Terminated \/ UNCHANGED vars
  BY <1>8 DEF Terminated, vars, TypeOK, PlatformNeverStopped
<1> QED  BY <1>1, <1>2, <1>3, <1>4, <1>5, <1>6, <1>7, <1>8 DEF Next

\* Every state of the scheduler is well typed, whatever results, saves and
\* wake-ups came in which order.
THEOREM TypeCorrect == Spec => []TypeOK
<1>1. Spec => []TypeInv
  BY TypeInit, TypeNext, PTL DEF Spec
<1>2. TypeInv => TypeOK
  BY DEF TypeInv
<1> QED  BY <1>1, <1>2, PTL

-----------------------------------------------------------------------------
(* The safety properties, each proved from its own inductive invariant, on *)
(* top of TypeInv.                                                         *)

\* The steps that leave the configuration, the states and what is derived from
\* them alone: the loop, the slots, the channel and the environment.
QuietStep ==
    \/ PlanTick \/ TickDone \/ TimerFires \/ WakeUp \/ ExitLoop
    \/ \E k \in Keys : StartJob(k) \/ SkipBusy(k) \/ AbortJob(k) \/ EndInflight(k)
                       \/ CollectDropped(k)
    \/ SendWake \/ Cancel \/ Advance \/ Terminated \/ UNCHANGED vars

LEMMA QuietStepUnchanged ==
    QuietStep => UNCHANGED <<cfg, states, backoffs, platformBackoffs, snap, file, saved>>
  BY Zenon DEF QuietStep, PlanTick, TickDone, TimerFires, WakeUp, ExitLoop,
     StartJob, SkipBusy, AbortJob, EndInflight, CollectDropped, SendWake, TokenAfterSend,
     Cancel, Advance, Terminated, vars

LEMMA NextCases ==
    ASSUME [Next]_vars
    PROVE  \/ SeedCached
           \/ QuietStep
           \/ \E k \in Keys : ResultStep(k)
           \/ \E new \in Configs : Reload(new)
  BY Zenon DEF Next, JobStep, QuietStep, ResultStep

-----------------------------------------------------------------------------
(* The published snapshot.                                                 *)

LEMMA FreshInit == Init => SnapshotFresh
<1> SUFFICES ASSUME Init PROVE SnapshotFresh
  OBVIOUS
<1>1. NewStore \in Snapshots
  BY CollectorAssumption DEF NewStore, Snapshots, ProviderStates
<1>2. states \in ProviderStates
  BY TypeInit DEF TypeInv, TypeOK
<1> QED  BY <1>1, <1>2, ListedType, PublishShows DEF Init, SnapshotFresh

LEMMA FreshNext == TypeInv /\ TypeInv' /\ SnapshotFresh /\ [Next]_vars => SnapshotFresh'
<1> SUFFICES ASSUME TypeInv, TypeInv', SnapshotFresh, [Next]_vars
             PROVE  SnapshotFresh'
  OBVIOUS
<1>0. snap \in Snapshots /\ states' \in ProviderStates
  BY DEF TypeInv, TypeOK
<1>1. CASE SeedCached
  BY <1>0, <1>1, ListedType, PublishShows DEF SeedCached, SnapshotFresh
<1>2. CASE QuietStep
  BY <1>2, QuietStepUnchanged DEF SnapshotFresh, Listed
<1>3. ASSUME NEW k \in Keys, ResultStep(k)
      PROVE  SnapshotFresh'
  <2>1. PICK st \in ProviderState, b \in Backoffs, pb \in Backoffs :
            Apply(k, st, b, pb)
    BY <1>3, ResultStepApplies
  <2>2. snap' = Publish(snap, Listed(cfg, states')) /\ cfg' = cfg
    BY <2>1 DEF Apply
  <2> QED  BY <1>0, <2>2, ListedType, PublishShows DEF SnapshotFresh
<1>4. ASSUME NEW new \in Configs, Reload(new)
      PROVE  SnapshotFresh'
  <2>1. snap' = Publish(snap, Listed(new, states')) /\ cfg' = new
    BY <1>4, Zenon DEF Reload
  <2> QED  BY <1>0, <2>1, ListedType, PublishShows DEF SnapshotFresh
<1> QED  BY <1>1, <1>2, <1>3, <1>4, NextCases

\* Whenever the mutex is free, the lock-free readers get exactly the states of
\* the configured keys.
THEOREM SnapshotAlwaysFresh == Spec => []SnapshotFresh
<1>1. Init => TypeInv /\ SnapshotFresh
  BY TypeInit, FreshInit
<1>2. TypeInv /\ SnapshotFresh /\ [Next]_vars => (TypeInv /\ SnapshotFresh)'
  BY TypeNext, FreshNext
<1> QED  BY <1>1, <1>2, PTL DEF Spec

-----------------------------------------------------------------------------
(* The wake-up of a saved configuration.                                   *)

\* No saved configuration loses its wake-up, wherever the loop is and however
\* many handlers save at once: the invariant is inductive as it stands.
THEOREM WakeNeverLost == Spec => []WakeNotLost
<1>1. Init => TypeInv /\ WakeNotLost
  BY TypeInit DEF Init, WakeNotLost
<1>2. TypeInv /\ WakeNotLost /\ [Next]_vars => WakeNotLost'
  <2> SUFFICES ASSUME TypeInv, WakeNotLost, [Next]_vars
               PROVE  WakeNotLost'
    OBVIOUS
  <2> USE DEF WakeNotLost
  <2>1. CASE SeedCached \/ PlanTick
    BY <2>1, Zenon DEF SeedCached, PlanTick
  <2>2. CASE TickDone
    BY <2>2, Zenon DEF TickDone
  <2>3. CASE TimerFires \/ WakeUp \/ ExitLoop
    BY <2>3, Zenon DEF TimerFires, WakeUp, ExitLoop
  <2>4. ASSUME NEW k \in Keys, JobStep(k)
        PROVE  UNCHANGED <<planned, wake, waking, loop>>
    BY <2>4, Zenon DEF JobStep, StartJob, SkipBusy, AbortJob, EndInflight,
       CollectOk, CollectTokenInvalid, CollectRateLimited, CollectKeyError,
       CollectPlatformError, CollectDropped, Apply
  <2>5. ASSUME NEW new \in Configs, Reload(new)
        PROVE  WakeNotLost'
    <3>1. waking' = waking + 1
      BY <2>5, Zenon DEF Reload
    <3> QED  BY <3>1 DEF TypeInv, TypeOK
  <2>6. CASE SendWake
    BY <2>6, Zenon DEF SendWake, TokenAfterSend
  <2>7. CASE Cancel \/ Advance \/ Terminated \/ UNCHANGED vars
    BY <2>7, Zenon DEF Cancel, Advance, Terminated, vars
  <2> QED  BY <2>1, <2>2, <2>3, <2>4, <2>5, <2>6, <2>7 DEF Next
<1> QED  BY <1>1, <1>2, TypeNext, PTL DEF Spec

-----------------------------------------------------------------------------
(* The in-flight slots.                                                    *)

\* The counters match the jobs only because a tick is planned when the jobs of
\* the tick before are gone: planning overwrites every key's job.
JobsOnlyInTick == loop # "collecting" => \A k \in Keys : job[k] = None

SlotInv == TypeInv /\ JobsOnlyInTick /\ InflightMatchesJobs

LEMMA InFlightFinite ==
    ASSUME NEW p
    PROVE  /\ IsFiniteSet(InFlightJobs(p))
           /\ Cardinality(InFlightJobs(p)) \in Nat
<1>1. InFlightJobs(p) \subseteq Keys
  BY DEF InFlightJobs, KeysOf
<1> QED  BY <1>1, KeysAssumption, FS_Subset, FS_CardinalityType

LEMMA SlotInit == Init => SlotInv
<1> SUFFICES ASSUME Init PROVE SlotInv
  OBVIOUS
<1>1. TypeInv /\ JobsOnlyInTick
  BY TypeInit DEF Init, JobsOnlyInTick
<1>2. ASSUME NEW p \in Platforms
      PROVE  inflight[p] = Cardinality(InFlightJobs(p))
  <2>1. InFlightJobs(p) = {}
    BY DEF Init, InFlightJobs, KeysOf
  <2> QED  BY <2>1, FS_EmptySet DEF Init
<1> QED  BY <1>1, <1>2 DEF SlotInv, InflightMatchesJobs

\* A step that keeps the counters and the set of keys under way.
LEMMA SlotsKept ==
    ASSUME SlotInv, TypeInv', JobsOnlyInTick', inflight' = inflight,
           \A p \in Platforms : InFlightJobs(p)' = InFlightJobs(p)
    PROVE  SlotInv'
  BY DEF SlotInv, InflightMatchesJobs

\* A job that moves on to its next phase stays a job; the others stay put.
LEMMA PhaseMoves ==
    ASSUME NEW k \in Keys, NEW ph \in {"fetching", "ending"}, TypeOK, job[k] # None,
           job' = [job EXCEPT ![k].phase = ph]
    PROVE  /\ job'[k] # None
           /\ job'[k].phase = ph
           /\ job'[k].count = job[k].count
           /\ \A j \in Keys : j # k => job'[j] = job[j]
<1>1. job[k] \in Job
  BY DEF TypeOK
<1>2. job'[k] = [job[k] EXCEPT !.phase = ph] /\ \A j \in Keys : j # k => job'[j] = job[j]
  BY DEF TypeOK
<1>3. job'[k] \in Job
  BY <1>1, <1>2 DEF Job
<1> QED  BY <1>1, <1>2, <1>3, RecordsNotNone DEF Job

LEMMA SlotStartJob ==
    ASSUME NEW k \in Keys, SlotInv, TypeInv', StartJob(k)
    PROVE  SlotInv'
<1> DEFINE q == PlatformOf[k]
<1>1. q \in Platforms
  BY KeysAssumption
<1>2. JobsOnlyInTick'
  BY DEF SlotInv, JobsOnlyInTick, StartJob, TypeInv, TypeOK
<1>3. ASSUME NEW p \in Platforms
      PROVE  inflight'[p] = Cardinality(InFlightJobs(p)')
  <2>1. CASE p = q
    <3>0. /\ job'[k] # None /\ job'[k].phase = "fetching"
          /\ \A j \in Keys : j # k => job'[j] = job[j]
      BY PhaseMoves DEF SlotInv, TypeInv, StartJob
    <3>1. InFlightJobs(p)' = InFlightJobs(p) \cup {k}
      BY <2>1, <3>0 DEF InFlightJobs, KeysOf
    <3>2. k \notin InFlightJobs(p)
      BY DEF StartJob, InFlightJobs
    <3>3. Cardinality(InFlightJobs(p)') = Cardinality(InFlightJobs(p)) + 1
      BY <3>1, <3>2, InFlightFinite, FS_AddElement
    <3> QED  BY <2>1, <3>3 DEF SlotInv, StartJob, TypeInv, TypeOK, InflightMatchesJobs
  <2>2. CASE p # q
    <3>1. InFlightJobs(p)' = InFlightJobs(p)
      BY <2>2 DEF SlotInv, StartJob, TypeInv, TypeOK, InFlightJobs, KeysOf
    <3> QED  BY <2>2, <3>1 DEF SlotInv, StartJob, TypeInv, TypeOK, InflightMatchesJobs
  <2> QED  BY <2>1, <2>2
<1> QED  BY <1>2, <1>3 DEF SlotInv, InflightMatchesJobs

LEMMA SlotEndInflight ==
    ASSUME NEW k \in Keys, SlotInv, TypeInv', EndInflight(k)
    PROVE  SlotInv'
<1> DEFINE q == PlatformOf[k]
<1>1. q \in Platforms
  BY KeysAssumption
<1>2. JobsOnlyInTick'
  BY DEF SlotInv, JobsOnlyInTick, EndInflight, TypeInv, TypeOK
<1>3. ASSUME NEW p \in Platforms
      PROVE  inflight'[p] = Cardinality(InFlightJobs(p)')
  <2>1. CASE p = q
    <3>1. InFlightJobs(p)' = InFlightJobs(p) \ {k}
      BY <2>1 DEF SlotInv, EndInflight, TypeInv, TypeOK, InFlightJobs, KeysOf
    <3>2. k \in InFlightJobs(p)
      BY <2>1 DEF EndInflight, InFlightJobs, KeysOf
    <3>3. Cardinality(InFlightJobs(p)') = Cardinality(InFlightJobs(p)) - 1
      BY <3>1, <3>2, InFlightFinite, FS_RemoveElement
    <3>4. Cardinality(InFlightJobs(p)) > 0
      BY <3>2, InFlightFinite, FS_EmptySet
    <3> QED  BY <1>1, <2>1, <3>3, <3>4, InFlightFinite
             DEF SlotInv, EndInflight, TypeInv, TypeOK, InflightMatchesJobs
  <2>2. CASE p # q
    <3>1. InFlightJobs(p)' = InFlightJobs(p)
      BY <2>2 DEF SlotInv, EndInflight, TypeInv, TypeOK, InFlightJobs, KeysOf
    <3> QED  BY <2>2, <3>1 DEF SlotInv, EndInflight, TypeInv, TypeOK, InflightMatchesJobs
  <2> QED  BY <2>1, <2>2
<1> QED  BY <1>2, <1>3 DEF SlotInv, InflightMatchesJobs

LEMMA SlotNext == SlotInv /\ TypeInv' /\ [Next]_vars => SlotInv'
<1> SUFFICES ASSUME SlotInv, TypeInv', [Next]_vars PROVE SlotInv'
  OBVIOUS
<1>1. CASE SeedCached
  <2>1. UNCHANGED <<job, inflight>> /\ loop = "boot"
    BY <1>1, Zenon DEF SeedCached
  <2>2. JobsOnlyInTick'
    BY <2>1 DEF SlotInv, JobsOnlyInTick
  <2> QED  BY <2>1, <2>2, SlotsKept DEF InFlightJobs
<1>2. CASE PlanTick
  <2>1. JobsOnlyInTick' /\ inflight' = inflight
    BY <1>2 DEF PlanTick, JobsOnlyInTick
  <2>2. \A k \in Keys : job[k] = None
    BY <1>2 DEF PlanTick, SlotInv, JobsOnlyInTick
  <2>3. \A k \in Keys : job'[k] # None => job'[k].phase = "waiting"
    BY <1>2 DEF PlanTick
  <2>4. ASSUME NEW p \in Platforms
        PROVE  InFlightJobs(p)' = InFlightJobs(p)
    BY <2>2, <2>3 DEF InFlightJobs, KeysOf
  <2> QED  BY <2>1, <2>4, SlotsKept
<1>3. CASE TickDone
  <2>1. UNCHANGED <<job, inflight>> /\ JobsOnlyInTick'
    BY <1>3, Zenon DEF TickDone, JobsOnlyInTick
  <2> QED  BY <2>1, SlotsKept DEF InFlightJobs
<1>4. CASE TimerFires \/ WakeUp \/ ExitLoop
  <2>1. UNCHANGED <<job, inflight>> /\ loop # "collecting"
    BY <1>4 DEF TimerFires, WakeUp, ExitLoop
  <2>2. JobsOnlyInTick'
    BY <2>1 DEF SlotInv, JobsOnlyInTick
  <2> QED  BY <2>1, <2>2, SlotsKept DEF InFlightJobs
<1>5. ASSUME NEW k \in Keys, SkipBusy(k) \/ AbortJob(k)
      PROVE  SlotInv'
  <2>1. /\ job[k] # None /\ job[k].phase = "waiting"
        /\ job' = [job EXCEPT ![k] = None]
        /\ UNCHANGED <<inflight, loop>>
    BY <1>5 DEF SkipBusy, AbortJob
  <2>2. JobsOnlyInTick'
    BY <2>1 DEF SlotInv, JobsOnlyInTick, TypeInv, TypeOK
  <2>3. ASSUME NEW p \in Platforms
        PROVE  InFlightJobs(p)' = InFlightJobs(p)
    BY <2>1 DEF InFlightJobs, KeysOf, SlotInv, TypeInv, TypeOK
  <2> QED  BY <2>1, <2>2, <2>3, SlotsKept
<1>6. ASSUME NEW k \in Keys, ResultStep(k) \/ CollectDropped(k)
      PROVE  SlotInv'
  <2>1. /\ job[k] # None /\ job[k].phase = "fetching"
        /\ job' = [job EXCEPT ![k].phase = "ending"]
        /\ UNCHANGED <<inflight, loop>>
    BY <1>6, Zenon DEF ResultStep, CollectOk, CollectTokenInvalid, CollectRateLimited,
       CollectKeyError, CollectPlatformError, CollectDropped, Apply, Answered
  <2>2. JobsOnlyInTick'
    BY <2>1 DEF SlotInv, JobsOnlyInTick, TypeInv, TypeOK
  <2>3. ASSUME NEW p \in Platforms
        PROVE  InFlightJobs(p)' = InFlightJobs(p)
    <3>1. /\ job'[k] # None /\ job'[k].phase = "ending"
          /\ \A j \in Keys : j # k => job'[j] = job[j]
      BY <2>1, PhaseMoves DEF SlotInv, TypeInv
    <3> QED  BY <2>1, <3>1 DEF InFlightJobs, KeysOf
  <2> QED  BY <2>1, <2>2, <2>3, SlotsKept
<1>7. CASE (\E new \in Configs : Reload(new)) \/ SendWake \/ Cancel \/ Advance
           \/ Terminated \/ UNCHANGED vars
  <2>1. UNCHANGED <<job, inflight, loop>>
    BY <1>7, Zenon DEF Reload, SendWake, TokenAfterSend, Cancel, Advance, Terminated, vars
  <2>2. JobsOnlyInTick'
    BY <2>1 DEF SlotInv, JobsOnlyInTick
  <2> QED  BY <2>1, <2>2, SlotsKept DEF InFlightJobs
<1> QED  BY <1>1, <1>2, <1>3, <1>4, <1>5, <1>6, <1>7, SlotStartJob, SlotEndInflight
         DEF Next, JobStep, ResultStep

\* No path of a job leaks an in-flight slot or returns one it does not hold.
THEOREM SlotsMatchJobs == Spec => []InflightMatchesJobs
<1>1. SlotInv => TypeInv /\ InflightMatchesJobs
  BY DEF SlotInv
<1> QED  BY <1>1, SlotInit, SlotNext, TypeNext, PTL DEF Spec

\* With the slot of the platform free no key of it is under way, so the key
\* that takes the slot is the only one.
THEOREM OneFetchAtATime == Spec => []OneFetchPerPlatform
<1> DEFINE Busy(k) == job[k] # None /\ job[k].phase \in {"fetching", "ending"}
<1>1. Init => OneFetchPerPlatform
  BY DEF Init, OneFetchPerPlatform
<1>2. SlotInv /\ OneFetchPerPlatform /\ [Next]_vars => OneFetchPerPlatform'
  <2> SUFFICES ASSUME SlotInv, OneFetchPerPlatform, [Next]_vars
               PROVE  OneFetchPerPlatform'
    OBVIOUS
  <2>0. TypeOK
    BY DEF SlotInv, TypeInv
  <2>1. ASSUME NEW k \in Keys, StartJob(k)
        PROVE  OneFetchPerPlatform'
    <3>1. PlatformOf[k] \in Platforms /\ inflight[PlatformOf[k]] = 0
      BY <2>1, KeysAssumption DEF StartJob, SlotFree
    <3>2. InFlightJobs(PlatformOf[k]) = {}
      BY <3>1, InFlightFinite, FS_EmptySet DEF SlotInv, InflightMatchesJobs
    <3>3. \A j \in Keys : PlatformOf[j] = PlatformOf[k] => ~Busy(j)
      BY <3>2 DEF InFlightJobs, KeysOf
    <3>4. \A j \in Keys : j # k => job'[j] = job[j]
      BY <2>0, <2>1, PhaseMoves DEF StartJob
    <3> QED  BY <3>3, <3>4 DEF OneFetchPerPlatform
  <2>2. ASSUME NEW k \in Keys, ResultStep(k) \/ CollectDropped(k)
        PROVE  OneFetchPerPlatform'
    <3>1. /\ job[k] # None /\ job[k].phase = "fetching"
          /\ job' = [job EXCEPT ![k].phase = "ending"]
      BY <2>2, Zenon DEF ResultStep, CollectOk, CollectTokenInvalid, CollectRateLimited,
         CollectKeyError, CollectPlatformError, CollectDropped, Apply, Answered
    <3>2. \A j \in Keys : j # k => job'[j] = job[j]
      BY <2>0, <3>1, PhaseMoves
    <3>3. \A j \in Keys : Busy(j)' => Busy(j)
      BY <3>1, <3>2
    <3> QED  BY <3>3 DEF OneFetchPerPlatform
  <2>3. ASSUME NEW k \in Keys, SkipBusy(k) \/ AbortJob(k) \/ EndInflight(k)
        PROVE  OneFetchPerPlatform'
    <3>1. job' = [job EXCEPT ![k] = None]
      BY <2>3, Zenon DEF SkipBusy, AbortJob, EndInflight
    <3>2. \A j \in Keys : Busy(j)' => Busy(j)
      BY <2>0, <3>1 DEF TypeOK
    <3> QED  BY <3>2 DEF OneFetchPerPlatform
  <2>4. CASE PlanTick
    <3>1. \A k \in Keys : job'[k] # None => job'[k].phase = "waiting"
      BY <2>4 DEF PlanTick
    <3> QED  BY <3>1 DEF OneFetchPerPlatform
  <2>5. CASE SeedCached \/ TickDone \/ TimerFires \/ WakeUp \/ ExitLoop
             \/ (\E new \in Configs : Reload(new)) \/ SendWake \/ Cancel \/ Advance
             \/ Terminated \/ UNCHANGED vars
    <3>1. job' = job
      BY <2>5, Zenon DEF SeedCached, TickDone, TimerFires, WakeUp, ExitLoop, Reload,
         SendWake, TokenAfterSend, Cancel, Advance, Terminated, vars
    <3> QED  BY <3>1 DEF OneFetchPerPlatform
  <2> QED  BY <2>1, <2>2, <2>3, <2>4, <2>5 DEF Next, JobStep, ResultStep
<1>3. SlotInv => TypeInv
  BY DEF SlotInv
<1> QED  BY <1>1, <1>2, <1>3, SlotInit, SlotNext, TypeNext, PTL DEF Spec

-----------------------------------------------------------------------------
(* The states of the configured keys.                                      *)

\* Exactly the configured keys have a state.
StatesListed == \A k \in Keys : cfg[k] = None <=> states[k] = None

\* The states that cannot be planned: a disabled key is switched off, an
\* invalid one is stopped or cannot be decrypted.  A key that is gone is not
\* stopped: it starts afresh if it comes back.
StatesExplained ==
    \A k \in Keys :
        /\ backoffs[k].stopped => cfg[k] # None
        /\ states[k] # None
           => /\ states[k].status = "disabled" => ~cfg[k].enabled
              /\ states[k].status = "token_invalid"
                 => backoffs[k].stopped \/ cfg[k].token \in Unreadable

\* A fresh result holds its key back for a share of the period; a job was
\* planned with no more keys than its platform has.
StatesPaced ==
    \A k \in Keys :
        LET most == Cardinality(KeysOf(PlatformOf[k])) IN
        /\ job[k] # None => job[k].count <= most
        /\ states[k] # None /\ states[k].status = "ok"
           => /\ states[k].last \in Nat
              /\ backoffs[k].next >= states[k].last + KeyPeriod(most)

StateInv == TypeInv /\ StatesListed /\ StatesExplained /\ StatesPaced

LEMMA StateInit == Init => StateInv
<1> SUFFICES ASSUME Init PROVE StateInv
  OBVIOUS
<1>1. TypeInv
  BY TypeInit
<1>2. ASSUME NEW k \in Keys, cfg[k] # None
      PROVE  /\ states[k] # None
             /\ states[k].status = "disabled" => ~cfg[k].enabled
             /\ states[k].status = "token_invalid" => cfg[k].token \in Unreadable
             /\ states[k].status # "ok"
  <2>1. cfg[k] \in KeyDef /\ states[k] = FreshState(cfg[k])
    BY <1>1, <1>2 DEF Init, TypeInv, TypeOK
  <2> QED  BY <2>1, FreshStateType, RecordsNotNone DEF FreshState
<1>3. ASSUME NEW k \in Keys, cfg[k] = None
      PROVE  states[k] = None
  BY <1>3 DEF Init
<1>4. \A k \in Keys : ~backoffs[k].stopped
  BY ZeroBackoffType DEF Init
<1>5. \A k \in Keys : job[k] = None
  BY DEF Init
<1> QED  BY <1>1, <1>2, <1>3, <1>4, <1>5 DEF StateInv, StatesListed, StatesExplained, StatesPaced

\* The state SeedCached gives a key it restores.
LEMMA SeededState ==
    ASSUME TypeOK, SeedCached, NEW k \in Keys
    PROVE  /\ Restorable(k) => /\ states'[k] \in ProviderState
                               /\ states'[k].status = "cached"
                               /\ states'[k].data = file[k].data
                               /\ states'[k].last = file[k].last
                               /\ cfg[k] # None
           /\ ~Restorable(k) => states'[k] = states[k]
<1>1. CASE Restorable(k)
  <2>1. file[k] \in CacheEntry /\ cfg[k] # None
    BY <1>1 DEF Restorable, TypeOK
  <2>2. states'[k] = [name |-> file[k].name, status |-> "cached",
                      data |-> file[k].data, last |-> file[k].last, err |-> NoError]
    BY <1>1 DEF SeedCached
  <2>3. states'[k] \in ProviderState
    BY <2>1, <2>2 DEF CacheEntry, ProviderState, Statuses, ErrorInfo, Codes, NoError, ErrorOf,
       Messages
  <2> QED  BY <1>1, <2>1, <2>2, <2>3
<1>2. CASE ~Restorable(k)
  BY <1>2 DEF SeedCached
<1> QED  BY <1>1, <1>2

\* What a save makes of the state of one key.
LEMMA ReloadedKey ==
    ASSUME TypeInv, StatesListed, NEW new \in Configs, Reload(new), NEW k \in Keys
    PROVE  /\ cfg'[k] = None => states'[k] = None
           /\ cfg'[k] # None => states'[k] # None
           /\ cfg'[k] # None /\ Kept(k, new)
              => /\ states[k] # None /\ SameDefinition(cfg[k], cfg'[k])
                 /\ cfg'[k].token \notin Unreadable
                 /\ states'[k].status = states[k].status
                 /\ states'[k].data = states[k].data
                 /\ states'[k].last = states[k].last
                 /\ backoffs'[k] = backoffs[k]
           /\ cfg'[k] # None /\ ~Kept(k, new)
              => /\ states'[k] = FreshState(cfg'[k])
                 /\ states'[k].status \notin {"ok", "cached"}
                 /\ states'[k].status = "disabled" => ~cfg'[k].enabled
                 /\ states'[k].status = "token_invalid" => cfg'[k].token \in Unreadable
<1>1. /\ cfg' = new
      /\ new[k] \in KeyDef \cup {None}
      /\ states'[k] = ReloadedState(k, new)
      /\ backoffs'[k] = IF Kept(k, new) THEN backoffs[k] ELSE ZeroBackoff
  BY KeysAssumption DEF Reload
<1>2. CASE new[k] = None
  BY <1>1, <1>2 DEF ReloadedState, Kept
<1>3. CASE new[k] # None /\ Kept(k, new)
  <2>1. states[k] \in ProviderState
    BY <1>3 DEF Kept, TypeInv, TypeOK, ProviderStates
  <2>2. states'[k] = [states[k] EXCEPT !.name = new[k].name]
    BY <1>1, <1>3 DEF ReloadedState
  <2>3. /\ states'[k].status = states[k].status
        /\ states'[k].data = states[k].data
        /\ states'[k].last = states[k].last
    BY <2>1, <2>2 DEF ProviderState
  <2>4. states'[k] \in ProviderState
    BY <1>1, <1>3, <2>1, <2>2 DEF ProviderState, KeyDef
  <2> QED  BY <1>1, <1>3, <2>3, <2>4, RecordsNotNone DEF Kept
<1>4. CASE new[k] # None /\ ~Kept(k, new)
  <2>1. states'[k] = FreshState(new[k])
    BY <1>1, <1>4 DEF ReloadedState
  <2>2. states'[k] # None
    BY <1>1, <1>4, <2>1, FreshStateType, RecordsNotNone
  <2>3. /\ states'[k].status \notin {"ok", "cached"}
        /\ states'[k].status = "disabled" => ~new[k].enabled
        /\ states'[k].status = "token_invalid" => new[k].token \in Unreadable
    BY <2>1 DEF FreshState
  <2> QED  BY <1>1, <1>4, <2>1, <2>2, <2>3
<1> QED  BY <1>2, <1>3, <1>4

\* The states and counts after a result for k.
LEMMA ResultKey ==
    ASSUME NEW k \in Keys, TypeInv, NEW st \in ProviderState, NEW b, NEW pb,
           Apply(k, st, b, pb)
    PROVE  /\ cfg[k] # None /\ cfg' = cfg
           /\ states'[k] = st /\ st # None
           /\ backoffs'[k] = b
           /\ job[k] \in Job
           /\ job'[k] # None /\ job'[k].count = job[k].count
           /\ \A j \in Keys : j # k => /\ states'[j] = states[j]
                                       /\ backoffs'[j] = backoffs[j]
                                       /\ job'[j] = job[j]
<1>1. job[k] \in Job /\ job[k] # None
  BY DEF Apply, Answered, TypeInv, TypeOK
<1>2. /\ job'[k] # None /\ job'[k].count = job[k].count
      /\ \A j \in Keys : j # k => job'[j] = job[j]
  BY <1>1, PhaseMoves DEF Apply, TypeInv
<1>3. /\ states'[k] = st /\ backoffs'[k] = b
      /\ \A j \in Keys : j # k => states'[j] = states[j] /\ backoffs'[j] = backoffs[j]
  BY DEF Apply, TypeInv, TypeOK, ProviderStates
<1> QED  BY <1>1, <1>2, <1>3, RecordsNotNone DEF Apply

\* A quiet step plans the due keys or moves jobs that are there already.
LEMMA QuietJobs ==
    ASSUME TypeOK, QuietStep, NEW k \in Keys, job'[k] # None
    PROVE  \/ PlanTick /\ Due(k) /\ job'[k].count = KeyCount(k)
           \/ job[k] # None /\ job'[k].count = job[k].count
<1>1. CASE PlanTick
  BY <1>1 DEF PlanTick
<1>2. ASSUME NEW j \in Keys, StartJob(j) \/ CollectDropped(j)
      PROVE  job[k] # None /\ job'[k].count = job[k].count
  <2>1. /\ job[j] # None
        /\ \/ job' = [job EXCEPT ![j].phase = "fetching"]
           \/ job' = [job EXCEPT ![j].phase = "ending"]
    BY <1>2, Zenon DEF StartJob, CollectDropped, Answered
  <2> QED  BY <2>1, PhaseMoves
<1>3. ASSUME NEW j \in Keys, SkipBusy(j) \/ AbortJob(j) \/ EndInflight(j)
      PROVE  job[k] # None /\ job'[k].count = job[k].count
  <2>1. job' = [job EXCEPT ![j] = None]
    BY <1>3, Zenon DEF SkipBusy, AbortJob, EndInflight
  <2> QED  BY <2>1 DEF TypeOK
<1>4. CASE TickDone \/ TimerFires \/ WakeUp \/ ExitLoop
           \/ SendWake \/ Cancel \/ Advance \/ Terminated \/ UNCHANGED vars
  BY <1>4, Zenon DEF TickDone, TimerFires, WakeUp, ExitLoop, SendWake, TokenAfterSend, Cancel,
     Advance, Terminated, vars
<1> QED  BY <1>1, <1>2, <1>3, <1>4 DEF QuietStep

LEMMA StateNext == StateInv /\ TypeInv' /\ [Next]_vars => StateInv'
<1> SUFFICES ASSUME StateInv, TypeInv', [Next]_vars PROVE StateInv'
  OBVIOUS
<1>0. TypeInv /\ TypeOK /\ StatesListed /\ StatesExplained /\ StatesPaced
  BY DEF StateInv, TypeInv
<1>1. CASE SeedCached
  <2>1. UNCHANGED <<cfg, backoffs, job>>
    BY <1>1, Zenon DEF SeedCached
  <2>2. ASSUME NEW k \in Keys
        PROVE  \/ states'[k] = states[k]
               \/ states'[k] # None /\ states'[k].status = "cached" /\ cfg[k] # None
    BY <1>0, <1>1, SeededState, RecordsNotNone
  <2>3. StatesListed'
    BY <1>0, <2>1, <2>2 DEF StatesListed
  <2>4. StatesExplained'
    BY <1>0, <2>1, <2>2 DEF StatesExplained
  <2>5. StatesPaced'
    BY <1>0, <2>1, <2>2 DEF StatesPaced
  <2> QED  BY <2>3, <2>4, <2>5 DEF StateInv
<1>2. CASE QuietStep
  <2>1. UNCHANGED <<cfg, states, backoffs>>
    BY <1>2, QuietStepUnchanged
  <2>2. ASSUME NEW k \in Keys, job'[k] # None
        PROVE  job'[k].count <= Cardinality(KeysOf(PlatformOf[k]))
    BY <1>0, <1>2, <2>2, QuietJobs, KeyCountType DEF StatesPaced
  <2>3. StatesListed' /\ StatesExplained'
    BY <1>0, <2>1 DEF StatesListed, StatesExplained
  <2>4. StatesPaced'
    BY <1>0, <2>1, <2>2 DEF StatesPaced
  <2> QED  BY <2>3, <2>4 DEF StateInv
<1>3. ASSUME NEW k \in Keys, ResultStep(k)
      PROVE  StateInv'
  <2> DEFINE most == Cardinality(KeysOf(PlatformOf[k]))
  <2>1. PICK st \in ProviderState, b \in Backoffs, pb \in Backoffs :
            Apply(k, st, b, pb) /\ ResultOf(k, st, b)
    BY <1>0, <1>3, ResultStepApplies
  <2>2. /\ cfg[k] # None /\ cfg' = cfg
        /\ states'[k] = st /\ st # None
        /\ backoffs'[k] = b
        /\ job[k] \in Job
        /\ job'[k] # None /\ job'[k].count = job[k].count
        /\ \A j \in Keys : j # k => /\ states'[j] = states[j]
                                    /\ backoffs'[j] = backoffs[j]
                                    /\ job'[j] = job[j]
    BY <1>0, <2>1, ResultKey
  <2>3. StatesListed'
    BY <1>0, <2>2 DEF StatesListed
  <2>4. StatesExplained'
    BY <1>0, <2>1, <2>2 DEF StatesExplained, ResultOf
  <2>5. job[k].count \in Nat /\ job[k].count <= most /\ now \in Nat /\ most \in Nat
    BY <1>0, <2>2, KeyCountType, RecordsNotNone DEF StatesPaced, Job, TypeOK
  <2>6. KeyPeriod(most) <= KeyPeriod(job[k].count)
    BY <2>5, KeyPeriodMonotone
  <2>7. KeyPeriod(most) \in Nat /\ KeyPeriod(job[k].count) \in Nat
    BY <2>5, KeyPeriodType
  <2>8. st.status = "ok" => st.last \in Nat /\ b.next >= st.last + KeyPeriod(most)
    BY <2>1, <2>5, <2>6, <2>7 DEF ResultOf
  <2>9. StatesPaced'
    BY <1>0, <2>2, <2>5, <2>8 DEF StatesPaced
  <2> QED  BY <2>3, <2>4, <2>9 DEF StateInv
<1>4. ASSUME NEW new \in Configs, Reload(new)
      PROVE  StateInv'
  <2>1. StatesListed'
    BY <1>0, <1>4, ReloadedKey DEF StatesListed
  <2>2. StatesExplained'
    <3> SUFFICES ASSUME NEW k \in Keys
                 PROVE  /\ backoffs'[k].stopped => cfg'[k] # None
                        /\ states'[k] # None
                           => /\ states'[k].status = "disabled" => ~cfg'[k].enabled
                              /\ states'[k].status = "token_invalid"
                                 => backoffs'[k].stopped \/ cfg'[k].token \in Unreadable
      BY DEF StatesExplained
    <3>1. /\ cfg'[k] # None <=> states'[k] # None
          /\ ~Kept(k, new) => ~backoffs'[k].stopped
          /\ Kept(k, new) => cfg'[k] # None
      <4>1. /\ ~Kept(k, new) => backoffs'[k] = ZeroBackoff
            /\ Kept(k, new) => cfg'[k] # None
        BY <1>4, Zenon DEF Reload, Kept
      <4> QED  BY <1>0, <1>4, <4>1, ReloadedKey, ZeroBackoffType
    <3>2. CASE Kept(k, new)
      BY <1>0, <1>4, <3>1, <3>2, ReloadedKey DEF StatesExplained, SameDefinition
    <3>3. CASE ~Kept(k, new)
      BY <1>0, <1>4, <3>1, <3>3, ReloadedKey
    <3> QED  BY <3>2, <3>3
  <2>3. job' = job
    BY <1>4, Zenon DEF Reload
  <2>4. StatesPaced'
    BY <1>0, <1>4, <2>3, ReloadedKey DEF StatesPaced
  <2> QED  BY <2>1, <2>2, <2>4 DEF StateInv
<1> QED  BY <1>1, <1>2, <1>3, <1>4, NextCases

LEMMA StateInvariant == Spec => []StateInv
<1>1. StateInv => TypeInv
  BY DEF StateInv
<1> QED  BY <1>1, StateInit, StateNext, TypeNext, PTL DEF Spec

\* Only the plan gives a key a new job, and only to a key that is due.
LEMMA NewJobIsDue ==
    ASSUME StateInv, [Next]_vars, NEW k \in Keys, job[k] = None, job'[k] # None
    PROVE  Due(k)
<1>0. TypeInv /\ TypeOK
  BY DEF StateInv, TypeInv
<1>1. CASE SeedCached \/ \E new \in Configs : Reload(new)
  BY <1>1, Zenon DEF SeedCached, Reload
<1>2. CASE QuietStep
  BY <1>0, <1>2, QuietJobs
<1>3. ASSUME NEW j \in Keys, ResultStep(j)
      PROVE  FALSE
  <2>1. PICK st \in ProviderState, b \in Backoffs, pb \in Backoffs :
            Apply(j, st, b, pb)
    BY <1>0, <1>3, ResultStepApplies
  <2> QED  BY <1>0, <2>1, ResultKey, RecordsNotNone
<1> QED  BY <1>1, <1>2, <1>3, NextCases

\* A key with a fresh result is not planned again within its share of the
\* period, however many saves wake the loop.
THEOREM NeverRefetchedEarly == Spec => NoEarlyRefetch
<1> DEFINE Step == \A k \in Keys :
              /\ job[k] = None /\ job'[k] # None
              /\ states[k].status = "ok"
              => now >= states[k].last + KeyPeriod(Cardinality(KeysOf(PlatformOf[k])))
<1>1. StateInv /\ [Next]_vars => [Step]_vars
  <2> SUFFICES ASSUME StateInv, [Next]_vars,
                      NEW k \in Keys, job[k] = None, job'[k] # None,
                      states[k].status = "ok"
               PROVE  now >= states[k].last + KeyPeriod(Cardinality(KeysOf(PlatformOf[k])))
    OBVIOUS
  <2>1. Due(k)
    BY NewJobIsDue
  <2>2. states[k] # None /\ now >= backoffs[k].next
    BY <2>1 DEF StateInv, StatesListed, Due, Eligible
  <2>3. /\ now \in Nat /\ backoffs[k].next \in Int
        /\ KeyPeriod(Cardinality(KeysOf(PlatformOf[k]))) \in Nat
    BY KeyCountType, KeyPeriodType DEF StateInv, TypeInv, TypeOK, Backoffs
  <2> QED  BY <2>2, <2>3 DEF StateInv, StatesPaced
<1> QED  BY <1>1, StateInvariant, PTL DEF Spec, NoEarlyRefetch

\* A job is planned only for a key the page does not show as invalid or
\* switched off.
THEOREM InvalidIsNeverFetched == Spec => InvalidNeverFetched
<1> DEFINE Step == \A k \in Keys :
              job[k] = None /\ job'[k] # None
              => states[k].status \notin {"token_invalid", "disabled"}
<1>1. StateInv /\ [Next]_vars => [Step]_vars
  <2> SUFFICES ASSUME StateInv, [Next]_vars,
                      NEW k \in Keys, job[k] = None, job'[k] # None
               PROVE  states[k].status \notin {"token_invalid", "disabled"}
    OBVIOUS
  <2>1. Due(k)
    BY NewJobIsDue
  <2>2. /\ states[k] # None /\ cfg[k].enabled /\ ~backoffs[k].stopped
        /\ cfg[k].token \notin Unreadable
    BY <2>1 DEF StateInv, StatesListed, Due, Eligible
  <2> QED  BY <2>2 DEF StateInv, StatesExplained
<1> QED  BY <1>1, StateInvariant, PTL DEF Spec, InvalidNeverFetched

\* A stopped key is revived by nothing but a change of its definition (or a
\* save while its token cannot be decrypted).
THEOREM StoppedUntilRedefined == Spec => StopUntilRedefined
<1> DEFINE Step == \A k \in Keys :
              backoffs[k].stopped /\ ~backoffs'[k].stopped
              => \/ cfg'[k] = None
                 \/ ~SameDefinition(cfg[k], cfg'[k])
                 \/ cfg'[k].token \in Unreadable
<1>1. StateInv /\ [Next]_vars => [Step]_vars
  <2> SUFFICES ASSUME StateInv, [Next]_vars,
                      NEW k \in Keys, backoffs[k].stopped, ~backoffs'[k].stopped
               PROVE  \/ cfg'[k] = None
                      \/ ~SameDefinition(cfg[k], cfg'[k])
                      \/ cfg'[k].token \in Unreadable
    OBVIOUS
  <2>1. CASE SeedCached
    BY <2>1, Zenon DEF SeedCached
  <2>2. CASE QuietStep
    BY <2>2, QuietStepUnchanged
  <2>3. ASSUME NEW j \in Keys, ResultStep(j)
        PROVE  FALSE
    <3>1. PICK st \in ProviderState, b \in Backoffs, pb \in Backoffs :
              Apply(j, st, b, pb) /\ ResultOf(j, st, b)
      BY <2>3, ResultStepApplies DEF StateInv
    <3>2. /\ backoffs'[j] = b
          /\ \A i \in Keys : i # j => backoffs'[i] = backoffs[i]
      BY <3>1, ResultKey DEF StateInv
    <3>3. b.stopped \/ b.stopped = backoffs[j].stopped
      BY <3>1 DEF ResultOf
    <3> QED  BY <3>2, <3>3
  <2>4. ASSUME NEW new \in Configs, Reload(new)
        PROVE  \/ cfg'[k] = None
               \/ ~SameDefinition(cfg[k], cfg'[k])
               \/ cfg'[k].token \in Unreadable
    <3>1. cfg' = new /\ ~Kept(k, new)
      <4>1. backoffs'[k] = IF Kept(k, new) THEN backoffs[k] ELSE ZeroBackoff
        BY <2>4 DEF Reload
      <4> QED  BY <2>4, <4>1, Zenon DEF Reload
    <3>2. cfg[k] = None <=> states[k] = None
      BY DEF StateInv, StatesListed
    <3>3. cfg[k] # None
      BY DEF StateInv, StatesExplained
    <3> QED  BY <3>1, <3>2, <3>3 DEF Kept
  <2> QED  BY <2>1, <2>2, <2>3, <2>4, NextCases
<1> QED  BY <1>1, StateInvariant, PTL DEF Spec, StopUntilRedefined

\* The last good data of a key is lost only with its definition or to a 401.
THEOREM HistoryAlwaysKept == Spec => HistoryKept
<1> DEFINE Step == \A k \in Keys :
              DataLost(k)
              => \/ states'[k] # None /\ states'[k].err.code = "TOKEN_INVALID"
                 \/ cfg'[k] = None
                 \/ ~SameDefinition(cfg[k], cfg'[k])
                 \/ cfg'[k].token \in Unreadable
<1>1. StateInv /\ [Next]_vars => [Step]_vars
  <2> SUFFICES ASSUME StateInv, [Next]_vars,
                      NEW k \in Keys, DataLost(k)
               PROVE  \/ states'[k] # None /\ states'[k].err.code = "TOKEN_INVALID"
                      \/ cfg'[k] = None
                      \/ ~SameDefinition(cfg[k], cfg'[k])
                      \/ cfg'[k].token \in Unreadable
    OBVIOUS
  <2>0. TypeInv /\ TypeOK /\ StatesListed
    BY DEF StateInv, TypeInv
  <2>1. CASE SeedCached
    <3>1. CASE Restorable(k)
      <4>1. file[k].data # None
        BY <2>0, <3>1, NoneAssumption DEF Restorable, TypeOK, CacheEntry
      <4> QED  BY <2>0, <2>1, <3>1, <4>1, SeededState, RecordsNotNone DEF DataLost
    <3>2. CASE ~Restorable(k)
      BY <2>0, <2>1, <3>2, SeededState DEF DataLost
    <3> QED  BY <3>1, <3>2
  <2>2. CASE QuietStep
    BY <2>2, QuietStepUnchanged DEF DataLost
  <2>3. ASSUME NEW j \in Keys, ResultStep(j)
        PROVE  states'[k] # None /\ states'[k].err.code = "TOKEN_INVALID"
    <3>1. PICK st \in ProviderState, b \in Backoffs, pb \in Backoffs :
              Apply(j, st, b, pb) /\ ResultOf(j, st, b)
      BY <2>0, <2>3, ResultStepApplies
    <3>2. /\ states'[j] = st /\ st # None /\ job[j] \in Job
          /\ \A i \in Keys : i # j => states'[i] = states[i]
      BY <2>0, <3>1, ResultKey
    <3>3. k = j
      BY <3>2 DEF DataLost
    <3>4. job[j].token # None
      BY <3>2, NoneAssumption DEF Job
    <3>5. st.status # "failed" \/ st.data = states[k].data
      BY <3>1, <3>3 DEF ResultOf, PriorData, DataLost
    <3> QED  BY <3>1, <3>2, <3>3, <3>4, <3>5 DEF ResultOf, DataLost
  <2>4. ASSUME NEW new \in Configs, Reload(new)
        PROVE  \/ cfg'[k] = None
               \/ ~SameDefinition(cfg[k], cfg'[k])
               \/ cfg'[k].token \in Unreadable
    <3>1. cfg' = new
      BY <2>4, Zenon DEF Reload
    <3>2. CASE cfg'[k] # None /\ Kept(k, new)
      BY <2>0, <2>4, <3>2, ReloadedKey DEF DataLost
    <3>3. CASE cfg'[k] # None /\ ~Kept(k, new)
      BY <2>0, <3>1, <3>3 DEF Kept, DataLost, StatesListed
    <3> QED  BY <3>2, <3>3
  <2> QED  BY <2>1, <2>2, <2>3, <2>4, NextCases
<1> QED  BY <1>1, StateInvariant, PTL DEF Spec, HistoryKept

\* The page parts from the configuration through nothing but a late answer.
THEOREM OnlyLateAnswersEverDiffer == Spec => OnlyLateAnswersDiffer
<1> DEFINE Step == \A k \in Keys :
              loop # "boot" /\ ShownAsConfigured(k) /\ ~ShownAsConfigured(k)'
              => LateAnswer(k)
<1>1. StateInv /\ [Next]_vars => [Step]_vars
  <2> SUFFICES ASSUME StateInv, [Next]_vars, NEW k \in Keys, loop # "boot",
                      ShownAsConfigured(k), ~ShownAsConfigured(k)'
               PROVE  LateAnswer(k)
    OBVIOUS
  <2>0. TypeInv /\ TypeOK /\ StatesListed
    BY DEF StateInv, TypeInv
  <2>1. CASE SeedCached
    BY <2>1 DEF SeedCached
  <2>2. CASE QuietStep
    BY <2>2, QuietStepUnchanged DEF ShownAsConfigured
  <2>3. ASSUME NEW j \in Keys, ResultStep(j)
        PROVE  LateAnswer(k)
    <3>1. PICK st \in ProviderState, b \in Backoffs, pb \in Backoffs :
              Apply(j, st, b, pb) /\ ResultOf(j, st, b)
      BY <2>0, <2>3, ResultStepApplies
    <3>2. /\ cfg' = cfg /\ states'[j] = st
          /\ \A i \in Keys : i # j => states'[i] = states[i]
      BY <2>0, <3>1, ResultKey
    <3>3. k = j
      BY <3>2 DEF ShownAsConfigured
    <3>4. Answered(k)
      BY <3>1, <3>3 DEF Apply
    <3> QED  BY <3>1, <3>2, <3>3, <3>4 DEF ResultOf, ShownAsConfigured, LateAnswer
  <2>4. ASSUME NEW new \in Configs, Reload(new)
        PROVE  FALSE
    <3>1. cfg' = new /\ states'[k] = ReloadedState(k, new) /\ cfg'[k] # None
      BY <2>4 DEF Reload, ShownAsConfigured
    <3>2. CASE Kept(k, new)
      <4>1. states'[k] = [states[k] EXCEPT !.name = new[k].name]
        BY <3>1, <3>2 DEF ReloadedState
      <4>2. states[k] \in ProviderState
        BY <2>0, <3>2 DEF Kept, TypeOK, ProviderStates
      <4>3. /\ states'[k].name = new[k].name
            /\ states'[k].status = states[k].status
            /\ states'[k].data = states[k].data
        BY <4>1, <4>2 DEF ProviderState
      <4> QED  BY <3>1, <3>2, <4>3 DEF Kept, SameDefinition, ShownAsConfigured
    <3>3. CASE ~Kept(k, new)
      <4>1. states'[k] = FreshState(new[k])
        BY <3>1, <3>3 DEF ReloadedState
      <4> QED  BY <3>1, <4>1 DEF FreshState, ShownAsConfigured
    <3> QED  BY <3>2, <3>3
  <2> QED  BY <2>1, <2>2, <2>3, <2>4, NextCases
<1> QED  BY <1>1, StateInvariant, PTL DEF Spec, OnlyLateAnswersDiffer

\* The revision moves exactly when the published list moves: the diff misses no
\* field and counts no repetition, and one step of the counter always shows.
THEOREM RevisionTracks == Spec => RevisionTracksResponse
<1>1. ASSUME NEW s \in Snapshots, NEW sts \in ProviderStates
      PROVE  Publish(s, sts).rev = s.rev <=> Publish(s, sts).provs = s.provs
  <2>1. CASE SnapshotChanged(s.provs, sts)
    <3>1. sts # s.provs
      BY <2>1 DEF SnapshotChanged, SameError
    <3>2. s.rev \in 0 .. RevisionRange - 1 /\ RevisionRange \in Nat \ {0, 1}
      BY CollectorAssumption DEF Snapshots
    <3>3. (s.rev + 1) % RevisionRange # s.rev
      <4>1. CASE s.rev + 1 < RevisionRange
        BY <3>2, <4>1
      <4>2. CASE s.rev + 1 = RevisionRange
        BY <3>2, <4>2
      <4> QED  BY <3>2, <4>1, <4>2
    <3> QED  BY <2>1, <3>1, <3>3, Zenon DEF Publish
  <2>2. CASE ~SnapshotChanged(s.provs, sts)
    BY <2>2 DEF Publish
  <2> QED  BY <2>1, <2>2
<1>2. TypeInv /\ TypeInv' /\ [Next]_vars => [snap'.rev = snap.rev <=> snap'.provs = snap.provs]_vars
  <2> SUFFICES ASSUME TypeInv, TypeInv', [Next]_vars
               PROVE  snap'.rev = snap.rev <=> snap'.provs = snap.provs
    OBVIOUS
  <2>0. snap \in Snapshots /\ states' \in ProviderStates
    BY DEF TypeInv, TypeOK
  <2>1. CASE QuietStep
    BY <2>1, QuietStepUnchanged
  <2>2. ASSUME NEW c, snap' = Publish(snap, Listed(c, states'))
        PROVE  snap'.rev = snap.rev <=> snap'.provs = snap.provs
    BY <1>1, <2>0, <2>2, ListedType
  <2>3. CASE SeedCached
    BY <2>2, <2>3, Zenon DEF SeedCached
  <2>4. ASSUME NEW k \in Keys, ResultStep(k)
        PROVE  snap'.rev = snap.rev <=> snap'.provs = snap.provs
    <3>1. PICK st \in ProviderState, b \in Backoffs, pb \in Backoffs :
              Apply(k, st, b, pb)
      BY <2>4, ResultStepApplies
    <3> QED  BY <2>2, <3>1, Zenon DEF Apply
  <2>5. ASSUME NEW new \in Configs, Reload(new)
        PROVE  snap'.rev = snap.rev <=> snap'.provs = snap.provs
    BY <2>2, <2>5, Zenon DEF Reload
  <2> QED  BY <2>1, <2>3, <2>4, <2>5, NextCases
<1> QED  BY <1>2, TypeInit, TypeNext, PTL DEF Spec, RevisionTracksResponse

-----------------------------------------------------------------------------
(* What a restart would recover.                                           *)

Good(st) == st # None /\ st.status \in {"ok", "cached"}

\* A state that shows good data has the data and its time; before the seeding
\* no state does, no job runs and nothing has been handed to the writer.
GoodComplete ==
    /\ \A k \in Keys : Good(states[k]) => states[k].data # None /\ states[k].last # None
    /\ loop = "boot"
       => saved = None /\ \A k \in Keys : job[k] = None /\ ~Good(states[k])

CacheInv == StateInv /\ GoodComplete /\ CacheHoldsEveryOk /\ CacheOnlyConfigured

\* The cache built from a list of complete states holds the good ones.
LEMMA CacheOfGood ==
    ASSUME NEW c, NEW sts \in ProviderStates, NEW k \in Keys
    PROVE  LET new == CacheFromStates(Listed(c, sts)) IN
           /\ new # None
           /\ c[k] = None => new[k] = None
           /\ c[k] # None /\ Good(sts[k]) /\ sts[k].data # None /\ sts[k].last # None
              => /\ new[k] # None
                 /\ new[k].data = sts[k].data
                 /\ new[k].last = sts[k].last
<1> DEFINE new == CacheFromStates(Listed(c, sts))
<1>1. new # None
  BY ListedType, CacheType, RecordsNotNone
<1>2. c[k] = None => new[k] = None
  BY DEF CacheFromStates, Listed
<1>3. ASSUME c[k] # None, Good(sts[k]), sts[k].data # None, sts[k].last # None
      PROVE  /\ new[k] # None
             /\ new[k].data = sts[k].data
             /\ new[k].last = sts[k].last
  <2>1. sts[k] \in ProviderState
    BY <1>3 DEF Good, ProviderStates
  <2>2. new[k] = [name |-> sts[k].name, data |-> sts[k].data, last |-> sts[k].last]
    BY <1>3 DEF CacheFromStates, Listed, Good
  <2>3. new[k] \in CacheEntry
    BY <1>3, <2>1, <2>2 DEF ProviderState, CacheEntry
  <2> QED  BY <2>2, <2>3, NoneAssumption
<1> QED  BY <1>1, <1>2, <1>3

LEMMA CacheInit == Init => CacheInv
<1> SUFFICES ASSUME Init PROVE CacheInv
  OBVIOUS
<1>1. StateInv
  BY StateInit
<1>2. ASSUME NEW k \in Keys
      PROVE  ~Good(states[k])
  <2>1. CASE cfg[k] = None
    BY <2>1 DEF Init, Good
  <2>2. CASE cfg[k] # None
    BY <2>2 DEF Init, Good, FreshState
  <2> QED  BY <2>1, <2>2
<1>3. saved = None /\ \A k \in Keys : job[k] = None
  BY DEF Init
<1> QED  BY <1>1, <1>2, <1>3 DEF CacheInv, GoodComplete, CacheHoldsEveryOk, CacheOnlyConfigured, Good

LEMMA CacheNext == CacheInv /\ StateInv' /\ [Next]_vars => CacheInv'
<1> SUFFICES ASSUME CacheInv, StateInv', [Next]_vars PROVE CacheInv'
  OBVIOUS
<1>0. /\ StateInv /\ GoodComplete /\ CacheHoldsEveryOk /\ CacheOnlyConfigured
      /\ TypeInv /\ TypeOK /\ TypeInv' /\ StatesListed
      /\ states \in ProviderStates /\ states' \in ProviderStates
  BY DEF CacheInv, StateInv, TypeInv, TypeOK
<1>1. CASE SeedCached
  <2>1. /\ loop = "boot" /\ loop' = "plan"
        /\ UNCHANGED <<cfg, file, saved>>
    BY <1>1, Zenon DEF SeedCached
  <2>2. saved = None /\ \A k \in Keys : ~Good(states[k])
    BY <1>0, <2>1 DEF GoodComplete
  <2>3. ASSUME NEW k \in Keys, Good(states'[k])
        PROVE  /\ states'[k].data # None /\ states'[k].last # None
               /\ file[k] # None
               /\ file[k].data = states'[k].data
               /\ file[k].last = states'[k].last
    <3>1. Restorable(k)
      BY <1>0, <1>1, <2>2, <2>3, SeededState DEF Good
    <3>2. file[k] # None /\ file[k] \in CacheEntry
      BY <1>0, <3>1 DEF Restorable, TypeOK
    <3> QED  BY <1>0, <1>1, <3>1, <3>2, SeededState, NoneAssumption DEF CacheEntry
  <2> QED  BY <1>0, <2>1, <2>2, <2>3
           DEF CacheInv, GoodComplete, CacheHoldsEveryOk, CacheOnlyConfigured, Recoverable, Good
<1>2. CASE QuietStep
  <2>1. UNCHANGED <<cfg, states, file, saved>>
    BY <1>2, QuietStepUnchanged
  <2>2. loop' = "boot" => loop = "boot"
    BY <1>2, Zenon DEF QuietStep, PlanTick, TickDone, TimerFires, WakeUp, ExitLoop,
       StartJob, SkipBusy, AbortJob, EndInflight, CollectDropped, SendWake, TokenAfterSend, Cancel,
       Advance, Terminated, vars
  <2>3. ASSUME loop' = "boot", NEW k \in Keys
        PROVE  job'[k] = None
    <3>1. ~PlanTick
      BY <2>3, Zenon DEF PlanTick
    <3>2. job[k] = None
      BY <1>0, <2>2, <2>3 DEF GoodComplete
    <3> QED  BY <1>0, <1>2, <3>1, <3>2, QuietJobs
  <2> QED  BY <1>0, <2>1, <2>2, <2>3
           DEF CacheInv, GoodComplete, CacheHoldsEveryOk, CacheOnlyConfigured, Recoverable
<1>3. ASSUME NEW k \in Keys, ResultStep(k)
      PROVE  CacheInv'
  <2>1. PICK st \in ProviderState, b \in Backoffs, pb \in Backoffs :
            Apply(k, st, b, pb) /\ ResultOf(k, st, b)
    BY <1>0, <1>3, ResultStepApplies
  <2>2. /\ cfg[k] # None /\ cfg' = cfg
        /\ states'[k] = st /\ st # None
        /\ job[k] \in Job
        /\ \A j \in Keys : j # k => states'[j] = states[j]
    BY <1>0, <2>1, ResultKey
  <2>3. /\ loop' = loop /\ loop # "boot" /\ file' = file
        /\ saved' = IF st.status = "ok" THEN CacheFromStates(Listed(cfg, states')) ELSE saved
    BY <1>0, <2>1 DEF Apply, Answered, GoodComplete
  <2>4. CASE st.status = "ok"
    <3>1. st.data # None /\ st.last # None
      BY <1>0, <2>1, <2>2, <2>4, NoneAssumption DEF ResultOf, Job, TypeOK
    <3>2. \A j \in Keys : Good(states'[j]) => states'[j].data # None /\ states'[j].last # None
      BY <1>0, <2>2, <3>1 DEF GoodComplete
    <3>3. \A j \in Keys : Good(states'[j]) => cfg[j] # None
      BY <1>0, <2>2 DEF StatesListed, Good
    <3>4. saved' = CacheFromStates(Listed(cfg, states'))
      BY <2>3, <2>4
    <3>5. CacheHoldsEveryOk' /\ CacheOnlyConfigured'
      BY <1>0, <2>2, <3>2, <3>3, <3>4, CacheOfGood
         DEF CacheHoldsEveryOk, CacheOnlyConfigured, Recoverable, Good
    <3> QED  BY <2>3, <3>2, <3>5 DEF CacheInv, GoodComplete
  <2>5. CASE st.status # "ok"
    <3>1. ~Good(states'[k])
      BY <2>1, <2>2, <2>5 DEF ResultOf, Good
    <3>2. \A j \in Keys : Good(states'[j]) => states'[j] = states[j]
      BY <2>2, <3>1
    <3>3. saved' = saved
      BY <2>3, <2>5
    <3>4. CacheHoldsEveryOk' /\ CacheOnlyConfigured'
      BY <1>0, <2>2, <2>3, <3>2, <3>3
         DEF CacheHoldsEveryOk, CacheOnlyConfigured, Recoverable, Good
    <3> QED  BY <1>0, <2>3, <3>2, <3>4 DEF CacheInv, GoodComplete
  <2> QED  BY <2>4, <2>5
<1>4. ASSUME NEW new \in Configs, Reload(new)
      PROVE  CacheInv'
  <2>1. /\ cfg' = new /\ loop' = loop /\ loop # "boot"
        /\ saved' = CacheFromStates(Listed(new, states'))
    BY <1>4, Zenon DEF Reload, CacheOfReload
  <2>2. ASSUME NEW k \in Keys, Good(states'[k])
        PROVE  states'[k].data # None /\ states'[k].last # None /\ new[k] # None
    <3>1. cfg'[k] # None
      BY <1>0, <1>4, <2>2, ReloadedKey DEF Good
    <3>2. Kept(k, new)
      BY <1>0, <1>4, <2>2, <3>1, ReloadedKey DEF Good
    <3> QED  BY <1>0, <1>4, <2>1, <2>2, <3>1, <3>2, ReloadedKey DEF Good, GoodComplete
  <2>3. CacheHoldsEveryOk' /\ CacheOnlyConfigured'
    BY <1>0, <2>1, <2>2, CacheOfGood
       DEF CacheHoldsEveryOk, CacheOnlyConfigured, Recoverable, Good
  <2> QED  BY <2>1, <2>2, <2>3 DEF CacheInv, GoodComplete
<1> QED  BY <1>1, <1>2, <1>3, <1>4, NextCases

LEMMA CacheInvariant == Spec => []CacheInv
  BY CacheInit, CacheNext, StateInvariant, PTL DEF Spec

\* Whatever shows good data now would be shown again after a restart that finds
\* the content handed to the writer last.
THEOREM CacheAlwaysHoldsOk == Spec => []CacheHoldsEveryOk
<1>1. CacheInv => CacheHoldsEveryOk
  BY DEF CacheInv
<1> QED  BY <1>1, CacheInvariant, PTL

\* A key that was removed is in no content handed to the writer afterwards.
THEOREM CacheConverges == Spec => []CacheOnlyConfigured
<1>1. CacheInv => CacheOnlyConfigured
  BY DEF CacheInv
<1> QED  BY <1>1, CacheInvariant, PTL
=============================================================================
