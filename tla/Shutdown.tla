------------------------------ MODULE Shutdown ------------------------------
(***************************************************************************)
(* cmd/quotaclock/main.go from the start of Run to the exit, around the    *)
(* cache writer: the scheduler's goroutines and the HTTP handlers, who     *)
(* save caches, and main, which on a signal cancels ctx, lets the HTTP     *)
(* server drain beside it, waits for Run, closes the writer and releases   *)
(* the lock.                                                               *)
(*                                                                         *)
(* Every Save runs under the scheduler's mutex, whoever makes it.  What a  *)
(* result is applied to is in Scheduler; a job that gives way to another   *)
(* of its platform neither fetches nor saves and is left out of the tick   *)
(* here.                                                                   *)
(***************************************************************************)
EXTENDS CacheWriter

CONSTANTS
    Jobs,               \* the keys, each with its goroutine of the tick
    Handlers            \* requests that save a configuration

VARIABLES
    life,               \* "up", "stopping" (ctx is done), "released", "gone"
    run,                \* where Run stands; "spawned": before runWG.Add
    job,                \* key -> its goroutine of the tick
    req,                \* handler -> what it is doing
    drain,              \* the goroutine around httpSrv.Shutdown
    waited              \* sched.Wait has returned

mainVars == <<life, run, job, req, drain, waited>>

allVars == <<vars, mainVars>>

Alive == life # "gone"

Cancelled == life # "up"

Idle(activity) == \A x \in DOMAIN activity : activity[x] = "none"

ShutdownTypeOK ==
    /\ TypeOK
    /\ life \in {"up", "stopping", "released", "gone"}
    /\ run \in {"spawned", "plan", "collecting", "sleeping", "returned"}
    /\ job \in [Jobs -> {"none", "waiting", "fetching", "saving"}]
    /\ req \in [Handlers -> {"none", "busy", "saving"}]
    /\ drain \in {"no", "open", "drained", "timedout"}
    /\ waited \in BOOLEAN

StartMain ==
    /\ life' = "up"
    /\ run' = "spawned"
    /\ job' = [j \in Jobs |-> "none"]
    /\ req' = [h \in Handlers |-> "none"]
    /\ drain' = "no"
    /\ waited' = FALSE

ShutdownInit ==
    /\ Init
    /\ life = "up"
    /\ run = "spawned"
    /\ job = [j \in Jobs |-> "none"]
    /\ req = [h \in Handlers |-> "none"]
    /\ drain = "no"
    /\ waited = FALSE

-----------------------------------------------------------------------------
(* Run.  The goroutine main starts adds itself to runWG, which Wait may    *)
(* find at zero before.                                                    *)

StartRun ==
    /\ Alive
    /\ run = "spawned"
    /\ run' = "plan"
    /\ UNCHANGED <<vars, life, job, req, drain, waited>>

PlanTick ==
    /\ Alive
    /\ run = "plan"
    /\ \E due \in SUBSET Jobs :
           job' = [j \in Jobs |-> IF j \in due THEN "waiting" ELSE "none"]
    /\ run' = "collecting"
    /\ UNCHANGED <<vars, life, req, drain, waited>>

TickDone ==
    /\ Alive
    /\ run = "collecting"
    /\ Idle(job)
    /\ run' = IF Cancelled THEN "returned" ELSE "sleeping"
    /\ UNCHANGED <<vars, life, job, req, drain, waited>>

\* The timer, or the wake-up of a saved configuration.
NextTick ==
    /\ Alive
    /\ run = "sleeping"
    /\ run' = "plan"
    /\ UNCHANGED <<vars, life, job, req, drain, waited>>

RunReturns ==
    /\ Alive
    /\ run = "sleeping"
    /\ Cancelled
    /\ run' = "returned"
    /\ UNCHANGED <<vars, life, job, req, drain, waited>>

-----------------------------------------------------------------------------
(* The goroutine of one key.                                               *)

\* Fault: a job does not look at ctx before its request.
FetchAnyway == TRUE

\* Once past this test a request may be under way under a cancelled ctx; its
\* answer may still be a success.
MayFetch == ~Cancelled

StartFetch(j) ==
    /\ Alive
    /\ job[j] = "waiting"
    /\ MayFetch
    /\ job' = [job EXCEPT ![j] = "fetching"]
    /\ UNCHANGED <<vars, life, run, req, drain, waited>>

AbortJob(j) ==
    /\ Alive
    /\ job[j] = "waiting"
    /\ Cancelled
    /\ job' = [job EXCEPT ![j] = "none"]
    /\ UNCHANGED <<vars, life, run, req, drain, waited>>

\* Every outcome but a success, a cancelled request among them.
FetchFails(j) ==
    /\ Alive
    /\ job[j] = "fetching"
    /\ job' = [job EXCEPT ![j] = "none"]
    /\ UNCHANGED <<vars, life, run, req, drain, waited>>

FetchOk(j) ==
    /\ Alive
    /\ job[j] = "fetching"
    /\ SaveStore
    /\ job' = [job EXCEPT ![j] = "saving"]
    /\ UNCHANGED <<life, run, req, drain, waited>>

JobSaved(j) ==
    /\ Alive
    /\ job[j] = "saving"
    /\ SaveSend
    /\ job' = [job EXCEPT ![j] = "none"]
    /\ UNCHANGED <<life, run, req, drain, waited>>

JobStep(j) ==
    StartFetch(j) \/ AbortJob(j) \/ FetchFails(j) \/ FetchOk(j) \/ JobSaved(j)

-----------------------------------------------------------------------------
(* A request that saves a configuration: its Reload saves the cache.       *)

\* Shutdown closes the listener and the idle connections first.
Accept(h) ==
    /\ Alive
    /\ req[h] = "none"
    /\ drain = "no"
    /\ req' = [req EXCEPT ![h] = "busy"]
    /\ UNCHANGED <<vars, life, run, job, drain, waited>>

HandlerSaves(h) ==
    /\ Alive
    /\ req[h] = "busy"
    /\ SaveStore
    /\ req' = [req EXCEPT ![h] = "saving"]
    /\ UNCHANGED <<life, run, job, drain, waited>>

HandlerSaved(h) ==
    /\ Alive
    /\ req[h] = "saving"
    /\ SaveSend
    /\ req' = [req EXCEPT ![h] = "none"]
    /\ UNCHANGED <<life, run, job, drain, waited>>

\* The request is refused, or changes nothing.
HandlerRefuses(h) ==
    /\ Alive
    /\ req[h] = "busy"
    /\ req' = [req EXCEPT ![h] = "none"]
    /\ UNCHANGED <<vars, life, run, job, drain, waited>>

HandlerStep(h) ==
    Accept(h) \/ HandlerSaves(h) \/ HandlerSaved(h) \/ HandlerRefuses(h)

-----------------------------------------------------------------------------
(* main after the signal.  A second signal stays in the channel.           *)

Signal ==
    /\ life = "up"
    /\ life' = "stopping"
    /\ UNCHANGED <<vars, run, job, req, drain, waited>>

StartDrain ==
    /\ life = "stopping"
    /\ drain = "no"
    /\ drain' = "open"
    /\ UNCHANGED <<vars, life, run, job, req, waited>>

\* Fault: Shutdown without a deadline.
DrainedOnly == drain' = "drained" /\ Idle(req)

\* Shutdown returns when no request is left, or after shutdownTimeout.
DrainOutcome == drain' = IF Idle(req) THEN "drained" ELSE "timedout"

EndDrain ==
    /\ life = "stopping"
    /\ drain = "open"
    /\ DrainOutcome
    /\ UNCHANGED <<vars, life, run, job, req, waited>>

\* Fault: main does not wait for Run.
NoWait == TRUE

\* runWG is at zero.
SchedulerIdle == run \in {"spawned", "returned"}

SchedWait ==
    /\ life = "stopping"
    /\ ~waited
    /\ SchedulerIdle
    /\ waited' = TRUE
    /\ UNCHANGED <<vars, life, run, job, req, drain>>

CloseWriter ==
    /\ life = "stopping"
    /\ waited
    /\ drain \in {"drained", "timedout"}
    /\ Close
    /\ UNCHANGED mainVars

WriterClosed ==
    /\ life = "stopping"
    /\ Closed
    /\ UNCHANGED mainVars

\* lock.Release; a failure is only reported.
ReleaseLock ==
    /\ life = "stopping"
    /\ main = "closed"
    /\ life' = "released"
    /\ UNCHANGED <<vars, run, job, req, drain, waited>>

MainStep ==
    StartDrain \/ EndDrain \/ SchedWait \/ CloseWriter \/ WriterClosed \/ ReleaseLock

\* The goroutines end with the process, wherever they are.
Vanish ==
    /\ life' = "gone"
    /\ run' = "returned"
    /\ job' = [j \in Jobs |-> "none"]
    /\ req' = [h \in Handlers |-> "none"]
    /\ drain' = "no"
    /\ waited' = FALSE

Exit ==
    /\ life = "released"
    /\ Vanish
    /\ UNCHANGED vars

Kill ==
    /\ Alive
    /\ Crash
    /\ Vanish

NextProcess ==
    /\ life = "gone"
    /\ Restart
    /\ StartMain

ShutdownNext ==
    \/ StartRun \/ PlanTick \/ TickDone \/ NextTick \/ RunReturns
    \/ \E j \in Jobs : JobStep(j)
    \/ \E h \in Handlers : HandlerStep(h)
    \/ WriterStep /\ UNCHANGED mainVars
    \/ Signal \/ MainStep \/ Exit \/ Kill \/ NextProcess

\* The Go runtime runs every goroutine that can run; a request to a platform
\* ends at the latest with the client's 25 s, Shutdown with its 10 s, and the
\* steps of a file write end.  Nothing is assumed of the sleep timer, of the
\* HTTP handlers before their Save, or of the file system's success.
ShutdownFairness ==
    /\ WF_allVars(StartRun) /\ WF_allVars(PlanTick) /\ WF_allVars(TickDone)
    /\ WF_allVars(RunReturns)
    /\ \A j \in Jobs : WF_allVars(JobStep(j))
    /\ \A h \in Handlers : WF_allVars(HandlerSaved(h))
    /\ WF_allVars(WriterStep /\ UNCHANGED mainVars)
    /\ WF_allVars(MainStep)
    /\ WF_allVars(Exit)

ShutdownSpec == ShutdownInit /\ [][ShutdownNext]_allVars

FairShutdown == ShutdownSpec /\ ShutdownFairness

-----------------------------------------------------------------------------
\* Wait's comment: when it has returned no request is under way, and none
\* starts any more, although a signal right after the start makes Wait return
\* before Run has added itself to the group it waits for.
NoFetchAfterWait == waited => \A j \in Jobs : job[j] \in {"none", "waiting"}

\* main's comment at Close: everything collected and saved until the stop is in
\* cache.json when the process goes, unless its write failed; only a request
\* that outlives the drain may still save too late.
StoppedIsSaved ==
    main = "closed" /\ drain = "drained" => OnDisk >= saves \/ failed >= saves

\* A signal ends the process whatever its goroutines are doing: no two of Run,
\* the jobs, the drain, the handlers and the writer wait on each other.
SignalEndsProcess == life = "stopping" ~> life = "gone"
=============================================================================
