----------------------------- MODULE Scheduler -----------------------------
(***************************************************************************)
(* common/scheduler: interval jobs, cron jobs and one-off jobs.  Services  *)
(* may register jobs at any time and concurrently (each job by one call);  *)
(* main calls Start once and, after it has returned, Stop once.            *)
(*                                                                         *)
(* Time is abstract: a timer or ticker that is being waited for may fire   *)
(* at any moment, also when the context has been cancelled, because Go     *)
(* chooses at random between two ready cases of a select.                  *)
(*                                                                         *)
(* The library robfig/cron is modelled from its use: it starts the job in  *)
(* a goroutine of its own each time, so runs of a cron job may overlap,    *)
(* and its Stop hands out a context that is done when all of them are.     *)
(***************************************************************************)
EXTENDS Integers

CONSTANTS
    Jobs,           \* the jobs that may be registered
    MaxOverlap      \* bound: runs of a cron job that are in progress together

ASSUME OverlapAssumption == MaxOverlap \in Nat

VARIABLES
    phase,          \* how far main has come with Start and Stop
    kind,           \* the call that registered a job
    intervals,      \* s.intervals
    toSpawn,        \* Start's copy of it, as far as no goroutine exists yet
    cronJobs,       \* the entries of s.cron
    loop,           \* the goroutine of an interval job or a one-off job
    active,         \* the number of runs of a cron job in progress
    spawns,         \* history: goroutines started for a job
    late            \* history: one-off jobs whose goroutine Stop did not wait for

schedulerVars == <<phase, kind, intervals, toSpawn, cronJobs, loop, active, spawns, late>>

Phases == {"new", "spawning", "running", "cancelled", "waiting", "wgDone", "clean", "timedOut"}
Kinds == {"none", "every", "cron", "once"}
LoopStates == {"none", "prepared", "jitter", "waiting", "timer", "running", "exited"}

\* s.started; set under the mutex by Start and cleared by Stop.
Started == phase \in {"spawning", "running"}

\* s.ctx is done.
Cancelled == phase \in {"cancelled", "waiting", "wgDone", "clean", "timedOut"}

\* The goroutines counted by s.wg.
Alive == {j \in Jobs : loop[j] \in {"jitter", "waiting", "timer", "running"}}

-----------------------------------------------------------------------------
(* Registration *)

spawnInterval(j) ==
    /\ loop' = [loop EXCEPT ![j] = "jitter"]
    /\ spawns' = [spawns EXCEPT ![j] = @ + 1]

EveryAlwaysSpawns(j) ==
    /\ kind[j] = "none"
    /\ kind' = [kind EXCEPT ![j] = "every"]
    /\ intervals' = intervals \cup {j}
    /\ spawnInterval(j)
    /\ UNCHANGED <<phase, toSpawn, cronJobs, active, late>>

\* The whole call holds the mutex.
Every(j) ==
    /\ kind[j] = "none"
    /\ kind' = [kind EXCEPT ![j] = "every"]
    /\ intervals' = intervals \cup {j}
    /\ IF Started THEN spawnInterval(j) ELSE UNCHANGED <<loop, spawns>>
    /\ UNCHANGED <<phase, toSpawn, cronJobs, active, late>>

\* AddFunc; an entry added after cron.Stop stays without effect.
Cron(j) ==
    /\ kind[j] = "none"
    /\ kind' = [kind EXCEPT ![j] = "cron"]
    /\ cronJobs' = cronJobs \cup {j}
    /\ UNCHANGED <<phase, intervals, toSpawn, loop, active, spawns, late>>

\* Before Start the job goes into the list of interval jobs.  After Start the
\* mutex is released before the goroutine is counted and started.
Once(j) ==
    /\ kind[j] = "none"
    /\ kind' = [kind EXCEPT ![j] = "once"]
    /\ IF Started
       THEN loop' = [loop EXCEPT ![j] = "prepared"] /\ UNCHANGED intervals
       ELSE intervals' = intervals \cup {j} /\ UNCHANGED loop
    /\ UNCHANGED <<phase, toSpawn, cronJobs, active, spawns, late>>

\* wg.Add and the go statement; Stop may have finished waiting by now.
OnceSpawn(j) ==
    /\ loop[j] = "prepared"
    /\ loop' = [loop EXCEPT ![j] = "timer"]
    /\ spawns' = [spawns EXCEPT ![j] = @ + 1]
    /\ late' = IF phase \in {"wgDone", "clean"} THEN late \cup {j} ELSE late
    /\ UNCHANGED <<phase, kind, intervals, toSpawn, cronJobs, active>>

-----------------------------------------------------------------------------
(* Start *)

\* The critical section: a fresh context, started, and a copy of the list.
Start ==
    /\ phase = "new"
    /\ phase' = "spawning"
    /\ toSpawn' = intervals
    /\ UNCHANGED <<kind, intervals, cronJobs, loop, active, spawns, late>>

SpawnNext(j) ==
    /\ phase = "spawning"
    /\ j \in toSpawn
    /\ toSpawn' = toSpawn \ {j}
    /\ spawnInterval(j)
    /\ UNCHANGED <<phase, kind, intervals, cronJobs, active, late>>

CronStart ==
    /\ phase = "spawning"
    /\ toSpawn = {}
    /\ phase' = "running"
    /\ UNCHANGED <<kind, intervals, toSpawn, cronJobs, loop, active, spawns, late>>

-----------------------------------------------------------------------------
(* The goroutines *)

JitterEnds(j) ==
    /\ loop[j] = "jitter"
    /\ loop' = [loop EXCEPT ![j] = "waiting"]
    /\ UNCHANGED <<phase, kind, intervals, toSpawn, cronJobs, active, spawns, late>>

\* A tick, or the timer of a one-off job.
Fire(j) ==
    /\ loop[j] \in {"waiting", "timer"}
    /\ loop' = [loop EXCEPT ![j] = "running"]
    /\ UNCHANGED <<phase, kind, intervals, toSpawn, cronJobs, active, spawns, late>>

LeaveJitterOnly(j) ==
    /\ loop[j] = "jitter"
    /\ Cancelled
    /\ loop' = [loop EXCEPT ![j] = "exited"]
    /\ UNCHANGED <<phase, kind, intervals, toSpawn, cronJobs, active, spawns, late>>

\* The ctx.Done case of each select.
Leave(j) ==
    /\ loop[j] \in {"jitter", "waiting", "timer"}
    /\ Cancelled
    /\ loop' = [loop EXCEPT ![j] = "exited"]
    /\ UNCHANGED <<phase, kind, intervals, toSpawn, cronJobs, active, spawns, late>>

RunEndLoops(j) ==
    /\ loop[j] = "running"
    /\ loop' = [loop EXCEPT ![j] = "waiting"]
    /\ UNCHANGED <<phase, kind, intervals, toSpawn, cronJobs, active, spawns, late>>

RunEndsLoop(j) ==
    /\ loop[j] = "running"
    /\ loop' = [loop EXCEPT ![j] = "exited"]
    /\ UNCHANGED <<phase, kind, intervals, toSpawn, cronJobs, active, spawns, late>>

\* run returns, whether the job succeeded, failed or panicked: an interval
\* job goes back to its select.
RunEnd(j) ==
    /\ loop[j] = "running"
    /\ loop' = [loop EXCEPT ![j] = IF j \in intervals THEN "waiting" ELSE "exited"]
    /\ UNCHANGED <<phase, kind, intervals, toSpawn, cronJobs, active, spawns, late>>

\* Between cron.Start and cron.Stop an entry may come due.
CronFire(j) ==
    /\ phase \in {"running", "cancelled"}
    /\ j \in cronJobs
    /\ active[j] < MaxOverlap
    /\ active' = [active EXCEPT ![j] = @ + 1]
    /\ UNCHANGED <<phase, kind, intervals, toSpawn, cronJobs, loop, spawns, late>>

CronEnd(j) ==
    /\ active[j] > 0
    /\ active' = [active EXCEPT ![j] = @ - 1]
    /\ UNCHANGED <<phase, kind, intervals, toSpawn, cronJobs, loop, spawns, late>>

-----------------------------------------------------------------------------
(* Stop *)

\* The critical section: not started any more, context cancelled.
Stop ==
    /\ phase = "running"
    /\ phase' = "cancelled"
    /\ UNCHANGED <<kind, intervals, toSpawn, cronJobs, loop, active, spawns, late>>

CronStop ==
    /\ phase = "cancelled"
    /\ phase' = "waiting"
    /\ UNCHANGED <<kind, intervals, toSpawn, cronJobs, loop, active, spawns, late>>

\* wg.Wait returns in the goroutine that Stop has started.
WgDone ==
    /\ phase = "waiting"
    /\ Alive = {}
    /\ phase' = "wgDone"
    /\ UNCHANGED <<kind, intervals, toSpawn, cronJobs, loop, active, spawns, late>>

StopReturnsEarly ==
    /\ phase = "wgDone"
    /\ phase' = "clean"
    /\ UNCHANGED <<kind, intervals, toSpawn, cronJobs, loop, active, spawns, late>>

\* The context of cron.Stop is done, and Stop returns.
StopReturns ==
    /\ phase = "wgDone"
    /\ \A j \in Jobs : active[j] = 0
    /\ phase' = "clean"
    /\ UNCHANGED <<kind, intervals, toSpawn, cronJobs, loop, active, spawns, late>>

\* The shutdown context expires first.
StopTimesOut ==
    /\ phase \in {"waiting", "wgDone"}
    /\ phase' = "timedOut"
    /\ UNCHANGED <<kind, intervals, toSpawn, cronJobs, loop, active, spawns, late>>

-----------------------------------------------------------------------------
SchedulerInit ==
    /\ phase = "new"
    /\ kind = [j \in Jobs |-> "none"]
    /\ intervals = {}
    /\ toSpawn = {}
    /\ cronJobs = {}
    /\ loop = [j \in Jobs |-> "none"]
    /\ active = [j \in Jobs |-> 0]
    /\ spawns = [j \in Jobs |-> 0]
    /\ late = {}

SchedulerNext ==
    \/ \E j \in Jobs :
        \/ Every(j) \/ Cron(j) \/ Once(j) \/ OnceSpawn(j) \/ SpawnNext(j)
        \/ JitterEnds(j) \/ Fire(j) \/ Leave(j) \/ RunEnd(j) \/ CronFire(j) \/ CronEnd(j)
    \/ Start \/ CronStart
    \/ Stop \/ CronStop \/ WgDone \/ StopReturns \/ StopTimesOut

SchedulerSpec == SchedulerInit /\ [][SchedulerNext]_schedulerVars

\* Timers fire, runnable goroutines run and jobs end.  A select that is entered
\* again and again with the context cancelled takes that case at last (SF),
\* because Go chooses at random.  Stop need not be called, and its deadline need
\* not expire.
SchedulerFairness ==
    /\ WF_schedulerVars(Start) /\ WF_schedulerVars(CronStart) /\ WF_schedulerVars(CronStop)
    /\ WF_schedulerVars(WgDone) /\ WF_schedulerVars(StopReturns)
    /\ \A j \in Jobs :
        /\ WF_schedulerVars(OnceSpawn(j)) /\ WF_schedulerVars(SpawnNext(j)) /\ WF_schedulerVars(JitterEnds(j))
        /\ WF_schedulerVars(Fire(j)) /\ WF_schedulerVars(RunEnd(j)) /\ WF_schedulerVars(CronEnd(j))
        /\ SF_schedulerVars(Leave(j))

SchedulerFairSpec == SchedulerSpec /\ SchedulerFairness

-----------------------------------------------------------------------------
\* Every variable has its type, and each job is on the list of its kind.
SchedulerTypeOK ==
    /\ phase \in Phases
    /\ kind \in [Jobs -> Kinds]
    /\ intervals \subseteq Jobs
    /\ toSpawn \subseteq intervals
    /\ \A j \in intervals : kind[j] \in {"every", "once"}
    /\ cronJobs = {j \in Jobs : kind[j] = "cron"}
    /\ loop \in [Jobs -> LoopStates]
    /\ active \in [Jobs -> 0..MaxOverlap]
    /\ spawns \in [Jobs -> Nat]
    /\ late \subseteq Jobs

\* "Safe to call before or after Start": however Every and Start interleave, an
\* interval job never gets a second goroutine, and it has one as soon as Start
\* has returned.
OneGoroutinePerJob ==
    \A j \in Jobs :
        /\ spawns[j] <= 1
        /\ phase = "running" /\ j \in intervals => spawns[j] = 1

\* When Stop has returned without a timeout no job is running and none will
\* run, whatever was registered during the shutdown, with one exception: a Once
\* that passed the mutex before Stop and started its goroutine after Stop had
\* finished waiting.
CleanStopIsQuiet ==
    phase = "clean" =>
        /\ Alive \subseteq late
        /\ \A j \in Jobs : active[j] = 0

\* As long as the scheduler is not stopped every interval job runs again and
\* again, also when it fails or panics, and whenever it was registered.
IntervalJobsRecur ==
    \A j \in Jobs : (Started /\ j \in intervals) ~> (loop[j] = "running" \/ Cancelled)

\* A Once that came after Start runs once or is cancelled by Stop, and then never
\* runs again.  (One that came before Start is an interval job and recurs.)
OneOffsEnd == \A j \in Jobs : loop[j] = "prepared" ~> [](loop[j] = "exited")

\* Stop returns once the jobs in progress end, without help from the deadline.
StopTerminates == phase = "cancelled" ~> phase \in {"clean", "timedOut"}
=============================================================================
