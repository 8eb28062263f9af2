----------------------------- MODULE WorkerPool -----------------------------
(***************************************************************************)
(* The in-process worker pool (internal/common/worker): worker goroutines  *)
(* that select between the pool context and a bounded channel, callers of  *)
(* Submit and SubmitBlocking, and Stop.                                    *)
(*                                                                         *)
(* A task stands for one call that hands it in, so task[t] is both the     *)
(* program counter of the caller and the fate of the task.  A task that    *)
(* returns an error or panics ends like any other (run recovers).          *)
(***************************************************************************)
EXTENDS Naturals, Sequences

CONSTANTS
    Tasks,
    Workers,
    QueueSizes,     \* the capacities NewPool is called with; 0 is an unbuffered channel
    NoTask

ASSUME PoolAssumption ==
    /\ QueueSizes \subseteq Nat
    /\ NoTask \notin Tasks

VARIABLES
    queueSize,      \* the capacity this pool was built with
    cancelled,      \* p.ctx has been cancelled
    queue,          \* the channel's buffer
    worker,         \* where each worker goroutine is
    current,        \* the task each worker runs
    task,           \* where each task is
    stop,           \* where the call of Stop is
    accepted        \* history: the tasks in the order the pool accepted them

poolVars == <<queueSize, cancelled, queue, worker, current, task, stop, accepted>>

WorkerStates == {"down", "select", "running", "exited"}
TaskStates == {"new", "checked", "blocked", "queued", "running", "finished", "refused"}
StopStates == {"no", "waiting", "stopped", "timedOut"}

SetTask(t, s) == task' = [task EXCEPT ![t] = s]

-----------------------------------------------------------------------------
\* startOnce: the workers are spawned once.
PoolStart ==
    /\ \A w \in Workers : worker[w] = "down"
    /\ worker' = [w \in Workers |-> "select"]
    /\ UNCHANGED <<queueSize, cancelled, queue, current, task, stop, accepted>>

\* A send to p.queue can go ahead: there is room, or the channel is unbuffered
\* and a worker is waiting in its select.
CanSend == Len(queue) < queueSize \/ (queueSize = 0 /\ \E w \in Workers : worker[w] = "select")

Send(t) ==
    /\ accepted' = Append(accepted, t)
    /\ \/ /\ Len(queue) < queueSize
          /\ queue' = Append(queue, t)
          /\ SetTask(t, "queued")
          /\ UNCHANGED <<worker, current>>
       \/ /\ queueSize = 0
          /\ \E w \in Workers :
                /\ worker[w] = "select"
                /\ worker' = [worker EXCEPT ![w] = "running"]
                /\ current' = [current EXCEPT ![w] = t]
          /\ SetTask(t, "running")
          /\ UNCHANGED queue

\* Submit, first select: the pool context is looked at once.
Submit(t) ==
    /\ task[t] = "new"
    /\ SetTask(t, IF cancelled THEN "refused" ELSE "checked")
    /\ UNCHANGED <<queueSize, cancelled, queue, worker, current, stop, accepted>>

SubmitSendDropsOldest(t) ==
    /\ task[t] = "checked"
    /\ IF queueSize > 0 /\ Len(queue) = queueSize
       THEN /\ queue' = Append(Tail(queue), t)
            /\ accepted' = Append(accepted, t)
            /\ SetTask(t, "queued")
            /\ UNCHANGED <<worker, current>>
       ELSE IF CanSend THEN Send(t)
            ELSE SetTask(t, "refused") /\ UNCHANGED <<queue, worker, current, accepted>>
    /\ UNCHANGED <<queueSize, cancelled, stop>>

\* Submit, second select: a send that must not wait.
SubmitSend(t) ==
    /\ task[t] = "checked"
    /\ IF CanSend THEN Send(t)
       ELSE SetTask(t, "refused") /\ UNCHANGED <<queue, worker, current, accepted>>
    /\ UNCHANGED <<queueSize, cancelled, stop>>

SubmitBlocking(t) ==
    /\ task[t] = "new"
    /\ SetTask(t, "blocked")
    /\ UNCHANGED <<queueSize, cancelled, queue, worker, current, stop, accepted>>

\* The three cases of SubmitBlocking's select.  When several are ready Go picks
\* any of them.
BlockingSend(t) ==
    /\ task[t] = "blocked"
    /\ Send(t)
    /\ UNCHANGED <<queueSize, cancelled, stop>>

BlockingTimeout(t) ==
    /\ task[t] = "blocked"
    /\ SetTask(t, "refused")
    /\ UNCHANGED <<queueSize, cancelled, queue, worker, current, stop, accepted>>

BlockingStoppedNever(t) ==
    /\ FALSE
    /\ UNCHANGED poolVars

BlockingStopped(t) ==
    /\ task[t] = "blocked"
    /\ cancelled
    /\ SetTask(t, "refused")
    /\ UNCHANGED <<queueSize, cancelled, queue, worker, current, stop, accepted>>

-----------------------------------------------------------------------------
ReceiveDropsStopped(w) ==
    /\ worker[w] = "select"
    /\ queue # << >>
    /\ queue' = Tail(queue)
    /\ IF cancelled
       THEN worker' = [worker EXCEPT ![w] = "exited"] /\ UNCHANGED <<current, task>>
       ELSE /\ worker' = [worker EXCEPT ![w] = "running"]
            /\ current' = [current EXCEPT ![w] = Head(queue)]
            /\ SetTask(Head(queue), "running")
    /\ UNCHANGED <<queueSize, cancelled, stop, accepted>>

\* worker: the receive case of the loop's select; run(t) begins.
Receive(w) ==
    /\ worker[w] = "select"
    /\ queue # << >>
    /\ worker' = [worker EXCEPT ![w] = "running"]
    /\ current' = [current EXCEPT ![w] = Head(queue)]
    /\ SetTask(Head(queue), "running")
    /\ queue' = Tail(queue)
    /\ UNCHANGED <<queueSize, cancelled, stop, accepted>>

WorkerExitNever(w) ==
    /\ FALSE
    /\ UNCHANGED poolVars

\* worker: the ctx.Done case; what is queued stays queued.
WorkerExit(w) ==
    /\ worker[w] = "select"
    /\ cancelled
    /\ worker' = [worker EXCEPT ![w] = "exited"]
    /\ UNCHANGED <<queueSize, cancelled, queue, current, task, stop, accepted>>

TaskEndPanics(w) ==
    /\ worker[w] = "running"
    /\ worker' = [worker EXCEPT ![w] = "exited"]
    /\ SetTask(current[w], "finished")
    /\ current' = [current EXCEPT ![w] = NoTask]
    /\ UNCHANGED <<queueSize, cancelled, queue, stop, accepted>>

\* run returns, whatever the task did.
TaskEnd(w) ==
    /\ worker[w] = "running"
    /\ worker' = [worker EXCEPT ![w] = "select"]
    /\ SetTask(current[w], "finished")
    /\ current' = [current EXCEPT ![w] = NoTask]
    /\ UNCHANGED <<queueSize, cancelled, queue, stop, accepted>>

-----------------------------------------------------------------------------
\* Stop: cancel, then wait for the workers or for the caller's context.  Stop
\* itself does not look whether Start came first: the guard on the workers is the
\* order in which bootstrap and main call the two.
PoolStop ==
    /\ stop = "no"
    /\ \A w \in Workers : worker[w] # "down"
    /\ cancelled' = TRUE
    /\ stop' = "waiting"
    /\ UNCHANGED <<queueSize, queue, worker, current, task, accepted>>

PoolStopReturns ==
    /\ stop = "waiting"
    /\ \A w \in Workers : worker[w] = "exited"
    /\ stop' = "stopped"
    /\ UNCHANGED <<queueSize, cancelled, queue, worker, current, task, accepted>>

PoolStopTimesOut ==
    /\ stop = "waiting"
    /\ stop' = "timedOut"
    /\ UNCHANGED <<queueSize, cancelled, queue, worker, current, task, accepted>>

-----------------------------------------------------------------------------
PoolInit ==
    /\ queueSize \in QueueSizes
    /\ cancelled = FALSE
    /\ queue = << >>
    /\ worker = [w \in Workers |-> "down"]
    /\ current = [w \in Workers |-> NoTask]
    /\ task = [t \in Tasks |-> "new"]
    /\ stop = "no"
    /\ accepted = << >>

PoolNext ==
    \/ PoolStart \/ PoolStop \/ PoolStopReturns \/ PoolStopTimesOut
    \/ \E t \in Tasks :
        \/ Submit(t) \/ SubmitSend(t)
        \/ SubmitBlocking(t) \/ BlockingSend(t) \/ BlockingTimeout(t) \/ BlockingStopped(t)
    \/ \E w \in Workers : Receive(w) \/ WorkerExit(w) \/ TaskEnd(w)

PoolSpec == PoolInit /\ [][PoolNext]_poolVars

\* Goroutines that can run do run, tasks end, and main does start the pool.
\* Nothing obliges a caller's context to expire: neither SubmitBlocking's nor
\* Stop's.
PoolFairness ==
    /\ WF_poolVars(PoolStart)
    /\ WF_poolVars(PoolStopReturns)
    /\ \A w \in Workers : WF_poolVars(Receive(w) \/ WorkerExit(w)) /\ WF_poolVars(TaskEnd(w))
    /\ \A t \in Tasks : WF_poolVars(SubmitSend(t)) /\ WF_poolVars(BlockingSend(t) \/ BlockingStopped(t))

PoolFairSpec == PoolSpec /\ PoolFairness

-----------------------------------------------------------------------------
\* Every variable has its type, and the channel never holds more than its
\* capacity.
PoolTypeOK ==
    /\ queueSize \in QueueSizes
    /\ cancelled \in BOOLEAN
    /\ queue \in Seq(Tasks) /\ Len(queue) <= queueSize
    /\ worker \in [Workers -> WorkerStates]
    /\ current \in [Workers -> Tasks \cup {NoTask}]
    /\ task \in [Tasks -> TaskStates]
    /\ stop \in StopStates
    /\ accepted \in Seq(Tasks)

\* An accepted task is in exactly one place: at one position of the channel, or
\* with one worker, or finished.  No task is run twice or dropped by the
\* hand-over between callers, channel and workers.
OneHomePerTask ==
    /\ \A i, j \in 1..Len(queue) : queue[i] = queue[j] => i = j
    /\ \A t \in Tasks : task[t] = "queued" <=> \E i \in 1..Len(queue) : queue[i] = t
    /\ \A t \in Tasks : task[t] = "running" <=> \E w \in Workers : current[w] = t
    /\ \A v, w \in Workers : current[v] = current[w] /\ current[v] # NoTask => v = w
    /\ \A w \in Workers : worker[w] = "running" <=> current[w] # NoTask

\* What a Stop that returns in time leaves unrun is the last that was accepted,
\* at most what fits in the channel, and nothing if the channel is unbuffered.
\* Every task accepted before those has run to its end, a task whose submission
\* raced with Stop or came after it included.
StopLosesOnlyTheLast ==
    stop = "stopped" =>
        \E n \in 0..Len(accepted) :
            /\ Len(accepted) - n <= queueSize
            /\ \A i \in 1..n : task[accepted[i]] = "finished"
            /\ \A i \in (n + 1)..Len(accepted) : task[accepted[i]] = "queued"

\* As long as the pool is not stopped a queued task is eventually run, whatever
\* other tasks do, panics included.
QueuedTasksRun ==
    \A t \in Tasks : task[t] = "queued" ~> task[t] = "finished" \/ cancelled

\* Stopping the pool releases every caller blocked on a full channel, even one
\* whose own context never expires.
StopReleasesCallers ==
    \A t \in Tasks : (task[t] = "blocked" /\ cancelled) ~> task[t] # "blocked"

\* Stop returns even to a caller whose context never expires: every worker
\* notices the cancelled context once its task has ended.
PoolStopTerminates == stop = "waiting" ~> stop # "waiting"

\* Stopping the pool deadlocks nobody, neither the callers blocked on the full
\* channel of a pool without workers nor main, which waits for the workers.
StopCompletes == StopReleasesCallers /\ PoolStopTerminates
=============================================================================
