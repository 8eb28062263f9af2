------------------------------ MODULE TaskQueue ------------------------------
(***************************************************************************)
(* The mails of the auth module: a password reset mail travels as a task   *)
(* through the Redis queue (common/queue over asynq), or is sent by the    *)
(* request itself when it cannot be enqueued; the welcome mail is sent by a *)
(* goroutine that nobody waits for.                                        *)
(*                                                                         *)
(* Several instances of the program share the queue.  What asynq does with *)
(* a task is modelled from its use: a task is taken by one worker, is      *)
(* retried or archived when its handler fails or outlives its deadline or  *)
(* lease, and goes back to the queue when the server shuts down under it.  *)
(* The handler itself cannot be stopped: Send looks at no context.         *)
(***************************************************************************)
EXTENDS Naturals, FiniteSets

CONSTANTS
    Procs,          \* the instances
    NoProc,         \* the place of what does not run
    Resets,         \* password reset mails
    Welcomes,       \* welcome mails
    MaxRetry,       \* retries before a task is archived, 25 by default in asynq
    MaxEnds,        \* bound: how often an instance dies or is stopped
    MaxMails        \* bound: mails that are asked for

ASSUME TaskQueueAssumption ==
    /\ MaxRetry \in Nat /\ MaxEnds \in Nat /\ MaxMails \in Nat
    /\ NoProc \notin Procs /\ Resets \cap Welcomes = {}

Mails == Resets \cup Welcomes

VARIABLES
    conf,           \* QUEUE_ENABLED, JOBS_ENABLED and MAIL_ENABLED
    proc,           \* the instances
    server,         \* the asynq server of each instance
    req,            \* the request or goroutine behind each mail
    task,           \* the task of each mail
    stray,          \* handlers that run although their task has been taken from them
    copies,         \* mails that the SMTP server has accepted
    doubt,          \* history: events that may cause a second copy
    ends            \* how often an instance has died or been stopped

vars == <<conf, proc, server, req, task, stray, copies, doubt, ends>>

Confs == [queue : BOOLEAN, jobs : BOOLEAN, mail : BOOLEAN]
ProcStates == {"down", "up", "draining", "closed"}
ServerStates == {"none", "new", "active", "closed"}
ReqSteps == {"idle", "enqueue", "inline", "queued", "sent", "skipped", "failed", "lost"}
TaskStates == {"none", "pending", "active", "retry", "archived", "done"}
Handlers == {"none", "running", "nil", "err", "gone"}

NoTask == [st |-> "none", retried |-> 0, at |-> NoProc, handler |-> "none"]
Rests(t, st) == [t EXCEPT !.st = st, !.at = NoProc, !.handler = "none"]

-----------------------------------------------------------------------------
(* The life of an instance *)

\* Dial to Data, Quit included: the mail is refused, or it is accepted, and
\* then Quit may still report an error.  A disabled service reports success.
SendResults ==
    IF conf.mail THEN {[copies |-> 1, err |-> FALSE], [copies |-> 0, err |-> TRUE],
                       [copies |-> 1, err |-> TRUE]}
    ELSE {[copies |-> 0, err |-> FALSE]}

\* New returns no manager when the queue is disabled.
Boot(p) ==
    /\ proc[p] = "down"
    /\ proc' = [proc EXCEPT ![p] = "up"]
    /\ server' = [server EXCEPT ![p] = IF conf.queue THEN "new" ELSE "none"]
    /\ UNCHANGED <<conf, req, task, stray, copies, doubt, ends>>

\* A goroutine of StartBackgroundJobs, which may come late.
StartServer(p) ==
    /\ proc[p] \in {"up", "closed"}
    /\ conf.jobs /\ server[p] = "new"
    /\ server' = [server EXCEPT ![p] = "active"]
    /\ UNCHANGED <<conf, proc, req, task, stray, copies, doubt, ends>>

\* StopBackgroundJobs, while requests are still served: Shutdown is a no-op on
\* a server that has not started.  Without background jobs nothing is stopped.
Stop(p) ==
    /\ proc[p] = "up"
    /\ conf.jobs /\ conf.queue
    /\ ends < MaxEnds
    /\ ends' = ends + 1
    /\ proc' = [proc EXCEPT ![p] = IF server[p] = "active" THEN "draining" ELSE "closed"]
    /\ UNCHANGED <<conf, server, req, task, stray, copies, doubt>>

DrainedAtOnce(p) ==
    /\ proc[p] = "draining"
    /\ proc' = [proc EXCEPT ![p] = "closed"]
    /\ server' = [server EXCEPT ![p] = "closed"]
    /\ UNCHANGED <<conf, req, task, stray, copies, doubt, ends>>

\* The workers of p are done, and the client is closed.
Drained(p) ==
    /\ proc[p] = "draining"
    /\ \A m \in Resets : task[m].at # p
    /\ proc' = [proc EXCEPT ![p] = "closed"]
    /\ server' = [server EXCEPT ![p] = "closed"]
    /\ UNCHANGED <<conf, req, task, stray, copies, doubt, ends>>

\* The process is gone, and with it its requests and goroutines; the tasks of
\* its workers stay active on file.
Perish(p) ==
    /\ proc' = [proc EXCEPT ![p] = "down"]
    /\ server' = [server EXCEPT ![p] = "none"]
    /\ req' = [m \in Mails |-> IF req[m].at = p
                               THEN [step |-> "lost", at |-> NoProc] ELSE req[m]]
    /\ task' = [m \in Resets |-> IF task[m].at = p
                                 THEN [task[m] EXCEPT !.handler = "gone", !.at = NoProc] ELSE task[m]]
    /\ stray' = [stray EXCEPT ![p] = [m \in Resets |-> 0]]
    /\ doubt' = [m \in Mails |->
           IF m \in Resets /\ task[m].at = p /\ task[m].handler = "nil"
           THEN doubt[m] + 1 ELSE doubt[m]]
    /\ UNCHANGED <<conf, copies>>

Exit(p) ==
    /\ proc[p] = "closed"
    /\ Perish(p)
    /\ UNCHANGED ends

Crash(p) ==
    /\ proc[p] # "down"
    /\ ends < MaxEnds
    /\ ends' = ends + 1
    /\ Perish(p)

-----------------------------------------------------------------------------
(* The requests *)

SetReq(m, s) == req' = [req EXCEPT ![m] =
    [step |-> s, at |-> IF s = "inline" THEN req[m].at ELSE NoProc]]

\* An instance serves until it is down, also while it stops.
Arrives(m, p) ==
    /\ proc[p] # "down"
    /\ req[m].step = "idle"
    /\ Cardinality({n \in Mails : req[n].step # "idle"}) < MaxMails

\* The token row is saved; what comes before is in PasswordReset.
ForgotPassword(m, p) ==
    /\ Arrives(m, p)
    /\ req' = [req EXCEPT ![m] = [step |-> "enqueue", at |-> p]]
    /\ UNCHANGED <<conf, proc, server, task, stray, copies, doubt, ends>>

Pending == [NoTask EXCEPT !.st = "pending"]

EnqueueAndSend(m) ==
    /\ req[m].step = "enqueue"
    /\ conf.queue /\ proc[req[m].at] # "closed"
    /\ task' = [task EXCEPT ![m] = Pending]
    /\ SetReq(m, "inline")
    /\ UNCHANGED <<conf, proc, server, stray, copies, doubt, ends>>

\* The queue holds the task, and the request is answered.
Enqueue(m) ==
    /\ req[m].step = "enqueue"
    /\ conf.queue /\ proc[req[m].at] # "closed"
    /\ task' = [task EXCEPT ![m] = Pending]
    /\ SetReq(m, "queued")
    /\ UNCHANGED <<conf, proc, server, stray, copies, doubt, ends>>

\* No manager, a client that Stop has closed, or an error from Redis, which may
\* have stored the task all the same: the request sends the mail itself.
EnqueueFails(m) ==
    /\ req[m].step = "enqueue"
    /\ SetReq(m, "inline")
    /\ \/ UNCHANGED <<task, doubt>>
       \/ /\ conf.queue /\ proc[req[m].at] # "closed"
          /\ task' = [task EXCEPT ![m] = Pending]
          /\ doubt' = [doubt EXCEPT ![m] = @ + 1]
    /\ UNCHANGED <<conf, proc, server, stray, copies, ends>>

\* Register starts the goroutine that sends the welcome mail.
Register(m, p) ==
    /\ Arrives(m, p)
    /\ req' = [req EXCEPT ![m] = [step |-> "inline", at |-> p]]
    /\ UNCHANGED <<conf, proc, server, task, stray, copies, doubt, ends>>

\* An error is logged, or dropped by sendWelcome.
SendInline(m) ==
    /\ req[m].step = "inline"
    /\ \E r \in SendResults :
        /\ copies' = [copies EXCEPT ![m] = @ + r.copies]
        /\ SetReq(m, IF r.copies = 1 THEN "sent" ELSE IF r.err THEN "failed" ELSE "skipped")
    /\ UNCHANGED <<conf, proc, server, task, stray, doubt, ends>>

-----------------------------------------------------------------------------
(* The queue *)

Serving(p) == proc[p] # "down" /\ server[p] = "active"
Attended == \E p \in Procs : Serving(p)

\* A task that has failed: retried after RetryDelayFunc, or archived.
Failed(t) == IF t.retried < MaxRetry
             THEN [Rests(t, "retry") EXCEPT !.retried = @ + 1]
             ELSE Rests(t, "archived")

Take(m, p) ==
    /\ Serving(p) /\ proc[p] # "draining"
    /\ task[m].st = "pending"
    /\ task' = [task EXCEPT ![m].st = "active", ![m].at = p, ![m].handler = "running"]
    /\ UNCHANGED <<conf, proc, server, req, stray, copies, doubt, ends>>

HandleIgnoringErrors(m) ==
    /\ task[m].handler = "running"
    /\ \E r \in SendResults : copies' = [copies EXCEPT ![m] = @ + r.copies]
    /\ task' = [task EXCEPT ![m].handler = "nil"]
    /\ UNCHANGED <<conf, proc, server, req, stray, doubt, ends>>

\* The handler of RegisterQueueHandlers returns what Send returns.
Handle(m) ==
    /\ task[m].handler = "running"
    /\ \E r \in SendResults :
        /\ copies' = [copies EXCEPT ![m] = @ + r.copies]
        /\ task' = [task EXCEPT ![m].handler = IF r.err THEN "err" ELSE "nil"]
        /\ doubt' = [doubt EXCEPT ![m] = IF r.err THEN @ + r.copies ELSE @]
    /\ UNCHANGED <<conf, proc, server, req, stray, ends>>

\* The worker files the result.
Finish(m) ==
    /\ task[m].handler \in {"nil", "err"}
    /\ task' = [task EXCEPT ![m] = IF @.handler = "nil"
                                   THEN Rests(@, "done")
                                   ELSE Failed(@)]
    /\ UNCHANGED <<conf, proc, server, req, stray, copies, doubt, ends>>

\* The task is taken from a handler that goes on running, or has just returned
\* a result that nobody reads.
Deprive(m, t) ==
    /\ task' = [task EXCEPT ![m] = t]
    /\ stray' = [stray EXCEPT ![task[m].at][m] = IF task[m].handler = "running" THEN @ + 1 ELSE @]
    /\ doubt' = [doubt EXCEPT ![m] = IF task[m].handler = "err" THEN @ ELSE @ + 1]
    /\ UNCHANGED <<conf, proc, server, req, copies, ends>>

\* The deadline or the lease of the task has passed.
Expire(m) ==
    /\ task[m].handler \in {"running", "nil", "err"}
    /\ Deprive(m, Failed(task[m]))

\* Shutdown waits for its workers for a while and gives the task back.
Requeue(m) ==
    /\ task[m].handler \in {"running", "nil", "err"}
    /\ proc[task[m].at] = "draining"
    /\ Deprive(m, Rests(task[m], "pending"))

StrayHandle(m, p) ==
    /\ stray[p][m] > 0
    /\ stray' = [stray EXCEPT ![p][m] = @ - 1]
    /\ \E r \in SendResults : copies' = [copies EXCEPT ![m] = @ + r.copies]
    /\ UNCHANGED <<conf, proc, server, req, task, doubt, ends>>

\* Another server finds the lease of a dead worker expired.
Recover(m) ==
    /\ Attended
    /\ task[m].handler = "gone"
    /\ task' = [task EXCEPT ![m] = Failed(@)]
    /\ UNCHANGED <<conf, proc, server, req, stray, copies, doubt, ends>>

\* The delay before a retry is over.
Forward(m) ==
    /\ Attended
    /\ task[m].st = "retry"
    /\ task' = [task EXCEPT ![m].st = "pending"]
    /\ UNCHANGED <<conf, proc, server, req, stray, copies, doubt, ends>>

-----------------------------------------------------------------------------
Init ==
    /\ conf \in Confs
    /\ proc = [p \in Procs |-> "down"]
    /\ server = [p \in Procs |-> "none"]
    /\ req = [m \in Mails |-> [step |-> "idle", at |-> NoProc]]
    /\ task = [m \in Resets |-> NoTask]
    /\ stray = [p \in Procs |-> [m \in Resets |-> 0]]
    /\ copies = [m \in Mails |-> 0]
    /\ doubt = [m \in Mails |-> 0]
    /\ ends = 0

Live(p) == Boot(p) \/ StartServer(p) \/ Drained(p) \/ Exit(p)

Next ==
    \/ \E p \in Procs : Live(p) \/ Stop(p) \/ Crash(p)
    \/ \E m \in Resets :
        \/ \E p \in Procs : ForgotPassword(m, p) \/ Take(m, p) \/ StrayHandle(m, p)
        \/ Enqueue(m) \/ EnqueueFails(m)
        \/ Handle(m) \/ Finish(m) \/ Expire(m) \/ Requeue(m) \/ Recover(m) \/ Forward(m)
    \/ \E m \in Welcomes, p \in Procs : Register(m, p)
    \/ \E m \in Mails : SendInline(m)

Spec == Init /\ [][Next]_vars

\* Instances are restarted and run; servers take, file, recover and forward
\* tasks.  A handler may hang in SMTP, but its deadline passes.
FairSpec ==
    /\ Spec
    /\ \A p \in Procs : WF_vars(Live(p))
    /\ \A m \in Resets :
        /\ WF_vars(\E p \in Procs : Take(m, p))
        /\ WF_vars(Finish(m)) /\ WF_vars(Expire(m)) /\ WF_vars(Requeue(m))
        /\ WF_vars(Recover(m)) /\ WF_vars(Forward(m))

-----------------------------------------------------------------------------
\* Every variable has its type, and a handler runs on an instance that is up.
TypeOK ==
    /\ conf \in Confs
    /\ proc \in [Procs -> ProcStates]
    /\ server \in [Procs -> ServerStates]
    /\ req \in [Mails -> [step : ReqSteps, at : Procs \cup {NoProc}]]
    /\ task \in [Resets -> [st : TaskStates, retried : 0..MaxRetry, at : Procs \cup {NoProc},
                            handler : Handlers]]
    /\ stray \in [Procs -> [Resets -> Nat]]
    /\ copies \in [Mails -> Nat] /\ doubt \in [Mails -> Nat]
    /\ ends \in 0..MaxEnds
    /\ \A m \in Resets : task[m].handler \in {"running", "nil", "err"} =>
                             task[m].st = "active" /\ Serving(task[m].at)
    /\ \A p \in Procs : proc[p] = "down" => \A m \in Resets : stray[p][m] = 0

\* At most one copy of a mail goes out, and one more for every event that left
\* the sender in the dark: an enqueue that failed after Redis had stored the
\* task, a Quit that failed after the mail had been accepted, an instance that
\* died before it filed a success, a deadline or a shutdown that took the task
\* from a handler which could not be stopped.
DuplicatesHaveACause == \A m \in Mails : copies[m] <= 1 + doubt[m]

\* A mail that is owed is in the queue; it is aside when it is archived, or
\* when its request could not send it and said so in the log.
Status(m) ==
    LET st == IF m \in Resets THEN task[m].st ELSE "none"
        step == req[m].step
    IN CASE copies[m] > 0 -> "sent"
         [] copies[m] = 0 /\ st \in {"pending", "active", "retry"} -> "owed"
         [] copies[m] = 0 /\ (st = "archived" \/ (st = "none" /\ step = "failed")) -> "aside"
         [] copies[m] = 0 /\ (st = "done" \/ (st = "none" /\ step = "skipped")) -> "skipped"
         [] OTHER -> "none"

Delivery == INSTANCE MailDelivery WITH
    status <- [m \in Mails |-> Status(m)],
    enabled <- conf.mail,
    staffed <- conf.jobs

\* The queue keeps the promise of MailDelivery: through retries, deadlines,
\* crashes, shutdowns and lost answers of Redis no mail that was accepted is
\* forgotten, none is counted as done that did not go out, and each is settled
\* in the end when background jobs are enabled.  (With QUEUE_ENABLED and
\* without JOBS_ENABLED tasks are accepted and nobody works on them.)
AcceptedMailIsSettled == Delivery!Spec
=============================================================================
