# A TLA+ model of gin-template

gin-template is a Go HTTP API (gin, GORM, JWT) with per-device sessions, role
based access, password reset, idempotency keys, rate limiting, audit logging
and in-process background work. It has no tests, keeps most of its state in SQL
tables and opens no transactions, so nearly everything that can go wrong goes
wrong *between* two statements of concurrent requests. That is what these
modules describe.

## Inventory

| Component | State | Operations | What makes it hard |
|---|---|---|---|
| Session store (`modules/session`) | `user_sessions` rows | Create, Validate, Revoke, RevokeAllForUser, CleanupExpired | revocation must be final; the purge must not log anybody out |
| Authentication (`modules/auth`, `common/security`) | tokens held by clients, sessions, users | Login, Refresh, Logout(All), RevokeMySession, Impersonate, JWTAuth | the row is read in one statement and used in another |
| User administration (`modules/user`) | `users` rows and their roles | Update, Activate, Deactivate, Delete, ForceLogout, AssignRoles | full-row saves of stale rows; the revocation is a later statement that may be lost |
| Password reset (`modules/auth`) | `password_reset_tokens`, `users` | ForgotPassword, ResetPassword, cleanup | check and consumption of a token are four statements apart |
| Idempotency (`common/idempotency`) | `idempotency_records` | lookup, run, save, cleanup | double submits, lost saves, expired rows |
| Rate limiter (`common/ratelimit`) | two `sync.Map`s of buckets | bucketFor, Take, refill | first-use race, rounding, middleware order |
| Worker pool (`common/worker`) | channel, goroutines, context | Start, Submit, SubmitBlocking, Stop | Go's select picks any ready case |
| Scheduler (`common/scheduler`) | job list, cron, context, WaitGroup | Every, Cron, Once, Start, Stop | registration racing with Start and Stop |
| Audit writer (`modules/audit`) | bounded channel, one goroutine | Record, Wait | drops at the limit, use after close at shutdown |
| Task queue and mail (`common/queue`, `auth/queue.go`, `common/mail`) | tasks in Redis, through asynq | Enqueue with its inline fallback, the handler, Start, Stop, Send | at-least-once delivery, an enqueue that fails after it succeeded, a handler that nothing can stop |
| Lifecycle (`main.go`, `bootstrap`) | order of start and stop | SeedAdmin, StartBackgroundJobs, StopBackgroundJobs, Wait | a crash between two seeding statements, one deadline for four stops |
| Roles and permissions (`modules/role`, `modules/permission`) | rows and links | CRUD, AssignPermissions | check-then-insert by name, stale associations |
| Products and files (`modules/product`, `modules/file`) | `products` rows, files on disk | Create, Update, Delete, the listing, image upload, file upload | full-row saves of stale rows, an upload that reads twice, a file and a row written in two steps |
| Pagination (`common/dto`) | none | Normalize, Offset, NewPage | boundaries of pages, a total and a page from two statements |
| Web plumbing, CORS, config, logging | none or I/O | | |

How they interact: every `/api` request passes the limiter, the audit
middleware and JWTAuth in this order (`router.go`), then RequireAuth,
HasPermission and, for products, the idempotency middleware. Handlers call
services, services call repositories, and the `auth`, `user` and reset code
share the `users` row and the session store. The scheduler runs the three
cleanup jobs on the same tables; `main` stops queue, scheduler, pool, HTTP
server and audit writer in this order under one deadline. ForgotPassword hands
its mail to the queue, which any instance may work on; Register starts a
goroutine for the welcome mail.

## Modules

**SessionStore** is the session table as a service: `sess` is a function on the
ids in the table, `lastID` the AUTO_INCREMENT counter, `now` the clock. Every
SQL statement of `session/service.go` is one action. It is at once the model of
that component and the abstract specification (`SessionSpec`) that
the handlers are shown to implement.

**AuthSessions** extends it with the handlers of `modules/auth` and
`modules/user`. One action contains one statement that other requests
can see; `req[r]` holds what the handler keeps in local variables in between
(`snap` is the row it read). Two of GORM's calls are several statements and one
action here: Save (`SaveUser`: the row, then the links to its preloaded roles) and
Association.Replace (`ReplaceRoles`: an INSERT and a DELETE of links). The
invariants look at the row or at the roles, never at both together, and authority is
lost only by the DELETE, so they cannot tell the difference; Catalogue
takes Replace apart. `grants` are the token pairs signed so far. `Save`
is what GORM's Save does with a stale row: all columns are written back, a
soft-deleted row is revived by the upsert with the column default for a false
`Enabled`, preloaded roles are linked again. `Abort` is a request lost between
two statements. Authorities are abstracted to one bit.

**PasswordReset** puts ForgotPassword, ResetPassword and the token cleanup on
the same store, beside login and the saves of the user module (Update, Activate,
Deactivate) and its Delete. An Update that is sent a value for Enabled does to the
row what one of these saves does.

`escaped` in these two modules is a history variable: the sessions that
survive a sign-out because of a stale read, a stale save or a lost request. The
invariants say that there is no *other* way to survive.

**Idempotency** models lookup, run and save as three steps. An answer is
identified with the number of the run that gave it, a body with its hash, a key
with the whole UNIQUE tuple. `until` remembers how long a saved answer must
stand; `again` and `excuses` count, per key, what entitles the code to execute a
request once more.

**RateLimit** models `Load`, the creation and `LoadOrStore` of a bucket, and
`Take` under the mutex. Tokens are scaled so that the arithmetic is exact
integer arithmetic; float64 rounding is therefore not represented. `window`
observes an arbitrary interval of an arbitrary key and `promise` the last
Retry-After of each key. JWTAuth is there because the limiter comes before it and
would prefer a username that is never set: no property depends on it, and the run
has no users, since all keys of a request are those of its address.

**WorkerPool** has one action per select case. A task stands for the call that
hands it in. `accepted` is a history variable, the tasks in the order in which
their sends went ahead. `PoolStart` starts all workers at once, and `PoolStop`
comes after it: Stop has no such check, it is the order in which `bootstrap` and `main`
call them. WorkerPool and Scheduler prefix the names they share (`PoolInit`,
`SchedulerInit`), so that one module can extend both.

**Scheduler** has one action per critical section, per goroutine started and
per select case. Time is abstract: a timer that is waited for may fire at any
moment. `loop[j]` is the state of a job's goroutine, `phase` how far `main` has
come in `Start` and `Stop`. robfig/cron is modelled from its use: each run of an entry
is a goroutine of its own, and its `Stop` waits for them. `spawns` and `late` are
history variables.

**Catalogue** holds the tables of `modules/permission` and `modules/role`, the
administrator's row, SeedAdmin as run by each booting instance, the
administrators' endpoints, and Register of the auth module for one further
account (`member`), which reads the USER role and writes its links again. GORM is configured without default transactions
(`SkipDefaultTransaction`), so one action is one SQL statement, except that a lookup
includes its Preload (`Preloaded`) and a role's Save the links it writes again
(`RoleSave`); an association
is replaced by an INSERT and a DELETE, and `Create` and `Save` link what was
preloaded again. The lookups (`Live`, `Named`) skip soft-deleted rows, the UNIQUE
index (`NameFree`) does not. `Crash` kills an instance anywhere in its boot,
`Abort` loses a request. `due`, `kept`, `torn`, `bare` and `touched` are history
variables: what was last assigned to a role, which links survive because of a
lost or stale write, whether an instance died while writing the administrator,
whether a registration found no USER role or was lost before it linked it, and
whether administrators have changed a seeded row.

**Shutdown** holds the audit log and the end of the process: the middleware that
hands one entry per request to a bounded channel (`ch`), the writer goroutine,
and `main` from the signal to its return. `req[r]` is the program counter of a
request and then the fate of its entry. The stops of queue server, scheduler and
pool appear as what `main` sees of them: the component has come to rest
(`Drain`), or the deadline has passed. `forced` and `gaveUp` record that
`srv.Shutdown` or `Wait` ran into the deadline.

**Products** holds the `products` table, the uploads on disk and the endpoints
of `modules/product` and `modules/file`. A request keeps the row it read and the
form it is going to write; `uploadImage` is the file, a first read that becomes
the form, and then the whole of `service.Update` with a read of its own. The
fields that are always written together are one value (`info`). `file` is the
state of each upload: `torn` is what a dead process leaves of one; a copy whose
deferred Close fails counts as complete, as it does in the code. `overtaken` is
a history field: the row was written after the request read it. A listing is
its two statements, Count (`Search`) and Find, and `Answer` what it returns; the
status stands for all filters.

**Paging** holds the operators of `common/dto` that Products uses: `Normalize`,
`Offset` in the two's complement of an int as wide as `MaxInt`, and `NewPage`.

**TaskQueue** is the way of a mail. `req[m]` is the request or goroutine behind
mail `m`, `task[m]` its task in Redis with the worker that has it, `copies[m]`
how often the SMTP server has accepted it. `SendResults` are the outcomes of
Send, among them the mail that is accepted and then reported as an error because
Quit failed. asynq is external and modelled from its use: a task is taken by one
worker (`Take`), filed as done, retried or archived (`Finish`), taken away when its
deadline or lease passes (`Expire`) or when the shutdown has waited long enough
(`Requeue`), found again when its worker has died (`Recover`), and put back when
its delay is over (`Forward`). Send looks at no context, so a handler that has
lost its task goes on (`stray`). Instances boot, stop and die; between
`queue.Stop` and `srv.Shutdown` an instance still serves, with a closed client
(`closed`). `doubt[m]` is a history variable: the events after which the sender
cannot know whether the mail went out.

**MailDelivery** is the abstract specification: a mail is owed from the moment it
is accepted until it is sent, put aside (archived, or logged as failed) or
skipped because mail is switched off, and it does not stay owed. TaskQueue
implements it under the mapping `Status`.

The `MC*` modules only add symmetry sets, constant values that a `.cfg`
cannot express and, in MCAuthSessions, a state constraint. The `*_proofs` modules hold the theorems.

## Runs

All passing runs are exhaustive within their bounds. AuthAccounts has a state
constraint beside them (`OneKindOfChange`): changes of accounts and changes of
roles both happen in it, but not mixed, since they write different columns and the
two invariants look at one of them each. The proofs need no such restriction.

| Run | What it asks |
|---|---|
| AuthAccounts | deactivation, update, deletion and activation, or role changes and impersonation, beside login and refresh, with losses: who may not sign in is signed out, and no usable token keeps lost authorities |
| AuthDevices | several devices, logout, revocation by owner and administrator, purge: refinement of SessionSpec, finality of revocation, dead rows are purged (liveness) |
| WorkerPool | hand-over of tasks, what a Stop may lose (the last accepted tasks, as many as the channel holds), progress of queued tasks, blocked callers and Stop |
| Scheduler | one goroutine per interval job, quiet stop, jobs recur, one-off jobs end, Stop returns |
| RateSafety | for one client address and both pools: bound on admissions in any interval, exact Retry-After |
| IdemSafety | right replays, standing answers, no rerun after a save, and a cause for every rerun |
| ResetSafety | sign-out by reset beside logins, updates, activations, deactivations and deletions; finality of refused tokens |
| Catalogue | an instance that serves has the seeded catalogue, withdrawn permissions stay withdrawn, boots converge, registered accounts have their role |
| Products | products show complete files, saves that nobody overtook are exact, deleted products do not change, pages are exact |
| Shutdown | the audit log is closed only behind the handlers, a shutdown within its time leaves no entry behind, a signalled process ends whatever hangs, accepted entries are tried |
| TaskQueue | through crashes, shutdowns, deadlines, retries and lost answers of Redis an accepted mail is settled (refinement of MailDelivery, liveness included), and every copy beyond the first has a cause |
| ResetTwice | a violation: see Findings |

The type invariants of AuthSessions, PasswordReset, RateLimit, Idempotency,
WorkerPool, Scheduler and Shutdown are not checked by a run: they are proved.

*Bounds.* WorkerPool has four tasks, two workers and channels of none, one and two
places, so that the channel is full while both workers are busy and one more
caller waits. Two requests in flight are enough for every race here: each one is a
read of one request and a write of another (the proofs cover any number). One
or two users, since the rows of different users do not interact, except that
an administrator acts on another account. Times to live are two or
three ticks and the clock runs past them, so that tokens, rows and answers do
expire. `MaxSessions`, `MaxTokens`, `MaxResets`, `MaxRuns`, `MaxVersion` and
`MaxTime` bound what the code leaves unbounded; at a bound the action is
disabled (`MaxVersion` saturates). Scheduler has three jobs, so that one of each
kind or several of one kind meet, and at most `MaxOverlap` runs of a cron job
together. Catalogue has two instances (enough to collide on every name), one
seeded permission, which both seeded roles have, and one further name, one death (`MaxCrashes`) and two
administrators' calls (`MaxCalls`) that may overlap; `MaxPerms` and `MaxRoles` leave
room for the rows these can create. Shutdown has a channel of one entry and three
requests, so that it is full while the writer has one in hand. Products has three rows and
SKUs and four calls (`MaxCalls`), enough for three products and a listing of two
pages, or for a product, an upload and two requests that overtake each other;
pages are one or two rows long and `MaxInt` is 3, so that clamping at both ends, a
last page that is full, one that is not, and an overflowing offset all occur.
IdemSafety has three requests, so that a retry meets two others. TaskQueue has two
instances, so that one recovers what the other leaves behind, at most
`MaxEnds` deaths and stops, two retries (25 in asynq) and one mail at a time
(`MaxMails`), either a reset or a welcome mail: tasks do not interact but for the
workers they occupy. All eight settings of the three switches are initial states. Runs whose system comes to rest at a bound
turn deadlock checking off.

*Fairness.* AuthSessions assumes that the cleanup job keeps being run, which
Scheduler shows of every interval job until Stop (`IntervalJobsRecur`).
WorkerPool assumes that runnable goroutines run, that tasks end and that `main`
starts the pool. Scheduler assumes the same of its goroutines and timers, and strong
fairness for the `ctx.Done` case, because Go's select chooses at random among
the ready cases each time it is entered. No context is assumed ever to expire.
Catalogue assumes that a process that is up proceeds and that a supervisor
starts it again after it has died (`docker-compose.yml`: `restart:
unless-stopped`). TaskQueue assumes the same, and that a serving asynq server takes
tasks, files results, watches deadlines and leases, recovers and forwards; it
does *not* assume that a handler returns, since SMTP has no timeout here, nor
that inline sends end. Shutdown assumes that `main` runs, that its
deadline passes and that asynq's own shutdown limit ends the queue server;
handlers, jobs and the database may hang, except where a property names
`DatabaseAnswers`. No other module assumes fairness.

## Findings

A violation run; `PROJECT.json` quotes the text that is contradicted.

* ResetTwice: two requests with one reset token both set a password.

Further observations, which the invariants name as exceptions or the models
contain, without a run of their own:

* After an administrator has deleted a seeded permission or role, or the
  bootstrap administrator, every later boot ends in a fatal error, because the
  lookups skip the soft-deleted row and the UNIQUE index does not
  (`bootstrap.go:239` calls SeedAdmin safe to run on every boot). BootConverges
  excepts it with `touched`; without the exception TLC finds it.
* A mail may go out more than once (`doubt` in TaskQueue names the five ways;
  README.md:761 of the repository says "No duplicate processing — exactly one worker
  picks up each task"). With
  QUEUE_ENABLED and without JOBS_ENABLED an instance accepts tasks that nobody
  works on: MailDelivery promises to settle a mail only where `staffed`. A reset
  mail that is retried for hours may arrive after its token has expired.
* A reset request whose instance dies after the token was saved and before the
  enqueue sends no mail; a welcome mail is lost with the process.
* A registration that is lost between its statements takes the name and leaves an
  account without a role (`bare`), and one that finds no USER role succeeds.
* Rows written between Count and Find make the flags of a page disagree with its
  content, and a page number so large that page * size overflows to a negative
  offset is answered with the first page.
* `MaxRetry(0)` of the queue options is ignored, and a duplicate under `Unique` is an
  error, where the comment says that it is a no-op. The options have no caller.
* Buckets of the limiter are never removed: one entry per address and user stays
  for the life of the process.
* A login that read its row before a deactivation inserts a session after the
  revocation, and it stays (`escaped` in AuthSessions).
* Nothing compares `token_version` with the column, so bumping it signs nobody
  out.
* There is a version column but no optimistic locking: a profile update restores
  the password, the enabled flag and even the deleted row it had read.
* A double submit with one idempotency key runs the handler twice, and so does a
  retry after the client of the first request has gone away before the save. An
  expired row that has not been purged keeps the next answer from being stored.
* Not every API call is audited: a handler that panics, a request the limiter
  refuses and an entry that finds the channel full leave no row (the comment at
  `audit/service.go:20` says that Record blocks). After a forced shutdown Record
  panics on the closed channel.
* `queue.Manager.Stop` ignores its context; only asynq's own limit bounds it.
* A stopped pool may still accept a task: the select of `SubmitBlocking` chooses
  between free room and the cancelled context, although `pool.go:28` says that a
  stopped pool returns ErrPoolStopped, and a `Submit` that has passed its check may
  send after Stop. Such tasks, and those in the channel, are not run
  (`StopLosesOnlyTheLast` bounds them).
* The limiter is installed before JWTAuth and never sees a username.
* A `Once` before Start goes into the list of interval jobs and repeats; with
  delay 0 its ticker panics. A `Once` racing with Stop may run after it.
* An instance that dies between the INSERT of the administrator and that of its
  role leaves an administrator without permissions, which no boot repairs
  (`torn`).
* An image upload undoes an update of the same product that comes between its
  reads, an update undoes an upload that comes after its read, and both bring a
  product back that is deleted meanwhile (`overtaken` in Products): the version
  column of BaseModel, which its comment calls optimistic locking, is never
  compared. The SKU of a deleted product cannot be used again.
* `uploadImage` stores the file before it looks the product up, and replaced
  images are never removed: files that no product names stay on disk.
* Two AssignPermissions that interleave may leave a role with fewer permissions
  than either asked for.

## Proofs

All theorems hold for arbitrary constants that satisfy the named `ASSUME`s of
the modules (lifetimes and bounds are naturals, a set is not empty, the further
names of Catalogue are not seeded ones). Every safety property that a passing
run checks is also proved, the steps of both refinements included. In all these
modules there is one lemma per kind of step, and frame lemmas say what a step must
leave alone.

* **AuthSessions_proofs**: of the store, `SessionTypeOK` is inductive and the three
  action properties (`SessionGuarantees`) follow from it and one statement each. Of
  the handlers, `GoneMeansSignedOut` and `RolesTrackTokens` are not inductive: a
  refresh in flight may hold a stale row. `RequestOK` says which operation can be
  at which statement, that a refresh works on its own user's session, and that
  stale authorities are held only for a session that is revoked, about to be, or
  has escaped. `AuthInv` is the conjunction. `AuthImplementsStore` maps every step
  to a step of `SessionNext` or a stutter, and `HandlersKeepGuarantees` carries the
  promises of the store over.
* **PasswordReset_proofs**: `RequestOK` ties the statements between token check
  and sign-out to a reset with an issued token; with it `ResetSignsOut` is
  inductive.
* **RateLimit_proofs**: `RateBound` needs, for the observed key, that
  admissions plus what the bucket still holds are bounded, also for the buckets
  that requests have built and not yet published. The multiplications are
  isolated in small lemmas.
* **Idempotency_proofs**: `IdemInv` ties stored answers and replays to the
  history of runs, and `until` to the row on file. `RerunsHaveACause` counts runs:
  `CauseInv` says of every key that at most one request may still make the run
  that needs no excuse (`OneFresh`), and that the runs so far are at most the
  excuses, and one more only when that run has been spent (`CountOK`).
* **Background_proofs** holds the three components that run beside requests. Pool:
  `OneHomePerTask` with the types is inductive. `StopLosesOnlyTheLast` needs two parts
  beside it: that the channel holds the last of the accepted tasks in their order
  while workers have begun all others (`AcceptedInOrder`), and that Stop returns in
  time only when every worker has left (`StoppedPoolIsQuiet`), so that what has
  begun has ended. Scheduler: `SchedulerInv` adds to the types that
  a job's goroutine fits the call that registered it and what Start has spawned
  so far, and that after the wait group is done no counted goroutine is alive but
  the late ones. Shutdown: `ShutdownInv` adds which of the channel, the handlers
  and the writer `main` has left behind at each place, and that the writer leaves a
  closed, empty channel (`WriterGone`). Lemmas about Append and Tail keep the
  channel in step with the fates of the entries.
* **TaskQueue_proofs**: `DuplicatesHaveACause` is not inductive, because a copy that
  has not gone out must be paid for already. `DueOK` bounds by `1 + doubt[m]` the
  copies sent, plus one for a request that may still send inline, one for a task
  whose handler has not returned nil, and one for every stray handler; an event
  that creates a second sender is one that `doubt` counts. `TaskOK` and `ReqOK` say
  where a task is and that success is reported only for what has happened.
  `QueueRefines` is the safety part of the refinement: under `Status` every step is
  one of MailDelivery or changes nothing in it.
* **Products_proofs**: the idea is that a request which nobody has overtaken still
  holds what the table holds (`CurrentOK`), so that a Save of every column changes
  only what its endpoint promises (`EditsAreExact`), and a count agrees with the
  rows (`PagesAreExact`, with the lemma `Positions` about the rank of a row among
  those that match, and `NoWrap` for the offset). `CopiesOK` and `RowsOK` give the
  uploads: an incomplete file has one writer, and rows show stored files only.
* **Catalogue_proofs**: `CatalogueInv` has four parts. `Typed` adds to the types that
  ids have no gaps, that names are unique, and that the row a writer is about to
  write exists. `LinksOK` is what makes revocation inductive: of the writers in the
  middle of a Replace on one role, the one that linked last holds exactly what is
  due (`Replacing`), so that whoever ends first takes nothing away from the
  argument. `AccountOK` says that one request at most is linking the role of a
  name. `SeedOK` holds as long as administrators have not touched a seeded row:
  what a boot has put in place stays (readiness of permissions and roles is
  monotone), a boot that is past a row has seen it, requests exist only once all
  is in place, and then the UNIQUE index itself keeps administrators from taking
  a seeded name.

Only model-checked: the liveness properties, which the prover cannot handle
(DeadRowsArePurged, QueuedTasksRun, StopCompletes of the pool, StopTerminates of
the scheduler, IntervalJobsRecur, OneOffsEnd, BootConverges, ShutdownEnds,
AcceptedEntriesAreTried, and the liveness of MailDelivery in
AcceptedMailIsSettled). The violation of ResetTwice is a run as well.

## Not modelled

`last_used_at` (Touch), device names, and listings other than that of the
products, which are built in the same way: nothing but presentation reads them. A
second Start of a stopped scheduler. The options of the queue and EnqueueIn and
EnqueueAt, which have no caller. Contents of mails and files, the names and paths
of files, configuration, logging, migrations. Masking of audited bodies and the
matching of CORS origins: functions on strings without state, which unit tests
reach. float64 rounding in the limiter and in the number of pages. Failing
password checks and checks of an e-mail address, which end a request without effect.

## Plan

Built and proved: SessionStore, AuthSessions, PasswordReset, Idempotency,
RateLimit, WorkerPool, Scheduler, Shutdown, Catalogue, Products with Paging, and
TaskQueue with MailDelivery. What remains worth doing:

1. Properties of Paging and of the limiter's middleware order as lemmas of their
   own, so that further listings can cite them.
2. Action properties of Catalogue: a seeded row is written by boots only until
   an administrator touches it, and ids are never reused.
3. The places where an invariant names an exception (`escaped`, `kept`, `torn`,
   `bare`, `overtaken`): theorems that the exception arises in the listed ways only.
