------------------------------ MODULE Shutdown ------------------------------
(***************************************************************************)
(* The audit log and the end of the process: the audit middleware hands    *)
(* one entry per request to a bounded channel, a single goroutine writes   *)
(* the entries to the database, and main, once it is signalled, stops the  *)
(* background jobs, the HTTP server and the audit writer one after the     *)
(* other under a single deadline and closes the database.                  *)
(*                                                                         *)
(* req[r] is both the program counter of a request and the fate of its     *)
(* entry.  The queue server, the scheduler and the worker pool appear with *)
(* what main sees of them: each has come to rest at some time, or never    *)
(* does (their own modules say when).                                      *)
(***************************************************************************)
EXTENDS Naturals, Sequences

CONSTANTS
    Requests,
    Cap             \* the capacity of the channel, 1024 in the code

ASSUME CapAssumption == Cap \in Nat \ {0}

VARIABLES
    main,           \* where main is
    stops,          \* the background components it still has to stop
    drained,        \* the background components that have come to rest
    expired,        \* the shutdown context is done
    ch,             \* the channel's buffer
    closed,         \* the channel is closed
    writer,         \* where the writer goroutine is
    req,            \* where each request and its entry are
    forced,         \* history: srv.Shutdown ran into the deadline
    gaveUp          \* history: Wait ran into the deadline

vars == <<main, stops, drained, expired, ch, closed, writer, req, forced, gaveUp>>

Components == {"queue", "scheduler", "pool"}
MainStates == {"serving", "stopping", "shutdown", "flush", "waiting", "closing", "exiting",
               "exited", "fatal"}
WriterStates == {"receiving", "writing", "exited"}
ReqStates == {"new", "handling", "recording", "skipped", "panicked", "refused", "dropped",
              "queued", "writing", "written", "failed"}

\* Without background jobs nothing is stopped; the task queue is optional.
Configurations == {<<>>, <<"scheduler", "pool">>, <<"queue", "scheduler", "pool">>}

\* Goroutines run until main has returned or log.Fatal ends the process.
Up == main \notin {"exited", "fatal"}

\* The requests whose handlers are running.
Active == {r \in Requests : req[r] \in {"handling", "recording"}}

-----------------------------------------------------------------------------
(* The audit middleware and Record *)

SetReq(r, s) == req' = [req EXCEPT ![r] = s]

\* The server takes requests until Shutdown has seen every connection idle.
Arrive(r) ==
    /\ main \in {"serving", "stopping", "shutdown"}
    /\ req[r] = "new"
    /\ SetReq(r, "handling")
    /\ UNCHANGED <<main, stops, drained, expired, ch, closed, writer, forced, gaveUp>>

\* c.Next returns and the entry is built, unless the path is excluded, the
\* handler has called Skip or the limiter has refused the request.
HandlerReturns(r) ==
    /\ Up
    /\ req[r] = "handling"
    /\ SetReq(r, "recording") \/ SetReq(r, "skipped")
    /\ UNCHANGED <<main, stops, drained, expired, ch, closed, writer, forced, gaveUp>>

\* A panic passes the audit middleware by on its way to Recovery.
HandlerPanics(r) ==
    /\ Up
    /\ req[r] = "handling"
    /\ SetReq(r, "panicked")
    /\ UNCHANGED <<main, stops, drained, expired, ch, closed, writer, forced, gaveUp>>

\* A send on a closed channel panics, on a full one the entry is dropped.
Record(r) ==
    /\ Up
    /\ req[r] = "recording"
    /\ \/ closed /\ SetReq(r, "refused") /\ UNCHANGED ch
       \/ ~closed /\ Len(ch) = Cap /\ SetReq(r, "dropped") /\ UNCHANGED ch
       \/ ~closed /\ Len(ch) < Cap /\ SetReq(r, "queued") /\ ch' = Append(ch, r)
    /\ UNCHANGED <<main, stops, drained, expired, closed, writer, forced, gaveUp>>

-----------------------------------------------------------------------------
(* The writer goroutine *)

\* The next entry; on a closed database its INSERT fails at once.
Take ==
    /\ Up
    /\ writer = "receiving"
    /\ ch # <<>>
    /\ ch' = Tail(ch)
    /\ IF main = "exiting"
       THEN SetReq(Head(ch), "failed") /\ UNCHANGED writer
       ELSE SetReq(Head(ch), "writing") /\ writer' = "writing"
    /\ UNCHANGED <<main, stops, drained, expired, closed, forced, gaveUp>>

\* db.Create returns.
Written(r) ==
    /\ Up
    /\ req[r] = "writing"
    /\ SetReq(r, "written")
    /\ writer' = "receiving"
    /\ UNCHANGED <<main, stops, drained, expired, ch, closed, forced, gaveUp>>

WriteFailsAndReturns(r) ==
    /\ Up
    /\ req[r] = "writing"
    /\ SetReq(r, "failed")
    /\ writer' = "exited"
    /\ UNCHANGED <<main, stops, drained, expired, ch, closed, forced, gaveUp>>

\* An error is logged and the entry is lost.
WriteFails(r) ==
    /\ Up
    /\ req[r] = "writing"
    /\ SetReq(r, "failed")
    /\ writer' = "receiving"
    /\ UNCHANGED <<main, stops, drained, expired, ch, closed, forced, gaveUp>>

\* The range loop ends when the channel is closed and empty.
WriterExits ==
    /\ Up
    /\ writer = "receiving"
    /\ closed /\ ch = <<>>
    /\ writer' = "exited"
    /\ UNCHANGED <<main, stops, drained, expired, ch, closed, req, forced, gaveUp>>

-----------------------------------------------------------------------------
(* main *)

\* ListenAndServe returns an error of its own: log.Fatal.
ListenFails ==
    /\ main \in {"serving", "stopping"}
    /\ main' = "fatal"
    /\ UNCHANGED <<stops, drained, expired, ch, closed, writer, req, forced, gaveUp>>

\* SIGINT or SIGTERM; the deadline starts.
Signal ==
    /\ main = "serving"
    /\ main' = "stopping"
    /\ UNCHANGED <<stops, drained, expired, ch, closed, writer, req, forced, gaveUp>>

Expire ==
    /\ Up /\ main # "serving"
    /\ ~expired
    /\ expired' = TRUE
    /\ UNCHANGED <<main, stops, drained, ch, closed, writer, req, forced, gaveUp>>

Drain(c) ==
    /\ main = "stopping"
    /\ c \notin drained /\ \E i \in 1..Len(stops) : stops[i] = c
    /\ drained' = drained \cup {c}
    /\ UNCHANGED <<main, stops, expired, ch, closed, writer, req, forced, gaveUp>>

\* The stop of one component: the scheduler and the pool give up at the
\* deadline, the queue server does not look at it.
StopComponent ==
    /\ main = "stopping"
    /\ stops # <<>>
    /\ Head(stops) \in drained \/ (expired /\ Head(stops) # "queue")
    /\ stops' = Tail(stops)
    /\ UNCHANGED <<main, drained, expired, ch, closed, writer, req, forced, gaveUp>>

BeginShutdown ==
    /\ main = "stopping"
    /\ stops = <<>>
    /\ main' = "shutdown"
    /\ UNCHANGED <<stops, drained, expired, ch, closed, writer, req, forced, gaveUp>>

ShutdownAtOnce ==
    /\ main = "shutdown"
    /\ main' = "flush"
    /\ UNCHANGED <<stops, drained, expired, ch, closed, writer, req, forced, gaveUp>>

\* srv.Shutdown: every connection is idle.
ShutdownReturns ==
    /\ main = "shutdown"
    /\ Active = {}
    /\ main' = "flush"
    /\ UNCHANGED <<stops, drained, expired, ch, closed, writer, req, forced, gaveUp>>

\* The deadline comes first, and srv.Close does not wait for handlers.
ShutdownTimesOut ==
    /\ main = "shutdown"
    /\ expired
    /\ main' = "flush"
    /\ forced' = TRUE
    /\ UNCHANGED <<stops, drained, expired, ch, closed, writer, req, gaveUp>>

\* Wait: close(s.ch).
Wait ==
    /\ main = "flush"
    /\ closed' = TRUE
    /\ main' = "waiting"
    /\ UNCHANGED <<stops, drained, expired, ch, writer, req, forced, gaveUp>>

WaitUntilEmpty ==
    /\ main = "waiting"
    /\ ch = <<>>
    /\ main' = "closing"
    /\ UNCHANGED <<stops, drained, expired, ch, closed, writer, req, forced, gaveUp>>

WaitReturns ==
    /\ main = "waiting"
    /\ writer = "exited"
    /\ main' = "closing"
    /\ UNCHANGED <<stops, drained, expired, ch, closed, writer, req, forced, gaveUp>>

WaitTimesOutNever ==
    /\ main = "waiting"
    /\ expired /\ writer = "exited"
    /\ main' = "closing"
    /\ gaveUp' = TRUE
    /\ UNCHANGED <<stops, drained, expired, ch, closed, writer, req, forced>>

WaitTimesOut ==
    /\ main = "waiting"
    /\ expired
    /\ main' = "closing"
    /\ gaveUp' = TRUE
    /\ UNCHANGED <<stops, drained, expired, ch, closed, writer, req, forced>>

\* The deferred database.Close.
CloseDB ==
    /\ main = "closing"
    /\ main' = "exiting"
    /\ UNCHANGED <<stops, drained, expired, ch, closed, writer, req, forced, gaveUp>>

Exit ==
    /\ main = "exiting"
    /\ main' = "exited"
    /\ UNCHANGED <<stops, drained, expired, ch, closed, writer, req, forced, gaveUp>>

-----------------------------------------------------------------------------
Init ==
    /\ main = "serving"
    /\ stops \in Configurations
    /\ drained = {}
    /\ expired = FALSE
    /\ ch = <<>>
    /\ closed = FALSE
    /\ writer = "receiving"
    /\ req = [r \in Requests |-> "new"]
    /\ forced = FALSE
    /\ gaveUp = FALSE

Middleware(r) == Arrive(r) \/ HandlerReturns(r) \/ HandlerPanics(r) \/ Record(r)

WriterStep == Take \/ WriterExits \/ \E r \in Requests : Written(r) \/ WriteFails(r)

MainStep ==
    \/ StopComponent \/ BeginShutdown
    \/ ShutdownReturns \/ ShutdownTimesOut
    \/ Wait \/ WaitReturns \/ WaitTimesOut
    \/ CloseDB \/ Exit

Next ==
    \/ \E r \in Requests : Middleware(r)
    \/ WriterStep
    \/ \E c \in Components : Drain(c)
    \/ MainStep \/ Signal \/ Expire \/ ListenFails

Spec == Init /\ [][Next]_vars

\* main runs, the deadline expires, and the queue server has a time limit of its
\* own.  Handlers, jobs and the database may hang for ever.
FairSpec == Spec /\ WF_vars(MainStep) /\ WF_vars(Expire) /\ WF_vars(Drain("queue"))

\* What an available database adds.
DatabaseAnswers == WF_vars(WriterStep)

-----------------------------------------------------------------------------
ChannelOK ==
    /\ ch \in Seq(Requests) /\ Len(ch) <= Cap
    /\ \A i \in 1..Len(ch) : req[ch[i]] = "queued"
    /\ \A i, j \in 1..Len(ch) : ch[i] = ch[j] => i = j
    /\ \A r \in Requests : req[r] = "queued" => \E i \in 1..Len(ch) : ch[i] = r

WriterOK ==
    /\ \A r, s \in Requests : req[r] = "writing" /\ req[s] = "writing" => r = s
    /\ \A r \in Requests : req[r] = "writing" => writer = "writing"

\* Every variable has its type, the channel holds the queued entries, each
\* once and never more than its capacity, and the writer has at most one in hand.
TypeOK ==
    /\ main \in MainStates
    /\ stops \in Seq(Components)
    /\ drained \subseteq Components
    /\ ChannelOK
    /\ writer \in WriterStates
    /\ WriterOK
    /\ req \in [Requests -> ReqStates]
    /\ expired \in BOOLEAN /\ closed \in BOOLEAN
    /\ forced \in BOOLEAN /\ gaveUp \in BOOLEAN

\* Wait closes the channel only when no handler can send to it any more, unless
\* srv.Shutdown ran into the deadline: no request ends in a panic of Record
\* because of a shutdown that stays within its time.
RecordNeverPanics ==
    ~forced => /\ closed => Active = {}
               /\ \A r \in Requests : req[r] # "refused"

\* When main returns without having met the deadline in Shutdown or in Wait,
\* every request that was taken has ended and no entry is still in the channel
\* or in the writer's hands.
CleanExitIsComplete ==
    main = "exited" /\ ~forced /\ ~gaveUp =>
        \A r \in Requests :
            req[r] \notin {"handling", "recording", "queued", "writing", "refused"}

\* A signalled process ends, whatever handlers, jobs and the database do.
ShutdownEnds == main = "stopping" ~> ~Up

\* While the database answers, every entry in the channel is tried, also after
\* others have failed, until the process ends.
AcceptedEntriesAreTried ==
    DatabaseAnswers =>
        \A r \in Requests : req[r] = "queued" ~> req[r] \in {"written", "failed"} \/ ~Up
=============================================================================
