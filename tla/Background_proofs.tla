-------------------------- MODULE Background_proofs --------------------------
(***************************************************************************)
(* What runs behind the requests and how the process ends, for any number  *)
(* of requests, tasks, workers and jobs: the audit writer and main         *)
(* (Shutdown), the worker pool and the scheduler.  The three components    *)
(* share no state.                                                         *)
(***************************************************************************)
EXTENDS Shutdown, WorkerPool, Scheduler, SequenceTheorems, TLAPS

-----------------------------------------------------------------------------
(* The audit writer and the end of the process *)

\* What has happened by the time main has reached a place: the channel is
\* closed by Wait, handlers outlive Shutdown only when it was forced, and Wait
\* returns in time only after the writer has left.
PhaseOK ==
    /\ closed => main \in {"waiting", "closing", "exiting", "exited"}
    /\ main \in {"flush", "waiting", "closing", "exiting", "exited"} /\ ~forced => Active = {}
    /\ main \in {"closing", "exiting", "exited"} /\ ~gaveUp => writer = "exited"
    /\ ~forced => \A r \in Requests : req[r] # "refused"

\* The writer leaves an empty channel that nothing can be sent to.
WriterGone == writer = "exited" => closed /\ ch = <<>>

ShutdownInv == TypeOK /\ PhaseOK /\ WriterGone

-----------------------------------------------------------------------------
(* The channel *)

\* A state of a request that neither leaves nor enters the channel.
LEMMA ChannelKept ==
    ASSUME ChannelOK, UNCHANGED ch, req \in [Requests -> ReqStates],
           NEW r \in Requests, NEW s, s # "queued", req[r] # "queued",
           req' = [req EXCEPT ![r] = s]
    PROVE  ChannelOK'
BY DEF ChannelOK

LEMMA Enqueued ==
    ASSUME ChannelOK, Len(ch) < Cap, Cap \in Nat, req \in [Requests -> ReqStates],
           NEW r \in Requests, req[r] # "queued",
           req' = [req EXCEPT ![r] = "queued"], ch' = Append(ch, r)
    PROVE  ChannelOK'
<1>1. ch' \in Seq(Requests) /\ Len(ch') = Len(ch) + 1 /\ ch'[Len(ch) + 1] = r
  BY DEF ChannelOK
<1>2. \A i \in 1..Len(ch) : ch'[i] = ch[i] /\ ch[i] \in Requests /\ ch[i] # r
  BY DEF ChannelOK
<1>3. Len(ch) \in Nat
  BY DEF ChannelOK
<1>4. \A i \in 1..Len(ch') : req'[ch'[i]] = "queued"
  BY <1>1, <1>2, <1>3 DEF ChannelOK
<1>5. \A i, j \in 1..Len(ch') : ch'[i] = ch'[j] => i = j
  BY <1>1, <1>2, <1>3 DEF ChannelOK
<1>6. \A q \in Requests : req'[q] = "queued" => \E i \in 1..Len(ch') : ch'[i] = q
  BY <1>1, <1>2, <1>3, SMTT(30) DEF ChannelOK
<1>7. Len(ch') <= Cap
  BY <1>1, <1>3
<1> QED
  BY <1>1, <1>4, <1>5, <1>6, <1>7 DEF ChannelOK

LEMMA Dequeued ==
    ASSUME ChannelOK, ch # <<>>, Cap \in Nat, req \in [Requests -> ReqStates],
           NEW s, s # "queued", req' = [req EXCEPT ![Head(ch)] = s], ch' = Tail(ch)
    PROVE  ChannelOK' /\ Head(ch) \in Requests /\ req[Head(ch)] = "queued"
<1>1. Len(ch) \in Nat /\ Len(ch) # 0 /\ Head(ch) = ch[1] /\ Head(ch) \in Requests
  BY DEF ChannelOK
<1>2. ch' \in Seq(Requests) /\ Len(ch') = Len(ch) - 1
  BY <1>1 DEF ChannelOK
<1>3. \A i \in 1..Len(ch') : ch'[i] = ch[i + 1]
  BY <1>1, <1>2 DEF ChannelOK
<1>4. req[Head(ch)] = "queued"
  BY <1>1 DEF ChannelOK
<1>5. \A i \in 1..Len(ch') : i + 1 \in 1..Len(ch) /\ ch[i + 1] # Head(ch) /\ ch[i + 1] \in Requests
  BY <1>1, <1>2 DEF ChannelOK
<1>6. \A i \in 1..Len(ch') : req'[ch'[i]] = "queued"
  BY <1>3, <1>5 DEF ChannelOK
<1>7. \A i, j \in 1..Len(ch') : ch'[i] = ch'[j] => i = j
  <2> SUFFICES ASSUME NEW i \in 1..Len(ch'), NEW j \in 1..Len(ch'), ch'[i] = ch'[j] PROVE i = j
    OBVIOUS
  <2>1. i + 1 = j + 1
    BY <1>3, <1>5 DEF ChannelOK
  <2> QED
    BY <2>1, <1>1, <1>2
<1>8. \A q \in Requests : req'[q] = "queued" => \E i \in 1..Len(ch') : ch'[i] = q
  <2> SUFFICES ASSUME NEW q \in Requests, req'[q] = "queued" PROVE \E i \in 1..Len(ch') : ch'[i] = q
    OBVIOUS
  <2>1. q # Head(ch) /\ req[q] = "queued"
    BY <1>1
  <2>2. PICK k \in 1..Len(ch) : ch[k] = q
    BY <2>1 DEF ChannelOK
  <2>3. k # 1 /\ k - 1 \in 1..Len(ch') /\ (k - 1) + 1 = k
    BY <2>1, <2>2, <1>1, <1>2
  <2>4. ch'[k - 1] = q
    BY <2>2, <2>3, <1>3
  <2> QED
    BY <2>3, <2>4
<1>9. Len(ch') <= Cap
  BY <1>1, <1>2 DEF ChannelOK
<1> QED
  BY <1>1, <1>2, <1>4, <1>6, <1>7, <1>8, <1>9 DEF ChannelOK

-----------------------------------------------------------------------------
LEMMA InitInv == Init => ShutdownInv
<1> SUFFICES ASSUME Init PROVE ShutdownInv
  OBVIOUS
<1>1. stops \in Seq(Components)
  <2>1. <<>> \in Seq(Components)
    OBVIOUS
  <2>2. <<"scheduler", "pool">> \in Seq(Components)
    BY DEF Components
  <2>3. <<"queue", "scheduler", "pool">> \in Seq(Components)
    BY DEF Components
  <2> QED
    BY <2>1, <2>2, <2>3 DEF Init, Configurations
<1>2. ChannelOK /\ WriterOK
  BY CapAssumption DEF Init, ChannelOK, WriterOK
<1>3. TypeOK
  BY <1>1, <1>2 DEF Init, TypeOK, MainStates, WriterStates, ReqStates
<1>4. PhaseOK /\ WriterGone
  BY DEF Init, PhaseOK, WriterGone
<1> QED
  BY <1>3, <1>4 DEF ShutdownInv

\* The steps of the middleware.
LEMMA MiddlewareType ==
    ASSUME TypeOK, NEW r \in Requests, Middleware(r) PROVE TypeOK'
<1>0. Cap \in Nat /\ ChannelOK /\ WriterOK /\ req \in [Requests -> ReqStates]
  BY CapAssumption DEF TypeOK
<1>1. ASSUME NEW s \in ReqStates \ {"queued", "writing"}, req[r] # "queued", req[r] # "writing",
             req' = [req EXCEPT ![r] = s],
             UNCHANGED <<main, stops, drained, expired, ch, closed, writer, forced, gaveUp>>
      PROVE  TypeOK'
  <2>1. ChannelOK'
    BY <1>0, <1>1, ChannelKept
  <2>2. WriterOK'
    BY <1>0, <1>1 DEF WriterOK
  <2> QED
    BY <1>0, <1>1, <2>1, <2>2 DEF TypeOK
<1>2. CASE Arrive(r)
  BY <1>1, <1>2 DEF Arrive, SetReq, ReqStates
<1>3. CASE HandlerReturns(r)
  BY <1>1, <1>3 DEF HandlerReturns, SetReq, ReqStates
<1>4. CASE HandlerPanics(r)
  BY <1>1, <1>4 DEF HandlerPanics, SetReq, ReqStates
<1>5. CASE Record(r)
  <2>1. CASE req' = [req EXCEPT ![r] = "refused"] /\ UNCHANGED ch
    BY <1>1, <1>5, <2>1 DEF Record, ReqStates
  <2>2. CASE req' = [req EXCEPT ![r] = "dropped"] /\ UNCHANGED ch
    BY <1>1, <1>5, <2>2 DEF Record, ReqStates
  <2>3. CASE Len(ch) < Cap /\ req' = [req EXCEPT ![r] = "queued"] /\ ch' = Append(ch, r)
    <3>1. ChannelOK'
      BY <1>0, <1>5, <2>3, Enqueued DEF Record
    <3>2. WriterOK'
      BY <1>0, <1>5, <2>3 DEF Record, WriterOK
    <3> QED
      BY <1>0, <1>5, <2>3, <3>1, <3>2 DEF Record, TypeOK, ReqStates
  <2> QED
    BY <1>5, <2>1, <2>2, <2>3 DEF Record, SetReq
<1> QED
  BY <1>2, <1>3, <1>4, <1>5 DEF Middleware

\* The steps of the writer.
LEMMA WriterType == ASSUME TypeOK, WriterStep PROVE TypeOK'
<1>0. Cap \in Nat /\ ChannelOK /\ WriterOK /\ req \in [Requests -> ReqStates]
  BY CapAssumption DEF TypeOK
<1>1. CASE Take
  <2>1. Head(ch) \in Requests /\ req[Head(ch)] = "queued" /\ ChannelOK'
    <3>1. PICK s \in {"writing", "failed"} : req' = [req EXCEPT ![Head(ch)] = s]
      BY <1>1 DEF Take, SetReq
    <3> QED
      BY <1>0, <1>1, <3>1, Dequeued DEF Take
  <2>2. WriterOK' /\ req' \in [Requests -> ReqStates] /\ writer' \in WriterStates
    <3>1. \A r \in Requests : req[r] # "writing"
      BY <1>0, <1>1 DEF Take, WriterOK
    <3> QED
      BY <1>0, <1>1, <2>1, <3>1 DEF Take, SetReq, WriterOK, ReqStates, WriterStates, TypeOK
  <2> QED
    BY <1>1, <2>1, <2>2 DEF Take, TypeOK
<1>2. ASSUME NEW r \in Requests, Written(r) \/ WriteFails(r) PROVE TypeOK'
  <2>1. PICK s \in {"written", "failed"} : req' = [req EXCEPT ![r] = s]
    BY <1>2 DEF Written, WriteFails, SetReq
  <2>2. req[r] = "writing" /\ writer' = "receiving"
        /\ UNCHANGED <<main, stops, drained, expired, ch, closed, forced, gaveUp>>
    BY <1>2 DEF Written, WriteFails
  <2>3. ChannelOK'
    BY <1>0, <2>1, <2>2, ChannelKept
  <2>4. WriterOK'
    BY <1>0, <2>1, <2>2 DEF WriterOK
  <2> QED
    BY <1>0, <2>1, <2>2, <2>3, <2>4 DEF TypeOK, ReqStates, WriterStates
<1>3. CASE WriterExits
  <2>1. WriterOK'
    BY <1>0, <1>3 DEF WriterExits, WriterOK
  <2>2. ChannelOK'
    BY <1>0, <1>3 DEF WriterExits, ChannelOK
  <2> QED
    BY <1>3, <2>1, <2>2 DEF WriterExits, TypeOK, WriterStates
<1> QED
  BY <1>1, <1>2, <1>3 DEF WriterStep

\* The steps of main and of what it waits for leave the entries alone.
LEMMA MainType ==
    ASSUME TypeOK,
           MainStep \/ Signal \/ Expire \/ ListenFails \/ \E c \in Components : Drain(c)
    PROVE  TypeOK'
<1>1. UNCHANGED <<ch, writer, req>>
  BY DEF MainStep, StopComponent, BeginShutdown, ShutdownReturns, ShutdownTimesOut, Wait,
     WaitReturns,
         WaitTimesOut, CloseDB, Exit, Signal, Expire, ListenFails, Drain
<1>2. ChannelOK' /\ WriterOK'
  BY <1>1 DEF TypeOK, ChannelOK, WriterOK
<1>3. main' \in MainStates /\ drained' \subseteq Components
  BY DEF TypeOK, MainStates, MainStep, StopComponent, BeginShutdown, ShutdownReturns,
     ShutdownTimesOut,
         Wait, WaitReturns, WaitTimesOut, CloseDB, Exit, Signal, Expire, ListenFails, Drain
<1>4. stops' \in Seq(Components)
  <2>1. CASE StopComponent
    BY <2>1, HeadTailProperties DEF StopComponent, TypeOK
  <2>2. CASE UNCHANGED stops
    BY <2>2 DEF TypeOK
  <2> QED
    BY <2>1, <2>2 DEF MainStep, BeginShutdown, ShutdownReturns, ShutdownTimesOut,
         Wait, WaitReturns, WaitTimesOut, CloseDB, Exit, Signal, Expire, ListenFails, Drain
<1>5. expired' \in BOOLEAN /\ closed' \in BOOLEAN /\ forced' \in BOOLEAN /\ gaveUp' \in BOOLEAN
  BY Zenon
     DEF TypeOK, MainStep, StopComponent, BeginShutdown, ShutdownReturns, ShutdownTimesOut,
         Wait, WaitReturns, WaitTimesOut, CloseDB, Exit, Signal, Expire, ListenFails, Drain
<1> QED
  BY <1>1, <1>2, <1>3, <1>4, <1>5 DEF TypeOK

LEMMA TypeStep == TypeOK /\ [Next]_vars => TypeOK'
<1> SUFFICES ASSUME TypeOK, [Next]_vars PROVE TypeOK'
  OBVIOUS
<1>1. CASE UNCHANGED vars
  BY <1>1 DEF vars, TypeOK, ChannelOK, WriterOK
<1> QED
  BY <1>1, MiddlewareType, WriterType, MainType DEF Next

LEMMA WriterGoneStep == ShutdownInv /\ [Next]_vars => WriterGone'
<1> SUFFICES ASSUME ShutdownInv, [Next]_vars, writer' = "exited" PROVE closed' /\ ch' = <<>>
  BY DEF WriterGone
<1>1. CASE WriterExits
  BY <1>1 DEF WriterExits
<1>2. CASE Take
  BY <1>2 DEF Take, ShutdownInv, WriterGone
<1>3. CASE UNCHANGED writer
  <2>1. writer = "exited" /\ closed /\ ch = <<>>
    BY <1>3 DEF ShutdownInv, WriterGone
  <2>2. closed'
    BY <2>1 DEF Next, vars, Middleware, Arrive, HandlerReturns, HandlerPanics, Record,
       WriterStep, Take,
         Written, WriteFails, WriterExits, MainStep, StopComponent, BeginShutdown, ShutdownReturns,
         ShutdownTimesOut, Wait, WaitReturns, WaitTimesOut, CloseDB, Exit, Signal, Expire,
            ListenFails, Drain
  <2>3. ch' = <<>>
    BY <2>1 DEF Next, vars, Middleware, Arrive, HandlerReturns, HandlerPanics, Record,
       WriterStep, Take,
         Written, WriteFails, WriterExits, MainStep, StopComponent, BeginShutdown, ShutdownReturns,
         ShutdownTimesOut, Wait, WaitReturns, WaitTimesOut, CloseDB, Exit, Signal, Expire,
            ListenFails, Drain
  <2> QED
    BY <2>2, <2>3
<1>4. ASSUME NEW r \in Requests, Written(r) \/ WriteFails(r) PROVE FALSE
  BY <1>4 DEF Written, WriteFails
<1> QED
  BY <1>1, <1>2, <1>3, <1>4
     DEF Next, vars, Middleware, Arrive, HandlerReturns, HandlerPanics, Record, WriterStep,
        MainStep,
         StopComponent, BeginShutdown, ShutdownReturns, ShutdownTimesOut, Wait, WaitReturns,
            WaitTimesOut,
         CloseDB, Exit, Signal, Expire, ListenFails, Drain

LEMMA PhaseStep == ShutdownInv /\ [Next]_vars => PhaseOK'
<1> SUFFICES ASSUME ShutdownInv, [Next]_vars PROVE PhaseOK'
  OBVIOUS
<1>0. TypeOK /\ PhaseOK /\ req \in [Requests -> ReqStates]
  BY DEF ShutdownInv, TypeOK
<1>1. ASSUME NEW r \in Requests, Middleware(r) PROVE PhaseOK'
  <2>1. UNCHANGED <<main, closed, writer, forced, gaveUp>>
    BY <1>1 DEF Middleware, Arrive, HandlerReturns, HandlerPanics, Record
  <2>2. Arrive(r) \/ Active' \subseteq Active
    BY <1>0, <1>1 DEF Middleware, HandlerReturns, HandlerPanics, Record, SetReq, Active
  <2>3. Arrive(r) => main \in {"serving", "stopping", "shutdown"}
    BY DEF Arrive
  <2>4. ~forced => \A q \in Requests : req'[q] # "refused"
    <3>1. CASE Record(r)
      <4>1. r \in Active
        BY <3>1 DEF Record, Active
      <4> QED
        BY <1>0, <3>1, <4>1 DEF Record, SetReq, PhaseOK
    <3> QED
      BY <1>0, <1>1, <3>1 DEF Middleware, Arrive, HandlerReturns, HandlerPanics, SetReq, PhaseOK
  <2> QED
    BY <1>0, <2>1, <2>2, <2>3, <2>4 DEF PhaseOK
<1>2. CASE WriterStep
  <2>1. UNCHANGED <<main, closed, forced, gaveUp>>
    BY <1>2 DEF WriterStep, Take, WriterExits, Written, WriteFails
  <2>2. Active' = Active /\ \A q \in Requests : req'[q] = "refused" => req[q] = "refused"
    <3>1. CASE Take
      <4>1. Head(ch) \in Requests /\ req[Head(ch)] = "queued"
        BY <1>0, <3>1 DEF Take, TypeOK, ChannelOK
      <4> QED
        BY <1>0, <3>1, <4>1 DEF Take, SetReq, Active
    <3>2. ASSUME NEW r \in Requests, Written(r) \/ WriteFails(r)
          PROVE  Active' = Active /\ \A q \in Requests : req'[q] = "refused" => req[q] = "refused"
      BY <1>0, <3>2 DEF Written, WriteFails, SetReq, Active
    <3>3. CASE WriterExits
      BY <3>3 DEF WriterExits, Active
    <3> QED
      BY <1>2, <3>1, <3>2, <3>3 DEF WriterStep
  <2>3. writer = "exited" => writer' = "exited"
    BY <1>0, <1>2 DEF WriterStep, Take, WriterExits, Written, WriteFails, TypeOK, WriterOK
  <2> QED
    BY <1>0, <2>1, <2>2, <2>3 DEF PhaseOK
<1>3. CASE \E c \in Components : Drain(c)
  BY <1>0, <1>3 DEF Drain, PhaseOK, Active
<1>4. CASE MainStep
  <2>1. CASE StopComponent \/ BeginShutdown
    BY <1>0, <2>1 DEF StopComponent, BeginShutdown, PhaseOK, Active
  <2>2. CASE ShutdownReturns \/ ShutdownTimesOut
    BY <1>0, <2>2 DEF ShutdownReturns, ShutdownTimesOut, PhaseOK, Active
  <2>3. CASE Wait \/ WaitReturns \/ WaitTimesOut
    BY <1>0, <2>3 DEF Wait, WaitReturns, WaitTimesOut, PhaseOK, Active
  <2>4. CASE CloseDB \/ Exit
    BY <1>0, <2>4 DEF CloseDB, Exit, PhaseOK, Active
  <2> QED
    BY <1>4, <2>1, <2>2, <2>3, <2>4 DEF MainStep
<1>5. CASE Signal \/ Expire \/ ListenFails
  BY <1>0, <1>5 DEF Signal, Expire, ListenFails, PhaseOK, Active
<1>6. CASE UNCHANGED vars
  BY <1>0, <1>6 DEF vars, PhaseOK, Active
<1> QED
  BY <1>1, <1>2, <1>3, <1>4, <1>5, <1>6 DEF Next

LEMMA Invariance == Spec => []ShutdownInv
<1>1. ShutdownInv /\ [Next]_vars => ShutdownInv'
  BY TypeStep, PhaseStep, WriterGoneStep DEF ShutdownInv
<1> QED
  BY <1>1, InitInv, PTL DEF Spec

-----------------------------------------------------------------------------
\* For any number of requests and any capacity the channel holds exactly the
\* queued entries, and the single writer has at most one in hand.
THEOREM ShutdownTypeCorrect == Spec => []TypeOK
<1>1. ShutdownInv => TypeOK
  BY DEF ShutdownInv
<1> QED
  BY <1>1, Invariance, PTL

\* Because main flushes the audit log after the HTTP server has drained, Record
\* can meet the closed channel only after a Shutdown that ran into its deadline.
THEOREM RecordsBeforeClose == Spec => []RecordNeverPanics
<1>1. ShutdownInv => RecordNeverPanics
  BY DEF ShutdownInv, PhaseOK, RecordNeverPanics
<1> QED
  BY <1>1, Invariance, PTL

\* A shutdown within its time leaves no audit entry behind.
THEOREM CleanExit == Spec => []CleanExitIsComplete
<1>1. ShutdownInv => CleanExitIsComplete
  <2> SUFFICES ASSUME ShutdownInv, main = "exited", ~forced, ~gaveUp, NEW r \in Requests
               PROVE req[r] \notin {"handling", "recording", "queued", "writing", "refused"}
    BY DEF CleanExitIsComplete
  <2>1. writer = "exited" /\ ch = <<>> /\ Active = {} /\ req[r] # "refused"
    BY DEF ShutdownInv, PhaseOK, WriterGone
  <2>2. req[r] # "queued"
    BY <2>1 DEF ShutdownInv, TypeOK, ChannelOK
  <2>3. req[r] # "writing"
    BY <2>1 DEF ShutdownInv, TypeOK, WriterOK
  <2> QED
    BY <2>1, <2>2, <2>3 DEF Active
<1> QED
  BY <1>1, Invariance, PTL

-----------------------------------------------------------------------------
(* The worker pool.  PoolInv is inductive: the accounting of tasks needs the *)
(* worker states and the accounting of the channel at the same time, and     *)
(* what Stop loses follows from the order in which the channel keeps tasks.  *)

\* Stop only leaves "no" by cancelling the pool context, with all workers up.
StopHasStarted == stop # "no" => \A w \in Workers : worker[w] # "down"

\* wg.Wait has returned only after every worker has left.
StoppedPoolIsQuiet == stop = "stopped" => \A w \in Workers : worker[w] = "exited"

\* How many of the accepted tasks a worker has taken.
Taken == Len(accepted) - Len(queue)

\* The channel holds the last of the accepted tasks, in their order; a worker has
\* begun all the others.
AcceptedInOrder ==
    /\ Len(queue) <= Len(accepted)
    /\ \A i \in 1..Len(queue) : queue[i] = accepted[Taken + i]
    /\ \A i \in 1..Taken : task[accepted[i]] \in {"running", "finished"}

PoolInv ==
    /\ PoolTypeOK
    /\ OneHomePerTask /\ StoppedPoolIsQuiet /\ StopHasStarted
    /\ AcceptedInOrder

USE PoolAssumption DEF WorkerStates, TaskStates, StopStates

\* The pool bootstrap builds satisfies the invariant.
LEMMA PoolInitOK == PoolInit => PoolInv
<1> SUFFICES ASSUME PoolInit PROVE PoolInv
  OBVIOUS
<1>0. cancelled \in BOOLEAN
  BY Zenon DEF PoolInit
<1>1. PoolTypeOK /\ StoppedPoolIsQuiet /\ StopHasStarted
  <2>1. queue \in Seq(Tasks) /\ Len(queue) <= queueSize /\ queueSize \in QueueSizes
    BY DEF PoolInit
  <2>2. /\ worker \in [Workers -> WorkerStates]
        /\ current \in [Workers -> Tasks \cup {NoTask}]
        /\ task \in [Tasks -> TaskStates] /\ stop \in StopStates /\ stop = "no"
    BY Zenon DEF PoolInit
  <2>3. accepted \in Seq(Tasks)
    BY DEF PoolInit
  <2> QED BY <1>0, <2>1, <2>2, <2>3 DEF PoolTypeOK, StoppedPoolIsQuiet, StopHasStarted
<1>2. Len(queue) = 0 /\ Len(accepted) = 0
  BY DEF PoolInit
<1>3. OneHomePerTask
  BY <1>2 DEF PoolInit, OneHomePerTask
<1>4. AcceptedInOrder
  BY <1>2 DEF AcceptedInOrder, Taken
<1> QED
  BY <1>1, <1>3, <1>4 DEF PoolInv

\* A caller that moves without touching the channel.
LEMMA CallerStep ==
    ASSUME PoolInv, NEW t \in Tasks, NEW s \in {"checked", "blocked", "refused"},
           task[t] \in {"new", "checked", "blocked"}, SetTask(t, s),
           UNCHANGED <<queueSize, cancelled, queue, worker, current, stop, accepted>>
    PROVE  PoolInv'
<1>1. AcceptedInOrder'
  BY DEF PoolInv, PoolTypeOK, AcceptedInOrder, Taken, SetTask
<1> QED
  BY <1>1 DEF PoolInv, PoolTypeOK, OneHomePerTask, StoppedPoolIsQuiet, StopHasStarted,
     SetTask

\* A send, to the buffer or straight to a waiting worker.
LEMMA SendStep ==
    ASSUME PoolInv, NEW t \in Tasks, task[t] \in {"checked", "blocked"}, Send(t),
           UNCHANGED <<queueSize, cancelled, stop>>
    PROVE  PoolInv'
<1> USE DEF PoolInv
<1>a. accepted' = Append(accepted, t)
  BY DEF Send
<1>b. /\ accepted' \in Seq(Tasks) /\ Len(accepted) \in Nat /\ Len(accepted') = Len(accepted) + 1
      /\ accepted'[Len(accepted) + 1] = t
      /\ \A i \in 1..Len(accepted) : accepted'[i] = accepted[i] /\ accepted[i] \in Tasks
      /\ Len(queue) \in Nat
  BY <1>a DEF PoolTypeOK
<1>1. CASE /\ Len(queue) < queueSize /\ queue' = Append(queue, t) /\ SetTask(t, "queued")
           /\ UNCHANGED <<worker, current>>
  <2>1. PoolTypeOK' /\ StoppedPoolIsQuiet' /\ StopHasStarted'
    BY <1>1, <1>b DEF PoolTypeOK, StoppedPoolIsQuiet, StopHasStarted, SetTask
  <2>2. /\ Len(queue') = Len(queue) + 1 /\ queue'[Len(queue) + 1] = t
        /\ \A i \in 1..Len(queue) : queue'[i] = queue[i]
        /\ Len(queue) \in Nat
    BY <1>1 DEF PoolTypeOK
  <2>3. \A i \in 1..Len(queue) : queue[i] # t
    BY DEF OneHomePerTask
  <2>4. OneHomePerTask'
    <3>1. \A x \in Tasks : task'[x] = IF x = t THEN "queued" ELSE task[x]
      BY <1>1 DEF SetTask, PoolTypeOK
    <3>2. \A i, j \in 1..Len(queue') : queue'[i] = queue'[j] => i = j
      BY <2>2, <2>3 DEF OneHomePerTask
    <3>3. ASSUME NEW x \in Tasks
          PROVE  (\E i \in 1..Len(queue') : queue'[i] = x)
                 <=> x = t \/ \E i \in 1..Len(queue) : queue[i] = x
      <4>1. Len(queue') \in 1..Len(queue') /\ 1..Len(queue) \subseteq 1..Len(queue')
        BY <2>2
      <4>2. \A i \in 1..Len(queue') : i \in 1..Len(queue) \/ i = Len(queue')
        BY <2>2
      <4>3. queue'[Len(queue')] = t
        BY <2>2
      <4> QED BY <2>2, <4>1, <4>2, <4>3, Zenon
    <3>4. \A x \in Tasks : task'[x] = "queued" <=> \E i \in 1..Len(queue') : queue'[i] = x
      BY <3>1, <3>3 DEF OneHomePerTask
    <3>5. \A x \in Tasks : task'[x] = "running" <=> \E w \in Workers : current'[w] = x
      BY <1>1, <3>1 DEF OneHomePerTask
    <3> QED BY <1>1, <3>2, <3>4, <3>5 DEF OneHomePerTask
  <2>5. AcceptedInOrder'
    <3>1. Taken' = Taken /\ Len(queue') <= Len(accepted') /\ Taken \in 0..Len(accepted)
      BY <1>b, <2>2 DEF AcceptedInOrder, Taken
    <3>2. ASSUME NEW i \in 1..Len(queue') PROVE queue'[i] = accepted'[Taken + i]
      <4>1. CASE i \in 1..Len(queue)
        <5>1. Taken + i \in 1..Len(accepted)
          BY <1>b, <3>1, <4>1 DEF Taken
        <5>2. queue[i] = accepted[Taken + i]
          BY <4>1 DEF AcceptedInOrder
        <5> QED BY <1>b, <2>2, <4>1, <5>1, <5>2
      <4>2. CASE i = Len(queue) + 1
        BY <1>b, <2>2, <4>2 DEF Taken
      <4> QED BY <2>2, <4>1, <4>2
    <3>3. \A i \in 1..Taken : /\ accepted'[i] = accepted[i] /\ accepted[i] \in Tasks
                               /\ task[accepted[i]] \in {"running", "finished"}
      BY <1>b, <3>1 DEF AcceptedInOrder
    <3>4. \A x \in Tasks : x # t => task'[x] = task[x]
      BY <1>1 DEF PoolTypeOK, SetTask
    <3>5. \A i \in 1..Taken : task'[accepted'[i]] \in {"running", "finished"}
      BY <3>3, <3>4
    <3> QED BY <3>1, <3>2, <3>5 DEF AcceptedInOrder
  <2> QED BY <2>1, <2>4, <2>5
<1>2. ASSUME NEW w \in Workers, worker[w] = "select",
             worker' = [worker EXCEPT ![w] = "running"],
             current' = [current EXCEPT ![w] = t],
             SetTask(t, "running"), UNCHANGED queue, queueSize = 0
      PROVE  PoolInv'
  <2>1. PoolTypeOK' /\ StopHasStarted' /\ StoppedPoolIsQuiet'
    BY <1>2, <1>b DEF PoolTypeOK, StopHasStarted, StoppedPoolIsQuiet, SetTask
  <2>2. current[w] = NoTask /\ \A v \in Workers : current[v] # t
    BY <1>2 DEF PoolTypeOK, OneHomePerTask
  <2>3. OneHomePerTask'
    BY <1>2, <2>2 DEF OneHomePerTask, PoolTypeOK, SetTask
  <2>4. AcceptedInOrder'
    <3>1. Len(queue) = 0
      BY <1>2, <1>b DEF PoolTypeOK
    <3>2. Taken = Len(accepted) /\ Taken' = Len(accepted) + 1 /\ Len(queue') = 0
      BY <1>2, <1>b, <3>1 DEF Taken
    <3>3. \A i \in 1..Taken' : task'[accepted'[i]] \in {"running", "finished"}
      BY <1>2, <1>b, <3>2 DEF AcceptedInOrder, PoolTypeOK, SetTask
    <3> QED BY <1>b, <3>2, <3>3 DEF AcceptedInOrder
  <2> QED BY <2>1, <2>3, <2>4
<1> QED
  BY <1>1, <1>2 DEF Send

\* A worker takes the task at the head of the channel.
LEMMA ReceiveStep ==
    ASSUME PoolInv, NEW w \in Workers, Receive(w) PROVE PoolInv'
<1> USE DEF PoolInv
<1> DEFINE t == Head(queue)
<1>1. /\ t \in Tasks /\ t = queue[1] /\ Len(queue) \in Nat /\ Len(queue) > 0
      /\ task[t] = "queued" /\ current[w] = NoTask
      /\ \A v \in Workers : current[v] # t
  BY DEF Receive, PoolTypeOK, OneHomePerTask
<1>2. /\ queue' \in Seq(Tasks) /\ Len(queue') = Len(queue) - 1
      /\ \A i \in 1..Len(queue') : queue'[i] = queue[i + 1]
  BY <1>1 DEF Receive, PoolTypeOK
<1>3. PoolTypeOK' /\ StoppedPoolIsQuiet' /\ StopHasStarted'
  BY <1>1, <1>2 DEF Receive, PoolTypeOK, StoppedPoolIsQuiet, StopHasStarted, SetTask
<1>4. \A x \in Tasks : (\E i \in 1..Len(queue') : queue'[i] = x)
                        <=> x # t /\ \E i \in 1..Len(queue) : queue[i] = x
  <2>1. \A i \in 1..Len(queue) : i = 1 \/ i - 1 \in 1..Len(queue')
    BY <1>1, <1>2
  <2>2. \A i \in 1..Len(queue') : i + 1 \in 1..Len(queue) /\ queue[i + 1] # t
    BY <1>1, <1>2 DEF OneHomePerTask
  <2>3. \A i \in 1..Len(queue) : i # 1 => queue'[i - 1] = queue[i]
    BY <1>1, <1>2, <2>1
  <2>4. ASSUME NEW x \in Tasks, NEW i \in 1..Len(queue'), queue'[i] = x
        PROVE  x # t /\ \E k \in 1..Len(queue) : queue[k] = x
    BY <1>2, <2>2, <2>4
  <2>5. ASSUME NEW x \in Tasks, x # t, NEW i \in 1..Len(queue), queue[i] = x
        PROVE  \E k \in 1..Len(queue') : queue'[k] = x
    <3>1. i # 1
      BY <1>1, <2>5
    <3> QED BY <2>1, <2>3, <2>5, <3>1
  <2> QED BY <2>4, <2>5
<1>5. OneHomePerTask'
  <2>1. /\ task' = [task EXCEPT ![t] = "running"]
        /\ worker' = [worker EXCEPT ![w] = "running"]
        /\ current' = [current EXCEPT ![w] = t]
    BY DEF Receive, SetTask
  <2>2. \A i, j \in 1..Len(queue') : queue'[i] = queue'[j] => i = j
    <3>1. \A i \in 1..Len(queue') : i + 1 \in 1..Len(queue) /\ i \in Nat
      BY <1>1, <1>2
    <3>2. \A i, j \in 1..Len(queue') : queue'[i] = queue'[j] => i + 1 = j + 1
      BY <1>2, <3>1 DEF OneHomePerTask
    <3> QED BY <3>1, <3>2
  <2>3. \A x \in Tasks : task'[x] = "queued" <=> \E i \in 1..Len(queue') : queue'[i] = x
    <3>1. t \in Tasks /\ \A x \in Tasks : task'[x] = IF x = t THEN "running" ELSE task[x]
      BY <1>1, <2>1 DEF PoolTypeOK
    <3>2. \A x \in Tasks : task[x] = "queued" <=> \E i \in 1..Len(queue) : queue[i] = x
      BY DEF OneHomePerTask
    <3> QED BY <1>4, <3>1, <3>2
  <2>4. \A x \in Tasks : task'[x] = "running" <=> \E v \in Workers : current'[v] = x
    BY <1>1, <2>1 DEF OneHomePerTask, PoolTypeOK
  <2>5. /\ \A v, u \in Workers : current'[v] = current'[u] /\ current'[v] # NoTask => v = u
        /\ \A v \in Workers : worker'[v] = "running" <=> current'[v] # NoTask
    BY <1>1, <2>1 DEF OneHomePerTask, PoolTypeOK
  <2> QED
    BY <1>1, <1>2, <2>2, <2>3, <2>4, <2>5 DEF OneHomePerTask
<1>6. AcceptedInOrder'
  <2>1. /\ UNCHANGED accepted /\ Len(accepted) \in Nat
        /\ \A i \in 1..Len(accepted) : accepted[i] \in Tasks
        /\ task' = [task EXCEPT ![t] = "running"]
    BY DEF Receive, SetTask, PoolTypeOK
  <2>2. Taken \in Nat /\ Taken' = Taken + 1 /\ Taken + 1 <= Len(accepted)
        /\ Len(queue') <= Len(accepted')
    BY <1>1, <1>2, <2>1 DEF AcceptedInOrder, Taken
  <2>3. accepted[Taken + 1] = t
    BY <1>1 DEF AcceptedInOrder
  <2>4. \A i \in 1..Len(queue') : queue'[i] = accepted[Taken' + i]
    BY <1>1, <1>2, <2>2 DEF AcceptedInOrder
  <2>5. \A i \in 1..Taken' : task'[accepted[i]] \in {"running", "finished"}
    BY <1>1, <2>1, <2>2, <2>3 DEF AcceptedInOrder, PoolTypeOK
  <2> QED BY <2>1, <2>2, <2>4, <2>5 DEF AcceptedInOrder
<1> QED
  BY <1>3, <1>5, <1>6

\* A task ends, by return, error or recovered panic.
LEMMA RunEndStep ==
    ASSUME PoolInv, NEW w \in Workers, TaskEnd(w) PROVE PoolInv'
<1> USE DEF PoolInv
<1>1. current[w] \in Tasks /\ task[current[w]] = "running"
  BY DEF TaskEnd, PoolTypeOK, OneHomePerTask
<1>2. PoolTypeOK' /\ StoppedPoolIsQuiet' /\ StopHasStarted'
  BY <1>1 DEF TaskEnd, PoolTypeOK, StoppedPoolIsQuiet, StopHasStarted, SetTask
<1>3. OneHomePerTask'
  BY <1>1 DEF TaskEnd, PoolTypeOK, OneHomePerTask, SetTask
<1>4. AcceptedInOrder'
  <2>1. UNCHANGED <<queue, accepted, Taken>>
    BY DEF TaskEnd, Taken
  <2>2. \A x \in Tasks : task'[x] = IF x = current[w] THEN "finished" ELSE task[x]
    BY DEF TaskEnd, SetTask, PoolTypeOK
  <2>3. \A i \in 1..Taken : accepted[i] \in Tasks
    BY DEF PoolTypeOK, AcceptedInOrder, Taken
  <2>4. \A i \in 1..Taken : task'[accepted[i]] \in {"running", "finished"}
    BY <2>2, <2>3 DEF AcceptedInOrder
  <2> QED BY <2>1, <2>4 DEF AcceptedInOrder
<1> QED
  BY <1>2, <1>3, <1>4

\* Every step preserves the invariant.
LEMMA PoolNextOK == PoolInv /\ [PoolNext]_poolVars => PoolInv'
<1> SUFFICES ASSUME PoolInv, [PoolNext]_poolVars PROVE PoolInv'
  OBVIOUS
<1>1. CASE PoolStart
  <2>1. stop = "no" \/ Workers = {}
    BY <1>1 DEF PoolStart, PoolInv, StopHasStarted
  <2> QED
    BY <1>1, <2>1 DEF PoolStart, PoolInv, PoolTypeOK, OneHomePerTask,
       StoppedPoolIsQuiet, StopHasStarted, AcceptedInOrder, Taken
<1>2. CASE PoolStop \/ PoolStopReturns \/ PoolStopTimesOut
  <2>0. cancelled' \in BOOLEAN
    BY <1>2, Zenon DEF PoolStop, PoolStopReturns, PoolStopTimesOut, PoolInv, PoolTypeOK
  <2>1. stop' \in StopStates /\ UNCHANGED <<queueSize, queue, worker, current, task, accepted>>
    BY <1>2 DEF PoolStop, PoolStopReturns, PoolStopTimesOut
  <2>2. PoolTypeOK' /\ OneHomePerTask' /\ AcceptedInOrder'
    BY <2>0, <2>1 DEF PoolInv, PoolTypeOK, OneHomePerTask, AcceptedInOrder, Taken
  <2>3. StoppedPoolIsQuiet' /\ StopHasStarted'
    BY <1>2, <2>1 DEF PoolStop, PoolStopReturns, PoolStopTimesOut, PoolInv,
       StoppedPoolIsQuiet, StopHasStarted
  <2> QED BY <2>2, <2>3 DEF PoolInv
<1>3. ASSUME NEW t \in Tasks,
             \/ Submit(t) \/ SubmitBlocking(t)
             \/ BlockingTimeout(t) \/ BlockingStopped(t)
             \/ SubmitSend(t) /\ ~CanSend
      PROVE PoolInv'
  BY <1>3, CallerStep
  DEF Submit, SubmitBlocking, BlockingTimeout, BlockingStopped, SubmitSend
<1>4. ASSUME NEW t \in Tasks, BlockingSend(t) \/ (SubmitSend(t) /\ CanSend)
   PROVE PoolInv'
  BY <1>4, SendStep DEF BlockingSend, SubmitSend
<1>5. ASSUME NEW w \in Workers, WorkerExit(w) PROVE PoolInv'
  BY <1>5 DEF WorkerExit, PoolInv, PoolTypeOK, OneHomePerTask, StoppedPoolIsQuiet,
     StopHasStarted, AcceptedInOrder, Taken
<1>6. CASE UNCHANGED poolVars
  BY <1>6 DEF poolVars, PoolInv, PoolTypeOK, OneHomePerTask, StoppedPoolIsQuiet,
     StopHasStarted, AcceptedInOrder, Taken
<1> QED
  BY <1>1, <1>2, <1>3, <1>4, <1>5, <1>6, ReceiveStep, RunEndStep DEF PoolNext

\* The channel never holds more than its capacity, and every goroutine is in one
\* of the states of the code.
THEOREM PoolTypeCorrect == PoolSpec => []PoolTypeOK
<1>1. PoolInv => PoolTypeOK
  BY DEF PoolInv
<1> QED
  BY <1>1, PoolInitOK, PoolNextOK, PTL DEF PoolSpec

\* Tasks are neither duplicated nor lost between callers, channel and workers.
THEOREM PoolAccounting == PoolSpec => []OneHomePerTask
<1>1. PoolInv => OneHomePerTask
  BY DEF PoolInv
<1> QED
  BY <1>1, PoolInitOK, PoolNextOK, PTL DEF PoolSpec

\* A Stop in time loses at most the contents of the channel, and those are the
\* last tasks that were accepted: for any number of tasks, callers and workers and
\* any capacity.
THEOREM StopLosesTheLast == PoolSpec => []StopLosesOnlyTheLast
<1>1. PoolInv => StopLosesOnlyTheLast
  <2> SUFFICES ASSUME PoolInv, stop = "stopped"
               PROVE  /\ Taken \in 0..Len(accepted)
                      /\ Len(accepted) - Taken <= queueSize
                      /\ \A i \in 1..Taken : task[accepted[i]] = "finished"
                      /\ \A i \in (Taken + 1)..Len(accepted) : task[accepted[i]] = "queued"
    BY DEF StopLosesOnlyTheLast
  <2>0. /\ accepted \in Seq(Tasks) /\ queue \in Seq(Tasks) /\ queueSize \in QueueSizes
        /\ Len(queue) <= Len(accepted) /\ Len(queue) <= queueSize
    BY DEF PoolInv, PoolTypeOK, AcceptedInOrder
  <2>1. /\ Len(accepted) \in Nat /\ Len(queue) \in Nat /\ queueSize \in Nat
        /\ Len(queue) <= Len(accepted) /\ Len(queue) <= queueSize
        /\ \A i \in 1..Len(accepted) : accepted[i] \in Tasks
    BY <2>0
  <2>2. Taken \in 0..Len(accepted) /\ Len(accepted) - Taken <= queueSize
    BY <2>1 DEF Taken
  <2>3. \A t \in Tasks : task[t] # "running"
    <3>1. \A w \in Workers : current[w] = NoTask
      BY DEF PoolInv, StoppedPoolIsQuiet, OneHomePerTask
    <3> QED BY <3>1 DEF PoolInv, OneHomePerTask
  <2>4. \A i \in 1..Taken : task[accepted[i]] = "finished"
    BY <2>1, <2>2, <2>3 DEF PoolInv, AcceptedInOrder
  <2>5. ASSUME NEW i \in (Taken + 1)..Len(accepted) PROVE task[accepted[i]] = "queued"
    <3>1. i - Taken \in 1..Len(queue) /\ Taken + (i - Taken) = i
      BY <2>1, <2>2 DEF Taken
    <3>2. queue[i - Taken] = accepted[i]
      BY <3>1 DEF PoolInv, AcceptedInOrder
    <3>3. accepted[i] \in Tasks
      BY <2>1, <2>2
    <3> QED BY <3>1, <3>2, <3>3 DEF PoolInv, OneHomePerTask
  <2> QED BY <2>2, <2>4, <2>5
<1> QED
  BY <1>1, PoolInitOK, PoolNextOK, PTL DEF PoolSpec

-----------------------------------------------------------------------------
(* The scheduler: an interval job has one goroutine, and a Stop that did not *)
(* time out leaves nothing running.                                          *)

HIDE PoolAssumption DEF WorkerStates, TaskStates, StopStates
USE OverlapAssumption

\* What the goroutine of a job can be doing, given how the job was registered
\* and how far Start has come.
LoopOK(j) ==
    /\ spawns[j] <= 1
    /\ loop[j] \in {"none", "prepared"} => spawns[j] = 0
    /\ kind[j] \in {"none", "cron"} \/ phase = "new" => loop[j] = "none"
    /\ j \in toSpawn => loop[j] = "none"
    /\ j \in intervals => loop[j] # "prepared"
    /\ Started /\ j \in intervals /\ j \notin toSpawn => spawns[j] = 1

LoopsOK == \A j \in Jobs : LoopOK(j)

\* What has happened by the time main has reached a phase.
SchedPhaseOK ==
    /\ phase # "spawning" => toSpawn = {}
    /\ phase \in {"wgDone", "clean"} => Alive \subseteq late
    /\ phase = "clean" => \A j \in Jobs : active[j] = 0

SchedulerInv == SchedulerTypeOK /\ LoopsOK /\ SchedPhaseOK

LEMMA SchedInitOK == SchedulerInit => SchedulerInv
BY DEF SchedulerInit, SchedulerInv, SchedulerTypeOK, LoopsOK, LoopOK, SchedPhaseOK, Phases,
   Kinds, LoopStates, Started, Alive

\* The steps that leave the types in order.
LEMMA SchedTypeStep ==
    SchedulerInv /\ [SchedulerNext]_schedulerVars => SchedulerTypeOK'
<1> SUFFICES ASSUME SchedulerInv, [SchedulerNext]_schedulerVars PROVE SchedulerTypeOK'
  OBVIOUS
<1>0. SchedulerTypeOK /\ SchedPhaseOK
  BY DEF SchedulerInv
<1>1. ASSUME NEW j \in Jobs,
             Every(j) \/ Cron(j) \/ Once(j)
      PROVE SchedulerTypeOK'
  BY <1>0, <1>1 DEF Every, Cron, Once, spawnInterval, SchedulerTypeOK,
     Kinds, LoopStates
<1>2. ASSUME NEW j \in Jobs,
             OnceSpawn(j) \/ SpawnNext(j)
      PROVE SchedulerTypeOK'
  BY <1>0, <1>2 DEF OnceSpawn, SpawnNext, spawnInterval, SchedulerTypeOK,
     LoopStates
<1>3. ASSUME NEW j \in Jobs,
             JitterEnds(j) \/ Fire(j) \/ Leave(j) \/ RunEnd(j)
      PROVE SchedulerTypeOK'
  BY <1>0, <1>3 DEF JitterEnds, Fire, Leave, RunEnd, SchedulerTypeOK,
     LoopStates
<1>4. ASSUME NEW j \in Jobs,
             CronFire(j) \/ CronEnd(j)
      PROVE SchedulerTypeOK'
  BY <1>0, <1>4 DEF CronFire, CronEnd, SchedulerTypeOK
<1>5. ASSUME Start \/ CronStart PROVE SchedulerTypeOK'
  BY <1>0, <1>5 DEF Start, CronStart, SchedulerTypeOK, Phases
<1>6. ASSUME \/ Stop \/ CronStop \/ WgDone
             \/ StopReturns \/ StopTimesOut
      PROVE  SchedulerTypeOK'
  BY <1>0, <1>6 DEF Stop, CronStop, WgDone, StopReturns,
     StopTimesOut, SchedulerTypeOK, Phases
<1>7. CASE UNCHANGED schedulerVars
  BY <1>0, <1>7 DEF schedulerVars, SchedulerTypeOK
<1> QED BY <1>1, <1>2, <1>3, <1>4, <1>5, <1>6, <1>7 DEF SchedulerNext

\* An action on job j leaves the other jobs as they were; what remains is j.
LEMMA SchedLoopStep == SchedulerInv /\ [SchedulerNext]_schedulerVars => LoopsOK'
<1> SUFFICES ASSUME SchedulerInv, [SchedulerNext]_schedulerVars, NEW k \in Jobs PROVE LoopOK(k)'
  BY DEF LoopsOK
<1>0. SchedulerTypeOK /\ SchedPhaseOK /\ LoopOK(k) /\ (\A j \in Jobs : LoopOK(j))
  BY DEF SchedulerInv, LoopsOK
<1>1. ASSUME NEW j \in Jobs, Every(j) PROVE LoopOK(k)'
  BY <1>0, <1>1 DEF Every, spawnInterval, SchedulerTypeOK, LoopOK, SchedPhaseOK,
     Started, Phases
<1>2. ASSUME NEW j \in Jobs, Cron(j) PROVE LoopOK(k)'
  BY <1>0, <1>2 DEF Cron, SchedulerTypeOK, LoopOK, Started
<1>3. ASSUME NEW j \in Jobs, Once(j) PROVE LoopOK(k)'
  BY <1>0, <1>3 DEF Once, SchedulerTypeOK, LoopOK, SchedPhaseOK, Started, Phases
<1>4. ASSUME NEW j \in Jobs, OnceSpawn(j) PROVE LoopOK(k)'
  BY <1>0, <1>4 DEF OnceSpawn, SchedulerTypeOK, LoopOK, Started
<1>5. ASSUME NEW j \in Jobs, SpawnNext(j) PROVE LoopOK(k)'
  BY <1>0, <1>5 DEF SpawnNext, spawnInterval, SchedulerTypeOK, LoopOK, Started
<1>6. ASSUME NEW j \in Jobs,
             JitterEnds(j) \/ Fire(j) \/ Leave(j) \/ RunEnd(j)
      PROVE LoopOK(k)'
  BY <1>0, <1>6 DEF JitterEnds, Fire, Leave, RunEnd, SchedulerTypeOK,
     LoopOK, Started
<1>7. ASSUME NEW j \in Jobs, CronFire(j) \/ CronEnd(j) PROVE LoopOK(k)'
  BY <1>0, <1>7 DEF CronFire, CronEnd, LoopOK, Started
<1>8. ASSUME Start PROVE LoopOK(k)'
  BY <1>0, <1>8 DEF Start, SchedulerTypeOK, LoopOK, SchedPhaseOK, Started
<1>9. ASSUME \/ CronStart \/ Stop \/ CronStop
             \/ WgDone \/ StopReturns \/ StopTimesOut
      PROVE LoopOK(k)'
  BY <1>0, <1>9 DEF CronStart, Stop, CronStop, WgDone,
     StopReturns, StopTimesOut, LoopOK,
     Started
<1>10. CASE UNCHANGED schedulerVars
  BY <1>0, <1>10 DEF schedulerVars, LoopOK, Started
<1> QED BY <1>1, <1>2, <1>3, <1>4, <1>5, <1>6, <1>7, <1>8, <1>9, <1>10 DEF SchedulerNext

\* Once wg.Wait has returned only a late one-off job can come to life.
LEMMA SchedPhaseStep == SchedulerInv /\ [SchedulerNext]_schedulerVars => SchedPhaseOK'
<1> SUFFICES ASSUME SchedulerInv, [SchedulerNext]_schedulerVars PROVE SchedPhaseOK'
  OBVIOUS
<1>0. SchedulerTypeOK /\ SchedPhaseOK /\ (\A j \in Jobs : LoopOK(j))
  BY DEF SchedulerInv, LoopsOK
<1>1. ASSUME NEW j \in Jobs, Every(j) \/ Cron(j) \/ Once(j) PROVE SchedPhaseOK'
  BY <1>0, <1>1 DEF Every, Cron, Once, spawnInterval, SchedulerTypeOK,
     SchedPhaseOK, Started, Alive
<1>2. ASSUME NEW j \in Jobs, OnceSpawn(j) PROVE SchedPhaseOK'
  BY <1>0, <1>2 DEF OnceSpawn, SchedulerTypeOK, SchedPhaseOK, Alive
<1>3. ASSUME NEW j \in Jobs, SpawnNext(j) PROVE SchedPhaseOK'
  BY <1>0, <1>3 DEF SpawnNext, SchedulerTypeOK, SchedPhaseOK, Alive
<1>4. ASSUME NEW j \in Jobs,
             JitterEnds(j) \/ Fire(j) \/ Leave(j) \/ RunEnd(j)
      PROVE SchedPhaseOK'
  BY <1>0, <1>4 DEF JitterEnds, Fire, Leave, RunEnd, SchedulerTypeOK,
     SchedPhaseOK, Alive
<1>5. ASSUME NEW j \in Jobs, CronFire(j) \/ CronEnd(j) PROVE SchedPhaseOK'
  BY <1>0, <1>5 DEF CronFire, CronEnd, SchedulerTypeOK, SchedPhaseOK, Alive
<1>6. ASSUME Start \/ CronStart \/ Stop \/ CronStop PROVE SchedPhaseOK'
  BY <1>0, <1>6 DEF Start, CronStart, Stop, CronStop, SchedPhaseOK,
     Alive
<1>7. ASSUME WgDone PROVE SchedPhaseOK'
  BY <1>0, <1>7 DEF WgDone, SchedPhaseOK, Alive
<1>8. ASSUME StopReturns \/ StopTimesOut PROVE SchedPhaseOK'
  BY <1>0, <1>8 DEF StopReturns, StopTimesOut, SchedPhaseOK, Alive
<1>9. CASE UNCHANGED schedulerVars
  BY <1>0, <1>9 DEF schedulerVars, SchedPhaseOK, Alive
<1> QED BY <1>1, <1>2, <1>3, <1>4, <1>5, <1>6, <1>7, <1>8, <1>9 DEF SchedulerNext

LEMMA SchedInvariance == SchedulerSpec => []SchedulerInv
<1>1. SchedulerInv /\ [SchedulerNext]_schedulerVars => SchedulerInv'
  BY SchedTypeStep, SchedLoopStep, SchedPhaseStep DEF SchedulerInv
<1> QED BY SchedInitOK, <1>1, PTL DEF SchedulerSpec

\* The scheduler's lists and goroutines keep their types, for any set of jobs.
THEOREM SchedulerTypeCorrect == SchedulerSpec => []SchedulerTypeOK
<1>1. SchedulerInv => SchedulerTypeOK
  BY DEF SchedulerInv
<1> QED BY SchedInvariance, <1>1, PTL

\* Every and Start never start two goroutines for one job and never forget one,
\* however many registrations run beside Start.
THEOREM OneGoroutine == SchedulerSpec => []OneGoroutinePerJob
<1>1. SchedulerInv => OneGoroutinePerJob
  BY DEF SchedulerInv, LoopsOK, LoopOK, SchedPhaseOK, Started, OneGoroutinePerJob
<1> QED BY SchedInvariance, <1>1, PTL

\* After a Stop that did not time out no job runs, save a Once that was late.
THEOREM SchedulerStopsClean == SchedulerSpec => []CleanStopIsQuiet
<1>1. SchedulerInv => CleanStopIsQuiet
  BY DEF SchedulerInv, SchedPhaseOK, CleanStopIsQuiet
<1> QED BY SchedInvariance, <1>1, PTL
=============================================================================
