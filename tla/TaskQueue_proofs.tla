-------------------------- MODULE TaskQueue_proofs --------------------------
(***************************************************************************)
(* Proofs about TaskQueue for any number of instances and mails and any    *)
(* number of retries, crashes and shutdowns.  DuplicatesHaveACause is not  *)
(* inductive: a copy that has not gone out yet must be paid for already.   *)
(* DueOK counts it together with the copies that have.                     *)
(***************************************************************************)
EXTENDS TaskQueue, FiniteSetTheorems, TLAPS

TaskRec == [st : TaskStates, retried : 0..MaxRetry, at : Procs \cup {NoProc},
            handler : Handlers]
ReqRec == [step : ReqSteps, at : Procs \cup {NoProc}]

\* The worker has the task.
Busy == {"running", "nil", "err"}

\* The stray handlers of a mail, numbered on each instance.
Strays(m) == {x \in Procs \X Nat : m \in Resets /\ x[2] \in 1..stray[x[1]][m]}

\* A task knows its instance exactly while a worker has it; a task that has not
\* been filed stays active; before the enqueue there is none; and success is
\* reported only for a mail that has gone out or that is not to be sent.
TaskOK(m) ==
    /\ task[m].handler \in Busy <=> task[m].at # NoProc
    /\ task[m].handler \in Busy \cup {"gone"} => task[m].st = "active"
    /\ req[m].step \in {"idle", "enqueue"} => task[m].st = "none" /\ Strays(m) = {}
    /\ task[m].handler = "nil" \/ task[m].st = "done" => copies[m] > 0 \/ ~conf.mail

\* A request that has ended is on no instance, and what it says has happened.
ReqOK(m) ==
    /\ req[m].at # NoProc => req[m].step \in {"enqueue", "inline"}
    /\ req[m].step \in {"idle", "enqueue"} => copies[m] = 0
    /\ req[m].step = "skipped" => ~conf.mail

\* The copies a mail may still cause: its request may send it, its task may be
\* worked on until the handler has returned nil, and so may every stray handler.
ReqDue(m) == IF req[m].step \in {"idle", "enqueue", "inline"} THEN 1 ELSE 0
TaskDue(m) ==
    IF m \in Resets /\ (\/ task[m].st \in {"pending", "retry"}
                        \/ task[m].st = "active" /\ task[m].handler # "nil")
    THEN 1 ELSE 0

StrayCount(m) == Cardinality(Strays(m))

DueOK(m) ==
    /\ IsFiniteSet(Strays(m))
    /\ copies[m] + StrayCount(m) + TaskDue(m) + ReqDue(m) <= 1 + doubt[m]

QueueInv ==
    /\ TypeOK
    /\ \A m \in Resets : TaskOK(m)
    /\ \A m \in Mails : ReqOK(m) /\ DueOK(m)

USE TaskQueueAssumption

-----------------------------------------------------------------------------
(* Records *)

\* A task that rests, is taken, or has failed is a task.
LEMMA RestsFacts ==
    ASSUME NEW t \in TaskRec, NEW st \in TaskStates
    PROVE  /\ Rests(t, st) \in TaskRec
           /\ Rests(t, st).st = st /\ Rests(t, st).at = NoProc
           /\ Rests(t, st).handler = "none" /\ Rests(t, st).retried = t.retried
BY DEF Rests, TaskRec, Handlers

LEMMA FailedFacts ==
    ASSUME NEW t \in TaskRec
    PROVE  /\ Failed(t) \in TaskRec
           /\ Failed(t).st \in {"retry", "archived"} /\ Failed(t).at = NoProc
           /\ Failed(t).handler = "none"
<1>1. "retry" \in TaskStates /\ "archived" \in TaskStates
  BY DEF TaskStates
<1>2. CASE t.retried < MaxRetry
  <2> DEFINE u == Rests(t, "retry")
  <2>1. /\ u \in TaskRec /\ u.st = "retry" /\ u.at = NoProc /\ u.handler = "none"
        /\ u.retried = t.retried
    BY <1>1, RestsFacts
  <2>2. Failed(t) = [u EXCEPT !.retried = @ + 1]
    BY <1>2 DEF Failed
  <2> HIDE DEF u
  <2> QED BY <1>2, <2>1, <2>2 DEF TaskRec
<1>3. CASE ~(t.retried < MaxRetry)
  <2>1. Failed(t) = Rests(t, "archived")
    BY <1>3 DEF Failed
  <2> QED BY <1>1, <2>1, RestsFacts
<1> QED BY <1>2, <1>3

LEMMA PendingFacts ==
    /\ NoTask \in TaskRec /\ NoTask.st = "none" /\ NoTask.at = NoProc /\ NoTask.handler = "none"
    /\ Pending \in TaskRec /\ Pending.st = "pending" /\ Pending.at = NoProc
    /\ Pending.handler = "none"
BY DEF NoTask, Pending, TaskRec, TaskStates, Handlers

\* What is known of the task and the request of a mail.
LEMMA Typed ==
    ASSUME TypeOK
    PROVE  /\ task \in [Resets -> TaskRec] /\ req \in [Mails -> ReqRec]
           /\ stray \in [Procs -> [Resets -> Nat]]
           /\ copies \in [Mails -> Nat] /\ doubt \in [Mails -> Nat]
           /\ Resets \subseteq Mails
BY DEF TypeOK, TaskRec, ReqRec, Mails

\* One attempt to send.
LEMMA SendFacts ==
    ASSUME NEW r \in SendResults
    PROVE  /\ r.copies \in {0, 1} /\ r.err \in BOOLEAN
           /\ r.copies = 1 => conf.mail
           /\ r.copies = 0 => r.err \/ ~conf.mail
<1>1. \/ conf.mail /\ r = [copies |-> 1, err |-> FALSE]
      \/ conf.mail /\ r = [copies |-> 0, err |-> TRUE]
      \/ conf.mail /\ r = [copies |-> 1, err |-> TRUE]
      \/ ~conf.mail /\ r = [copies |-> 0, err |-> FALSE]
  BY Zenon DEF SendResults
<1>2. \/ conf.mail /\ r.copies = 1 /\ r.err = FALSE
      \/ conf.mail /\ r.copies = 0 /\ r.err = TRUE
      \/ conf.mail /\ r.copies = 1 /\ r.err = TRUE
      \/ ~conf.mail /\ r.copies = 0 /\ r.err = FALSE
  BY <1>1
<1>3. r.copies \in {0, 1} /\ r.err \in BOOLEAN
  BY <1>2, Zenon
<1>4. 0 # 1
  OBVIOUS
<1> QED BY <1>2, <1>3, <1>4, Zenon

-----------------------------------------------------------------------------
(* Stray handlers *)

LEMMA CountNat ==
    ASSUME NEW m, IsFiniteSet(Strays(m)) PROVE StrayCount(m) \in Nat
BY FS_CardinalityType DEF StrayCount

LEMMA StraysStay ==
    ASSUME NEW m \in Mails, UNCHANGED stray
    PROVE  Strays(m)' = Strays(m) /\ StrayCount(m)' = StrayCount(m)
BY DEF Strays, StrayCount

\* One handler more or less counts for its own mail only.
LEMMA StraysOthers ==
    ASSUME TypeOK, NEW p \in Procs, NEW m \in Resets, NEW n \in Mails, n # m,
           NEW c \in Nat, stray' = [stray EXCEPT ![p][m] = c]
    PROVE  Strays(n)' = Strays(n) /\ StrayCount(n)' = StrayCount(n)
<1>1. \A x \in Procs, k \in Resets : k # m => stray'[x][k] = stray[x][k]
  BY Typed
<1>2. Strays(n)' = Strays(n)
  BY <1>1 DEF Strays
<1> QED BY <1>2 DEF StrayCount

LEMMA StraysGrow ==
    ASSUME TypeOK, NEW p \in Procs, NEW m \in Resets, IsFiniteSet(Strays(m)),
           stray' = [stray EXCEPT ![p][m] = stray[p][m] + 1]
    PROVE  IsFiniteSet(Strays(m)') /\ StrayCount(m)' = StrayCount(m) + 1
<1> DEFINE e == <<p, stray[p][m] + 1>>
<1>1. stray \in [Procs -> [Resets -> Nat]]
  BY Typed
<1>2. e \notin Strays(m)
  BY <1>1 DEF Strays
<1>3. Strays(m)' = Strays(m) \cup {e}
  <2>1. \A x \in Procs : stray'[x][m] = IF x = p THEN stray[x][m] + 1 ELSE stray[x][m]
    BY <1>1
  <2>2. ASSUME NEW x \in Procs, NEW i \in Nat
        PROVE  i \in 1..stray'[x][m] <=> i \in 1..stray[x][m] \/ <<x, i>> = e
    <3>1. stray[x][m] \in Nat /\ stray[p][m] \in Nat
      BY <1>1
    <3>2. <<x, i>> = e <=> x = p /\ i = stray[p][m] + 1
      OBVIOUS
    <3> HIDE DEF e
    <3> QED BY <2>1, <3>1, <3>2
  <2>3. e \in Procs \X Nat
    BY <1>1
  <2> HIDE DEF e
  <2>4. ASSUME NEW x \in Procs \X Nat
        PROVE  x[2] \in 1..stray'[x[1]][m] <=> x[2] \in 1..stray[x[1]][m] \/ x = e
    BY <2>2
  <2> QED BY <2>3, <2>4 DEF Strays
<1> HIDE DEF e
<1> QED BY <1>2, <1>3, FS_AddElement DEF StrayCount

LEMMA StraysShrink ==
    ASSUME TypeOK, NEW p \in Procs, NEW m \in Resets, IsFiniteSet(Strays(m)), stray[p][m] > 0,
           stray' = [stray EXCEPT ![p][m] = stray[p][m] - 1]
    PROVE  IsFiniteSet(Strays(m)') /\ StrayCount(m)' = StrayCount(m) - 1
<1> DEFINE e == <<p, stray[p][m]>>
<1>1. stray \in [Procs -> [Resets -> Nat]]
  BY Typed
<1>2. e \in Strays(m)
  BY <1>1 DEF Strays
<1>3. Strays(m)' = Strays(m) \ {e}
  <2>1. \A x \in Procs : stray'[x][m] = IF x = p THEN stray[x][m] - 1 ELSE stray[x][m]
    BY <1>1
  <2>2. ASSUME NEW x \in Procs, NEW i \in Nat
        PROVE  i \in 1..stray'[x][m] <=> i \in 1..stray[x][m] /\ <<x, i>> # e
    BY <1>1, <2>1
  <2> HIDE DEF e
  <2>3. ASSUME NEW x \in Procs \X Nat
        PROVE  x[2] \in 1..stray'[x[1]][m] <=> x[2] \in 1..stray[x[1]][m] /\ x # e
    BY <2>2
  <2> QED BY <2>3 DEF Strays
<1> HIDE DEF e
<1> QED BY <1>2, <1>3, FS_RemoveElement DEF StrayCount

\* The handlers of an instance die with it.
LEMMA StraysPerish ==
    ASSUME TypeOK, NEW p \in Procs, NEW m \in Mails, IsFiniteSet(Strays(m)),
           stray' = [stray EXCEPT ![p] = [n \in Resets |-> 0]]
    PROVE  /\ Strays(m)' \subseteq Strays(m)
           /\ IsFiniteSet(Strays(m)') /\ StrayCount(m)' <= StrayCount(m)
<1>1. stray \in [Procs -> [Resets -> Nat]]
  BY Typed
<1>2. \A x \in Procs, n \in Resets : stray'[x][n] = IF x = p THEN 0 ELSE stray[x][n]
  BY <1>1
<1>3. Strays(m)' \in SUBSET Strays(m)
  BY <1>2 DEF Strays
<1> QED BY <1>3, FS_Subset DEF StrayCount
-----------------------------------------------------------------------------
(* Types *)

\* What TypeOK says, with the records named.
Parts ==
    /\ conf \in Confs
    /\ proc \in [Procs -> ProcStates] /\ server \in [Procs -> ServerStates]
    /\ req \in [Mails -> ReqRec] /\ task \in [Resets -> TaskRec]
    /\ stray \in [Procs -> [Resets -> Nat]]
    /\ copies \in [Mails -> Nat] /\ doubt \in [Mails -> Nat]
    /\ ends \in 0..MaxEnds
    /\ \A m \in Resets : task[m].handler \in Busy =>
                             task[m].st = "active" /\ Serving(task[m].at)
    /\ \A p \in Procs : proc[p] = "down" => \A m \in Resets : stray[p][m] = 0

LEMMA TypeParts == (TypeOK <=> Parts) /\ (TypeOK' <=> Parts')
BY DEF TypeOK, Parts, ReqRec, TaskRec, Busy

LEMMA InitTyped == Init => TypeOK
<1> SUFFICES ASSUME Init PROVE TypeOK
  OBVIOUS
<1>1. NoTask \in TaskRec /\ NoTask.handler \notin Busy
  BY PendingFacts DEF Busy
<1>2. task \in [Resets -> TaskRec] /\ \A m \in Resets : task[m].handler \notin Busy
  BY <1>1 DEF Init
<1>3. /\ conf \in Confs /\ ends \in 0..MaxEnds
      /\ proc \in [Procs -> ProcStates] /\ server \in [Procs -> ServerStates]
      /\ req \in [Mails -> ReqRec] /\ stray \in [Procs -> [Resets -> Nat]]
      /\ copies \in [Mails -> Nat] /\ doubt \in [Mails -> Nat]
      /\ \A p \in Procs : \A m \in Resets : stray[p][m] = 0
  BY DEF Init, ProcStates, ServerStates, ReqRec, ReqSteps
<1> QED BY <1>2, <1>3, TypeParts DEF Parts

\* Starting, stopping and draining leave the instances of the workers serving.
LEMMA LifeTyped ==
    ASSUME QueueInv, NEW p \in Procs, Boot(p) \/ StartServer(p) \/ Stop(p) \/ Drained(p)
    PROVE  TypeOK'
<1>0. TypeOK /\ \A m \in Resets : TaskOK(m)
  BY DEF QueueInv
<1>1. UNCHANGED <<conf, req, task, stray, copies, doubt>>
  BY DEF Boot, StartServer, Stop, Drained
<1>2. /\ proc' \in [Procs -> ProcStates] /\ server' \in [Procs -> ServerStates]
      /\ ends' \in 0..MaxEnds
  <2>1. proc \in [Procs -> ProcStates] /\ server \in [Procs -> ServerStates] /\ ends \in 0..MaxEnds
    BY <1>0 DEF TypeOK
  <2>2. CASE Boot(p) \/ StartServer(p) \/ Drained(p)
    BY <2>1, <2>2 DEF Boot, StartServer, Drained, ProcStates, ServerStates
  <2>3. CASE Stop(p)
    BY <2>1, <2>3 DEF Stop, ProcStates
  <2> QED BY <2>2, <2>3
<1>3. ASSUME NEW m \in Resets, task[m].handler \in Busy
      PROVE  task[m].st = "active" /\ Serving(task[m].at)'
  <2>1. /\ task[m].at \in Procs /\ task[m].st = "active"
        /\ proc[task[m].at] # "down" /\ server[task[m].at] = "active"
    BY <1>0, <1>3, TypeParts DEF Parts, TaskOK, TaskRec, Serving
  <2>2. /\ proc \in [Procs -> ProcStates] /\ server \in [Procs -> ServerStates]
    BY <1>0 DEF TypeOK
  <2> QED BY <2>1, <2>2 DEF Boot, StartServer, Stop, Drained, Serving
<1>4. \A x \in Procs : proc'[x] = "down" => \A m \in Resets : stray[x][m] = 0
  BY <1>0, TypeParts DEF Parts, Boot, StartServer, Stop, Drained
<1> QED BY <1>0, <1>1, <1>2, <1>3, <1>4, TypeParts DEF Parts

\* What an instance leaves behind.
LEMMA PerishFacts ==
    ASSUME QueueInv, NEW p \in Procs, Perish(p)
    PROVE  /\ req' \in [Mails -> ReqRec] /\ task' \in [Resets -> TaskRec]
           /\ doubt' \in [Mails -> Nat]
           /\ \A m \in Mails : req'[m] = IF req[m].at = p
                                         THEN [step |-> "lost", at |-> NoProc] ELSE req[m]
           /\ \A m \in Mails :
                doubt'[m] = IF m \in Resets /\ task[m].at = p /\ task[m].handler = "nil"
                            THEN doubt[m] + 1 ELSE doubt[m]
           /\ \A m \in Resets :
                IF task[m].at = p
                THEN /\ task'[m].handler = "gone" /\ task'[m].at = NoProc
                     /\ task'[m].st = task[m].st
                ELSE task'[m] = task[m]
<1>1. /\ task \in [Resets -> TaskRec] /\ req \in [Mails -> ReqRec] /\ doubt \in [Mails -> Nat]
      /\ Resets \subseteq Mails
  BY Typed DEF QueueInv
<1>2. \A m \in Mails : req'[m] = IF req[m].at = p
                                 THEN [step |-> "lost", at |-> NoProc] ELSE req[m]
  BY DEF Perish
<1>3. req' \in [Mails -> ReqRec]
  <2>1. [step |-> "lost", at |-> NoProc] \in ReqRec
    BY DEF ReqRec, ReqSteps
  <2> QED BY <1>1, <2>1 DEF Perish
<1>4. doubt' \in [Mails -> Nat]
  <2>1. PICK d : doubt' = [m \in Mails |-> IF d[m] THEN doubt[m] + 1 ELSE doubt[m]]
    <3> DEFINE d0 == [m \in Mails |-> m \in Resets /\ task[m].at = p /\ task[m].handler = "nil"]
    <3>1. doubt' = [m \in Mails |-> IF d0[m] THEN doubt[m] + 1 ELSE doubt[m]]
      BY Zenon DEF Perish
    <3> QED BY <3>1, Zenon
  <2> QED BY <1>1, <2>1
<1>5. ASSUME NEW m \in Resets
      PROVE  /\ task'[m] \in TaskRec
             /\ IF task[m].at = p
                THEN /\ task'[m].handler = "gone" /\ task'[m].at = NoProc
                     /\ task'[m].st = task[m].st
                ELSE task'[m] = task[m]
  <2>1. task[m] \in TaskRec
    BY <1>1
  <2>2. task'[m] = IF task[m].at = p THEN [task[m] EXCEPT !.handler = "gone", !.at = NoProc]
                   ELSE task[m]
    BY DEF Perish
  <2> QED BY <2>1, <2>2 DEF TaskRec, Handlers
<1>6. task' \in [Resets -> TaskRec]
  <2>1. task' = [m \in Resets |-> task'[m]]
    BY DEF Perish
  <2> QED BY <1>5, <2>1
<1>7. ASSUME NEW m \in Mails
      PROVE  doubt'[m] = IF m \in Resets /\ task[m].at = p /\ task[m].handler = "nil"
                         THEN doubt[m] + 1 ELSE doubt[m]
  BY Zenon DEF Perish
<1> QED BY <1>2, <1>3, <1>4, <1>5, <1>6, <1>7

LEMMA PerishTyped ==
    ASSUME QueueInv, NEW p \in Procs, Perish(p), ends' \in 0..MaxEnds PROVE TypeOK'
<1>0. TypeOK /\ \A m \in Resets : TaskOK(m)
  BY DEF QueueInv
<1>1. /\ proc' \in [Procs -> ProcStates] /\ server' \in [Procs -> ServerStates]
      /\ \A x \in Procs \ {p} : proc'[x] = proc[x] /\ server'[x] = server[x]
  BY <1>0 DEF TypeOK, Perish, ProcStates, ServerStates
<1>2. /\ stray' \in [Procs -> [Resets -> Nat]]
      /\ \A x \in Procs, m \in Resets : stray'[x][m] = IF x = p THEN 0 ELSE stray[x][m]
  BY <1>0 DEF TypeOK, Perish
<1>3. \A x \in Procs : proc'[x] = "down" => \A m \in Resets : stray'[x][m] = 0
  BY <1>0, <1>1, <1>2, TypeParts DEF Parts
<1>4. ASSUME NEW m \in Resets, task'[m].handler \in Busy
      PROVE  task'[m].st = "active" /\ Serving(task[m].at)'
  <2>1. task[m].at # p /\ task'[m] = task[m]
    BY <1>4, PerishFacts DEF Busy
  <2>2. task[m].at \in Procs /\ task[m].st = "active" /\ Serving(task[m].at)
    BY <1>0, <1>4, <2>1, TypeParts DEF Parts, TaskOK, TaskRec
  <2> QED BY <1>1, <2>1, <2>2 DEF Serving
<1>5. conf' \in Confs /\ copies' \in [Mails -> Nat]
  BY <1>0 DEF TypeOK, Perish
<1> QED BY <1>1, <1>2, <1>3, <1>4, <1>5, PerishFacts, TypeParts DEF Parts

\* A step of one mail that leaves the instances and the strays alone.
LEMMA MailTyped ==
    ASSUME TypeOK, UNCHANGED <<conf, proc, server, ends>>,
           req' \in [Mails -> ReqRec], task' \in [Resets -> TaskRec],
           copies' \in [Mails -> Nat], doubt' \in [Mails -> Nat],
           stray' \in [Procs -> [Resets -> Nat]],
           \A p \in Procs : proc[p] = "down" => \A m \in Resets : stray'[p][m] = 0,
           \A m \in Resets : \/ task'[m].handler \notin Busy
                             \/ task'[m].st = "active" /\ Serving(task'[m].at)
                             \/ task'[m] = task[m]
    PROVE  TypeOK'
<1>1. ASSUME NEW m \in Resets, task'[m].handler \in Busy
      PROVE  task'[m].st = "active" /\ Serving(task[m].at)'
  BY <1>1, TypeParts DEF Parts, Serving
<1>2. conf' \in Confs /\ ends' \in 0..MaxEnds
      /\ proc' \in [Procs -> ProcStates] /\ server' \in [Procs -> ServerStates]
  BY DEF TypeOK
<1> QED BY <1>1, <1>2, TypeParts DEF Parts
-----------------------------------------------------------------------------
(* The invariant *)

\* What a mail may cost: the copies that are out or due, less the doubts.
Cost(m) == copies[m] + StrayCount(m) + TaskDue(m) + ReqDue(m) - doubt[m]

LEMMA DueTyped ==
    ASSUME NEW m, IsFiniteSet(Strays(m))
    PROVE  StrayCount(m) \in Nat /\ TaskDue(m) \in {0, 1} /\ ReqDue(m) \in {0, 1}
BY CountNat DEF TaskDue, ReqDue

LEMMA InitInv == Init => QueueInv
<1> SUFFICES ASSUME Init PROVE QueueInv
  OBVIOUS
<1>0. \A m : Strays(m) = {}
  BY DEF Init, Strays
<1>1. ASSUME NEW m \in Resets PROVE TaskOK(m)
  BY <1>0, PendingFacts DEF Init, TaskOK, Busy
<1>2. ASSUME NEW m \in Mails PROVE ReqOK(m) /\ DueOK(m)
  <2>1. ReqOK(m)
    BY DEF Init, ReqOK
  <2>2. Strays(m) = {}
    BY <1>0
  <2>3. IsFiniteSet(Strays(m)) /\ StrayCount(m) = 0
    BY <2>2, FS_EmptySet DEF StrayCount
  <2>4. TaskDue(m) = 0 /\ ReqDue(m) = 1 /\ copies[m] = 0 /\ doubt[m] = 0
    BY PendingFacts DEF Init, TaskDue, ReqDue
  <2> QED BY <2>1, <2>3, <2>4 DEF DueOK
<1> QED BY <1>1, <1>2, InitTyped DEF QueueInv

\* A step of mail m keeps the invariant when it costs nothing, that is, when it
\* pays for every copy it makes or makes due by another one or by a doubt.
LEMMA MailStep ==
    ASSUME QueueInv, NEW m \in Mails, UNCHANGED <<conf, proc, server, ends>>,
           req' \in [Mails -> ReqRec], task' \in [Resets -> TaskRec],
           copies' \in [Mails -> Nat], doubt' \in [Mails -> Nat],
           \A n \in Mails \ {m} : /\ req'[n] = req[n] /\ copies'[n] = copies[n]
                                  /\ doubt'[n] = doubt[n] /\ Strays(n)' = Strays(n),
           \A n \in Resets \ {m} : task'[n] = task[n],
           stray' \in [Procs -> [Resets -> Nat]],
           \A p \in Procs : proc[p] = "down" => \A n \in Resets : stray'[p][n] = 0,
           m \in Resets => /\ TaskOK(m)'
                           /\ task'[m].handler \notin Busy \/ Serving(task'[m].at),
           ReqOK(m)', IsFiniteSet(Strays(m)'), Cost(m)' <= Cost(m)
    PROVE  QueueInv'
<1>0. /\ TypeOK /\ (\A n \in Resets : TaskOK(n)) /\ (\A n \in Mails : ReqOK(n) /\ DueOK(n))
      /\ Resets \subseteq Mails
  BY DEF QueueInv, Mails
<1>1. TypeOK'
  <2>1. \A n \in Resets : \/ task'[n].handler \notin Busy
                          \/ task'[n].st = "active" /\ Serving(task'[n].at)
                          \/ task'[n] = task[n]
    BY DEF TaskOK
  <2> QED BY <1>0, <2>1, MailTyped
<1>2. ASSUME NEW n \in Resets PROVE TaskOK(n)'
  BY <1>0 DEF TaskOK
<1>3. ASSUME NEW n \in Mails \ {m} PROVE ReqOK(n)' /\ DueOK(n)'
  <2>1. ReqOK(n)'
    BY <1>0 DEF ReqOK
  <2>2. TaskDue(n)' = TaskDue(n) /\ ReqDue(n)' = ReqDue(n) /\ StrayCount(n)' = StrayCount(n)
    BY DEF TaskDue, ReqDue, StrayCount
  <2> QED BY <1>0, <2>1, <2>2 DEF DueOK
<1>4. DueOK(m)'
  <2>1. copies[m] \in Nat /\ doubt[m] \in Nat /\ copies'[m] \in Nat /\ doubt'[m] \in Nat
    BY <1>0, Typed
  <2>2. StrayCount(m) \in Nat /\ TaskDue(m) \in {0, 1} /\ ReqDue(m) \in {0, 1}
    BY <1>0, DueTyped DEF DueOK
  <2>3. StrayCount(m)' \in Nat /\ TaskDue(m)' \in {0, 1} /\ ReqDue(m)' \in {0, 1}
    <3>1. StrayCount(m)' \in Nat
      BY FS_CardinalityType DEF StrayCount
    <3> QED BY <3>1 DEF TaskDue, ReqDue
  <2> QED BY <1>0, <2>1, <2>2, <2>3 DEF DueOK, Cost
<1> QED BY <1>1, <1>2, <1>3, <1>4 DEF QueueInv
\* The same for a step that starts and ends no stray handler.
LEMMA QuietStep ==
    ASSUME QueueInv, NEW m \in Mails, UNCHANGED <<conf, proc, server, ends, stray>>,
           req' \in [Mails -> ReqRec], task' \in [Resets -> TaskRec],
           copies' \in [Mails -> Nat], doubt' \in [Mails -> Nat],
           \A n \in Mails \ {m} : /\ req'[n] = req[n] /\ copies'[n] = copies[n]
                                  /\ doubt'[n] = doubt[n],
           \A n \in Resets \ {m} : task'[n] = task[n],
           m \in Resets => /\ TaskOK(m)'
                           /\ task'[m].handler \notin Busy \/ Serving(task'[m].at),
           ReqOK(m)',
           copies'[m] + TaskDue(m)' + ReqDue(m)' - doubt'[m]
             <= copies[m] + TaskDue(m) + ReqDue(m) - doubt[m]
    PROVE  QueueInv'
<1>1. \A n \in Mails : Strays(n)' = Strays(n) /\ StrayCount(n)' = StrayCount(n)
  BY StraysStay
<1>2. TypeOK /\ IsFiniteSet(Strays(m)) /\ IsFiniteSet(Strays(m)')
  BY <1>1 DEF QueueInv, DueOK
<1>3. /\ stray' \in [Procs -> [Resets -> Nat]]
      /\ \A p \in Procs : proc[p] = "down" => \A n \in Resets : stray'[p][n] = 0
  BY <1>2 DEF TypeOK
<1>4. Cost(m)' <= Cost(m)
  <2>1. /\ copies[m] \in Nat /\ doubt[m] \in Nat /\ copies'[m] \in Nat /\ doubt'[m] \in Nat
        /\ StrayCount(m) \in Nat /\ TaskDue(m) \in {0, 1} /\ ReqDue(m) \in {0, 1}
        /\ TaskDue(m)' \in {0, 1} /\ ReqDue(m)' \in {0, 1}
    BY <1>2, Typed, DueTyped DEF TaskDue, ReqDue
  <2> QED BY <1>1, <2>1 DEF Cost
<1> QED BY <1>1, <1>2, <1>3, <1>4, MailStep

-----------------------------------------------------------------------------
(* Requests *)

LEMMA ArrivalStep ==
    ASSUME QueueInv, NEW p \in Procs, NEW m \in Mails,
           (m \in Resets /\ ForgotPassword(m, p)) \/ (m \in Welcomes /\ Register(m, p))
    PROVE  QueueInv'
<1>1. /\ req \in [Mails -> ReqRec] /\ task \in [Resets -> TaskRec]
      /\ copies \in [Mails -> Nat] /\ doubt \in [Mails -> Nat] /\ Resets \subseteq Mails
  BY Typed DEF QueueInv
<1>2. PICK st \in {"enqueue", "inline"} : /\ req' = [req EXCEPT ![m] = [step |-> st, at |-> p]]
                                          /\ m \in Resets => st = "enqueue"
  BY DEF ForgotPassword, Register
<1>3. /\ req[m].step = "idle"
      /\ UNCHANGED <<conf, proc, server, task, stray, copies, doubt, ends>>
  BY DEF ForgotPassword, Register, Arrives
<1>4. /\ req' \in [Mails -> ReqRec] /\ req'[m].step = st
      /\ \A n \in Mails \ {m} : req'[n] = req[n]
  BY <1>1, <1>2 DEF ReqRec, ReqSteps
<1>5. ReqOK(m) /\ (m \in Resets => TaskOK(m) /\ (task[m].handler \notin Busy \/ Serving(task[m].at)))
  BY TypeParts DEF QueueInv, Parts
<1>6. ReqOK(m)' /\ (m \in Resets => TaskOK(m)')
  <2>1. ReqOK(m)'
    BY <1>3, <1>4, <1>5 DEF ReqOK
  <2>2. ASSUME m \in Resets PROVE TaskOK(m)'
    BY <1>3, <1>4, <1>5, <2>2, StraysStay DEF TaskOK
  <2> QED BY <2>1, <2>2
<1>7. TaskDue(m)' = TaskDue(m) /\ ReqDue(m)' = ReqDue(m)
  BY <1>3, <1>4 DEF TaskDue, ReqDue
<1> QED
  <2>1. TaskDue(m) \in {0, 1} /\ ReqDue(m) \in {0, 1} /\ copies[m] \in Nat /\ doubt[m] \in Nat
    BY <1>1 DEF TaskDue, ReqDue
  <2> QED BY <1>1, <1>3, <1>4, <1>5, <1>6, <1>7, <2>1, QuietStep

\* The request has left its task in the queue, or goes on to send by itself.
LEMMA EnqueueStep ==
    ASSUME QueueInv, NEW m \in Resets, Enqueue(m) \/ EnqueueFails(m) PROVE QueueInv'
<1>1. /\ req \in [Mails -> ReqRec] /\ task \in [Resets -> TaskRec]
      /\ copies \in [Mails -> Nat] /\ doubt \in [Mails -> Nat] /\ Resets \subseteq Mails
      /\ m \in Mails
  BY Typed DEF QueueInv
<1>2. /\ req[m].step = "enqueue" /\ UNCHANGED <<conf, proc, server, stray, copies, ends>>
      /\ \/ SetReq(m, "queued") /\ task' = [task EXCEPT ![m] = Pending] /\ UNCHANGED doubt
         \/ SetReq(m, "inline") /\ UNCHANGED <<task, doubt>>
         \/ /\ SetReq(m, "inline") /\ task' = [task EXCEPT ![m] = Pending]
            /\ doubt' = [doubt EXCEPT ![m] = @ + 1]
  BY DEF Enqueue, EnqueueFails
<1>3. ReqOK(m) /\ TaskOK(m) /\ req[m] \in ReqRec
  BY <1>1 DEF QueueInv
<1>4. /\ task' \in [Resets -> TaskRec] /\ doubt' \in [Mails -> Nat]
      /\ \A n \in Resets \ {m} : task'[n] = task[n]
      /\ \A n \in Mails \ {m} : doubt'[n] = doubt[n]
  BY <1>1, <1>2, PendingFacts
<1>5. /\ req' \in [Mails -> ReqRec] /\ req'[m].step \in {"queued", "inline"}
      /\ req'[m].at # NoProc => req'[m].step = "inline"
      /\ \A n \in Mails \ {m} : req'[n] = req[n]
  <2>1. PICK q \in ReqRec : /\ req' = [req EXCEPT ![m] = q] /\ q.step \in {"queued", "inline"}
                            /\ q.at # NoProc => q.step = "inline"
    <3>1. req[m].at \in Procs \cup {NoProc}
      BY <1>3 DEF ReqRec
    <3> DEFINE q1 == [step |-> "queued", at |-> NoProc]
               q2 == [step |-> "inline", at |-> req[m].at]
    <3>2. q1 \in ReqRec /\ q1.step = "queued" /\ q1.at = NoProc
      BY DEF ReqRec, ReqSteps
    <3>3. q2 \in ReqRec /\ q2.step = "inline"
      BY <3>1 DEF ReqRec, ReqSteps
    <3>4. req' = [req EXCEPT ![m] = q1] \/ req' = [req EXCEPT ![m] = q2]
      BY <1>2 DEF SetReq
    <3> HIDE DEF q1, q2
    <3> QED BY <3>2, <3>3, <3>4
  <2> QED BY <1>1, <2>1
<1>6. ReqOK(m)'
  BY <1>2, <1>3, <1>5 DEF ReqOK
<1>7. /\ task'[m] = task[m] \/ task'[m] = Pending
      /\ task'[m].handler \notin Busy
  BY <1>1, <1>2, <1>3, PendingFacts DEF TaskOK, Busy
<1>8. TaskOK(m)'
  BY <1>2, <1>3, <1>5, <1>7, PendingFacts DEF TaskOK, Busy
<1>9. copies'[m] + TaskDue(m)' + ReqDue(m)' - doubt'[m]
        <= copies[m] + TaskDue(m) + ReqDue(m) - doubt[m]
  <2>1. /\ TaskDue(m) = 0 /\ ReqDue(m) = 1 /\ copies'[m] = copies[m]
        /\ copies[m] \in Nat /\ doubt[m] \in Nat
        /\ TaskDue(m)' \in {0, 1} /\ ReqDue(m)' \in {0, 1}
    BY <1>1, <1>2, <1>3 DEF TaskOK, TaskDue, ReqDue
  <2>2. CASE SetReq(m, "queued") /\ UNCHANGED doubt
    <3>1. req'[m].step = "queued"
      BY <1>1, <2>2 DEF SetReq
    <3>2. ReqDue(m)' = 0
      BY <3>1 DEF ReqDue
    <3> QED BY <2>1, <2>2, <3>2
  <2>3. CASE UNCHANGED <<task, doubt>>
    <3>1. TaskDue(m)' = 0
      BY <2>1, <2>3 DEF TaskDue
    <3> QED BY <2>1, <2>3, <3>1
  <2>4. CASE doubt' = [doubt EXCEPT ![m] = @ + 1]
    <3>1. doubt'[m] = doubt[m] + 1
      BY <1>1, <2>4
    <3> QED BY <2>1, <3>1
  <2> QED BY <1>2, <2>2, <2>3, <2>4
<1>10. copies' \in [Mails -> Nat] /\ \A n \in Mails \ {m} : copies'[n] = copies[n]
  BY <1>1, <1>2
<1> QED BY <1>1, <1>2, <1>4, <1>5, <1>6, <1>7, <1>8, <1>9, <1>10, QuietStep

\* The request or the goroutine sends the mail itself.
LEMMA InlineStep ==
    ASSUME QueueInv, NEW m \in Mails, SendInline(m) PROVE QueueInv'
<1>1. /\ req \in [Mails -> ReqRec] /\ task \in [Resets -> TaskRec]
      /\ copies \in [Mails -> Nat] /\ doubt \in [Mails -> Nat] /\ Resets \subseteq Mails
  BY Typed DEF QueueInv
<1>2. PICK r \in SendResults :
        /\ copies' = [copies EXCEPT ![m] = @ + r.copies]
        /\ SetReq(m, IF r.copies = 1 THEN "sent" ELSE IF r.err THEN "failed" ELSE "skipped")
  BY DEF SendInline
<1>3. /\ req[m].step = "inline"
      /\ UNCHANGED <<conf, proc, server, task, stray, doubt, ends>>
  BY DEF SendInline
<1>4. PICK st \in {"sent", "failed", "skipped"} :
        /\ req' = [req EXCEPT ![m] = [step |-> st, at |-> NoProc]]
        /\ st = "skipped" => ~conf.mail
  BY <1>2, SendFacts DEF SetReq
<1>5. /\ req' \in [Mails -> ReqRec] /\ req'[m].step = st /\ req'[m].at = NoProc
      /\ \A n \in Mails \ {m} : req'[n] = req[n]
  BY <1>1, <1>4 DEF ReqRec, ReqSteps
<1>6. /\ copies' \in [Mails -> Nat] /\ copies'[m] \in {copies[m], copies[m] + 1}
      /\ \A n \in Mails \ {m} : copies'[n] = copies[n]
  BY <1>1, <1>2, SendFacts
<1>7. m \in Resets => TaskOK(m) /\ (task[m].handler \notin Busy \/ Serving(task[m].at))
  BY TypeParts DEF QueueInv, Parts
<1>8. ReqOK(m)'
  BY <1>3, <1>4, <1>5 DEF ReqOK
<1>9. ASSUME m \in Resets PROVE TaskOK(m)'
  BY <1>1, <1>3, <1>4, <1>5, <1>6, <1>7, <1>9 DEF TaskOK
<1>10. /\ TaskDue(m)' = TaskDue(m) /\ TaskDue(m) \in {0, 1}
       /\ ReqDue(m) = 1 /\ ReqDue(m)' = 0
  BY <1>3, <1>4, <1>5 DEF TaskDue, ReqDue
<1>11. copies'[m] + TaskDue(m)' + ReqDue(m)' - doubt'[m]
         <= copies[m] + TaskDue(m) + ReqDue(m) - doubt[m]
  BY <1>1, <1>3, <1>6, <1>10
<1> QED BY <1>1, <1>3, <1>5, <1>6, <1>7, <1>8, <1>9, <1>11, QuietStep
-----------------------------------------------------------------------------
(* The queue *)

\* A task that exists belongs to a request that has gone past its enqueue.
LEMMA TaskFacts ==
    ASSUME QueueInv, NEW m \in Resets
    PROVE  /\ task \in [Resets -> TaskRec] /\ task[m] \in TaskRec
           /\ req \in [Mails -> ReqRec] /\ stray \in [Procs -> [Resets -> Nat]]
           /\ copies \in [Mails -> Nat] /\ doubt \in [Mails -> Nat]
           /\ m \in Mails /\ TaskOK(m) /\ ReqOK(m)
           /\ task[m].handler \in Busy => Serving(task[m].at) /\ task[m].at \in Procs
           /\ task[m].st # "none" => req[m].step \notin {"idle", "enqueue"}
<1>1. /\ task \in [Resets -> TaskRec] /\ req \in [Mails -> ReqRec]
      /\ stray \in [Procs -> [Resets -> Nat]]
      /\ copies \in [Mails -> Nat] /\ doubt \in [Mails -> Nat] /\ m \in Mails
  BY Typed DEF QueueInv
<1>2. TaskOK(m) /\ ReqOK(m) /\ (task[m].handler \in Busy => Serving(task[m].at))
  BY <1>1, TypeParts DEF QueueInv, Parts
<1>3. task[m].handler \in Busy => task[m].at \in Procs
  BY <1>1, <1>2 DEF TaskOK, TaskRec
<1> QED BY <1>1, <1>2, <1>3 DEF TaskOK

\* A step of the queue that sends nothing and leaves the task due if it was.
LEMMA TaskStep ==
    ASSUME QueueInv, NEW m \in Resets, task[m].st # "none",
           UNCHANGED <<conf, proc, server, req, stray, copies, doubt, ends>>,
           NEW t \in TaskRec, task' = [task EXCEPT ![m] = t],
           t.handler \in Busy <=> t.at # NoProc,
           t.handler \in Busy \cup {"gone"} => t.st = "active",
           t.handler = "nil" \/ t.st = "done" => copies[m] > 0 \/ ~conf.mail,
           t.handler \notin Busy \/ Serving(t.at),
           t.st \in {"pending", "retry", "active"} => TaskDue(m) = 1
    PROVE  QueueInv'
<1>1. /\ task' \in [Resets -> TaskRec] /\ task'[m] = t
      /\ \A n \in Resets \ {m} : task'[n] = task[n]
  BY TaskFacts
<1>2. TaskOK(m)' /\ ReqOK(m)'
  BY <1>1, TaskFacts DEF TaskOK, ReqOK
<1>3. /\ TaskDue(m) \in {0, 1} /\ TaskDue(m)' \in {0, 1} /\ ReqDue(m) \in {0, 1}
      /\ ReqDue(m)' = ReqDue(m) /\ (TaskDue(m)' = 1 => TaskDue(m) = 1)
  BY <1>1 DEF TaskDue, ReqDue
<1>4. copies[m] \in Nat /\ doubt[m] \in Nat
  BY TaskFacts
<1>5. copies'[m] + TaskDue(m)' + ReqDue(m)' - doubt'[m]
        <= copies[m] + TaskDue(m) + ReqDue(m) - doubt[m]
  BY <1>3, <1>4
<1> QED BY <1>1, <1>2, <1>5, TaskFacts, QuietStep

LEMMA TakeStep ==
    ASSUME QueueInv, NEW m \in Resets, NEW p \in Procs, Take(m, p) PROVE QueueInv'
<1> DEFINE t == [task[m] EXCEPT !.st = "active", !.at = p, !.handler = "running"]
<1>1. /\ t \in TaskRec /\ t.st = "active" /\ t.at = p /\ t.handler = "running"
  BY TaskFacts DEF TaskRec, TaskStates, Handlers
<1>2. /\ task' = [task EXCEPT ![m] = t] /\ task[m].st = "pending" /\ Serving(p)
      /\ UNCHANGED <<conf, proc, server, req, stray, copies, doubt, ends>>
  BY DEF Take
<1>3. TaskDue(m) = 1 /\ p # NoProc
  BY <1>2 DEF TaskDue
<1> HIDE DEF t
<1> QED BY <1>1, <1>2, <1>3, TaskStep DEF Busy

LEMMA ForwardStep ==
    ASSUME QueueInv, NEW m \in Resets, Forward(m) PROVE QueueInv'
<1> DEFINE t == [task[m] EXCEPT !.st = "pending"]
<1>1. /\ task' = [task EXCEPT ![m] = t] /\ task[m].st = "retry"
      /\ UNCHANGED <<conf, proc, server, req, stray, copies, doubt, ends>>
  BY DEF Forward
<1>2. task[m].handler \notin Busy \cup {"gone"} /\ task[m].at = NoProc
  BY <1>1, TaskFacts DEF TaskOK
<1>3. /\ t \in TaskRec /\ t.st = "pending" /\ t.at = NoProc /\ t.handler = task[m].handler
  BY <1>2, TaskFacts DEF TaskRec, TaskStates, Handlers
<1>4. TaskDue(m) = 1
  BY <1>1 DEF TaskDue
<1> HIDE DEF t
<1> QED BY <1>1, <1>2, <1>3, <1>4, TaskStep DEF Busy

\* A result is filed, or the lease of a dead worker is found to have expired.
LEMMA FinishStep ==
    ASSUME QueueInv, NEW m \in Resets, Finish(m) \/ Recover(m) PROVE QueueInv'
<1>1. /\ task[m].handler \in Busy \cup {"gone"} /\ task[m].handler # "running"
      /\ task' = [task EXCEPT ![m] = IF task[m].handler = "nil" THEN Rests(task[m], "done")
                                     ELSE Failed(task[m])]
      /\ UNCHANGED <<conf, proc, server, req, stray, copies, doubt, ends>>
  BY DEF Finish, Recover, Busy
<1>2. task[m].st = "active"
  BY <1>1, TaskFacts DEF TaskOK
<1>3. CASE task[m].handler = "nil"
  <2> DEFINE t == Rests(task[m], "done")
  <2>1. "done" \in TaskStates
    BY DEF TaskStates
  <2>2. t \in TaskRec /\ t.st = "done" /\ t.at = NoProc /\ t.handler = "none"
    BY <2>1, TaskFacts, RestsFacts
  <2>3. copies[m] > 0 \/ ~conf.mail
    BY <1>3, TaskFacts DEF TaskOK
  <2> HIDE DEF t
  <2>4. task' = [task EXCEPT ![m] = t]
    BY <1>1, <1>3 DEF t
  <2> QED BY <1>1, <1>2, <2>2, <2>3, <2>4, TaskStep DEF Busy
<1>4. CASE task[m].handler # "nil"
  <2>1. TaskDue(m) = 1
    BY <1>2, <1>4 DEF TaskDue
  <2>2. task' = [task EXCEPT ![m] = Failed(task[m])]
    BY <1>1, <1>4
  <2> QED BY <1>1, <1>2, <2>1, <2>2, TaskFacts, FailedFacts, TaskStep DEF Busy
<1> QED BY <1>3, <1>4

\* The handler returns: with nil only when there is nothing left to send.
LEMMA HandleStep ==
    ASSUME QueueInv, NEW m \in Resets, Handle(m) PROVE QueueInv'
<1>1. PICK r \in SendResults :
        /\ copies' = [copies EXCEPT ![m] = @ + r.copies]
        /\ task' = [task EXCEPT ![m].handler = IF r.err THEN "err" ELSE "nil"]
        /\ doubt' = [doubt EXCEPT ![m] = IF r.err THEN @ + r.copies ELSE @]
  BY DEF Handle
<1>2. /\ task[m].handler = "running"
      /\ UNCHANGED <<conf, proc, server, req, stray, ends>>
  BY DEF Handle
<1>3. r.copies \in {0, 1} /\ (r.copies = 0 => r.err \/ ~conf.mail)
  BY SendFacts
<1>4. PICK h \in {"err", "nil"} :
        /\ h = IF r.err THEN "err" ELSE "nil"
        /\ task' = [task EXCEPT ![m] = [task[m] EXCEPT !.handler = h]]
  BY <1>1
<1>5. /\ task' \in [Resets -> TaskRec]
      /\ task'[m].handler = h /\ task'[m].st = task[m].st /\ task'[m].at = task[m].at
      /\ \A n \in Resets \ {m} : task'[n] = task[n]
  <2> DEFINE t == [task[m] EXCEPT !.handler = h]
  <2>1. t \in TaskRec /\ t.handler = h /\ t.st = task[m].st /\ t.at = task[m].at
    BY TaskFacts DEF TaskRec, Handlers
  <2> HIDE DEF t
  <2> QED BY <1>4, <2>1, TaskFacts DEF t
<1>6. /\ copies' \in [Mails -> Nat] /\ copies'[m] = copies[m] + r.copies
      /\ \A n \in Mails \ {m} : copies'[n] = copies[n]
  BY <1>1, <1>3, TaskFacts
<1>7. /\ doubt' \in [Mails -> Nat]
      /\ doubt'[m] = IF h = "err" THEN doubt[m] + r.copies ELSE doubt[m]
      /\ \A n \in Mails \ {m} : doubt'[n] = doubt[n]
  BY <1>1, <1>3, <1>4, TaskFacts
<1>8. /\ copies[m] \in Nat /\ doubt[m] \in Nat /\ task[m].st = "active"
      /\ Serving(task[m].at) /\ task[m].at # NoProc
      /\ TaskOK(m) /\ ReqOK(m) /\ req[m].step \notin {"idle", "enqueue"} /\ m \in Mails
  BY <1>2, TaskFacts DEF TaskOK, Busy
<1>9. TaskOK(m)' /\ ReqOK(m)'
  <2>1. h = "nil" => r.copies = 1 \/ ~conf.mail
    BY <1>3, <1>4
  <2>2. TaskOK(m)'
    BY <1>2, <1>3, <1>5, <1>6, <1>8, <2>1 DEF TaskOK, Busy
  <2> QED BY <1>2, <1>8, <2>2 DEF ReqOK
<1>10. /\ TaskDue(m) = 1 /\ TaskDue(m)' = IF h = "err" THEN 1 ELSE 0
       /\ ReqDue(m)' = ReqDue(m) /\ ReqDue(m) \in {0, 1}
  BY <1>2, <1>5, <1>8 DEF TaskDue, ReqDue
<1>11. copies'[m] + TaskDue(m)' + ReqDue(m)' - doubt'[m]
         <= copies[m] + TaskDue(m) + ReqDue(m) - doubt[m]
  BY <1>3, <1>6, <1>7, <1>8, <1>10
<1>12. req' \in [Mails -> ReqRec] /\ \A n \in Mails \ {m} : req'[n] = req[n]
  BY <1>2, TaskFacts
<1> QED
  BY <1>2, <1>5, <1>6, <1>7, <1>8, <1>9, <1>11, <1>12, QuietStep

\* The task is taken from its handler, which may go on: the doubt pays for the
\* copy that it may still send, or has sent, while the task is due again.
LEMMA DepriveStep ==
    ASSUME QueueInv, NEW m \in Resets, task[m].handler \in Busy,
           NEW t \in TaskRec, t.st # "done", t.st # "active", t.st # "none",
           t.at = NoProc, t.handler = "none", Deprive(m, t)
    PROVE  QueueInv'
<1>1. PICK p \in Procs : p = task[m].at
  BY TaskFacts
<1>2. /\ task[m].st = "active" /\ Serving(p) /\ TaskOK(m) /\ ReqOK(m) /\ m \in Mails
      /\ req[m].step \notin {"idle", "enqueue"} /\ proc[p] # "down"
  BY <1>1, TaskFacts DEF TaskOK, Serving
<1>3. /\ task' = [task EXCEPT ![m] = t]
      /\ stray' = [stray EXCEPT ![p][m] = IF task[m].handler = "running"
                                          THEN stray[p][m] + 1 ELSE stray[p][m]]
      /\ doubt' = [doubt EXCEPT ![m] = IF task[m].handler = "err" THEN @ ELSE @ + 1]
      /\ UNCHANGED <<conf, proc, server, req, copies, ends>>
  BY <1>1, TaskFacts DEF Deprive
<1>4. /\ task' \in [Resets -> TaskRec] /\ task'[m] = t
      /\ \A n \in Resets \ {m} : task'[n] = task[n]
  BY <1>3, TaskFacts
<1>5. /\ doubt' \in [Mails -> Nat]
      /\ doubt'[m] = IF task[m].handler = "err" THEN doubt[m] ELSE doubt[m] + 1
      /\ \A n \in Mails \ {m} : doubt'[n] = doubt[n]
  BY <1>2, <1>3, TaskFacts
<1>6. /\ stray' \in [Procs -> [Resets -> Nat]]
      /\ \A x \in Procs, n \in Resets : x # p => stray'[x][n] = stray[x][n]
  BY <1>3, TaskFacts
<1>7. \A x \in Procs : proc[x] = "down" => \A n \in Resets : stray'[x][n] = 0
  BY <1>2, <1>6, TypeParts DEF QueueInv, Parts
<1>8. \A n \in Mails \ {m} : Strays(n)' = Strays(n)
  <2>1. (IF task[m].handler = "running" THEN stray[p][m] + 1 ELSE stray[p][m]) \in Nat
    BY TaskFacts
  <2> QED BY <1>3, <2>1, StraysOthers DEF QueueInv
<1>9. /\ IsFiniteSet(Strays(m)) /\ IsFiniteSet(Strays(m)')
      /\ StrayCount(m)' = IF task[m].handler = "running" THEN StrayCount(m) + 1 ELSE StrayCount(m)
  <2>1. TypeOK /\ IsFiniteSet(Strays(m))
    BY <1>2 DEF QueueInv, DueOK
  <2>2. CASE task[m].handler = "running"
    BY <1>3, <2>1, <2>2, StraysGrow
  <2>3. CASE task[m].handler # "running"
    <3>1. stray' = stray
      BY <1>3, <2>3, TaskFacts
    <3> QED BY <1>2, <2>1, <2>3, <3>1, StraysStay
  <2> QED BY <2>2, <2>3
<1>10. TaskOK(m)' /\ ReqOK(m)'
  BY <1>2, <1>3, <1>4 DEF TaskOK, ReqOK, Busy
<1>11. /\ TaskDue(m) = (IF task[m].handler = "nil" THEN 0 ELSE 1) /\ TaskDue(m)' \in {0, 1}
       /\ ReqDue(m)' = ReqDue(m) /\ ReqDue(m) \in {0, 1}
  BY <1>2, <1>3 DEF TaskDue, ReqDue
<1>12. copies[m] \in Nat /\ doubt[m] \in Nat /\ StrayCount(m) \in Nat
  BY <1>9, TaskFacts, CountNat
<1>13. Cost(m)' <= Cost(m)
  BY <1>3, <1>5, <1>9, <1>11, <1>12 DEF Cost, Busy
<1>14. /\ req' \in [Mails -> ReqRec] /\ copies' \in [Mails -> Nat]
       /\ \A n \in Mails \ {m} : req'[n] = req[n] /\ copies'[n] = copies[n]
  BY <1>3, TaskFacts
<1>15. task'[m].handler \notin Busy
  BY <1>4 DEF Busy
<1> QED
  BY <1>2, <1>3, <1>4, <1>5, <1>6, <1>7, <1>8, <1>9, <1>10, <1>13, <1>14, <1>15, MailStep

LEMMA ExpireStep ==
    ASSUME QueueInv, NEW m \in Resets, Expire(m) \/ Requeue(m) PROVE QueueInv'
<1>1. task[m].handler \in Busy
  BY DEF Expire, Requeue, Busy
<1>2. CASE Expire(m)
  <2>1. Deprive(m, Failed(task[m]))
    BY <1>2 DEF Expire
  <2>2. Failed(task[m]) \in TaskRec /\ Failed(task[m]).st \in {"retry", "archived"}
        /\ Failed(task[m]).at = NoProc /\ Failed(task[m]).handler = "none"
    BY TaskFacts, FailedFacts
  <2> QED BY <1>1, <2>1, <2>2, DepriveStep
<1>3. CASE Requeue(m)
  <2>1. Deprive(m, Rests(task[m], "pending")) /\ "pending" \in TaskStates
    BY <1>3 DEF Requeue, TaskStates
  <2> QED BY <1>1, <2>1, TaskFacts, RestsFacts, DepriveStep
<1> QED BY <1>2, <1>3

\* A stray handler sends what had been paid for when it became one.
LEMMA StrayStep ==
    ASSUME QueueInv, NEW m \in Resets, NEW p \in Procs, StrayHandle(m, p) PROVE QueueInv'
<1>1. PICK r \in SendResults : copies' = [copies EXCEPT ![m] = @ + r.copies]
  BY DEF StrayHandle
<1>2. /\ stray[p][m] > 0 /\ stray' = [stray EXCEPT ![p][m] = stray[p][m] - 1]
      /\ UNCHANGED <<conf, proc, server, req, task, doubt, ends>>
  BY TaskFacts DEF StrayHandle
<1>3. r.copies \in {0, 1}
  BY SendFacts
<1>4. /\ copies' \in [Mails -> Nat] /\ copies'[m] = copies[m] + r.copies
      /\ \A n \in Mails \ {m} : copies'[n] = copies[n]
  BY <1>1, <1>3, TaskFacts
<1>5. TypeOK /\ IsFiniteSet(Strays(m)) /\ TaskOK(m) /\ ReqOK(m) /\ m \in Mails
  BY TaskFacts DEF QueueInv, DueOK
<1>6. stray[p][m] \in Nat /\ stray[p][m] - 1 \in Nat
  BY <1>2, TaskFacts
<1>7. /\ stray' \in [Procs -> [Resets -> Nat]]
      /\ \A x \in Procs : proc[x] = "down" => \A n \in Resets : stray'[x][n] = 0
  <2>1. stray' \in [Procs -> [Resets -> Nat]]
    BY <1>2, <1>6, TaskFacts
  <2>2. proc[p] # "down"
    BY <1>2, <1>5, TypeParts DEF Parts
  <2>3. \A x \in Procs, n \in Resets : x # p => stray'[x][n] = stray[x][n]
    BY <1>2, TaskFacts
  <2> QED BY <1>5, <2>1, <2>2, <2>3, TypeParts DEF Parts
<1>8. \A n \in Mails \ {m} : Strays(n)' = Strays(n)
  BY <1>2, <1>5, <1>6, StraysOthers
<1>9. IsFiniteSet(Strays(m)') /\ StrayCount(m)' = StrayCount(m) - 1
  BY <1>2, <1>5, StraysShrink
<1>10. req[m].step \notin {"idle", "enqueue"}
  <2>1. <<p, stray[p][m]>> \in Strays(m)
    BY <1>2, <1>6 DEF Strays
  <2> QED BY <1>5, <2>1 DEF TaskOK
<1>11. ReqOK(m)' /\ TaskOK(m)'
  BY <1>2, <1>3, <1>4, <1>5, <1>10, TaskFacts DEF TaskOK, ReqOK
<1>12. /\ TaskDue(m)' = TaskDue(m) /\ TaskDue(m) \in {0, 1}
       /\ ReqDue(m)' = ReqDue(m) /\ ReqDue(m) \in {0, 1}
       /\ copies[m] \in Nat /\ doubt[m] \in Nat /\ StrayCount(m) \in Nat
  BY <1>2, <1>5, TaskFacts, CountNat DEF TaskDue, ReqDue
<1>13. Cost(m)' <= Cost(m)
  BY <1>2, <1>3, <1>4, <1>9, <1>12 DEF Cost
<1>14. /\ req' \in [Mails -> ReqRec] /\ task' \in [Resets -> TaskRec] /\ doubt' \in [Mails -> Nat]
       /\ task'[m].handler \notin Busy \/ Serving(task'[m].at)
       /\ \A n \in Mails \ {m} : req'[n] = req[n] /\ doubt'[n] = doubt[n]
       /\ \A n \in Resets \ {m} : task'[n] = task[n]
  BY <1>2, TaskFacts
<1> QED
  BY <1>2, <1>4, <1>5, <1>7, <1>8, <1>9, <1>11, <1>13, <1>14, MailStep

-----------------------------------------------------------------------------
(* Instances *)

\* Whatever dies with an instance, a doubt stands for a success not filed.
LEMMA PerishStep ==
    ASSUME QueueInv, NEW p \in Procs, Perish(p), ends' \in 0..MaxEnds PROVE QueueInv'
<1>1. TypeOK'
  BY PerishTyped
<1>2. UNCHANGED <<conf, copies>> /\ stray' = [stray EXCEPT ![p] = [n \in Resets |-> 0]]
  BY DEF Perish
<1>3. ASSUME NEW m \in Mails
      PROVE  /\ Strays(m)' \subseteq Strays(m)
             /\ IsFiniteSet(Strays(m)') /\ StrayCount(m)' <= StrayCount(m)
  BY <1>2, StraysPerish DEF QueueInv, DueOK
<1>4. ASSUME NEW m \in Mails
      PROVE  /\ req'[m] = req[m] \/ (req'[m].step = "lost" /\ req'[m].at = NoProc)
             /\ req[m].at # NoProc => req[m].step \in {"enqueue", "inline"}
  BY PerishFacts DEF QueueInv, ReqOK
<1>5. ASSUME NEW m \in Resets PROVE TaskOK(m)'
  <2>1. CASE task[m].at = p
    <3>1. task'[m].handler = "gone" /\ task'[m].at = NoProc /\ task'[m].st = task[m].st
      BY <2>1, PerishFacts
    <3>2. TaskOK(m) /\ task[m].st = "active" /\ req[m].step \notin {"idle", "enqueue"}
      BY <2>1, TaskFacts DEF TaskOK
    <3>3. req'[m].step \notin {"idle", "enqueue"}
      BY <1>4, <3>2, TaskFacts
    <3> QED BY <3>1, <3>2, <3>3 DEF TaskOK, Busy
  <2>2. CASE task[m].at # p
    <3>1. task'[m] = task[m] /\ TaskOK(m)
      BY <2>2, PerishFacts, TaskFacts
    <3> QED BY <1>2, <1>3, <1>4, <3>1, TaskFacts DEF TaskOK
  <2> QED BY <2>1, <2>2
<1>6. ASSUME NEW m \in Mails PROVE ReqOK(m)'
  BY <1>2, <1>4 DEF QueueInv, ReqOK
<1>7. ASSUME NEW m \in Mails PROVE DueOK(m)'
  <2>1. /\ DueOK(m) /\ copies[m] \in Nat /\ doubt[m] \in Nat
        /\ StrayCount(m) \in Nat /\ StrayCount(m)' \in Nat
    BY <1>3, Typed, CountNat, FS_CardinalityType DEF QueueInv, DueOK, StrayCount
  <2>2. /\ ReqDue(m) \in {0, 1} /\ ReqDue(m)' \in {0, 1} /\ ReqDue(m)' <= ReqDue(m)
        /\ TaskDue(m) \in {0, 1} /\ TaskDue(m)' \in {0, 1}
    BY <1>4 DEF ReqDue, TaskDue
  <2>3. /\ doubt'[m] \in {doubt[m], doubt[m] + 1}
        /\ TaskDue(m)' <= TaskDue(m) \/ doubt'[m] = doubt[m] + 1
    <3>1. CASE m \in Resets /\ task[m].at = p /\ task[m].handler = "nil"
      BY <3>1, PerishFacts
    <3>2. CASE m \in Resets /\ task[m].at = p /\ task[m].handler # "nil"
      <4>1. TaskDue(m) = 1
        BY <3>2, TaskFacts DEF TaskOK, TaskDue
      <4> QED BY <2>2, <3>2, <4>1, PerishFacts
    <3>3. CASE m \in Resets /\ task[m].at # p
      <4>1. task'[m] = task[m] /\ doubt'[m] = doubt[m]
        BY <3>3, PerishFacts
      <4>2. TaskDue(m)' = TaskDue(m)
        BY <4>1 DEF TaskDue
      <4> QED BY <2>2, <4>1, <4>2
    <3>4. CASE m \notin Resets
      BY <3>4, PerishFacts DEF TaskDue
    <3> QED BY <3>1, <3>2, <3>3, <3>4
  <2> QED BY <1>2, <1>3, <2>1, <2>2, <2>3 DEF DueOK
<1> QED BY <1>1, <1>5, <1>6, <1>7 DEF QueueInv

\* Booting, starting, stopping and draining concern no mail.
LEMMA LifeStep ==
    ASSUME QueueInv, NEW p \in Procs, Live(p) \/ Stop(p) \/ Crash(p) PROVE QueueInv'
<1>1. CASE Boot(p) \/ StartServer(p) \/ Stop(p) \/ Drained(p)
  <2>1. UNCHANGED <<conf, req, task, stray, copies, doubt>>
    BY <1>1 DEF Boot, StartServer, Stop, Drained
  <2>2. \A m \in Mails : Strays(m)' = Strays(m) /\ StrayCount(m)' = StrayCount(m)
    BY <2>1, StraysStay
  <2>3. ASSUME NEW m \in Resets PROVE TaskOK(m)'
    BY <2>1, <2>2, TaskFacts DEF TaskOK
  <2>4. ASSUME NEW m \in Mails PROVE ReqOK(m)' /\ DueOK(m)'
    <3>1. TaskDue(m)' = TaskDue(m) /\ ReqDue(m)' = ReqDue(m)
      BY <2>1 DEF TaskDue, ReqDue
    <3> QED BY <2>1, <2>2, <3>1 DEF QueueInv, ReqOK, DueOK
  <2> QED BY <1>1, <2>3, <2>4, LifeTyped DEF QueueInv
<1>2. CASE Exit(p) \/ Crash(p)
  <2>1. Perish(p) /\ ends' \in 0..MaxEnds
    BY <1>2 DEF Exit, Crash, QueueInv, TypeOK
  <2> QED BY <2>1, PerishStep
<1> QED BY <1>1, <1>2 DEF Live

LEMMA StutterStep ==
    ASSUME QueueInv, UNCHANGED vars PROVE QueueInv'
<1>1. TypeOK'
  BY DEF QueueInv, TypeOK, vars, Serving
<1>2. \A m \in Mails : Strays(m)' = Strays(m) /\ StrayCount(m)' = StrayCount(m)
  BY StraysStay DEF vars
<1>3. ASSUME NEW m \in Resets PROVE TaskOK(m)'
  BY <1>2, TaskFacts DEF TaskOK, vars
<1>4. ASSUME NEW m \in Mails PROVE ReqOK(m)' /\ DueOK(m)'
  <2>1. TaskDue(m)' = TaskDue(m) /\ ReqDue(m)' = ReqDue(m)
    BY DEF TaskDue, ReqDue, vars
  <2> QED BY <1>2, <2>1 DEF QueueInv, ReqOK, DueOK, vars
<1> QED BY <1>1, <1>3, <1>4 DEF QueueInv

\* Every step preserves the invariant.
LEMMA NextInv == QueueInv /\ [Next]_vars => QueueInv'
<1> SUFFICES ASSUME QueueInv, [Next]_vars PROVE QueueInv'
  OBVIOUS
<1>1. ASSUME NEW m \in Welcomes, NEW p \in Procs, Register(m, p) PROVE QueueInv'
  BY <1>1, ArrivalStep DEF Mails
<1>2. ASSUME NEW m \in Resets, NEW p \in Procs, ForgotPassword(m, p) PROVE QueueInv'
  BY <1>2, ArrivalStep DEF Mails
<1>3. ASSUME NEW m \in Resets, NEW p \in Procs, Take(m, p) \/ StrayHandle(m, p) PROVE QueueInv'
  BY <1>3, TakeStep, StrayStep
<1>4. ASSUME NEW m \in Resets,
             \/ Enqueue(m) \/ EnqueueFails(m) \/ Handle(m) \/ Finish(m)
             \/ Expire(m) \/ Requeue(m) \/ Recover(m) \/ Forward(m)
      PROVE  QueueInv'
  BY <1>4, EnqueueStep, HandleStep, FinishStep, ExpireStep, ForwardStep
<1> QED
  BY <1>1, <1>2, <1>3, <1>4, LifeStep, InlineStep, StutterStep DEF Next

LEMMA Invariance == Spec => []QueueInv
BY InitInv, NextInv, PTL DEF Spec

\* The queue, its servers and its requests keep their types, and a worker has a
\* task only on an instance that is up, for any number of instances.
THEOREM QueueTypeCorrect == Spec => []TypeOK
<1>1. QueueInv => TypeOK
  BY DEF QueueInv
<1> QED BY Invariance, <1>1, PTL

\* Through any number of crashes, shutdowns, deadlines and retries a mail goes
\* out once, and once more at most for every event that left its sender in doubt.
THEOREM DuplicatesExplained == Spec => []DuplicatesHaveACause
<1>1. QueueInv => DuplicatesHaveACause
  <2> SUFFICES ASSUME QueueInv, NEW m \in Mails PROVE copies[m] <= 1 + doubt[m]
    BY DEF DuplicatesHaveACause
  <2>1. copies[m] \in Nat /\ doubt[m] \in Nat
    BY Typed DEF QueueInv
  <2>2. StrayCount(m) \in Nat /\ TaskDue(m) \in {0, 1} /\ ReqDue(m) \in {0, 1}
    BY DueTyped DEF QueueInv, DueOK
  <2> QED BY <2>1, <2>2 DEF QueueInv, DueOK
<1> QED BY Invariance, <1>1, PTL

-----------------------------------------------------------------------------
(* The queue implements MailDelivery, as far as safety goes *)

TaskState(m) == IF m \in Resets THEN task[m].st ELSE "none"

\* Status without CASE.
StatusIs(m) ==
    IF copies[m] > 0 THEN "sent"
    ELSE IF TaskState(m) \in {"pending", "active", "retry"} THEN "owed"
    ELSE IF TaskState(m) = "archived" \/ (TaskState(m) = "none" /\ req[m].step = "failed")
    THEN "aside"
    ELSE IF TaskState(m) = "done" \/ (TaskState(m) = "none" /\ req[m].step = "skipped")
    THEN "skipped"
    ELSE "none"

LEMMA StatusFacts ==
    ASSUME NEW m \in Mails
    PROVE  /\ QueueInv => Status(m) = StatusIs(m)
           /\ QueueInv' => Status(m)' = StatusIs(m)'
<1>1. ASSUME copies[m] \in Nat PROVE Status(m) = StatusIs(m)
  BY <1>1 DEF Status, StatusIs, TaskState
<1>2. ASSUME copies'[m] \in Nat PROVE Status(m)' = StatusIs(m)'
  BY <1>2 DEF Status, StatusIs, TaskState
<1>3. QueueInv => copies[m] \in Nat
  BY DEF QueueInv, TypeOK
<1>4. QueueInv' => copies'[m] \in Nat
  BY DEF QueueInv, TypeOK
<1> QED BY <1>1, <1>2, <1>3, <1>4

\* A mail whose copies, task and request stay is where it was.
LEMMA StatusStays ==
    ASSUME NEW m \in Mails, copies'[m] = copies[m], req'[m] = req[m],
           m \in Resets => task'[m] = task[m]
    PROVE  Status(m)' = Status(m)
BY DEF Status

\* What MailDelivery allows the status of one mail to do.
Moves(m) ==
    \/ Status(m)' = Status(m)
    \/ Status(m) = "none" /\ Status(m)' = "owed"
    \/ conf.mail /\ Status(m) \in {"none", "owed", "aside"} /\ Status(m)' = "sent"
    \/ Status(m) \in {"none", "owed"} /\ Status(m)' = "aside"
    \/ ~conf.mail /\ Status(m) \in {"none", "owed"} /\ Status(m)' = "skipped"

LEMMA MoveRefines ==
    ASSUME NEW m \in Mails, UNCHANGED conf, \A n \in Mails \ {m} : Status(n)' = Status(n), Moves(m)
    PROVE  [Delivery!Next]_(Delivery!vars)
<1> DEFINE bar == [n \in Mails |-> Status(n)]
<1>1. bar' = [bar EXCEPT ![m] = Status(m)'] /\ bar[m] = Status(m)
  OBVIOUS
<1>2. CASE Status(m)' = Status(m)
  BY <1>2 DEF Delivery!vars
<1>3. CASE Status(m) = "none" /\ Status(m)' = "owed"
  BY <1>1, <1>3 DEF Delivery!Next, Delivery!Accept, Delivery!Move
<1>4. CASE conf.mail /\ Status(m) \in {"none", "owed", "aside"} /\ Status(m)' = "sent"
  BY <1>1, <1>4 DEF Delivery!Next, Delivery!Send, Delivery!Move
<1>5. CASE Status(m) \in {"none", "owed"} /\ Status(m)' = "aside"
  BY <1>1, <1>5 DEF Delivery!Next, Delivery!PutAside, Delivery!Move
<1>6. CASE ~conf.mail /\ Status(m) \in {"none", "owed"} /\ Status(m)' = "skipped"
  BY <1>1, <1>6 DEF Delivery!Next, Delivery!Skip, Delivery!Move
<1> QED BY <1>2, <1>3, <1>4, <1>5, <1>6 DEF Moves

\* A request arrives: nothing has been promised yet.
LEMMA ArrivalMoves ==
    ASSUME QueueInv, QueueInv', NEW m \in Mails, NEW p \in Procs,
           ForgotPassword(m, p) \/ Register(m, p)
    PROVE  [Delivery!Next]_(Delivery!vars)
<1>1. /\ req[m].step = "idle" /\ req \in [Mails -> ReqRec]
      /\ UNCHANGED <<conf, task, copies>>
  BY Typed DEF ForgotPassword, Register, Arrives, QueueInv
<1>2. req'[m].step \in {"enqueue", "inline"} /\ \A n \in Mails \ {m} : req'[n] = req[n]
  BY <1>1 DEF ForgotPassword, Register
<1>3. Status(m)' = Status(m)
  BY <1>1, <1>2, StatusFacts DEF StatusIs, TaskState
<1> QED BY <1>1, <1>2, <1>3, StatusStays, MoveRefines DEF Moves

\* An accepted mail is owed.
LEMMA EnqueueMoves ==
    ASSUME QueueInv, QueueInv', NEW m \in Resets, Enqueue(m) \/ EnqueueFails(m)
    PROVE  [Delivery!Next]_(Delivery!vars)
<1>1. /\ req[m].step = "enqueue" /\ req \in [Mails -> ReqRec] /\ task \in [Resets -> TaskRec]
      /\ UNCHANGED <<conf, copies>> /\ copies[m] = 0 /\ task[m].st = "none" /\ m \in Mails
  BY TaskFacts DEF Enqueue, EnqueueFails, TaskOK, ReqOK
<1>2. /\ task'[m].st \in {"none", "pending"}
      /\ \A n \in Resets \ {m} : task'[n] = task[n]
  BY <1>1, PendingFacts DEF Enqueue, EnqueueFails
<1>3. req'[m].step \in {"queued", "inline"} /\ \A n \in Mails \ {m} : req'[n] = req[n]
  BY <1>1 DEF Enqueue, EnqueueFails, SetReq
<1>4. Status(m) = "none" /\ Status(m)' \in {"none", "owed"}
  BY <1>1, <1>2, <1>3, StatusFacts DEF StatusIs, TaskState
<1>5. Moves(m)
  BY <1>4 DEF Moves
<1> QED BY <1>1, <1>2, <1>3, <1>5, StatusStays, MoveRefines

\* A mail that is counted as done has gone out, unless mail is switched off.
LEMMA SkippedFacts ==
    ASSUME QueueInv, NEW m \in Mails PROVE Status(m) = "skipped" => ~conf.mail
<1>1. CASE TaskState(m) = "done"
  <2>1. m \in Resets /\ task[m].st = "done"
    BY <1>1 DEF TaskState
  <2>2. copies[m] > 0 \/ ~conf.mail
    BY <2>1, TaskFacts DEF TaskOK
  <2> QED BY <2>2, StatusFacts DEF StatusIs
<1>2. CASE TaskState(m) # "done"
  <2>1. Status(m) = "skipped" => req[m].step = "skipped"
    BY <1>2, StatusFacts DEF StatusIs
  <2> QED BY <2>1 DEF QueueInv, ReqOK
<1> QED BY <1>1, <1>2

\* A copy goes out.
LEMMA CopyMoves ==
    ASSUME QueueInv, QueueInv', NEW m \in Mails, conf.mail, copies'[m] > 0
    PROVE  Moves(m)
<1>1. Status(m)' = "sent"
  BY StatusFacts DEF StatusIs
<1>2. Status(m) \in {"sent", "owed", "aside", "none"}
  <2>1. Status(m) \in {"sent", "owed", "aside", "none", "skipped"}
    BY StatusFacts DEF StatusIs
  <2> QED BY <2>1, SkippedFacts
<1> QED BY <1>1, <1>2 DEF Moves

LEMMA InlineMoves ==
    ASSUME QueueInv, QueueInv', NEW m \in Mails, SendInline(m)
    PROVE  [Delivery!Next]_(Delivery!vars)
<1>1. /\ req[m].step = "inline" /\ req \in [Mails -> ReqRec] /\ copies \in [Mails -> Nat]
      /\ UNCHANGED <<conf, task>>
  BY Typed DEF SendInline, QueueInv
<1>2. PICK r \in SendResults :
        /\ copies' = [copies EXCEPT ![m] = @ + r.copies]
        /\ SetReq(m, IF r.copies = 1 THEN "sent" ELSE IF r.err THEN "failed" ELSE "skipped")
  BY DEF SendInline
<1>3. \A n \in Mails \ {m} : copies'[n] = copies[n] /\ req'[n] = req[n]
  BY <1>1, <1>2 DEF SetReq
<1>4. r.copies \in {0, 1} /\ copies'[m] = copies[m] + r.copies
  BY <1>1, <1>2, SendFacts
<1>5. CASE r.copies = 1
  <2>1. conf.mail /\ copies'[m] > 0
    BY <1>1, <1>4, <1>5, SendFacts
  <2> QED BY <1>1, <1>3, <2>1, CopyMoves, StatusStays, MoveRefines
<1>6. CASE r.copies = 0
  <2>1. /\ copies'[m] = copies[m] /\ copies[m] \in Nat
        /\ req'[m].step \in {"failed", "skipped"}
        /\ req'[m].step = "skipped" => ~conf.mail
    BY <1>1, <1>2, <1>4, <1>6, SendFacts DEF SetReq
  <2>2. CASE copies[m] > 0 \/ TaskState(m) # "none"
    <3>1. Status(m)' = Status(m)
      BY <1>1, <2>1, <2>2, StatusFacts DEF StatusIs, TaskState
    <3> QED BY <1>1, <1>3, <3>1, StatusStays, MoveRefines DEF Moves
  <2>3. CASE copies[m] = 0 /\ TaskState(m) = "none"
    <3>1. /\ Status(m) = "none" /\ Status(m)' \in {"aside", "skipped"}
          /\ Status(m)' = "skipped" => ~conf.mail
      BY <1>1, <2>1, <2>3, StatusFacts DEF StatusIs, TaskState
    <3>2. Moves(m)
      BY <3>1 DEF Moves
    <3> QED BY <1>1, <1>3, <3>2, StatusStays, MoveRefines
  <2> QED BY <2>1, <2>2, <2>3
<1> QED BY <1>4, <1>5, <1>6

\* A handler, on its task or stray, sends or does not.
LEMMA HandlerMoves ==
    ASSUME QueueInv, QueueInv', NEW m \in Resets,
           Handle(m) \/ \E p \in Procs : StrayHandle(m, p)
    PROVE  [Delivery!Next]_(Delivery!vars)
<1>1. PICK r \in SendResults : copies' = [copies EXCEPT ![m] = @ + r.copies]
  BY DEF Handle, StrayHandle
<1>2. /\ UNCHANGED <<conf, req>> /\ m \in Mails /\ copies \in [Mails -> Nat]
      /\ task \in [Resets -> TaskRec] /\ task[m] \in TaskRec
  BY TaskFacts DEF Handle, StrayHandle
<1>3. task'[m].st = task[m].st /\ \A n \in Resets \ {m} : task'[n] = task[n]
  BY <1>2 DEF Handle, StrayHandle, TaskRec
<1>4. /\ r.copies \in {0, 1} /\ copies'[m] = copies[m] + r.copies
      /\ \A n \in Mails \ {m} : copies'[n] = copies[n]
  BY <1>1, <1>2, SendFacts
<1>5. CASE r.copies = 1
  <2>1. conf.mail /\ copies'[m] > 0
    BY <1>2, <1>4, <1>5, SendFacts
  <2> QED BY <1>2, <1>3, <1>4, <2>1, CopyMoves, StatusStays, MoveRefines
<1>6. CASE r.copies = 0
  <2>1. copies'[m] = copies[m]
    BY <1>2, <1>4, <1>6
  <2>2. Status(m)' = Status(m)
    BY <1>2, <1>3, <2>1, StatusFacts DEF StatusIs, TaskState
  <2> QED BY <1>2, <1>3, <1>4, <2>2, StatusStays, MoveRefines DEF Moves
<1> QED BY <1>4, <1>5, <1>6

\* A task changes hands: it stays owed until it is archived, or done with the
\* mail gone out or skipped.
LEMMA TaskMoves ==
    ASSUME QueueInv, QueueInv', NEW m \in Resets,
           \/ \E p \in Procs : Take(m, p)
           \/ Finish(m) \/ Expire(m) \/ Requeue(m) \/ Recover(m) \/ Forward(m)
    PROVE  [Delivery!Next]_(Delivery!vars)
<1>1. UNCHANGED <<conf, req, copies>> /\ m \in Mails /\ task \in [Resets -> TaskRec]
      /\ task[m] \in TaskRec
  BY TaskFacts DEF Take, Finish, Expire, Requeue, Deprive, Recover, Forward
<1>2. \A n \in Resets \ {m} : task'[n] = task[n]
  BY <1>1 DEF Take, Finish, Expire, Requeue, Deprive, Recover, Forward
<1>3. task[m].st \in {"pending", "active", "retry"}
  BY TaskFacts DEF TaskOK, Busy, Take, Finish, Expire, Requeue, Recover, Forward
<1>4. task'[m].st \in {"pending", "active", "retry", "archived", "done"}
  <2>0. ASSUME NEW p \in Procs, Take(m, p) PROVE task'[m].st = "active"
    <3> DEFINE t == [task[m] EXCEPT !.st = "active", !.at = p, !.handler = "running"]
    <3>1. task' = [task EXCEPT ![m] = t] /\ t.st = "active"
      BY <1>1, <2>0 DEF Take, TaskRec
    <3> HIDE DEF t
    <3> QED BY <1>1, <3>1
  <2>1. CASE Forward(m)
    BY <1>1, <2>1 DEF Forward, TaskRec
  <2>2. \A st \in TaskStates : Rests(task[m], st).st = st
    BY <1>1, RestsFacts
  <2>3. "pending" \in TaskStates /\ "done" \in TaskStates
    BY DEF TaskStates
  <2>4. Failed(task[m]).st \in {"retry", "archived"}
    BY <1>1, FailedFacts
  <2>5. CASE Finish(m) \/ Expire(m) \/ Requeue(m) \/ Recover(m)
    <3>1. \/ task' = [task EXCEPT ![m] = Rests(task[m], "done")]
          \/ task' = [task EXCEPT ![m] = Rests(task[m], "pending")]
          \/ task' = [task EXCEPT ![m] = Failed(task[m])]
      BY <1>1, <2>5 DEF Finish, Expire, Requeue, Recover, Deprive
    <3>2. \/ task'[m] = Rests(task[m], "done") \/ task'[m] = Rests(task[m], "pending")
          \/ task'[m] = Failed(task[m])
      BY <1>1, <3>1
    <3> QED BY <2>2, <2>3, <2>4, <3>2
  <2> QED BY <2>0, <2>1, <2>5
<1>5. Moves(m)
  <2>1. CASE copies[m] > 0
    <3>1. Status(m)' = Status(m)
      BY <1>1, <2>1, StatusFacts DEF StatusIs
    <3> QED BY <3>1 DEF Moves
  <2>2. CASE ~(copies[m] > 0)
    <3>1. /\ Status(m) = "owed" /\ Status(m)' \in {"owed", "aside", "skipped"}
      BY <1>1, <1>3, <1>4, <2>2, StatusFacts DEF StatusIs, TaskState
    <3>2. Status(m)' = "skipped" => ~conf.mail
      <4>1. Status(m)' = "skipped" => task'[m].st = "done"
        BY <1>1, <1>4, <2>2, StatusFacts DEF StatusIs, TaskState
      <4>2. task'[m].st = "done" => copies'[m] > 0 \/ ~conf'.mail
        BY DEF QueueInv, TaskOK
      <4> QED BY <1>1, <2>2, <4>1, <4>2
    <3> QED BY <3>1, <3>2 DEF Moves
  <2> QED BY <2>1, <2>2
<1> QED BY <1>1, <1>2, <1>5, StatusStays, MoveRefines

\* What happens to an instance moves no mail: a request that is lost had promised
\* nothing.
LEMMA LifeMoves ==
    ASSUME QueueInv, QueueInv', NEW p \in Procs, Live(p) \/ Stop(p) \/ Crash(p)
    PROVE  [Delivery!Next]_(Delivery!vars)
<1>1. UNCHANGED <<conf, copies>>
  BY DEF Live, Boot, StartServer, Drained, Stop, Exit, Crash, Perish
<1>2. ASSUME NEW m \in Mails PROVE Status(m)' = Status(m)
  <2>1. CASE Boot(p) \/ StartServer(p) \/ Drained(p) \/ Stop(p)
    BY <2>1, StatusStays DEF Boot, StartServer, Drained, Stop
  <2>2. CASE Perish(p)
    <3>1. TaskState(m)' = TaskState(m)
      BY <2>2, PerishFacts DEF TaskState
    <3>2. \/ req'[m].step = req[m].step
          \/ req[m].step \in {"enqueue", "inline"} /\ req'[m].step = "lost"
      BY <2>2, PerishFacts DEF QueueInv, ReqOK
    <3> QED BY <1>1, <3>1, <3>2, StatusFacts DEF StatusIs
  <2> QED BY <2>1, <2>2 DEF Live, Exit, Crash
<1>3. [m \in Mails |-> Status(m)]' = [m \in Mails |-> Status(m)]
  BY <1>2
<1> QED BY <1>1, <1>3 DEF Delivery!vars

\* Every step of the queue is a step of MailDelivery or none.
LEMMA StepRefines ==
    ASSUME QueueInv, QueueInv', [Next]_vars PROVE [Delivery!Next]_(Delivery!vars)
<1>1. CASE UNCHANGED vars
  <2>1. [m \in Mails |-> Status(m)]' = [m \in Mails |-> Status(m)] /\ UNCHANGED conf
    BY <1>1 DEF vars, Status
  <2> QED BY <2>1 DEF Delivery!vars
<1>2. ASSUME NEW m \in Resets, NEW p \in Procs,
             ForgotPassword(m, p) \/ Take(m, p) \/ StrayHandle(m, p)
      PROVE  [Delivery!Next]_(Delivery!vars)
  BY <1>2, ArrivalMoves, TaskMoves, HandlerMoves DEF Mails
<1>3. ASSUME NEW m \in Resets,
             \/ Enqueue(m) \/ EnqueueFails(m) \/ Handle(m) \/ Finish(m)
             \/ Expire(m) \/ Requeue(m) \/ Recover(m) \/ Forward(m)
      PROVE  [Delivery!Next]_(Delivery!vars)
  BY <1>3, EnqueueMoves, HandlerMoves, TaskMoves
<1>4. ASSUME NEW m \in Welcomes, NEW p \in Procs, Register(m, p)
      PROVE  [Delivery!Next]_(Delivery!vars)
  BY <1>4, ArrivalMoves DEF Mails
<1> QED
  BY <1>1, <1>2, <1>3, <1>4, LifeMoves, InlineMoves DEF Next

\* The queue never does to a mail what MailDelivery forbids, for any number of
\* instances, mails and failures: what has been accepted stays owed until it goes
\* out or is put aside, nothing that went out is owed again, and a mail counts as
\* done without having gone out only when mail is switched off.
THEOREM QueueRefines == Spec => Delivery!Safety
<1>1. Init => Delivery!Init
  <2> SUFFICES ASSUME Init PROVE Delivery!Init
    OBVIOUS
  <2>1. conf.mail \in BOOLEAN /\ conf.jobs \in BOOLEAN
    BY DEF Init, Confs
  <2>2. QueueInv
    BY InitInv
  <2>3. ASSUME NEW m \in Mails PROVE Status(m) = "none"
    BY <2>2, PendingFacts, StatusFacts DEF Init, StatusIs, TaskState
  <2> QED BY <2>1, <2>3 DEF Delivery!Init
<1>2. QueueInv /\ QueueInv' /\ [Next]_vars => [Delivery!Next]_(Delivery!vars)
  BY StepRefines
<1> QED
  BY <1>1, <1>2, Invariance, PTL DEF Spec, Delivery!Safety
=============================================================================
