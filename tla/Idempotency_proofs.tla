------------------------- MODULE Idempotency_proofs -------------------------
(***************************************************************************)
(* Proofs about Idempotency for any number of requests, keys and bodies    *)
(* and any TTL, with faults or without.  IdemInv is inductive by itself;   *)
(* RerunsHaveACause needs CauseInv on top, which says when the one run     *)
(* that needs no cause is still to come.                                   *)
(***************************************************************************)
EXTENDS Idempotency, FiniteSetTheorems, TLAPS

USE IdemAssumption

\* n is a run of the handler for that key and that body.
RunOf(n, k, b) == n \in 1..Len(runs) /\ runs[n].key = k /\ runs[n].body = b

\* Every row holds the answer of a run for its own key and hash.
RowsOwn == \A k \in DOMAIN rows : RunOf(rows[k].run, k, rows[k].hash)

\* A request about to save holds the answer of its own run.
RequestsOwn ==
    \A r \in Requests : req[r].pc = "save" => RunOf(req[r].run, req[r].key, req[r].body)

\* An answer that has to stand is on file, with exactly that expiry.
UntilOK ==
    \A k \in Keys : now < until[k] => k \in DOMAIN rows /\ rows[k].expiresAt = until[k]

IdemInv ==
    /\ TypeOK
    /\ RowsOwn
    /\ RequestsOwn
    /\ UntilOK
    /\ ReplayedAnswerIsOwn

-----------------------------------------------------------------------------
\* The empty slot is a request.
LEMMA IdleFacts == Idle \in Request /\ Idle.pc = "idle"
<1>1. (CHOOSE k \in Keys : TRUE) \in Keys /\ (CHOOSE b \in Bodies : TRUE) \in Bodies
  OBVIOUS
<1> DEFINE k0 == CHOOSE k \in Keys : TRUE
           b0 == CHOOSE b \in Bodies : TRUE
<1> HIDE DEF k0, b0
<1> QED
  BY <1>1 DEF Idle, Request, k0, b0

\* The invariant holds before the first request.
LEMMA IdemInitOK == Init => IdemInv
<1> SUFFICES ASSUME Init PROVE IdemInv
  OBVIOUS
<1>1. DOMAIN rows = {} /\ Len(runs) = 0 /\ runs \in Seq(Run)
  BY DEF Init
<1>2. TypeOK
  BY <1>1, IdleFacts DEF Init, TypeOK
<1>3. RowsOwn /\ RequestsOwn /\ UntilOK /\ ReplayedAnswerIsOwn
  BY <1>1, IdleFacts DEF Init, RowsOwn, RequestsOwn, UntilOK, ReplayedAnswerIsOwn
<1> QED
  BY <1>2, <1>3 DEF IdemInv

\* The two history variables have their types, whatever step is taken.
HistoryOK == again \subseteq Requests /\ excuses \in [Keys -> Nat]

LEMMA HistoryStep ==
    ASSUME TypeOK, [Next]_vars PROVE HistoryOK'
<1>0. again \subseteq Requests /\ excuses \in [Keys -> Nat]
  BY DEF TypeOK
<1>1. ASSUME NEW r \in Requests PROVE req[r].key \in Keys
  BY DEF TypeOK, Request
<1>2. ASSUME NEW k \in Keys, NEW cond, Excuse(k, cond) PROVE excuses' \in [Keys -> Nat]
  BY <1>0, <1>2 DEF Excuse
<1>3. CASE Next
  <2>1. ASSUME NEW r \in Requests, NEW k \in Keys, NEW b \in Bodies, Arrive(r, k, b)
        PROVE  HistoryOK'
    BY <1>0, <2>1 DEF Arrive, HistoryOK
  <2>2. ASSUME NEW r \in Requests, Find(r) \/ FindFails(r) \/ Denied(r) PROVE HistoryOK'
    BY <1>0, <2>2 DEF Find, FindFails, Denied, Finish, Proceed, HistoryOK
  <2>3. ASSUME NEW r \in Requests, Handle(r) \/ Save(r) \/ Lose(r) PROVE HistoryOK'
    <3>1. again' = again \ {r}
      BY <2>3 DEF Handle, Save, Lose, Finish
    <3>2. excuses' \in [Keys -> Nat]
      BY <1>1, <1>2, <2>3 DEF Handle, Save, Lose
    <3> QED BY <1>0, <3>1, <3>2 DEF HistoryOK
  <2>4. CASE DeleteExpired \/ Tick
    BY <1>0, <2>4 DEF DeleteExpired, Tick, HistoryOK
  <2> QED BY <1>3, <2>1, <2>2, <2>3, <2>4 DEF Next
<1> QED
  BY <1>0, <1>3 DEF vars, HistoryOK

\* A request moves to a state in which it holds no answer.
LEMMA MoveStep ==
    ASSUME IdemInv, NEW r \in Requests, NEW q \in Request, q.pc # "save",
           req' = [req EXCEPT ![r] = q],
           UNCHANGED <<now, rows, runs, until>>, HistoryOK',
           \A a \in replays' : a \in replays \/ (a \in Replay /\ RunOf(a.run, a.key, a.body))
    PROVE  IdemInv'
<1>1. TypeOK'
  BY DEF IdemInv, TypeOK, HistoryOK
<1>2. RequestsOwn'
  BY DEF IdemInv, TypeOK, RequestsOwn, RunOf
<1>3. RowsOwn' /\ UntilOK'
  BY DEF IdemInv, RowsOwn, UntilOK, RunOf
<1>4. ReplayedAnswerIsOwn'
  BY DEF IdemInv, ReplayedAnswerIsOwn, RunOf
<1> QED
  BY <1>1, <1>2, <1>3, <1>4 DEF IdemInv

\* Arrivals, lookups, refusals and losses.
LEMMA LookupStep ==
    ASSUME IdemInv, NEW r \in Requests,
           \/ \E k \in Keys, b \in Bodies : Arrive(r, k, b)
           \/ Find(r) \/ FindFails(r) \/ Denied(r) \/ Lose(r),
           HistoryOK'
    PROVE  IdemInv'
<1>0. req[r] \in Request
  BY DEF IdemInv, TypeOK
<1>1. ASSUME NEW k \in Keys, NEW b \in Bodies, Arrive(r, k, b) PROVE IdemInv'
  <2> DEFINE q == [pc |-> "find", key |-> k, body |-> b, run |-> 0]
  <2>1. q \in Request /\ q.pc # "save"
    BY DEF Request
  <2>2. req' = [req EXCEPT ![r] = q] /\ UNCHANGED <<now, rows, runs, until, replays>>
    BY <1>1 DEF Arrive
  <2> HIDE DEF q
  <2> QED BY <2>1, <2>2, MoveStep
<1>2. CASE Denied(r) \/ Lose(r)
  BY <1>2, IdleFacts, MoveStep DEF Denied, Lose, Finish
<1> DEFINE h == [req[r] EXCEPT !.pc = "handler"]
<1>3. h \in Request /\ h.pc # "save"
  BY <1>0 DEF Request
<1>4. CASE FindFails(r)
  <2>1. req' = [req EXCEPT ![r] = h] /\ UNCHANGED <<now, rows, runs, until, replays>>
    BY <1>4 DEF FindFails, Proceed
  <2> HIDE DEF h
  <2> QED BY <1>3, <2>1, MoveStep
<1>5. CASE Find(r)
  <2>1. UNCHANGED <<now, rows, runs, until>>
    BY <1>5 DEF Find
  <2>2. \A a \in replays' : a \in replays \/ (a \in Replay /\ RunOf(a.run, a.key, a.body))
    <3> DEFINE k == req[r].key
               a0 == [key |-> k, body |-> req[r].body, run |-> rows[k].run]
    <3>1. ASSUME k \in DOMAIN rows, rows[k].hash = req[r].body
          PROVE  a0 \in Replay /\ RunOf(a0.run, a0.key, a0.body)
      BY <1>0, <3>1 DEF IdemInv, TypeOK, RowsOwn, Replay, Request, Record
    <3>2. replays' = IF Found(k) /\ rows[k].hash = req[r].body THEN replays \cup {a0} ELSE replays
      BY <1>5 DEF Find
    <3> HIDE DEF a0
    <3> QED BY <3>1, <3>2 DEF Found
  <2>3. req' = [req EXCEPT ![r] = Idle] \/ req' = [req EXCEPT ![r] = h]
    BY <1>5 DEF Find, Finish, Proceed
  <2> HIDE DEF h
  <2> QED BY <1>3, <2>1, <2>2, <2>3, IdleFacts, MoveStep
<1> QED
  BY <1>1, <1>2, <1>4, <1>5

\* The handler runs and its answer is kept for the save.
LEMMA HandleStep ==
    ASSUME IdemInv, NEW r \in Requests, Handle(r), HistoryOK'
    PROVE  IdemInv'
<1> DEFINE e == [key |-> req[r].key, body |-> req[r].body]
           q == [req[r] EXCEPT !.pc = "save", !.run = Len(runs) + 1]
<1>1. req[r] \in Request /\ now \in Nat /\ runs \in Seq(Run) /\ Len(runs) \in Nat
  BY DEF IdemInv, TypeOK
<1>2. e \in Run
  BY <1>1, Zenon DEF Run, Request
<1>3. /\ q \in Request /\ q.key = e.key /\ q.body = e.body /\ q.run = Len(runs) + 1
  <2>1. e.key = req[r].key /\ e.body = req[r].body
    BY Zenon
  <2>2. Len(runs) + 1 \in Nat
    BY <1>1
  <2>3. q \in Request /\ q.key = req[r].key /\ q.body = req[r].body /\ q.run = Len(runs) + 1
    BY <1>1, <2>2 DEF Request
  <2> HIDE DEF e, q
  <2> QED BY <2>1, <2>3
<1>4. /\ runs' = Append(runs, e) /\ req' = [req EXCEPT ![r] = q]
      /\ UNCHANGED <<now, rows, replays, until>>
  BY DEF Handle
<1> HIDE DEF e, q
<1>5. /\ runs' \in Seq(Run) /\ Len(runs') = Len(runs) + 1 /\ runs'[Len(runs) + 1] = e
      /\ \A n \in 1..Len(runs) : runs'[n] = runs[n] /\ n \in 1..Len(runs')
  BY <1>1, <1>2, <1>4
<1>6. TypeOK'
  BY <1>3, <1>4, <1>5 DEF IdemInv, TypeOK, HistoryOK
<1>7. RowsOwn' /\ ReplayedAnswerIsOwn'
  BY <1>4, <1>5 DEF IdemInv, RowsOwn, ReplayedAnswerIsOwn, RunOf
<1>8. RequestsOwn'
  BY <1>1, <1>3, <1>4, <1>5 DEF IdemInv, TypeOK, RequestsOwn, RunOf
<1>9. UntilOK'
  BY <1>4 DEF IdemInv, UntilOK
<1> QED
  BY <1>6, <1>7, <1>8, <1>9 DEF IdemInv

\* The answer is inserted, or the insert fails.
LEMMA SaveStep ==
    ASSUME IdemInv, NEW r \in Requests, Save(r), HistoryOK' PROVE IdemInv'
<1> DEFINE k == req[r].key
           row == [hash |-> req[r].body, run |-> req[r].run, expiresAt |-> now + TTL]
<1>1. /\ req[r] \in Request /\ k \in Keys /\ now \in Nat /\ req[r].pc = "save"
      /\ req' = [req EXCEPT ![r] = Idle] /\ UNCHANGED <<now, runs, replays>>
  BY DEF IdemInv, TypeOK, Save, Finish, Request
<1>2. RunOf(row.run, k, row.hash)
  BY <1>1 DEF IdemInv, RequestsOwn
<1>3. row \in Record /\ row.expiresAt = now + TTL
  BY <1>1 DEF Record, Request
<1>4. CASE k \in DOMAIN rows
  <2>1. UNCHANGED <<rows, until>>
    BY <1>4 DEF Save
  <2> QED BY <1>1, <2>1, IdleFacts, MoveStep DEF IdemInv
<1>5. CASE k \notin DOMAIN rows
  <2>1. /\ rows' = [x \in DOMAIN rows \cup {k} |-> IF x = k THEN row ELSE rows[x]]
        /\ until' = [until EXCEPT ![k] = now + TTL]
    BY <1>5 DEF Save
  <2> HIDE DEF row, k
  <2>2. /\ DOMAIN rows' = DOMAIN rows \cup {k} /\ rows'[k] = row
        /\ \A x \in DOMAIN rows : rows'[x] = rows[x]
    BY <1>5, <2>1
  <2>3. rows' = [x \in DOMAIN rows' |-> rows'[x]]
    BY <2>1
  <2>4. \A x \in DOMAIN rows' : rows'[x] \in Record /\ rows'[x].run \in 1..Len(runs)
    BY <1>2, <1>3, <2>2 DEF IdemInv, TypeOK, RunOf
  <2>5. TypeOK'
    <3>1. until' \in [Keys -> Nat]
      BY <1>1, <2>1 DEF IdemInv, TypeOK
    <3>2. req' \in [Requests -> Request] /\ DOMAIN rows' \subseteq Keys
      BY <1>1, <2>2, IdleFacts DEF IdemInv, TypeOK, k
    <3> QED BY <1>1, <2>3, <2>4, <3>1, <3>2 DEF IdemInv, TypeOK, HistoryOK
  <2>6. RowsOwn'
    BY <1>1, <1>2, <2>2 DEF IdemInv, RowsOwn, RunOf
  <2>7. RequestsOwn' /\ ReplayedAnswerIsOwn'
    BY <1>1, IdleFacts DEF IdemInv, TypeOK, RequestsOwn, ReplayedAnswerIsOwn, RunOf
  <2>8. UntilOK'
    BY <1>1, <1>3, <2>1, <2>2 DEF IdemInv, TypeOK, UntilOK
  <2> QED BY <2>5, <2>6, <2>7, <2>8 DEF IdemInv
<1> QED
  BY <1>4, <1>5

\* The cleanup job removes only what has expired.
LEMMA CleanupStep ==
    ASSUME IdemInv, DeleteExpired, HistoryOK' PROVE IdemInv'
<1>1. /\ DOMAIN rows' = {k \in DOMAIN rows : rows[k].expiresAt > now}
      /\ \A k \in DOMAIN rows' : rows'[k] = rows[k]
      /\ rows' = [k \in DOMAIN rows' |-> rows'[k]]
      /\ UNCHANGED <<now, req, runs, replays, until>>
  BY DEF DeleteExpired
<1>2. TypeOK'
  BY <1>1 DEF IdemInv, TypeOK, HistoryOK
<1>3. RowsOwn' /\ RequestsOwn' /\ ReplayedAnswerIsOwn'
  BY <1>1 DEF IdemInv, RowsOwn, RequestsOwn, ReplayedAnswerIsOwn, RunOf
<1>4. UntilOK'
  BY <1>1 DEF IdemInv, TypeOK, UntilOK
<1> QED
  BY <1>2, <1>3, <1>4 DEF IdemInv

\* Time passes.
LEMMA ClockStep ==
    ASSUME IdemInv, Tick, HistoryOK' PROVE IdemInv'
<1>1. now \in Nat /\ now' = now + 1 /\ UNCHANGED <<rows, req, runs, replays, until>>
  BY DEF IdemInv, TypeOK, Tick
<1>2. TypeOK' /\ UntilOK'
  BY <1>1 DEF IdemInv, TypeOK, UntilOK, HistoryOK
<1>3. RowsOwn' /\ RequestsOwn' /\ ReplayedAnswerIsOwn'
  BY <1>1 DEF IdemInv, RowsOwn, RequestsOwn, ReplayedAnswerIsOwn, RunOf
<1> QED
  BY <1>2, <1>3 DEF IdemInv

\* Every step preserves the invariant.
LEMMA IdemNextOK == IdemInv /\ [Next]_vars => IdemInv'
<1>1. ASSUME IdemInv, UNCHANGED vars PROVE IdemInv'
  BY <1>1 DEF vars, IdemInv, TypeOK, RowsOwn, RequestsOwn, UntilOK, ReplayedAnswerIsOwn, RunOf
<1>2. ASSUME IdemInv, [Next]_vars PROVE HistoryOK'
  BY <1>2, HistoryStep DEF IdemInv
<1> QED
  BY <1>1, <1>2, LookupStep, HandleStep, SaveStep, CleanupStep, ClockStep DEF Next

-----------------------------------------------------------------------------
\* Types; in particular every answer on file was given by a run.
THEOREM IdemTypeCorrect == Spec => []TypeOK
<1>1. IdemInv => TypeOK
  BY DEF IdemInv
<1> QED
  BY <1>1, IdemInitOK, IdemNextOK, PTL DEF Spec

\* No client is ever handed the answer to another key or another body.
THEOREM ReplaysAreOwn == Spec => []ReplayedAnswerIsOwn
<1>1. IdemInv => ReplayedAnswerIsOwn
  BY DEF IdemInv
<1> QED
  BY <1>1, IdemInitOK, IdemNextOK, PTL DEF Spec

\* One step leaves an answer that has to stand where it is.
LEMMA StepKeepsAnswer ==
    ASSUME IdemInv, [Next]_vars, NEW k \in Keys, now' < until[k]
    PROVE  k \in DOMAIN rows /\ k \in DOMAIN rows' /\ rows'[k] = rows[k]
<1>1. now \in Nat /\ until[k] \in Nat /\ (now' = now \/ now' = now + 1)
  BY DEF IdemInv, TypeOK, Next, vars, Arrive, Find, FindFails, Denied, Save, Lose, Handle,
         DeleteExpired, Tick
<1>2. now < until[k] /\ k \in DOMAIN rows /\ rows[k].expiresAt = until[k]
  BY <1>1 DEF IdemInv, UntilOK
<1>3. CASE DeleteExpired
  BY <1>1, <1>2, <1>3 DEF DeleteExpired
<1>4. ASSUME NEW r \in Requests, Save(r) PROVE k \in DOMAIN rows' /\ rows'[k] = rows[k]
  BY <1>2, <1>4 DEF Save
<1>5. CASE UNCHANGED rows
  BY <1>2, <1>5
<1> QED
  BY <1>2, <1>3, <1>4, <1>5
  DEF Next, vars, Arrive, Find, FindFails, Denied, Lose, Handle, Tick

\* A saved answer stays on file, unchanged, for the whole TTL: neither the
\* cleanup job nor a later or concurrent save can displace it.
THEOREM AnswersStand == Spec => SavedAnswerStands
<1>1. IdemInv /\ [Next]_vars
      => [\A k \in Keys : now' < until[k] => k \in DOMAIN rows /\ k \in DOMAIN rows'
                                            /\ rows'[k] = rows[k]]_vars
  BY StepKeepsAnswer
<1> QED
  BY <1>1, IdemInitOK, IdemNextOK, PTL DEF Spec, SavedAnswerStands

\* No request that looks the key up while its answer has to stand reaches the
\* handler.
THEOREM NoRerunAfterSave == Spec => SavedKeyIsNotRerun
<1>1. ASSUME IdemInv, NEW r \in Requests, Find(r), now < until[req[r].key]
      PROVE  req'[r].pc = "idle"
  <2>1. req[r].key \in Keys /\ now \in Nat
    BY <1>1 DEF IdemInv, TypeOK, Request
  <2>2. Found(req[r].key)
    BY <1>1, <2>1 DEF IdemInv, TypeOK, UntilOK, Found
  <2>3. req' = [req EXCEPT ![r] = Idle]
    BY <1>1, <2>2 DEF Find, Finish
  <2> QED BY <1>1, <2>3, IdleFacts DEF IdemInv, TypeOK
<1>2. IdemInv /\ [Next]_vars
      => [\A r \in Requests : Find(r) /\ now < until[req[r].key] => req'[r].pc = "idle"]_vars
  BY <1>1
<1> QED
  BY <1>2, IdemInitOK, IdemNextOK, PTL DEF Spec, SavedKeyIsNotRerun
-----------------------------------------------------------------------------
(* Every run beyond the first has a cause.  A request that has missed the  *)
(* key while nobody else worked on it (Fresh) is about to make the one run *)
(* that needs none; after it the key is Spent as long as that run is being *)
(* saved or its answer is on file.  What ends this is counted in excuses.  *)

Fresh(r, k) == req[r].pc = "handler" /\ req[r].key = k /\ r \notin again
Saving(r, k) == req[r].pc = "save" /\ req[r].key = k
HasFresh(k) == \E r \in Requests : Fresh(r, k)
HasSaving(k) == \E r \in Requests : Saving(r, k)
Spent(k) == ~HasFresh(k) /\ (HasSaving(k) \/ Found(k))

RunsFor(k) == {n \in DOMAIN runs : runs[n].key = k}
RunCount(k) == Cardinality(RunsFor(k))

OneFresh(k) == \A r, s \in Requests : Fresh(r, k) /\ Fresh(s, k) => r = s
CountOK(k) == RunCount(k) <= (IF Spent(k) THEN 1 ELSE 0) + excuses[k]

CauseInv == \A k \in Keys : OneFresh(k) /\ CountOK(k)

\* The runs of a key are finitely many.
LEMMA CountTyped ==
    ASSUME TypeOK, NEW k \in Keys PROVE IsFiniteSet(RunsFor(k)) /\ RunCount(k) \in Nat
<1>1. Len(runs) \in Nat /\ DOMAIN runs = 1..Len(runs)
  BY DEF TypeOK
<1>2. IsFiniteSet(1..Len(runs))
  BY <1>1, FS_Interval
<1>3. RunsFor(k) \in SUBSET (1..Len(runs))
  BY <1>1 DEF RunsFor
<1>4. IsFiniteSet(RunsFor(k))
  BY <1>2, <1>3, FS_Subset
<1> QED BY <1>4, FS_CardinalityType DEF RunCount

\* A run of the handler counts for its own key and for no other.
LEMMA CountGrows ==
    ASSUME TypeOK, NEW k \in Keys, NEW e \in Run, runs' = Append(runs, e)
    PROVE  RunCount(k)' = IF e.key = k THEN RunCount(k) + 1 ELSE RunCount(k)
<1> DEFINE n == Len(runs) + 1
<1>1. /\ Len(runs) \in Nat /\ DOMAIN runs = 1..Len(runs) /\ DOMAIN runs' = 1..n
      /\ runs'[n] = e /\ \A i \in 1..Len(runs) : runs'[i] = runs[i]
  BY DEF TypeOK
<1>2. n \notin RunsFor(k) /\ 1..n = 1..Len(runs) \cup {n}
  BY <1>1 DEF RunsFor
<1> HIDE DEF n
<1>3. RunsFor(k)' = IF e.key = k THEN RunsFor(k) \cup {n} ELSE RunsFor(k)
  BY <1>1, <1>2, Zenon DEF RunsFor
<1>4. IsFiniteSet(RunsFor(k))
  BY CountTyped
<1> QED BY <1>2, <1>3, <1>4, FS_AddElement DEF RunCount

LEMMA CountStays ==
    ASSUME NEW k \in Keys, UNCHANGED runs PROVE RunCount(k)' = RunCount(k)
BY DEF RunCount, RunsFor

\* It is enough that a step that spends no run leaves no key less spent than it
\* was, unless it counts an excuse for it.
LEMMA NoRunStep ==
    ASSUME TypeOK, TypeOK', CauseInv, UNCHANGED runs,
           \A k \in Keys : /\ OneFresh(k)'
                           /\ excuses'[k] >= excuses[k]
                           /\ Spent(k) => Spent(k)' \/ excuses'[k] >= excuses[k] + 1
    PROVE  CauseInv'
<1> SUFFICES ASSUME NEW k \in Keys PROVE CountOK(k)'
  BY DEF CauseInv
<1>1. /\ RunCount(k) \in Nat /\ RunCount(k)' = RunCount(k)
      /\ excuses[k] \in Nat /\ excuses'[k] \in Nat
  BY CountTyped, CountStays DEF TypeOK
<1>2. RunCount(k) <= (IF Spent(k) THEN 1 ELSE 0) + excuses[k]
  BY DEF CauseInv, CountOK
<1> QED BY <1>1, <1>2 DEF CountOK

\* Before the first request no key has been run.
LEMMA CauseInit == Init => CauseInv
<1> SUFFICES ASSUME Init, NEW k \in Keys PROVE OneFresh(k) /\ CountOK(k)
  BY DEF CauseInv
<1>1. \A r \in Requests : ~Fresh(r, k) /\ ~Saving(r, k)
  BY IdleFacts DEF Init, Fresh, Saving
<1>2. RunsFor(k) = {} /\ RunCount(k) = 0
  BY FS_EmptySet DEF Init, RunsFor, RunCount
<1>3. ~Spent(k) /\ excuses[k] = 0
  BY <1>1 DEF Init, Spent, HasFresh, HasSaving, Found
<1> QED BY <1>1, <1>2, <1>3 DEF OneFresh, CountOK

\* A step of request r is none of another request s.
LEMMA OthersStay ==
    ASSUME TypeOK, NEW r \in Requests, NEW q, req' = [req EXCEPT ![r] = q],
           again' \ {r} = again \ {r}
    PROVE  /\ req'[r] = q
           /\ \A s \in Requests \ {r}, k \in Keys :
                /\ Fresh(s, k)' <=> Fresh(s, k)
                /\ Saving(s, k)' <=> Saving(s, k)
BY DEF TypeOK, Fresh, Saving

\* A request that was neither fresh nor saving, and is not afterwards.
LEMMA AsideStep ==
    ASSUME TypeOK, TypeOK', CauseInv, NEW r \in Requests, NEW q,
           req' = [req EXCEPT ![r] = q], again' \ {r} = again \ {r},
           UNCHANGED <<now, rows, runs, excuses>>,
           \A k \in Keys : ~Fresh(r, k)' /\ ~Saving(r, k)' /\ ~Saving(r, k)
    PROVE  CauseInv'
<1>1. ASSUME NEW k \in Keys PROVE OneFresh(k)' /\ (Spent(k) => Spent(k)')
  <2>1. \A s \in Requests : /\ Fresh(s, k)' => Fresh(s, k)
                            /\ Saving(s, k)' <=> Saving(s, k)
    BY OthersStay
  <2>2. Found(k)' <=> Found(k)
    BY DEF Found
  <2> QED BY <2>1, <2>2 DEF CauseInv, OneFresh, Spent, HasFresh, HasSaving
<1>2. \A k \in Keys : excuses'[k] >= excuses[k]
  BY DEF TypeOK
<1> QED BY <1>1, <1>2, NoRunStep

\* Arrivals, hits, refusals, failing lookups, and losses before the handler.
LEMMA CauseAside ==
    ASSUME TypeOK, TypeOK', CauseInv, NEW r \in Requests,
           \/ \E k \in Keys, b \in Bodies : Arrive(r, k, b)
           \/ Find(r) /\ Found(req[r].key)
           \/ FindFails(r) \/ Denied(r)
           \/ Lose(r) /\ req[r].pc # "save"
    PROVE  CauseInv'
<1>1. ASSUME NEW k \in Keys, NEW b \in Bodies, Arrive(r, k, b) PROVE CauseInv'
  <2> DEFINE q == [pc |-> "find", key |-> k, body |-> b, run |-> 0]
  <2>1. req' = [req EXCEPT ![r] = q] /\ UNCHANGED <<now, rows, runs, excuses, again>>
    BY <1>1 DEF Arrive
  <2>2. req'[r].pc = "find" /\ req[r].pc = "idle"
    BY <1>1, <2>1 DEF TypeOK, Arrive
  <2>3. \A x \in Keys : ~Fresh(r, x)' /\ ~Saving(r, x)' /\ ~Saving(r, x)
    BY <2>2 DEF Fresh, Saving
  <2> HIDE DEF q
  <2> QED BY <2>1, <2>3, AsideStep
<1>2. CASE \/ Find(r) /\ Found(req[r].key)
           \/ Denied(r)
           \/ Lose(r) /\ req[r].pc # "save"
  <2>1. /\ req' = [req EXCEPT ![r] = Idle] /\ again' = again \ {r}
        /\ UNCHANGED <<now, rows, runs, excuses>> /\ req[r].pc # "save"
    BY <1>2 DEF Find, Denied, Lose, Finish, Excuse
  <2>2. req'[r].pc = "idle"
    BY <2>1, IdleFacts DEF TypeOK
  <2>3. \A x \in Keys : ~Fresh(r, x)' /\ ~Saving(r, x)' /\ ~Saving(r, x)
    BY <2>1, <2>2 DEF Fresh, Saving
  <2> QED BY <2>1, <2>3, AsideStep
<1>3. CASE FindFails(r)
  <2> DEFINE q == [req[r] EXCEPT !.pc = "handler"]
  <2>1. /\ req' = [req EXCEPT ![r] = q] /\ again' = again \cup {r} /\ req[r].pc = "find"
        /\ UNCHANGED <<now, rows, runs, excuses>>
    BY <1>3 DEF FindFails, Proceed
  <2>2. req'[r].pc = "handler"
    BY <2>1 DEF TypeOK, Request
  <2>3. \A x \in Keys : ~Fresh(r, x)' /\ ~Saving(r, x)' /\ ~Saving(r, x)
    BY <2>1, <2>2 DEF Fresh, Saving
  <2> HIDE DEF q
  <2> QED BY <2>1, <2>3, AsideStep
<1> QED BY <1>1, <1>2, <1>3

\* A miss: the request is fresh when nobody else is at work on the key, and in
\* that case the key was not spent.
LEMMA CauseMiss ==
    ASSUME TypeOK, TypeOK', CauseInv, NEW r \in Requests, Find(r), ~Found(req[r].key)
    PROVE  CauseInv'
<1> DEFINE q == [req[r] EXCEPT !.pc = "handler"]
           key == req[r].key
<1>1. /\ req' = [req EXCEPT ![r] = q] /\ req[r].pc = "find"
      /\ again' = IF InFlight(key) # {} THEN again \cup {r} ELSE again
      /\ UNCHANGED <<now, rows, runs, excuses>>
  BY DEF Find, Proceed
<1>2. req'[r].pc = "handler" /\ req'[r].key = key /\ key \in Keys
  BY <1>1 DEF TypeOK, Request
<1> HIDE DEF q, key
<1>3. ASSUME NEW k \in Keys PROVE OneFresh(k)' /\ (Spent(k) => Spent(k)')
  <2>1. \A s \in Requests \ {r} : /\ Fresh(s, k)' <=> Fresh(s, k)
                                  /\ Saving(s, k)' <=> Saving(s, k)
    BY <1>1, OthersStay
  <2>2. ~Fresh(r, k) /\ ~Saving(r, k) /\ ~Saving(r, k)'
    BY <1>1, <1>2 DEF Fresh, Saving
  <2>3. Found(k)' <=> Found(k)
    BY <1>1 DEF Found
  <2>4. CASE Fresh(r, k)'
    <3>1. k = key /\ InFlight(k) = {}
      BY <1>1, <1>2, <2>4 DEF Fresh
    <3>2. \A s \in Requests : ~Fresh(s, k) /\ ~Saving(s, k)
      BY <3>1 DEF InFlight, Fresh, Saving
    <3> QED BY <2>1, <3>1, <3>2 DEF OneFresh, Spent, HasSaving, key
  <2>5. CASE ~Fresh(r, k)'
    BY <2>1, <2>2, <2>3, <2>5 DEF CauseInv, OneFresh, Spent, HasFresh, HasSaving
  <2> QED BY <2>4, <2>5
<1>4. \A k \in Keys : excuses'[k] >= excuses[k]
  BY <1>1 DEF TypeOK
<1> QED BY <1>1, <1>3, <1>4, NoRunStep

\* The handler runs: for a fresh request the key was not spent and is now, any
\* other run is excused.
LEMMA CauseHandle ==
    ASSUME TypeOK, TypeOK', CauseInv, NEW r \in Requests, Handle(r) PROVE CauseInv'
<1> DEFINE e == [key |-> req[r].key, body |-> req[r].body]
           q == [req[r] EXCEPT !.pc = "save", !.run = Len(runs) + 1]
           key == req[r].key
<1>1. /\ runs' = Append(runs, e) /\ req' = [req EXCEPT ![r] = q] /\ again' = again \ {r}
      /\ req[r].pc = "handler" /\ Excuse(key, r \in again) /\ UNCHANGED <<now, rows>>
  BY DEF Handle
<1>2. e \in Run /\ e.key = key /\ key \in Keys
  BY Zenon DEF TypeOK, Run, Request
<1>3. q.pc = "save" /\ q.key = key
  BY DEF TypeOK, Request
<1> HIDE DEF e, q, key
<1>4. req'[r].pc = "save" /\ req'[r].key = key
  BY <1>1, <1>3, OthersStay
<1> SUFFICES ASSUME NEW k \in Keys PROVE OneFresh(k)' /\ CountOK(k)'
  BY DEF CauseInv
<1>5. \A s \in Requests \ {r} : /\ Fresh(s, k)' <=> Fresh(s, k)
                                /\ Saving(s, k)' <=> Saving(s, k)
  BY <1>1, OthersStay
<1>6. /\ ~Fresh(r, k)' /\ (Saving(r, k)' <=> k = key) /\ ~Saving(r, k)
      /\ Fresh(r, k) <=> k = key /\ r \notin again
  BY <1>1, <1>4 DEF Fresh, Saving, key
<1>7. OneFresh(k)'
  BY <1>5, <1>6 DEF CauseInv, OneFresh
<1>8. RunCount(k)' = IF k = key THEN RunCount(k) + 1 ELSE RunCount(k)
  BY <1>1, <1>2, CountGrows
<1>9. excuses'[k] = IF r \in again /\ k = key THEN excuses[k] + 1 ELSE excuses[k]
  BY <1>1, <1>2 DEF Excuse, TypeOK
<1>10. Found(k)' <=> Found(k)
  BY <1>1 DEF Found
<1>11. RunCount(k) \in Nat /\ excuses[k] \in Nat
  BY CountTyped DEF TypeOK
<1>12. RunCount(k) <= (IF Spent(k) THEN 1 ELSE 0) + excuses[k]
  BY DEF CauseInv, CountOK
<1>13. CASE k # key
  <2>1. Spent(k)' <=> Spent(k)
    BY <1>5, <1>6, <1>10, <1>13 DEF Spent, HasFresh, HasSaving
  <2> QED BY <1>7, <1>8, <1>9, <1>12, <1>13, <2>1 DEF CountOK
<1>14. CASE k = key /\ r \in again
  <2>1. Spent(k) => Spent(k)'
    BY <1>5, <1>6, <1>10, <1>14 DEF Spent, HasFresh, HasSaving
  <2> QED BY <1>7, <1>8, <1>9, <1>11, <1>12, <1>14, <2>1 DEF CountOK
<1>15. CASE k = key /\ r \notin again
  <2>1. ~Spent(k)
    BY <1>6, <1>15 DEF Spent, HasFresh
  <2>2. Spent(k)'
    BY <1>5, <1>6, <1>15 DEF CauseInv, OneFresh, Spent, HasFresh, HasSaving
  <2> QED BY <1>7, <1>8, <1>9, <1>11, <1>12, <1>15, <2>1, <2>2 DEF CountOK
<1> QED BY <1>13, <1>14, <1>15

\* A run is saved, or its save fails or does not take place: the key stays
\* spent, or it is excused.
LEMMA CauseSave ==
    ASSUME TypeOK, TypeOK', CauseInv, NEW r \in Requests,
           Save(r) \/ (Lose(r) /\ req[r].pc = "save")
    PROVE  CauseInv'
<1>0. PICK key \in Keys : key = req[r].key
  BY DEF TypeOK, Request
<1>1. /\ req' = [req EXCEPT ![r] = Idle] /\ again' = again \ {r} /\ UNCHANGED <<now, runs>>
      /\ req[r].pc = "save"
  BY DEF Save, Lose, Finish
<1>2. req'[r].pc = "idle"
  <2>1. PICK q : q = Idle /\ q.pc = "idle"
    BY IdleFacts
  <2>2. req' = [req EXCEPT ![r] = q] /\ r \in DOMAIN req
    BY <1>1, <2>1 DEF TypeOK
  <2> QED BY <2>1, <2>2
<1>3. /\ excuses' = [excuses EXCEPT ![key] = @ + 1] \/ (UNCHANGED excuses /\ Found(key)')
      /\ \A k \in Keys \ {key} : Found(k)' <=> Found(k)
  <2>1. CASE Lose(r) \/ (Save(r) /\ key \in DOMAIN rows)
    BY <1>0, <1>1, <2>1 DEF Save, Lose, Excuse, Found
  <2>2. CASE Save(r) /\ key \notin DOMAIN rows
    <3> DEFINE row == [hash |-> req[r].body, run |-> req[r].run, expiresAt |-> now + TTL]
    <3>1. /\ rows' = [x \in DOMAIN rows \cup {key} |-> IF x = key THEN row ELSE rows[x]]
          /\ UNCHANGED excuses
      BY <1>0, <2>2 DEF Save, Excuse
    <3>2. row.expiresAt > now
      <4>1. now \in Nat /\ TTL \in Nat /\ TTL > 0
        BY DEF TypeOK
      <4> QED BY <4>1
    <3> HIDE DEF row
    <3>3. Found(key)' /\ \A k \in Keys \ {key} : Found(k)' <=> Found(k)
      BY <1>1, <3>1, <3>2 DEF Found
    <3> QED BY <3>1, <3>3
  <2> QED BY <2>1, <2>2
<1>4. ASSUME NEW k \in Keys
      PROVE  /\ OneFresh(k)' /\ excuses'[k] >= excuses[k]
             /\ Spent(k) => Spent(k)' \/ excuses'[k] >= excuses[k] + 1
  <2>1. \A s \in Requests \ {r} : /\ Fresh(s, k)' <=> Fresh(s, k)
                                  /\ Saving(s, k)' <=> Saving(s, k)
    BY <1>1, OthersStay
  <2>2. /\ ~Fresh(r, k)' /\ ~Fresh(r, k)
        /\ ~Saving(r, k)' /\ (Saving(r, k) <=> k = key)
    BY <1>0, <1>1, <1>2 DEF Fresh, Saving
  <2>3. OneFresh(k)' /\ (HasFresh(k)' <=> HasFresh(k))
    BY <2>1, <2>2 DEF CauseInv, OneFresh, HasFresh
  <2>4. excuses[k] \in Nat
    BY DEF TypeOK
  <2>5. CASE k = key
    <3>1. CASE excuses' = [excuses EXCEPT ![key] = @ + 1]
      BY <2>3, <2>4, <2>5, <3>1 DEF TypeOK
    <3>2. CASE UNCHANGED excuses /\ Found(key)'
      BY <2>3, <2>4, <2>5, <3>2 DEF Spent
    <3> QED BY <1>3, <3>1, <3>2
  <2>6. CASE k # key
    <3>1. Found(k)' <=> Found(k)
      BY <1>3, <2>6
    <3>2. HasSaving(k)' <=> HasSaving(k)
      BY <2>1, <2>2, <2>6 DEF HasSaving
    <3>3. excuses'[k] = excuses[k]
      BY <1>3, <2>6 DEF TypeOK
    <3> QED BY <2>3, <2>4, <3>1, <3>2, <3>3 DEF Spent
  <2> QED BY <2>5, <2>6
<1> QED BY <1>1, <1>4, NoRunStep

\* The purge takes nothing that counts, and the clock excuses what expires.
LEMMA CauseTime ==
    ASSUME TypeOK, TypeOK', CauseInv, DeleteExpired \/ Tick \/ UNCHANGED vars
    PROVE  CauseInv'
<1>1. UNCHANGED <<req, runs, again>>
  BY DEF DeleteExpired, Tick, vars
<1>2. ASSUME NEW k \in Keys
      PROVE  /\ excuses'[k] >= excuses[k]
             /\ Found(k) => Found(k)' \/ excuses'[k] >= excuses[k] + 1
  <2>1. excuses[k] \in Nat /\ now \in Nat
    BY DEF TypeOK
  <2>2. CASE DeleteExpired
    BY <2>1, <2>2 DEF DeleteExpired, Found
  <2>3. CASE Tick
    BY <2>1, <2>3 DEF TypeOK, Tick, Found, Record
  <2>4. CASE UNCHANGED vars
    BY <2>1, <2>4 DEF vars, Found
  <2> QED BY <2>2, <2>3, <2>4
<1>3. ASSUME NEW k \in Keys
      PROVE  /\ OneFresh(k)' /\ (HasFresh(k)' <=> HasFresh(k))
             /\ HasSaving(k)' <=> HasSaving(k)
  BY <1>1 DEF CauseInv, OneFresh, HasFresh, HasSaving, Fresh, Saving
<1> QED BY <1>1, <1>2, <1>3, NoRunStep DEF Spent

LEMMA CauseNext == IdemInv /\ IdemInv' /\ CauseInv /\ [Next]_vars => CauseInv'
<1> SUFFICES ASSUME TypeOK, TypeOK', CauseInv, [Next]_vars PROVE CauseInv'
  BY DEF IdemInv
<1> QED
  BY CauseAside, CauseMiss, CauseHandle, CauseSave, CauseTime DEF Next

\* The handler runs for a key once and once more at most for each event that
\* the middleware lets it run again after, for any number of concurrent
\* requests, any TTL and any faults.
THEOREM RerunsExplained == Spec => []RerunsHaveACause
<1>1. IdemInv /\ CauseInv => RerunsHaveACause
  <2> SUFFICES ASSUME IdemInv, CauseInv, NEW k \in Keys PROVE RunCount(k) <= 1 + excuses[k]
    BY DEF RerunsHaveACause, RunCount, RunsFor
  <2>1. RunCount(k) \in Nat /\ excuses[k] \in Nat
    BY CountTyped DEF IdemInv, TypeOK
  <2> QED BY <2>1 DEF CauseInv, CountOK
<1> QED
  BY <1>1, IdemInitOK, IdemNextOK, CauseInit, CauseNext, PTL DEF Spec
=============================================================================
