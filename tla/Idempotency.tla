---------------------------- MODULE Idempotency ----------------------------
(***************************************************************************)
(* The Idempotency-Key middleware (internal/common/idempotency) in front   *)
(* of a mutating handler: look the key up, run the handler, save what it   *)
(* answered.  The three are separate steps of a request goroutine, and     *)
(* nothing is held between them.                                           *)
(*                                                                         *)
(* A key stands for the whole UNIQUE tuple (key, method, path, user id), a *)
(* body for its SHA-256 hash, and the answer of the handler for its status *)
(* and bytes: it is identified with the number of the run that gave it.    *)
(* Requests without the header, with a safe method, or with the middleware *)
(* switched off never reach the store and are not represented.             *)
(***************************************************************************)
EXTENDS Integers, Sequences, FiniteSets

CONSTANTS
    Requests,       \* request goroutines that may be in flight together
    Keys,
    Bodies,
    TTL,            \* IDEMPOTENCY_TTL, in ticks
    Faults,         \* TRUE: requests may be lost and lookups may fail
    MaxRuns,        \* bound: executions of the handler
    MaxTime         \* bound: last instant of the clock

ASSUME IdemAssumption ==
    /\ Keys # {}
    /\ Bodies # {}
    /\ TTL \in Nat \ {0}
    /\ Faults \in BOOLEAN
    /\ MaxRuns \in Nat
    /\ MaxTime \in Nat

VARIABLES
    now,        \* time.Now()
    rows,       \* idempotency_records, a function on the keys in the table
    req,        \* the local variables of each request
    runs,       \* history: executions of the handler, runs[n] is the n-th
    replays,    \* history: the answers that came out of the store
    until,      \* history: per key, how long its last saved answer must stand
    again,      \* history: requests that go on although their key may have been run
    excuses     \* history: per key, the events that let it run again

vars == <<now, rows, req, runs, replays, until, again, excuses>>

Record == [hash : Bodies, run : Nat, expiresAt : Nat]
Request == [pc : {"idle", "find", "handler", "save"}, key : Keys, body : Bodies, run : Nat]
Run == [key : Keys, body : Bodies]
Replay == [key : Keys, body : Bodies, run : Nat]

Idle == [pc |-> "idle", key |-> CHOOSE k \in Keys : TRUE,
         body |-> CHOOSE b \in Bodies : TRUE, run |-> 0]

Finish(r) == req' = [req EXCEPT ![r] = Idle] /\ again' = again \ {r}
Proceed(r, cond) ==
    /\ req' = [req EXCEPT ![r].pc = "handler"]
    /\ again' = IF cond THEN again \cup {r} ELSE again
Excuse(k, cond) == excuses' = IF cond THEN [excuses EXCEPT ![k] = @ + 1] ELSE excuses

\* Requests between a lookup that found nothing and their save.
InFlight(k) == {r \in Requests : req[r].pc \in {"handler", "save"} /\ req[r].key = k}

Arrive(r, k, b) ==
    /\ req[r].pc = "idle"
    /\ req' = [req EXCEPT ![r] = [pc |-> "find", key |-> k, body |-> b, run |-> 0]]
    /\ UNCHANGED <<now, rows, runs, replays, until, again, excuses>>

-----------------------------------------------------------------------------
FoundTooBriefly(k) == k \in DOMAIN rows /\ rows[k].expiresAt > now + 1

\* store.Find: a row counts until it expires, whether or not it is still there.
Found(k) == k \in DOMAIN rows /\ rows[k].expiresAt > now

FindIgnoringHash(r) ==
    LET q == req[r]
    IN /\ q.pc = "find"
       /\ IF Found(q.key)
          THEN /\ replays' = replays \cup {[key |-> q.key, body |-> q.body, run |-> rows[q.key].run]}
               /\ Finish(r)
          ELSE /\ req' = [req EXCEPT ![r].pc = "handler"]
               /\ UNCHANGED <<replays, again>>
       /\ UNCHANGED <<now, rows, runs, until, excuses>>

\* A hit is replayed, or refused with 409 when the body differs; a miss goes on
\* to the handler.
Find(r) ==
    LET q == req[r]
        hit == Found(q.key)
        same == hit /\ rows[q.key].hash = q.body
    IN /\ q.pc = "find"
       /\ IF hit THEN Finish(r) ELSE Proceed(r, InFlight(q.key) # {})
       /\ replays' = IF same
                     THEN replays \cup {[key |-> q.key, body |-> q.body, run |-> rows[q.key].run]}
                     ELSE replays
       /\ UNCHANGED <<now, rows, runs, until, excuses>>

\* A failing lookup is only logged: the request goes on as after a miss.
FindFails(r) ==
    /\ Faults
    /\ req[r].pc = "find"
    /\ Proceed(r, TRUE)
    /\ UNCHANGED <<now, rows, runs, replays, until, excuses>>

\* The handler runs, and its answer is to be saved, an error too.
Handle(r) ==
    LET q == req[r]
    IN /\ q.pc = "handler"
       /\ Len(runs) < MaxRuns
       /\ runs' = Append(runs, [key |-> q.key, body |-> q.body])
       /\ req' = [req EXCEPT ![r].pc = "save", ![r].run = Len(runs) + 1]
       /\ Excuse(q.key, r \in again)
       /\ again' = again \ {r}
       /\ UNCHANGED <<now, rows, replays, until>>

\* A later middleware (HasPermission) aborts the chain: nothing runs, nothing is
\* saved.
Denied(r) ==
    /\ req[r].pc = "handler"
    /\ Finish(r)
    /\ UNCHANGED <<now, rows, runs, replays, until, excuses>>

SaveOverwriting(r) ==
    LET q == req[r]
        row == [hash |-> q.body, run |-> q.run, expiresAt |-> now + TTL]
    IN /\ q.pc = "save"
       /\ rows' = [k \in DOMAIN rows \cup {q.key} |-> IF k = q.key THEN row ELSE rows[k]]
       /\ until' = [until EXCEPT ![q.key] = now + TTL]
       /\ Finish(r)
       /\ UNCHANGED <<now, runs, replays, excuses>>

SaveForgotten(r) ==
    /\ req[r].pc = "save"
    /\ Finish(r)
    /\ UNCHANGED <<now, rows, runs, replays, until, excuses>>

\* store.Save: an INSERT.  Any row of the key, an expired one too, makes it fail
\* on the UNIQUE constraint, which is only logged.
Save(r) ==
    LET q == req[r]
        row == [hash |-> q.body, run |-> q.run, expiresAt |-> now + TTL]
        fails == q.key \in DOMAIN rows
    IN /\ q.pc = "save"
       /\ rows' = IF fails THEN rows
                  ELSE [k \in DOMAIN rows \cup {q.key} |-> IF k = q.key THEN row ELSE rows[k]]
       /\ until' = IF fails THEN until ELSE [until EXCEPT ![q.key] = now + TTL]
       /\ Excuse(q.key, fails /\ ~Found(q.key))
       /\ Finish(r)
       /\ UNCHANGED <<now, runs, replays>>

\* The request's context is cancelled, its handler panics, or the process dies:
\* what it had left to do is not done.
Lose(r) ==
    /\ Faults
    /\ req[r].pc # "idle"
    /\ Excuse(req[r].key, req[r].pc = "save")
    /\ Finish(r)
    /\ UNCHANGED <<now, rows, runs, replays, until>>

\* The idempotency-cleanup job.
DeleteExpired ==
    /\ rows' = [k \in {k \in DOMAIN rows : rows[k].expiresAt > now} |-> rows[k]]
    /\ UNCHANGED <<now, req, runs, replays, until, again, excuses>>

Tick ==
    /\ now < MaxTime
    /\ now' = now + 1
    /\ excuses' = [k \in Keys |-> IF k \in DOMAIN rows /\ rows[k].expiresAt = now + 1
                                   THEN excuses[k] + 1 ELSE excuses[k]]
    /\ UNCHANGED <<rows, req, runs, replays, until, again>>

-----------------------------------------------------------------------------
Init ==
    /\ now = 0
    /\ rows = [k \in {} |-> 0]
    /\ req = [r \in Requests |-> Idle]
    /\ runs = << >>
    /\ replays = {}
    /\ until = [k \in Keys |-> 0]
    /\ again = {}
    /\ excuses = [k \in Keys |-> 0]

Next ==
    \/ \E r \in Requests :
        \/ \E k \in Keys, b \in Bodies : Arrive(r, k, b)
        \/ Find(r) \/ FindFails(r) \/ Handle(r) \/ Denied(r) \/ Save(r) \/ Lose(r)
    \/ DeleteExpired
    \/ Tick

Spec == Init /\ [][Next]_vars

-----------------------------------------------------------------------------
\* Every variable has its type, and every answer on file is that of some run.
TypeOK ==
    /\ now \in Nat
    /\ DOMAIN rows \subseteq Keys
    /\ \A k \in DOMAIN rows : rows[k] \in Record /\ rows[k].run \in 1..Len(runs)
    /\ rows = [k \in DOMAIN rows |-> rows[k]]
    /\ req \in [Requests -> Request]
    /\ runs \in Seq(Run)
    /\ replays \subseteq Replay
    /\ until \in [Keys -> Nat]
    /\ again \subseteq Requests
    /\ excuses \in [Keys -> Nat]

\* A client only ever receives from the store an answer that the handler gave
\* to the same key and the same body, through purges, reuse of the key with
\* another body, and concurrent runs.
ReplayedAnswerIsOwn ==
    \A a \in replays :
        /\ a.run \in 1..Len(runs)
        /\ runs[a.run].key = a.key
        /\ runs[a.run].body = a.body

\* store.go: each tuple "maps to exactly one historical response that's replayed
\* on retry".  An answer on file stays the one on file until it expires, even
\* when other runs of the same key finish after it.
SavedAnswerStands ==
    [][\A k \in Keys : now' < until[k] => k \in DOMAIN rows /\ k \in DOMAIN rows'
                                          /\ rows'[k] = rows[k]]_vars

\* As long as the answer of a key has to stand, a request that looks it up does
\* not run the handler: what a saved key can still suffer comes from requests
\* that had looked it up before.
SavedKeyIsNotRerun ==
    [][\A r \in Requests :
          Find(r) /\ now < until[req[r].key] => req'[r].pc = "idle"]_vars

\* The handler runs once for a key, and once more at most for each event that
\* the middleware lets it run again after: the saved answer has expired, a
\* lookup failed, another request of the key was between its lookup and its
\* save, a run ended without a save (the client gone, a panic, a crash), or the
\* save met a row that had expired but not been purged.
RerunsHaveACause ==
    \A k \in Keys : Cardinality({n \in DOMAIN runs : runs[n].key = k}) <= 1 + excuses[k]
=============================================================================
