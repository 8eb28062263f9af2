----------------------------- MODULE RateLimit -----------------------------
(***************************************************************************)
(* The token-bucket rate limiter (internal/common/ratelimit): requests     *)
(* that look up or create the bucket of their identity in a sync.Map and   *)
(* take one token from it under the bucket's mutex, and the two middleware *)
(* that run in this order in front of every /api handler, the limiter and  *)
(* JWTAuth.                                                                *)
(*                                                                         *)
(* Time advances in ticks of 1/TicksPerSecond s.  float64 tokens become    *)
(* exact integers: a token is RefillPeriod[p] units and a tick refills     *)
(* RefillTokens[p] units, so that no division is needed.                   *)
(***************************************************************************)
EXTENDS Integers

CONSTANTS
    Requests,       \* request goroutines that may be in flight together
    IPs,            \* client addresses
    Users,          \* usernames that tokens carry
    Anonymous,      \* no bearer token; the CtxUsername key that is not set
    Capacity,       \* per pool: RATE_LIMIT_(AUTH_)CAPACITY
    RefillTokens,   \* per pool: RATE_LIMIT_(AUTH_)REFILL_TOKENS
    RefillPeriod,   \* per pool, in ticks: RATE_LIMIT_(AUTH_)REFILL_PERIOD
    TicksPerSecond, \* Retry-After is in whole seconds, the clock is not
    Paths,          \* the kinds of path that clients call, from Routes
    MaxTime         \* bound: last instant of the clock

Pools == {"default", "auth"}

\* A path charges a pool, or none when it is outside the include prefixes.
Routes == Pools \cup {"outside"}

ASSUME LimitAssumption ==
    /\ Anonymous \notin Users
    /\ IPs # {}
    /\ Paths \subseteq Routes
    /\ Capacity \in [Pools -> Nat]
    /\ RefillTokens \in [Pools -> Nat]
    /\ RefillPeriod \in [Pools -> Nat \ {0}]
    /\ TicksPerSecond \in Nat \ {0}
    /\ MaxTime \in Nat

VARIABLES
    now,        \* time.Now()
    present,    \* the keys of the two sync.Maps
    bucket,     \* their buckets; meaningful for present keys
    req,        \* the local variables of each request
    window,     \* history: the admissions of some key since some instant
    promise     \* history: per key, when the last refusal said to come back

vars == <<now, present, bucket, req, window, promise>>

Identities == IPs \cup Users
Keys == Pools \X Identities
Nil == -1

Bucket == [tokens : Nat, lastRefill : Nat]

Request == [pc : {"idle", "rateLimit", "store", "take", "jwtAuth", "handler"},
            ip : IPs, user : Users \cup {Anonymous}, ctxUser : Users \cup {Anonymous},
            route : Routes, identity : Identities, nb : Bucket]

\* The bucket pool and identity of a request past the limiter's lookup.
KeyOf(q) == <<q.route, q.identity>>

Full(p) == Capacity[p] * RefillPeriod[p]

NewBucket(p) == [tokens |-> Full(p), lastRefill |-> now]

\* refill: nothing for a clock that has not moved, else up to the capacity.
refill(p, b) ==
    LET tokens == b.tokens + (now - b.lastRefill) * RefillTokens[p]
    IN IF now <= b.lastRefill THEN b
       ELSE [tokens |-> IF tokens > Full(p) THEN Full(p) ELSE tokens, lastRefill |-> now]

RetryAfterFloor(p, tokens) ==
    IF RefillTokens[p] = 0 THEN RefillPeriod[p] \div TicksPerSecond
    ELSE (RefillPeriod[p] - tokens) \div (RefillTokens[p] * TicksPerSecond)

\* Seconds until one token is there, rounded up; the header drops the fraction
\* of a period when nothing is ever refilled.
RetryAfter(p, tokens) ==
    LET perSecond == RefillTokens[p] * TicksPerSecond
        missing == RefillPeriod[p] - tokens
    IN IF RefillTokens[p] = 0 THEN RefillPeriod[p] \div TicksPerSecond
       ELSE (missing + perSecond - 1) \div perSecond

-----------------------------------------------------------------------------
Blank == [pc |-> "idle", ip |-> CHOOSE i \in IPs : TRUE, user |-> Anonymous,
          ctxUser |-> Anonymous, route |-> "outside", identity |-> CHOOSE i \in IPs : TRUE,
          nb |-> [tokens |-> 0, lastRefill |-> 0]]

Arrive(r, ip, u, route) ==
    /\ req[r].pc = "idle"
    /\ req' = [req EXCEPT ![r] = [Blank EXCEPT !.pc = "rateLimit", !.ip = ip, !.user = u,
                                               !.route = route, !.identity = ip]]
    /\ UNCHANGED <<now, present, bucket, window, promise>>

\* The limiter up to sync.Map.Load: a path outside the include prefixes is not
\* limited; the identity is CtxUsername when set, else the client address; a
\* missing bucket is built before it is published.
Middleware(r) ==
    LET q == req[r]
        id == IF q.ctxUser = Anonymous THEN q.ip ELSE q.ctxUser
        looked == [q EXCEPT !.identity = id]
    IN /\ q.pc = "rateLimit"
       /\ req' = [req EXCEPT ![r] =
              IF q.route = "outside" THEN [looked EXCEPT !.pc = "jwtAuth"]
              ELSE IF KeyOf(looked) \in present THEN [looked EXCEPT !.pc = "take"]
              ELSE [looked EXCEPT !.pc = "store", !.nb = NewBucket(q.route)]]
       /\ UNCHANGED <<now, present, bucket, window, promise>>

Store(r) ==
    LET k == KeyOf(req[r])
    IN /\ req[r].pc = "store"
       /\ bucket' = [bucket EXCEPT ![k] = req[r].nb]
       /\ present' = present \cup {k}
       /\ req' = [req EXCEPT ![r].pc = "take", ![r].nb = Blank.nb]
       /\ UNCHANGED <<now, window, promise>>

\* The first bucket to be stored is everybody's.
LoadOrStore(r) ==
    LET k == KeyOf(req[r])
    IN /\ req[r].pc = "store"
       /\ bucket' = IF k \in present THEN bucket ELSE [bucket EXCEPT ![k] = req[r].nb]
       /\ present' = present \cup {k}
       /\ req' = [req EXCEPT ![r].pc = "take", ![r].nb = Blank.nb]
       /\ UNCHANGED <<now, window, promise>>

\* Take, under the bucket's mutex, and the limiter's answer: 429 with
\* Retry-After, or on to the next middleware.
Take(r) ==
    LET k == KeyOf(req[r])
        p == req[r].route
        b == refill(p, bucket[k])
        allowed == b.tokens >= RefillPeriod[p]
    IN /\ req[r].pc = "take"
       /\ bucket' = [bucket EXCEPT ![k] =
              IF allowed THEN [b EXCEPT !.tokens = b.tokens - RefillPeriod[p]] ELSE b]
       /\ req' = [req EXCEPT ![r] = IF allowed THEN [req[r] EXCEPT !.pc = "jwtAuth"] ELSE Blank]
       /\ window' = IF allowed /\ window.key = k
                    THEN [window EXCEPT !.count = window.count + 1] ELSE window
       /\ promise' = [promise EXCEPT ![k] =
              IF allowed THEN Nil ELSE now + RetryAfter(p, b.tokens) * TicksPerSecond]
       /\ UNCHANGED <<now, present>>

\* JWTAuth accepts the token and sets CtxUsername for what runs after it.
JWTAuth(r) ==
    /\ req[r].pc = "jwtAuth"
    /\ req' = [req EXCEPT ![r].pc = "handler", ![r].ctxUser = req[r].user]
    /\ UNCHANGED <<now, present, bucket, window, promise>>

Respond(r) ==
    /\ req[r].pc \in {"jwtAuth", "handler"}
    /\ req' = [req EXCEPT ![r] = Blank]
    /\ UNCHANGED <<now, present, bucket, window, promise>>

Tick ==
    /\ now < MaxTime
    /\ now' = now + 1
    /\ UNCHANGED <<present, bucket, req, window, promise>>

\* The observer starts to count the admissions of a key.
OpenWindow(k) ==
    /\ window' = [key |-> k, start |-> now, count |-> 0]
    /\ UNCHANGED <<now, present, bucket, req, promise>>

-----------------------------------------------------------------------------
Init ==
    /\ now = 0
    /\ present = {}
    /\ bucket = [k \in Keys |-> [tokens |-> 0, lastRefill |-> 0]]
    /\ req = [r \in Requests |-> Blank]
    /\ window \in [key : Keys, start : {0}, count : {0}]
    /\ promise = [k \in Keys |-> Nil]

Next ==
    \/ \E r \in Requests :
        \/ \E ip \in IPs, u \in Users \cup {Anonymous}, route \in Paths : Arrive(r, ip, u, route)
        \/ Middleware(r) \/ LoadOrStore(r) \/ Take(r) \/ JWTAuth(r) \/ Respond(r)
    \/ \E k \in Keys : OpenWindow(k)
    \/ Tick

Spec == Init /\ [][Next]_vars

-----------------------------------------------------------------------------
\* Every variable has its type and no bucket was refilled in the future.
TypeOK ==
    /\ now \in Nat
    /\ present \subseteq Keys
    /\ bucket \in [Keys -> Bucket]
    /\ req \in [Requests -> Request]
    /\ window \in [key : Keys, start : Nat, count : Nat]
    /\ promise \in [Keys -> Nat \cup {Nil}]
    /\ \A k \in Keys : bucket[k].lastRefill <= now
    /\ \A r \in Requests : req[r].nb.lastRefill <= now
    /\ window.start <= now

\* In any interval whatsoever an identity is admitted at most its burst
\* capacity plus what the interval refills, however its requests interleave:
\* not twice the capacity when two of them create the bucket, and no more
\* after a long silence.
RateBound ==
    LET p == window.key[1]
    IN window.count * RefillPeriod[p] <= Full(p) + (now - window.start) * RefillTokens[p]

\* bucket.go: retryAfter is "the duration the caller must wait for the next
\* refill that would let one token through".  Unless somebody else is admitted
\* first, a token is there when the announced time comes and not a whole second
\* before.
RetryAfterExact ==
    \A k \in Keys :
        LET p == k[1]
            enough == refill(p, bucket[k]).tokens >= RefillPeriod[p]
        IN promise[k] # Nil /\ Capacity[p] > 0 /\ RefillTokens[p] > 0 =>
               /\ now >= promise[k] => enough
               /\ now + TicksPerSecond <= promise[k] => ~enough
=============================================================================
