-------------------------- MODULE RateLimit_proofs --------------------------
(***************************************************************************)
(* Proofs about RateLimit for any number of requests and identities and    *)
(* any capacity, refill and period.                                        *)
(***************************************************************************)
EXTENDS RateLimit, TLAPS

USE LimitAssumption

\* A request that holds a pool is past the include prefixes, and it takes only
\* from a bucket that is in the map.
RequestsOK ==
    \A r \in Requests :
        LET q == req[r]
        IN /\ q.pc \in {"store", "take"} => q.route \in Pools
           /\ q.pc = "take" => KeyOf(q) \in present
           /\ q.pc = "store" => q.nb.tokens <= Full(q.route)

LevelsOK == \A k \in Keys : bucket[k].tokens <= Full(k[1])

\* What has been admitted plus what is left was there or has been refilled.
WindowOK ==
    LET k == window.key
        p == k[1]
    IN \/ window.count = 0
       \/ /\ k \in present
          /\ window.start <= bucket[k].lastRefill
          /\ window.count * RefillPeriod[p] + bucket[k].tokens
                 <= Full(p) + (bucket[k].lastRefill - window.start) * RefillTokens[p]

\* A standing refusal is computed from the bucket as the last Take left it.
PromiseOK ==
    \A k \in Keys :
        LET p == k[1]
        IN promise[k] # Nil =>
               /\ k \in present
               /\ bucket[k].tokens < RefillPeriod[p]
               /\ promise[k] = bucket[k].lastRefill
                                   + RetryAfter(p, bucket[k].tokens) * TicksPerSecond

RateInv == TypeOK /\ RequestsOK /\ LevelsOK /\ WindowOK /\ PromiseOK

-----------------------------------------------------------------------------
\* Rounding up: the least w with w * d >= m.
LEMMA CeilFacts ==
    ASSUME NEW m \in Nat, NEW d \in Nat, d > 0
    PROVE  LET w == (m + d - 1) \div d
           IN w \in Nat /\ w * d >= m /\ w * d < m + d
<1> DEFINE n == m + d - 1
           w == n \div d
<1>1. n \in Nat
  OBVIOUS
<1>2. w \in Nat /\ n = d * w + (n % d) /\ n % d \in 0..(d - 1)
  BY <1>1
<1> HIDE DEF w
<1>3. w * d = d * w /\ d * w \in Nat
  BY <1>2
<1>4. w * d >= m /\ w * d < m + d
  BY <1>2, <1>3
<1> QED
  BY <1>2, <1>4 DEF w

\* Two adjacent intervals refill what their union refills.
LEMMA Intervals ==
    ASSUME NEW x \in Nat, NEW y \in Nat, NEW z \in Nat, NEW n \in Nat
    PROVE  /\ (y - x) * n + (z - y) * n = (z - x) * n
           /\ (y - x) * n \in Int
           /\ x <= y => (y - x) * n \in Nat
OBVIOUS

\* The sizes are natural numbers.
LEMMA SizeFacts ==
    ASSUME NEW p \in Pools
    PROVE  /\ Capacity[p] \in Nat /\ RefillTokens[p] \in Nat
           /\ RefillPeriod[p] \in Nat /\ RefillPeriod[p] > 0
           /\ Full(p) \in Nat
           /\ RefillTokens[p] * TicksPerSecond \in Nat
<1>1. Capacity[p] \in Nat /\ RefillTokens[p] \in Nat /\ RefillPeriod[p] \in Nat /\ RefillPeriod[p] > 0
  OBVIOUS
<1> QED
  BY <1>1 DEF Full

\* A refilled bucket is up to date, within its capacity, and holds no more than
\* the time since the last refill has added.
LEMMA RefillFacts ==
    ASSUME NEW p \in Pools, NEW b \in Bucket, now \in Nat,
           b.lastRefill <= now, b.tokens <= Full(p)
    PROVE  /\ refill(p, b) \in Bucket
           /\ refill(p, b).lastRefill = now
           /\ refill(p, b).tokens <= Full(p)
           /\ refill(p, b).tokens <= b.tokens + (now - b.lastRefill) * RefillTokens[p]
<1> DEFINE gain == (now - b.lastRefill) * RefillTokens[p]
<1>1. b.tokens \in Nat /\ b.lastRefill \in Nat /\ now - b.lastRefill \in Nat
  BY DEF Bucket
<1>2. gain \in Nat
  BY <1>1, SizeFacts
<1>3. CASE now <= b.lastRefill
  <2>1. now = b.lastRefill
    BY <1>1, <1>3
  <2>2. refill(p, b) = b
    BY <1>3 DEF refill
  <2> HIDE DEF gain
  <2> QED BY <1>1, <1>2, <2>1, <2>2 DEF gain
<1>4. CASE ~(now <= b.lastRefill)
  <2>1. refill(p, b) = [tokens |-> IF b.tokens + gain > Full(p) THEN Full(p) ELSE b.tokens + gain,
                        lastRefill |-> now]
    BY <1>4 DEF refill
  <2> HIDE DEF gain
  <2>2. Full(p) \in Nat
    BY SizeFacts
  <2>3. /\ refill(p, b).tokens = IF b.tokens + gain > Full(p) THEN Full(p) ELSE b.tokens + gain
        /\ refill(p, b).lastRefill = now
    BY <2>1
  <2>4. refill(p, b) \in Bucket
    BY <1>1, <1>2, <2>1, <2>2 DEF Bucket
  <2> QED BY <1>1, <1>2, <2>2, <2>3, <2>4 DEF gain
<1> QED
  BY <1>3, <1>4

\* The announced wait covers what is missing, by less than a second's refill.
LEMMA RetryAfterFacts ==
    ASSUME NEW p \in Pools, NEW t \in Nat, t < RefillPeriod[p]
    PROVE  /\ RetryAfter(p, t) \in Nat
           /\ RefillTokens[p] > 0 =>
                LET d == RefillTokens[p] * TicksPerSecond
                IN /\ RetryAfter(p, t) * d >= RefillPeriod[p] - t
                   /\ RetryAfter(p, t) * d < RefillPeriod[p] - t + d
<1> DEFINE d == RefillTokens[p] * TicksPerSecond
           m == RefillPeriod[p] - t
<1>1. d \in Nat /\ m \in Nat /\ TicksPerSecond \in Nat /\ TicksPerSecond > 0
  BY SizeFacts
<1>2. CASE RefillTokens[p] = 0
  <2>1. RetryAfter(p, t) = RefillPeriod[p] \div TicksPerSecond
    BY <1>2 DEF RetryAfter
  <2>2. RefillPeriod[p] \div TicksPerSecond \in Nat
    BY <1>1, SizeFacts
  <2> QED BY <1>2, <2>1, <2>2
<1>3. CASE RefillTokens[p] # 0
  <2>1. RetryAfter(p, t) = (m + d - 1) \div d
    BY <1>3 DEF RetryAfter
  <2>2. d > 0
    BY <1>1, <1>3, SizeFacts
  <2> HIDE DEF d, m
  <2>3. /\ (m + d - 1) \div d \in Nat
        /\ ((m + d - 1) \div d) * d >= m
        /\ ((m + d - 1) \div d) * d < m + d
    BY <1>1, <2>2, CeilFacts
  <2> QED BY <2>1, <2>3 DEF d, m
<1> QED
  BY <1>2, <1>3

-----------------------------------------------------------------------------
\* The empty slot is a request.
LEMMA BlankFacts ==
    /\ Blank \in Request /\ Blank.pc = "idle"
    /\ Blank.nb \in Bucket /\ Blank.nb.lastRefill = 0
<1>1. (CHOOSE i \in IPs : TRUE) \in IPs
  OBVIOUS
<1> DEFINE i0 == CHOOSE i \in IPs : TRUE
<1> HIDE DEF i0
<1> QED
  BY <1>1 DEF Blank, Request, Bucket, Routes, Pools, Identities, i0

\* The invariant holds before the first request.
LEMMA RateInitOK == Init => RateInv
<1> SUFFICES ASSUME Init PROVE RateInv
  OBVIOUS
<1>1. TypeOK
  BY BlankFacts DEF Init, TypeOK, Bucket, Keys, Nil
<1>2. RequestsOK
  BY BlankFacts DEF Init, RequestsOK
<1>3. LevelsOK
  <2> SUFFICES ASSUME NEW k \in Keys PROVE bucket[k].tokens <= Full(k[1])
    BY DEF LevelsOK
  <2>1. k[1] \in Pools
    BY DEF Keys
  <2> QED BY <2>1, SizeFacts DEF Init
<1>4. WindowOK /\ PromiseOK
  BY DEF Init, WindowOK, PromiseOK
<1> QED
  BY <1>1, <1>2, <1>3, <1>4 DEF RateInv

\* A step of one request that touches neither the map nor the buckets.
LEMMA RequestStep ==
    ASSUME RateInv, NEW r \in Requests, NEW q \in Request,
           req' = [req EXCEPT ![r] = q],
           q.pc \in {"store", "take"} => q.route \in Pools,
           q.pc = "take" => KeyOf(q) \in present,
           q.pc = "store" => q.nb.tokens <= Full(q.route),
           q.nb.lastRefill <= now,
           UNCHANGED <<now, present, bucket, window, promise>>
    PROVE  RateInv'
<1>1. TypeOK'
  BY DEF RateInv, TypeOK
<1>2. RequestsOK'
  BY DEF RateInv, TypeOK, RequestsOK, KeyOf
<1>3. LevelsOK' /\ WindowOK' /\ PromiseOK'
  BY DEF RateInv, LevelsOK, WindowOK, PromiseOK
<1> QED
  BY <1>1, <1>2, <1>3 DEF RateInv

\* Arrive, Middleware, JWTAuth and Respond.
LEMMA PipelineStep ==
    ASSUME RateInv, NEW r \in Requests,
           \/ \E ip \in IPs, u \in Users \cup {Anonymous}, route \in Paths : Arrive(r, ip, u, route)
           \/ Middleware(r) \/ JWTAuth(r) \/ Respond(r)
    PROVE  RateInv'
<1> now \in Nat /\ req[r] \in Request /\ req[r].nb.lastRefill <= now
  BY DEF RateInv, TypeOK
<1>1. ASSUME NEW ip \in IPs, NEW u \in Users \cup {Anonymous}, NEW route \in Paths,
             Arrive(r, ip, u, route)
      PROVE  RateInv'
  <2> DEFINE q == [Blank EXCEPT !.pc = "rateLimit", !.ip = ip, !.user = u,
                                !.route = route, !.identity = ip]
  <2>0. q.pc = "rateLimit" /\ q.nb = Blank.nb
    BY BlankFacts DEF Request
  <2>1. q \in Request
    BY BlankFacts DEF Request, Identities
  <2>2. q.nb.lastRefill <= now
    BY <2>0, BlankFacts
  <2>3. req' = [req EXCEPT ![r] = q] /\ UNCHANGED <<now, present, bucket, window, promise>>
    BY <1>1 DEF Arrive
  <2> HIDE DEF q
  <2> QED BY <2>0, <2>1, <2>2, <2>3, RequestStep
<1>2. CASE Middleware(r)
  <2> DEFINE id == IF req[r].ctxUser = Anonymous THEN req[r].ip ELSE req[r].ctxUser
             looked == [req[r] EXCEPT !.identity = id]
             q == IF req[r].route = "outside" THEN [looked EXCEPT !.pc = "jwtAuth"]
                  ELSE IF KeyOf(looked) \in present THEN [looked EXCEPT !.pc = "take"]
                  ELSE [looked EXCEPT !.pc = "store", !.nb = NewBucket(req[r].route)]
  <2>1. req' = [req EXCEPT ![r] = q] /\ UNCHANGED <<now, present, bucket, window, promise>>
    BY <1>2 DEF Middleware
  <2>2. looked \in Request /\ looked.route = req[r].route /\ looked.nb = req[r].nb
    BY DEF Request, Identities
  <2> HIDE DEF looked
  <2>3. req[r].route \in Routes
    BY DEF Request
  <2>4. CASE req[r].route = "outside"
    <3>1. q \in Request /\ q.pc = "jwtAuth" /\ q.nb.lastRefill <= now
      BY <2>2, <2>4 DEF Request
    <3> HIDE DEF q
    <3> QED BY <2>1, <3>1, RequestStep
  <2>5. CASE req[r].route # "outside" /\ KeyOf(looked) \in present
    <3>1. q \in Request /\ q.pc = "take" /\ q.nb.lastRefill <= now
          /\ q.route \in Pools /\ KeyOf(q) \in present
      BY <2>2, <2>3, <2>5 DEF Request, Routes, Pools, KeyOf
    <3> HIDE DEF q
    <3> QED BY <2>1, <3>1, RequestStep
  <2>6. CASE req[r].route # "outside" /\ KeyOf(looked) \notin present
    <3>1. req[r].route \in Pools
      BY <2>3, <2>6 DEF Routes
    <3>2. /\ NewBucket(req[r].route) \in Bucket
          /\ NewBucket(req[r].route).tokens = Full(req[r].route)
          /\ NewBucket(req[r].route).lastRefill = now
      BY <3>1, SizeFacts DEF NewBucket, Bucket
    <3>3. q = [looked EXCEPT !.pc = "store", !.nb = NewBucket(req[r].route)]
      BY <2>6
    <3>4. q \in Request /\ q.pc = "store" /\ q.route = req[r].route
          /\ q.nb = NewBucket(req[r].route)
      BY <2>2, <3>2, <3>3 DEF Request
    <3>5. q.nb.lastRefill <= now /\ q.nb.tokens <= Full(q.route)
      BY <3>1, <3>2, <3>4, SizeFacts
    <3> HIDE DEF q
    <3> QED BY <2>1, <3>1, <3>4, <3>5, RequestStep
  <2> QED BY <2>4, <2>5, <2>6
<1>3. CASE JWTAuth(r)
  <2> DEFINE q == [req[r] EXCEPT !.pc = "handler", !.ctxUser = req[r].user]
  <2>1. q \in Request /\ q.pc = "handler" /\ q.nb.lastRefill <= now
    BY DEF Request
  <2>2. req' = [req EXCEPT ![r] = q] /\ UNCHANGED <<now, present, bucket, window, promise>>
    BY <1>3 DEF JWTAuth
  <2> HIDE DEF q
  <2> QED BY <2>1, <2>2, RequestStep
<1>4. CASE Respond(r)
  <2>1. Blank.nb.lastRefill <= now
    BY BlankFacts
  <2>2. req' = [req EXCEPT ![r] = Blank] /\ UNCHANGED <<now, present, bucket, window, promise>>
    BY <1>4 DEF Respond
  <2> QED BY <2>1, <2>2, BlankFacts, RequestStep
<1> QED
  BY <1>1, <1>2, <1>3, <1>4

\* Publishing a bucket leaves every stored bucket alone.
LEMMA LoadOrStoreStep ==
    ASSUME RateInv, NEW r \in Requests, LoadOrStore(r) PROVE RateInv'
<1> DEFINE k == KeyOf(req[r])
           nb == req[r].nb
           q == [req[r] EXCEPT !.pc = "take", !.nb = Blank.nb]
<1>1. /\ req[r] \in Request /\ req[r].route \in Pools /\ nb \in Bucket
      /\ nb.tokens <= Full(req[r].route) /\ nb.lastRefill <= now /\ now \in Nat
  BY DEF RateInv, TypeOK, RequestsOK, LoadOrStore, Request
<1>2. k \in Keys /\ k[1] = req[r].route
  BY <1>1 DEF KeyOf, Keys, Request
<1>3. /\ q \in Request /\ q.pc = "take" /\ KeyOf(q) = k /\ q.route = req[r].route
      /\ q.nb = Blank.nb
  BY <1>1, BlankFacts DEF Request, KeyOf
<1>4. /\ req' = [req EXCEPT ![r] = q] /\ present' = present \cup {k}
      /\ bucket' = IF k \in present THEN bucket ELSE [bucket EXCEPT ![k] = nb]
      /\ UNCHANGED <<now, window, promise>>
  BY DEF LoadOrStore
<1> HIDE DEF k, nb, q
<1>5. \A x \in present : x \in Keys => bucket'[x] = bucket[x]
  BY <1>4 DEF RateInv, TypeOK
<1>6. \A x \in Keys : bucket'[x] = bucket[x] \/ (x = k /\ bucket'[x] = nb)
  BY <1>2, <1>4 DEF RateInv, TypeOK
<1>7. bucket' \in [Keys -> Bucket]
  BY <1>1, <1>4 DEF RateInv, TypeOK
<1>8. q.nb.lastRefill <= now
  BY <1>1, <1>3, BlankFacts
<1>9. TypeOK'
  BY <1>1, <1>2, <1>3, <1>4, <1>6, <1>7, <1>8 DEF RateInv, TypeOK
<1>10. RequestsOK'
  BY <1>1, <1>2, <1>3, <1>4 DEF RateInv, TypeOK, RequestsOK, KeyOf
<1>11. LevelsOK'
  BY <1>1, <1>2, <1>6 DEF RateInv, LevelsOK
<1>12. WindowOK' /\ PromiseOK'
  <2>1. window.key \in Keys /\ present \subseteq present' /\ UNCHANGED <<window, promise, now>>
    BY <1>4 DEF RateInv, TypeOK
  <2>2. WindowOK'
    BY <1>5, <2>1 DEF RateInv, WindowOK
  <2>3. PromiseOK'
    BY <1>5, <2>1 DEF RateInv, PromiseOK
  <2> QED BY <2>2, <2>3
<1> QED
  BY <1>9, <1>10, <1>11, <1>12 DEF RateInv

\* Time passes.
LEMMA ClockStep ==
    ASSUME RateInv, Tick PROVE RateInv'
<1>1. TypeOK'
  <2>1. now \in Nat /\ now' = now + 1 /\ UNCHANGED <<present, bucket, req, window, promise>>
    BY DEF RateInv, TypeOK, Tick
  <2>2. /\ \A k \in Keys : bucket[k].lastRefill \in Nat
        /\ \A r \in Requests : req[r].nb.lastRefill \in Nat
    BY DEF RateInv, TypeOK, Request, Bucket
  <2>3. /\ \A k \in Keys : bucket[k].lastRefill <= now'
        /\ \A r \in Requests : req[r].nb.lastRefill <= now'
        /\ window.start <= now'
    BY <2>1, <2>2 DEF RateInv, TypeOK
  <2> QED BY <2>1, <2>3 DEF RateInv, TypeOK
<1>2. RequestsOK' /\ LevelsOK' /\ WindowOK' /\ PromiseOK'
  BY DEF RateInv, RequestsOK, LevelsOK, WindowOK, PromiseOK, Tick
<1> QED
  BY <1>1, <1>2 DEF RateInv

\* The observer counts from zero.
LEMMA WindowStep ==
    ASSUME RateInv, NEW k \in Keys, OpenWindow(k) PROVE RateInv'
<1>1. TypeOK'
  BY DEF RateInv, TypeOK, OpenWindow
<1>2. RequestsOK' /\ LevelsOK' /\ PromiseOK'
  BY DEF RateInv, RequestsOK, LevelsOK, PromiseOK, OpenWindow
<1>3. WindowOK'
  BY DEF OpenWindow, WindowOK
<1> QED
  BY <1>1, <1>2, <1>3 DEF RateInv

\* Take moves at most one token from the bucket to the admissions.
LEMMA TakeStep ==
    ASSUME RateInv, NEW r \in Requests, Take(r) PROVE RateInv'
<1> DEFINE k == KeyOf(req[r])
           p == req[r].route
           b == refill(p, bucket[k])
           allowed == b.tokens >= RefillPeriod[p]
           nb == IF allowed THEN [b EXCEPT !.tokens = b.tokens - RefillPeriod[p]] ELSE b
           q == IF allowed THEN [req[r] EXCEPT !.pc = "jwtAuth"] ELSE Blank
<1>1. /\ req[r] \in Request /\ p \in Pools /\ k \in present /\ now \in Nat
      /\ req[r].nb.lastRefill <= now
  BY DEF RateInv, TypeOK, RequestsOK, Take
<1>2. k \in Keys /\ k[1] = p
  BY <1>1 DEF KeyOf, Keys, Request
<1>3. /\ bucket[k] \in Bucket /\ bucket[k].lastRefill <= now /\ bucket[k].tokens <= Full(p)
      /\ bucket[k].tokens \in Nat /\ bucket[k].lastRefill \in Nat
  BY <1>1, <1>2 DEF RateInv, TypeOK, LevelsOK, Bucket
<1>4. /\ b \in Bucket /\ b.lastRefill = now /\ b.tokens <= Full(p) /\ b.tokens \in Nat
      /\ b.tokens <= bucket[k].tokens + (now - bucket[k].lastRefill) * RefillTokens[p]
  BY <1>1, <1>3, RefillFacts DEF Bucket
<1>5. /\ bucket' = [bucket EXCEPT ![k] = nb]
      /\ req' = [req EXCEPT ![r] = q]
      /\ window' = IF allowed /\ window.key = k
                   THEN [window EXCEPT !.count = window.count + 1] ELSE window
      /\ promise' = [promise EXCEPT ![k] =
             IF allowed THEN Nil ELSE now + RetryAfter(p, b.tokens) * TicksPerSecond]
      /\ UNCHANGED <<now, present>>
  BY DEF Take
<1> HIDE DEF k, b
<1>6. /\ nb \in Bucket /\ nb.lastRefill = now /\ nb.tokens <= Full(p) /\ nb.tokens \in Nat
      /\ allowed => nb.tokens = b.tokens - RefillPeriod[p]
      /\ ~allowed => nb = b /\ b.tokens < RefillPeriod[p]
  BY <1>1, <1>4, SizeFacts DEF Bucket
<1>7. q \in Request /\ q.pc \in {"jwtAuth", "idle"} /\ q.nb.lastRefill <= now
  <2>1. CASE allowed
    BY <1>1, <2>1 DEF Request
  <2>2. CASE ~allowed
    <3>1. q = Blank
      BY <2>2
    <3> QED BY <1>1, <3>1, BlankFacts
  <2> QED BY <2>1, <2>2
<1>8. ~allowed => /\ RetryAfter(p, b.tokens) \in Nat
                  /\ now + RetryAfter(p, b.tokens) * TicksPerSecond \in Nat
  BY <1>1, <1>4, <1>6, RetryAfterFacts
<1> HIDE DEF nb, q, allowed
<1>9. \A x \in Keys : x # k => bucket'[x] = bucket[x] /\ promise'[x] = promise[x]
  BY <1>5 DEF RateInv, TypeOK
<1>10. bucket'[k] = nb /\ bucket' \in [Keys -> Bucket]
  BY <1>2, <1>5, <1>6 DEF RateInv, TypeOK
<1>11. TypeOK'
  <2>1. promise' \in [Keys -> Nat \cup {Nil}]
    BY <1>5, <1>8 DEF RateInv, TypeOK
  <2>2. req' \in [Requests -> Request] /\ \A x \in Requests : req'[x].nb.lastRefill <= now
    BY <1>5, <1>7 DEF RateInv, TypeOK
  <2>3. window' \in [key : Keys, start : Nat, count : Nat] /\ window'.start <= now
    BY <1>5 DEF RateInv, TypeOK
  <2>4. \A x \in Keys : bucket'[x].lastRefill <= now
    BY <1>1, <1>6, <1>9, <1>10 DEF RateInv, TypeOK
  <2> QED BY <1>5, <1>10, <2>1, <2>2, <2>3, <2>4 DEF RateInv, TypeOK
<1>12. RequestsOK'
  BY <1>5, <1>7 DEF RateInv, TypeOK, RequestsOK, KeyOf
<1>13. LevelsOK'
  BY <1>2, <1>6, <1>9, <1>10 DEF RateInv, LevelsOK
<1>14. PromiseOK'
  <2> SUFFICES ASSUME NEW x \in Keys, promise'[x] # Nil
               PROVE  /\ x \in present' /\ bucket'[x].tokens < RefillPeriod[x[1]]
                      /\ promise'[x] = bucket'[x].lastRefill
                                 + RetryAfter(x[1], bucket'[x].tokens) * TicksPerSecond
    BY DEF PromiseOK, RetryAfter
  <2>1. CASE x # k
    BY <1>5, <1>9, <2>1 DEF RateInv, PromiseOK
  <2>2. CASE x = k
    <3>1. promise'[k] = IF allowed THEN Nil ELSE now + RetryAfter(p, b.tokens) * TicksPerSecond
      BY <1>2, <1>5 DEF RateInv, TypeOK
    <3>2. ~allowed
      BY <2>2, <3>1
    <3> QED BY <1>1, <1>2, <1>5, <1>6, <1>10, <2>2, <3>1, <3>2
  <2> QED BY <2>1, <2>2
<1>15. WindowOK'
  <2> DEFINE R == RefillTokens[p]
             P == RefillPeriod[p]
             c == window.count
             s == window.start
  <2>0. /\ R \in Nat /\ P \in Nat /\ Full(p) \in Nat /\ window.key \in Keys
        /\ c \in Nat /\ s \in Nat /\ s <= now
    BY <1>1, SizeFacts DEF RateInv, TypeOK
  <2>1. CASE window.key # k
    <3>1. window' = window /\ bucket'[window.key] = bucket[window.key] /\ present' = present
      BY <1>5, <1>9, <2>0, <2>1
    <3> QED BY <3>1 DEF RateInv, WindowOK
  <2>2. CASE window.key = k
    <3>1. c = 0 \/ /\ s <= bucket[k].lastRefill
                   /\ c * P + bucket[k].tokens <= Full(p) + (bucket[k].lastRefill - s) * R
      BY <1>2, <2>2 DEF RateInv, WindowOK
    <3>2. /\ (now - s) * R \in Nat /\ c * P \in Nat /\ (c + 1) * P = c * P + P
          /\ (now - bucket[k].lastRefill) * R \in Nat
          /\ s <= bucket[k].lastRefill =>
                (bucket[k].lastRefill - s) * R + (now - bucket[k].lastRefill) * R = (now - s) * R
          /\ (bucket[k].lastRefill - s) * R \in Int
      <4> DEFINE last == bucket[k].lastRefill
      <4>1. last \in Nat /\ last <= now /\ now \in Nat
        BY <1>1, <1>3
      <4> HIDE DEF last, R, P, c, s
      <4>2. c * P \in Nat /\ (c + 1) * P = c * P + P
        BY <2>0
      <4>3. /\ (now - s) * R \in Nat /\ (now - last) * R \in Nat /\ (last - s) * R \in Int
            /\ (last - s) * R + (now - last) * R = (now - s) * R
        BY <2>0, <4>1, Intervals
      <4> QED BY <4>2, <4>3 DEF last
    <3>3. c = 0 => c * P = 0
      BY <2>0
    <3>4. c * P + b.tokens <= Full(p) + (now - s) * R
      <4> DEFINE g == (now - bucket[k].lastRefill) * R
                 h == (bucket[k].lastRefill - s) * R
                 n == (now - s) * R
                 a == c * P
      <4>1. /\ n \in Nat /\ a \in Nat /\ g \in Nat /\ h \in Int
            /\ c = 0 => a = 0
            /\ b.tokens <= bucket[k].tokens + g
            /\ s <= bucket[k].lastRefill => h + g = n
            /\ c = 0 \/ (s <= bucket[k].lastRefill /\ a + bucket[k].tokens <= Full(p) + h)
        BY <1>4, <3>1, <3>2, <3>3
      <4> HIDE DEF g, h, n, a
      <4>2. a + b.tokens <= Full(p) + n
        BY <1>3, <1>4, <2>0, <4>1
      <4> QED BY <4>2 DEF a, n
    <3>5. CASE allowed
      <4>1. window' = [window EXCEPT !.count = c + 1]
        BY <1>5, <2>2, <3>5
      <4>2. window'.count = c + 1 /\ window'.start = s /\ window'.key = k
        BY <2>2, <4>1 DEF RateInv, TypeOK
      <4>3. (c + 1) * P + nb.tokens <= Full(p) + (now - s) * R
        <5> DEFINE n == (now - s) * R
                   a == c * P
                   a1 == (c + 1) * P
        <5>1. a1 = a + P /\ a \in Nat /\ n \in Nat /\ a + b.tokens <= Full(p) + n
          BY <3>2, <3>4
        <5> HIDE DEF n, a, a1
        <5>2. a1 + nb.tokens <= Full(p) + n
          BY <1>4, <1>6, <2>0, <3>5, <5>1
        <5> QED BY <5>2 DEF n, a1
      <4> QED
        BY <1>1, <1>2, <1>5, <1>6, <1>10, <2>0, <4>2, <4>3 DEF WindowOK, Full
    <3>6. CASE ~allowed
      <4>1. window' = window
        BY <1>5, <3>6
      <4>2. c * P + nb.tokens <= Full(p) + (now - s) * R
        BY <1>6, <3>4, <3>6
      <4> QED
        BY <1>1, <1>2, <1>5, <1>6, <1>10, <2>0, <2>2, <4>1, <4>2 DEF WindowOK, Full
    <3> QED BY <3>5, <3>6
  <2> QED BY <2>1, <2>2
<1> QED
  BY <1>11, <1>12, <1>13, <1>14, <1>15 DEF RateInv

\* Every step preserves the invariant.
LEMMA RateNextOK == RateInv /\ [Next]_vars => RateInv'
<1>1. ASSUME RateInv, UNCHANGED vars PROVE RateInv'
  BY <1>1 DEF vars, RateInv, TypeOK, RequestsOK, LevelsOK, WindowOK, PromiseOK
<1> QED
  BY <1>1, PipelineStep, LoadOrStoreStep, TakeStep, ClockStep, WindowStep DEF Next

-----------------------------------------------------------------------------
\* Types, with every bucket refilled in the past, for every configuration.
THEOREM RateTypeCorrect == Spec => []TypeOK
<1>1. RateInv => TypeOK
  BY DEF RateInv
<1> QED
  BY <1>1, RateInitOK, RateNextOK, PTL DEF Spec

\* In every interval every identity is admitted at most its capacity plus the
\* refill of the interval, for any number of concurrent requests.
THEOREM AdmissionsBounded == Spec => []RateBound
<1>1. RateInv => RateBound
  <2> SUFFICES ASSUME RateInv PROVE RateBound
    OBVIOUS
  <2> DEFINE k == window.key
             p == k[1]
             R == RefillTokens[p]
             last == bucket[k].lastRefill
  <2>1. /\ k \in Keys /\ p \in Pools /\ window.start \in Nat /\ now \in Nat /\ window.start <= now
        /\ last \in Nat /\ last <= now /\ bucket[k].tokens \in Nat
        /\ window.count \in Nat
    BY DEF RateInv, TypeOK, Keys, Bucket
  <2>2. R \in Nat /\ RefillPeriod[p] \in Nat /\ Full(p) \in Nat
    BY <2>1, SizeFacts
  <2> HIDE DEF p
  <2>3. (now - window.start) * R \in Nat
    BY <2>1, <2>2
  <2>4. CASE window.count = 0
    <3>1. window.count * RefillPeriod[p] = 0
      BY <2>2, <2>4
    <3> QED BY <2>2, <2>3, <3>1 DEF RateBound, p
  <2>5. CASE window.count # 0
    <3>1. window.start <= last
          /\ window.count * RefillPeriod[p] + bucket[k].tokens <= Full(p) + (last - window.start) * R
      BY <2>5 DEF RateInv, WindowOK, p
    <3>2. (last - window.start) * R + (now - last) * R = (now - window.start) * R
          /\ (now - last) * R \in Nat /\ (last - window.start) * R \in Int
      BY <2>1, <2>2
    <3>3. window.count * RefillPeriod[p] \in Nat
      BY <2>1, <2>2
    <3> DEFINE a == window.count * RefillPeriod[p]
               h == (last - window.start) * R
               g == (now - last) * R
               n == (now - window.start) * R
    <3>4. /\ a \in Nat /\ h \in Int /\ g \in Nat /\ n \in Nat /\ h + g = n
          /\ a + bucket[k].tokens <= Full(p) + h
      BY <2>3, <3>1, <3>2, <3>3
    <3> HIDE DEF a, h, g, n
    <3>5. a <= Full(p) + n
      BY <2>1, <2>2, <3>4
    <3> QED BY <3>5 DEF RateBound, p, a, n
  <2> QED BY <2>4, <2>5
<1> QED
  BY <1>1, RateInitOK, RateNextOK, PTL DEF Spec

\* The announced Retry-After is neither too short nor a second too long, for
\* every configuration that refills at all.
THEOREM RetryAfterSound == Spec => []RetryAfterExact
<1>1. RateInv => RetryAfterExact
  <2> SUFFICES ASSUME RateInv, NEW k \in Keys, promise[k] # Nil,
                      Capacity[k[1]] > 0, RefillTokens[k[1]] > 0
               PROVE  /\ now >= promise[k] => refill(k[1], bucket[k]).tokens >= RefillPeriod[k[1]]
                      /\ now + TicksPerSecond <= promise[k] =>
                             ~(refill(k[1], bucket[k]).tokens >= RefillPeriod[k[1]])
    BY DEF RetryAfterExact
  <2> DEFINE p == k[1]
             R == RefillTokens[p]
             P == RefillPeriod[p]
             T == TicksPerSecond
             t == bucket[k].tokens
             last == bucket[k].lastRefill
             w == RetryAfter(p, t)
             m == now - last
  <2>1. /\ p \in Pools /\ now \in Nat /\ last \in Nat /\ last <= now /\ t \in Nat
        /\ bucket[k] \in Bucket /\ t < P /\ promise[k] = last + w * T /\ m \in Nat
        /\ T \in Nat /\ T > 0 /\ t <= Full(p)
    BY DEF RateInv, TypeOK, Keys, Bucket, PromiseOK, LevelsOK
  <2>2. R \in Nat /\ P \in Nat /\ Full(p) \in Nat /\ Capacity[p] \in Nat /\ R > 0 /\ R * T \in Nat
    BY <2>1, SizeFacts
  <2>3. w \in Nat /\ w * (R * T) >= P - t /\ w * (R * T) < P - t + R * T
    BY <2>1, <2>2, RetryAfterFacts
  <2>4. P <= Full(p)
    BY <2>2 DEF Full
  <2>5. refill(p, bucket[k]).tokens =
            IF m = 0 THEN t ELSE IF t + m * R > Full(p) THEN Full(p) ELSE t + m * R
    BY <2>1 DEF refill
  <2> HIDE DEF w, t, last, m, P, R, T, p
  <2>6. w * T \in Nat /\ m * R \in Nat /\ (w * T) * R = w * (R * T)
    BY <2>1, <2>2, <2>3
  <2>7. ASSUME now >= promise[k] PROVE refill(p, bucket[k]).tokens >= P
    <3>1. m >= w * T
      BY <2>1, <2>6, <2>7 DEF m
    <3>2. m * R >= (w * T) * R
      BY <2>1, <2>2, <2>6, <3>1
    <3>3. t + m * R >= P
      BY <2>1, <2>2, <2>3, <2>6, <3>2
    <3>4. m # 0
      BY <2>1, <2>2, <2>6, <3>3
    <3> QED BY <2>1, <2>2, <2>4, <2>5, <2>6, <3>3, <3>4
  <2>8. ASSUME now + T <= promise[k] PROVE refill(p, bucket[k]).tokens < P
    <3>1. m + T <= w * T
      BY <2>1, <2>6, <2>8 DEF m
    <3>2. (m + T) * R <= (w * T) * R /\ (m + T) * R = m * R + R * T
      BY <2>1, <2>2, <2>6, <3>1
    <3>3. t + m * R < P
      BY <2>1, <2>2, <2>3, <2>6, <3>2
    <3> QED BY <2>1, <2>2, <2>4, <2>5, <2>6, <3>3
  <2>9. refill(p, bucket[k]).tokens \in Nat
    BY <2>1, <2>2, <2>5, <2>6
  <2> QED BY <2>2, <2>7, <2>8, <2>9 DEF p, P, T
<1> QED
  BY <1>1, RateInitOK, RateNextOK, PTL DEF Spec
=============================================================================
