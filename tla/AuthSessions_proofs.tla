------------------------ MODULE AuthSessions_proofs ------------------------
(***************************************************************************)
(* Proofs about AuthSessions for any set of users and of concurrent        *)
(* requests.  GoneMeansSignedOut and RolesTrackTokens are not inductive:   *)
(* a refresh in flight may sign authorities it read before they were taken *)
(* away, and a handler that goes on to revoke must still know for whom and *)
(* for which operation it does so.  RequestOK says what every request in   *)
(* flight may hold, and AuthInv is the conjunction that every step keeps.  *)
(*                                                                         *)
(* The session store comes first, by itself: SessionTypeOK is inductive,   *)
(* and its action properties follow from it and the shape of a statement.  *)
(***************************************************************************)
EXTENDS AuthSessions, TLAPS

USE StoreAssumption DEF Nil

\* The empty table is well typed.
LEMMA SessionInitTypeOK == SessionInit => SessionTypeOK
BY DEF SessionInit, SessionTypeOK

\* Every operation of the store keeps the table well typed.
LEMMA SessionNextTypeOK == SessionTypeOK /\ [SessionNext]_storeVars => SessionTypeOK'
<1> SUFFICES ASSUME SessionTypeOK, [SessionNext]_storeVars PROVE SessionTypeOK'
  OBVIOUS
<1> USE DEF SessionTypeOK, UserSession
<1>1. ASSUME NEW u \in Users, Create(u, now + RefreshTTL) PROVE SessionTypeOK'
  BY <1>1 DEF Create
<1>2. ASSUME NEW i \in 1..lastID, Revoke(i) PROVE SessionTypeOK'
  BY <1>2 DEF Revoke
<1>3. ASSUME NEW u \in Users, RevokeAllForUser(u) PROVE SessionTypeOK'
  BY <1>3 DEF RevokeAllForUser
<1>4. CASE CleanupExpired
  BY <1>4 DEF CleanupExpired
<1>5. CASE Tick
  BY <1>5 DEF Tick
<1>6. CASE UNCHANGED storeVars
  BY <1>6 DEF storeVars
<1> QED
  BY <1>1, <1>2, <1>3, <1>4, <1>5, <1>6 DEF SessionNext

\* The session table is well formed in every reachable state.
THEOREM SessionTypeCorrect == SessionSpec => []SessionTypeOK
BY SessionInitTypeOK, SessionNextTypeOK, PTL DEF SessionSpec

\* No single operation brings a dead session back.
LEMMA StepKeepsDead ==
    ASSUME SessionTypeOK, [SessionNext]_storeVars, NEW i \in 1..lastID, ~Active(i)
    PROVE  ~Active(i)'
<1> USE DEF SessionTypeOK, UserSession, Active
<1>1. ASSUME NEW u \in Users, Create(u, now + RefreshTTL) PROVE ~Active(i)'
  BY <1>1 DEF Create
<1>2. ASSUME NEW j \in 1..lastID, Revoke(j) PROVE ~Active(i)'
  BY <1>2 DEF Revoke
<1>3. ASSUME NEW u \in Users, RevokeAllForUser(u) PROVE ~Active(i)'
  BY <1>3 DEF RevokeAllForUser
<1>4. CASE CleanupExpired
  BY <1>4 DEF CleanupExpired
<1>5. CASE Tick
  BY <1>5 DEF Tick
<1>6. CASE UNCHANGED storeVars
  BY <1>6 DEF storeVars
<1> QED
  BY <1>1, <1>2, <1>3, <1>4, <1>5, <1>6 DEF SessionNext

\* A session that is not usable is never usable again, whatever statements the
\* service runs afterwards: revocation, expiry and purging are final.
THEOREM DeadStayDead == SessionSpec => DeadSessionsStayDead
<1>1. SessionTypeOK /\ [SessionNext]_storeVars
        => [\A i \in 1..lastID : ~Active(i) => ~Active(i)']_storeVars
  BY StepKeepsDead
<1> QED
  BY <1>1, SessionTypeCorrect, PTL DEF SessionSpec, DeadSessionsStayDead

\* No single operation rewrites a recorded revocation.
LEMMA StepKeepsRevocation ==
    ASSUME SessionTypeOK, [SessionNext]_storeVars,
           NEW i \in DOMAIN sess \cap DOMAIN sess', sess[i].revokedAt # Nil
    PROVE  sess'[i].revokedAt = sess[i].revokedAt
<1> USE DEF SessionTypeOK, UserSession
<1>1. ASSUME NEW u \in Users, Create(u, now + RefreshTTL)
      PROVE sess'[i].revokedAt = sess[i].revokedAt
  BY <1>1 DEF Create
<1>2. ASSUME NEW j \in 1..lastID, Revoke(j)
      PROVE sess'[i].revokedAt = sess[i].revokedAt
  BY <1>2 DEF Revoke
<1>3. ASSUME NEW u \in Users, RevokeAllForUser(u)
      PROVE sess'[i].revokedAt = sess[i].revokedAt
  BY <1>3 DEF RevokeAllForUser
<1>4. CASE CleanupExpired
  BY <1>4 DEF CleanupExpired
<1>5. CASE Tick
  BY <1>5 DEF Tick
<1>6. CASE UNCHANGED storeVars
  BY <1>6 DEF storeVars
<1> QED
  BY <1>1, <1>2, <1>3, <1>4, <1>5, <1>6 DEF SessionNext

\* The first revocation of a session is the one that stays on record.
THEOREM FirstRevocation == SessionSpec => FirstRevocationStands
<1>1. SessionTypeOK /\ [SessionNext]_storeVars
        => [\A i \in DOMAIN sess \cap DOMAIN sess' :
              sess[i].revokedAt # Nil => sess'[i].revokedAt = sess[i].revokedAt]_storeVars
  BY StepKeepsRevocation
<1> QED
  BY <1>1, SessionTypeCorrect, PTL DEF SessionSpec, FirstRevocationStands

\* One operation ends a session only by revoking it or by its expiry.
LEMMA StepEndsSession ==
    ASSUME SessionTypeOK, [SessionNext]_storeVars,
           NEW i \in DOMAIN sess, Active(i), ~Active(i)'
    PROVE  /\ i \in DOMAIN sess'
           /\ sess'[i].revokedAt = now \/ now' >= sess[i].expiresAt
<1> USE DEF SessionTypeOK, UserSession, Active
<1>1. ASSUME NEW u \in Users, Create(u, now + RefreshTTL) PROVE FALSE
  BY <1>1 DEF Create
<1>2. ASSUME NEW j \in 1..lastID, Revoke(j)
      PROVE i \in DOMAIN sess' /\ sess'[i].revokedAt = now
  BY <1>2 DEF Revoke
<1>3. ASSUME NEW u \in Users, RevokeAllForUser(u)
      PROVE i \in DOMAIN sess' /\ sess'[i].revokedAt = now
  BY <1>3 DEF RevokeAllForUser
<1>4. ASSUME CleanupExpired PROVE FALSE
  BY <1>4 DEF CleanupExpired, Purgeable
<1>5. ASSUME Tick PROVE i \in DOMAIN sess' /\ now' >= sess[i].expiresAt
  BY <1>5 DEF Tick
<1>6. ASSUME UNCHANGED storeVars PROVE FALSE
  BY <1>6 DEF storeVars
<1> QED
  BY <1>1, <1>2, <1>3, <1>4, <1>5, <1>6 DEF SessionNext

\* A usable session ends only by a recorded revocation or at its expiry; in
\* particular the purge job never removes the row of a usable session, for any
\* retention that is not negative.
THEOREM SessionEnds == SessionSpec => EndsOnlyByRevocationOrExpiry
<1>1. SessionTypeOK /\ [SessionNext]_storeVars
        => [\A i \in DOMAIN sess :
              Active(i) /\ ~Active(i)' =>
                /\ i \in DOMAIN sess'
                /\ sess'[i].revokedAt = now \/ now' >= sess[i].expiresAt]_storeVars
  BY StepEndsSession
<1> QED
  BY <1>1, SessionTypeCorrect, PTL DEF SessionSpec, EndsOnlyByRevocationOrExpiry

\* The session service keeps the three promises for every lifetime and
\* retention and any number of users.
THEOREM StoreKeepsGuarantees == SessionSpec => SessionGuarantees
BY DeadStayDead, FirstRevocation, SessionEnds, PTL DEF SessionGuarantees

-----------------------------------------------------------------------------

\* The operations that can be at each statement.
StepMatchesOp(q) ==
    /\ q.pc = "read" => q.op \in {"impersonate", "update", "deactivate", "delete",
                                  "forceLogout", "roles"}
    /\ q.pc = "save" => q.op \in {"update", "deactivate"}
    /\ q.pc = "delete" => q.op = "delete"
    /\ q.pc = "replaceRoles" => q.op = "roles"
    /\ q.pc \in {"refreshRead", "refreshIssue"} => q.op = "refresh"

\* A refresh works on a session of its own user.
RefreshOwnsSession(q) ==
    q.op = "refresh" =>
        /\ q.sid \in 1..lastID
        /\ q.sid \in DOMAIN sess => sess[q.sid].userID = q.userID

RefreshRoleOK(q) ==
    q.pc = "refreshIssue" /\ q.snap.admin /\ ~user[q.userID].admin /\ Active(q.sid) =>
        SweepDue(q.userID) \/ q.sid \in escaped

RequestOK(q) == StepMatchesOp(q) /\ RefreshOwnsSession(q) /\ RefreshRoleOK(q)

AuthInv ==
    /\ TypeOK
    /\ TokensNameOwnSession
    /\ \A r \in Requests : RequestOK(req[r])
    /\ GoneMeansSignedOut
    /\ RolesTrackTokens

USE StoreAssumption, AuthAssumption

\* The idle slot is a well-formed request that holds nothing.
LEMMA IdleFacts ==
    /\ Idle \in Request
    /\ Idle.pc = "idle"
    /\ Idle.op = "none"
    /\ Idle.sid = 0
BY DEF Idle, Request, Steps, Ops, User, FreshUser

\* An idle slot satisfies the per-request invariant.
LEMMA IdleOK == RequestOK(Idle)
BY IdleFacts DEF RequestOK, StepMatchesOp, RefreshOwnsSession, RefreshRoleOK

\* The invariant holds before the first request.
LEMMA AuthInitOK == Init => AuthInv
<1> SUFFICES ASSUME Init PROVE AuthInv
  OBVIOUS
<1>1. TypeOK
  BY IdleFacts DEF Init, SessionInit, TypeOK, SessionTypeOK, FreshUser, User
<1>2. TokensNameOwnSession /\ RolesTrackTokens
  BY DEF Init, TokensNameOwnSession, RolesTrackTokens
<1>3. GoneMeansSignedOut
  BY DEF Init, GoneMeansSignedOut, Gone, FreshUser
<1>4. \A r \in Requests : RequestOK(req[r])
  BY IdleOK DEF Init
<1> QED
  BY <1>1, <1>2, <1>3, <1>4 DEF AuthInv

\* What RequestOK needs of a step to keep holding for a request it leaves alone:
\* no session becomes usable or changes owner, whoever loses the administration
\* roles is about to be signed out, and a revocation that is no longer pending
\* has left no usable session that has not escaped.
LEMMA RequestStaysOK ==
    ASSUME NEW q \in Request, RequestOK(q), lastID \in Nat, lastID' \in Nat, lastID <= lastID',
           \A i \in 1..lastID : i \in DOMAIN sess' =>
               i \in DOMAIN sess /\ sess'[i].userID = sess[i].userID,
           \A i \in 1..lastID : Active(i)' => Active(i),
           \A u \in Users : user[u].admin => user'[u].admin \/ SweepDue(u)',
           \A u \in Users : SweepDue(u) => SweepDue(u)' \/ ActiveOf(u)' \subseteq escaped',
           escaped \subseteq escaped'
    PROVE  RequestOK(q)'
<1>1. StepMatchesOp(q)'
  BY DEF RequestOK, StepMatchesOp
<1>2. RefreshOwnsSession(q)'
  BY DEF RequestOK, RefreshOwnsSession
<1>3. RefreshRoleOK(q)'
  <2>1. SUFFICES ASSUME q.pc = "refreshIssue", q.snap.admin, ~user'[q.userID].admin,
                        Active(q.sid)'
                 PROVE  SweepDue(q.userID)' \/ q.sid \in escaped'
    BY DEF RefreshRoleOK, Active
  <2>2. q.sid \in 1..lastID /\ q.userID \in Users
    BY <2>1 DEF RequestOK, StepMatchesOp, RefreshOwnsSession, Request
  <2>3. Active(q.sid) /\ q.sid \in DOMAIN sess' /\ sess'[q.sid].userID = q.userID
    BY <2>1, <2>2 DEF RequestOK, StepMatchesOp, RefreshOwnsSession, Active
  <2>4. q.sid \in ActiveOf(q.userID)'
    BY <2>1, <2>3 DEF ActiveOf
  <2> QED
    BY <2>1, <2>2, <2>3, <2>4 DEF RequestOK, RefreshRoleOK
<1> QED
  BY <1>1, <1>2, <1>3 DEF RequestOK

\* issueTokens inserts a session and signs for the row the request read.
LEMMA IssueTokensStep ==
    ASSUME AuthInv, NEW r \in Requests, IssueTokens(r) PROVE AuthInv'
<1> DEFINE u == req[r].userID
<1> USE DEF AuthInv
<1>0. /\ req[r] \in Request /\ u \in Users /\ req[r].snap \in User /\ user[u] \in User
      /\ now \in Nat /\ lastID \in Nat /\ DOMAIN sess \subseteq 1..lastID
  BY DEF TypeOK, SessionTypeOK, Request
<1>1. TypeOK'
  <2>1. SessionTypeOK'
    BY <1>0 DEF IssueTokens, Create, TypeOK, SessionTypeOK, UserSession
  <2>2. grants' \subseteq Grant
    BY <1>0 DEF IssueTokens, Sign, TypeOK, Grant, User
  <2>3. req' \in [Requests -> Request] /\ user' \in [Users -> User]
    BY IdleFacts DEF IssueTokens, Finish, TypeOK
  <2>4. escaped' \subseteq 1..lastID'
    BY <1>0 DEF IssueTokens, Create, TypeOK
  <2> QED BY <2>1, <2>2, <2>3, <2>4 DEF TypeOK
<1>2. /\ lastID' = lastID + 1 /\ now' = now
      /\ DOMAIN sess' = DOMAIN sess \cup {lastID + 1}
      /\ sess'[lastID + 1].userID = u
      /\ \A i \in 1..lastID : i \in DOMAIN sess => sess'[i] = sess[i]
  BY <1>0 DEF IssueTokens, Create
<1>3. \A i \in 1..lastID : Active(i)' <=> Active(i)
  BY <1>0, <1>2 DEF Active
<1>4. \A v \in Users : SweepDue(v) => SweepDue(v)'
  BY DEF IssueTokens, Finish, SweepDue, StepOf, TypeOK
<1>5. TokensNameOwnSession'
  BY <1>0, <1>2 DEF IssueTokens, Sign, TokensNameOwnSession
<1>6. \A p \in Requests : RequestOK(req[p])'
  <2>1. ASSUME NEW q \in Request, RequestOK(q) PROVE RequestOK(q)'
    BY <2>1, <1>0, <1>2, <1>3, <1>4, RequestStaysOK DEF IssueTokens
  <2>2. \A p \in Requests : req'[p] \in Request /\ RequestOK(req'[p])
    BY IdleFacts, IdleOK DEF IssueTokens, Finish, TypeOK
  <2> QED BY <2>1, <2>2
<1>7. GoneMeansSignedOut'
  <2>1. SUFFICES ASSUME NEW v \in Users, Gone(v)', ~SweepDue(v)', NEW i \in ActiveOf(v)'
                 PROVE i \in escaped'
    BY DEF GoneMeansSignedOut
  <2>2. Gone(v) /\ ~SweepDue(v)
    BY <2>1, <1>4 DEF Gone, IssueTokens
  <2>3. CASE i \in 1..lastID
    BY <2>1, <2>2, <2>3, <1>0, <1>2, <1>3 DEF GoneMeansSignedOut, ActiveOf, IssueTokens
  <2>4. CASE i = lastID + 1
    BY <2>1, <2>2, <2>4, <1>2 DEF ActiveOf, IssueTokens, IssueOnStaleRow
  <2> QED BY <2>1, <2>3, <2>4, <1>0, <1>2 DEF ActiveOf
<1>8. RolesTrackTokens'
  <2>1. SUFFICES ASSUME NEW g \in grants', g.admin, ~user'[g.userID].admin, Active(g.sid)'
                 PROVE SweepDue(g.userID)' \/ g.sid \in escaped'
    BY DEF RolesTrackTokens, Active
  <2>2. CASE g \in grants
    BY <2>1, <2>2, <1>3, <1>4 DEF RolesTrackTokens, TokensNameOwnSession, IssueTokens,
       TypeOK, Grant
  <2>3. CASE g \notin grants
    BY <2>1, <2>3 DEF IssueTokens, Sign, IssueOnStaleRow
  <2> QED BY <2>2, <2>3
<1> QED
  BY <1>1, <1>5, <1>6, <1>7, <1>8

\* The end of Refresh signs for the session it looked up.
LEMMA RefreshIssueStep ==
    ASSUME AuthInv, NEW r \in Requests, RefreshIssue(r) PROVE AuthInv'
<1> USE DEF AuthInv
<1>0. /\ req[r] \in Request /\ req[r].userID \in Users /\ req[r].snap \in User
      /\ user[req[r].userID] \in User /\ now \in Nat /\ lastID \in Nat
      /\ RequestOK(req[r]) /\ req[r].pc = "refreshIssue" /\ req[r].op = "refresh"
  BY DEF TypeOK, SessionTypeOK, Request, RefreshIssue, StepOf, RequestOK, StepMatchesOp
<1>1. TypeOK'
  BY <1>0, IdleFacts
  DEF TypeOK, SessionTypeOK, RefreshIssue, Sign, Finish, Grant, User, Request
<1>2. \A v \in Users : SweepDue(v) => SweepDue(v)'
  BY DEF RefreshIssue, Finish, SweepDue, StepOf, TypeOK
<1>3. \A i : Active(i)' <=> Active(i)
  BY DEF RefreshIssue, Active
<1>4. TokensNameOwnSession'
  BY <1>0 DEF RefreshIssue, Sign, TokensNameOwnSession, RequestOK, RefreshOwnsSession
<1>5. \A p \in Requests : RequestOK(req[p])'
  <2>1. ASSUME NEW q \in Request, RequestOK(q) PROVE RequestOK(q)'
    BY <2>1, <1>0, <1>2, <1>3, RequestStaysOK DEF RefreshIssue
  <2>2. \A p \in Requests : req'[p] \in Request /\ RequestOK(req'[p])
    BY IdleFacts, IdleOK DEF RefreshIssue, Finish, TypeOK
  <2> QED BY <2>1, <2>2
<1>6. GoneMeansSignedOut'
  BY <1>2 DEF RefreshIssue, GoneMeansSignedOut, Gone, ActiveOf, Active
<1>7. RolesTrackTokens'
  BY <1>0, <1>2, <1>3
  DEF RefreshIssue, Sign, RolesTrackTokens, RequestOK, RefreshRoleOK, TypeOK, Grant
<1> QED
  BY <1>1, <1>4, <1>5, <1>6, <1>7

\* The other steps sign nothing and insert no row.
LEMMA FrameStep ==
    ASSUME AuthInv, TypeOK', lastID' = lastID, grants' \subseteq grants,
           \A i \in 1..lastID : i \in DOMAIN sess' =>
               i \in DOMAIN sess /\ sess'[i].userID = sess[i].userID,
           \A i \in 1..lastID : Active(i)' => Active(i),
           \A u \in Users : user[u].admin => user'[u].admin \/ SweepDue(u)',
           \A u \in Users : SweepDue(u) => SweepDue(u)' \/ ActiveOf(u)' \subseteq escaped',
           \A u \in Users : Gone(u)' =>
               Gone(u) \/ SweepDue(u)' \/ ActiveOf(u)' \subseteq escaped',
           escaped \subseteq escaped',
           \A p \in Requests : req'[p] = req[p] \/ RequestOK(req'[p])
    PROVE  AuthInv'
<1> USE DEF AuthInv
<1>0. lastID \in Nat /\ DOMAIN sess \subseteq 1..lastID /\ DOMAIN sess' \subseteq 1..lastID
  BY DEF TypeOK, SessionTypeOK
<1>1. TokensNameOwnSession'
  BY <1>0 DEF TokensNameOwnSession
<1>2. \A p \in Requests : RequestOK(req[p])'
  <2>1. ASSUME NEW q \in Request, RequestOK(q) PROVE RequestOK(q)'
    BY <2>1, <1>0, RequestStaysOK
  <2>2. \A p \in Requests : req'[p] \in Request /\ RequestOK(req'[p])
    BY DEF TypeOK
  <2> QED BY <2>1, <2>2
<1>3. \A u \in Users : ActiveOf(u)' \subseteq ActiveOf(u)
  BY <1>0 DEF ActiveOf
<1>4. GoneMeansSignedOut'
  BY <1>3 DEF GoneMeansSignedOut
<1>5. RolesTrackTokens'
  <2>1. SUFFICES ASSUME NEW g \in grants', g.admin, ~user'[g.userID].admin, Active(g.sid)'
                 PROVE SweepDue(g.userID)' \/ g.sid \in escaped'
    BY DEF RolesTrackTokens, Active
  <2>2. /\ g \in grants /\ g.userID \in Users /\ g.sid \in 1..lastID /\ Active(g.sid)
        /\ g.sid \in ActiveOf(g.userID)'
    BY <2>1 DEF TypeOK, Grant, TokensNameOwnSession, ActiveOf, Active
  <2> QED
    BY <2>1, <2>2 DEF RolesTrackTokens
<1> QED
  BY <1>1, <1>2, <1>4, <1>5

\* A step that only replaces the local variables of a request that has no
\* revocation to do.
LEMMA QuietStep ==
    ASSUME AuthInv, NEW r \in Requests, NEW q \in Request,
           ~StepOf(r, "sweep"), RequestOK(q),
           req' = [req EXCEPT ![r] = q],
           UNCHANGED <<sess, lastID, now, user, grants, escaped>>
    PROVE  AuthInv'
<1>1. TypeOK'
  BY DEF AuthInv, TypeOK, SessionTypeOK
<1>2. \A u \in Users : SweepDue(u) => SweepDue(u)'
  BY DEF AuthInv, TypeOK, SweepDue, StepOf
<1>3. /\ \A i : Active(i)' <=> Active(i)
      /\ \A u : Gone(u)' <=> Gone(u)
  BY DEF Active, Gone
<1>4. \A p \in Requests : req'[p] = req[p] \/ RequestOK(req'[p])
  BY DEF AuthInv, TypeOK
<1> QED
  BY <1>1, <1>2, <1>3, <1>4, FrameStep

\* The middleware accepts or turns away a request.
LEMMA JWTAuthStep ==
    ASSUME AuthInv, NEW r \in Requests, NEW g \in grants, NEW pc \in {"read", "revoke", "sweep", "ownerCheck"},
           NEW op \in Ops, NEW u \in Users, NEW sid \in Nat, NEW val \in BOOLEAN,
           pc = "read" => op \in {"impersonate", "update", "deactivate", "delete",
                                  "forceLogout", "roles"},
           op # "refresh",
           JWTAuth(r, g, pc, op, u, sid, val)
    PROVE  AuthInv'
<1> DEFINE q == [Idle EXCEPT !.pc = pc, !.op = op, !.userID = u, !.sid = sid, !.val = val]
<1>1. q \in Request /\ q.pc = pc /\ q.op = op
  BY IdleFacts DEF Request, Steps
<1>2. RequestOK(q)
  BY <1>1 DEF RequestOK, StepMatchesOp, RefreshOwnsSession, RefreshRoleOK
<1>3. ~StepOf(r, "sweep") /\ req' = [req EXCEPT ![r] = q]
      /\ UNCHANGED <<sess, lastID, now, user, grants, escaped>>
  BY DEF JWTAuth, StepOf
<1> HIDE DEF q
<1> QED
  BY <1>1, <1>2, <1>3, QuietStep

\* A request enters: Login, Refresh, or an authenticated endpoint.
LEMMA ArriveStep ==
    ASSUME AuthInv, NEW r \in Requests, Arrive(r) PROVE AuthInv'
<1>0. /\ \A g \in grants : g.userID \in Users /\ g.sid \in Nat /\ g.sid \in 1..lastID
      /\ lastID \in Nat
  BY DEF AuthInv, TypeOK, Grant, SessionTypeOK, TokensNameOwnSession
<1>1. ASSUME NEW u \in Users, Login(r, u) PROVE AuthInv'
  <2> DEFINE q == [Idle EXCEPT !.pc = "issue", !.op = "login", !.userID = u, !.snap = user[u]]
  <2>1. q \in Request /\ q.pc = "issue" /\ q.op = "login"
    BY IdleFacts DEF Request, Steps, Ops, AuthInv, TypeOK
  <2>2. RequestOK(q)
    BY <2>1 DEF RequestOK, StepMatchesOp, RefreshOwnsSession, RefreshRoleOK
  <2>3. ~StepOf(r, "sweep") /\ req' = [req EXCEPT ![r] = q]
        /\ UNCHANGED <<sess, lastID, now, user, grants, escaped>>
    BY <1>1 DEF Login, StepOf
  <2> HIDE DEF q
  <2> QED BY <2>1, <2>2, <2>3, QuietStep
<1>2. ASSUME NEW g \in grants, Refresh(r, g) PROVE AuthInv'
  <2> DEFINE q == [Idle EXCEPT !.pc = "refreshRead", !.op = "refresh",
                               !.userID = g.userID, !.sid = g.sid]
  <2>1. q \in Request /\ q.pc = "refreshRead" /\ q.sid = g.sid /\ q.userID = g.userID
        /\ q.op = "refresh"
    BY IdleFacts, <1>0 DEF Request, Steps, Ops
  <2>2. RequestOK(q)
    BY <2>1, <1>0 DEF RequestOK, StepMatchesOp, RefreshOwnsSession, RefreshRoleOK,
       AuthInv, TokensNameOwnSession
  <2>3. ~StepOf(r, "sweep") /\ req' = [req EXCEPT ![r] = q]
        /\ UNCHANGED <<sess, lastID, now, user, grants, escaped>>
    BY <1>2 DEF Refresh, StepOf
  <2> HIDE DEF q
  <2> QED BY <2>1, <2>2, <2>3, QuietStep
<1>3. ASSUME NEW g \in grants, Logout(r, g) \/ LogoutAll(r, g) PROVE AuthInv'
  BY <1>0, <1>3, JWTAuthStep DEF Logout, LogoutAll, Ops
<1>4. ASSUME NEW g \in grants, NEW i \in 1..lastID,
             RevokeMySession(r, g, i) \/ RevokeSessionAsAdmin(r, g, i)
      PROVE  AuthInv'
  <2>1. i \in Nat
    BY <1>0
  <2> QED
    BY <1>0, <1>4, <2>1, JWTAuthStep DEF RevokeMySession, RevokeSessionAsAdmin, Ops
<1>5. ASSUME NEW g \in grants, NEW u \in Users, NEW val \in BOOLEAN,
             \/ Impersonate(r, g, u) \/ Activate(r, g, u) \/ Deactivate(r, g, u)
             \/ Delete(r, g, u) \/ ForceLogout(r, g, u)
             \/ Update(r, g, u, val) \/ AssignRoles(r, g, u, val)
      PROVE  AuthInv'
  <2>1. PICK op \in {"impersonate", "update", "deactivate", "delete", "forceLogout", "roles"},
             b \in BOOLEAN : JWTAuth(r, g, "read", op, u, 0, b)
    BY <1>5 DEF Impersonate, Activate, Deactivate, Delete, ForceLogout, Update,
       AssignRoles, AdminRequest
  <2> QED
    BY <2>1, JWTAuthStep DEF Ops
<1> QED
  BY <1>1, <1>2, <1>3, <1>4, <1>5 DEF Arrive

\* The read of the target row by the account endpoints.
LEMMA ReadStep ==
    ASSUME AuthInv, NEW r \in Requests, RefreshReadUser(r) \/ GetByID(r) \/ OwnerCheck(r)
    PROVE  AuthInv'
<1>0. /\ req[r] \in Request /\ RequestOK(req[r]) /\ user[req[r].userID] \in User
      /\ req \in [Requests -> Request]
  BY DEF AuthInv, TypeOK, Request
<1>1. CASE Finish(r)
  BY <1>1, IdleFacts, IdleOK, QuietStep
  DEF RefreshReadUser, GetByID, OwnerCheck, Finish, StepOf
<1>2. CASE RefreshReadUser(r) /\ ~Finish(r)
  <2> DEFINE q == [req[r] EXCEPT !.pc = "refreshIssue", !.snap = user[req[r].userID]]
  <2>1. q \in Request /\ q.pc = "refreshIssue" /\ q.op = "refresh" /\ q.sid = req[r].sid
        /\ q.userID = req[r].userID /\ q.snap = user[q.userID]
    BY <1>0, <1>2 DEF Request, Steps, RefreshReadUser, StepOf, RequestOK, StepMatchesOp
  <2>2. RequestOK(q)
    <3>1. req[r].op = "refresh"
      BY <1>0, <1>2 DEF RefreshReadUser, StepOf, RequestOK, StepMatchesOp
    <3> QED
      BY <2>1, <3>1, <1>0 DEF RequestOK, StepMatchesOp, RefreshOwnsSession, RefreshRoleOK
  <2>3. ~StepOf(r, "sweep") /\ req' = [req EXCEPT ![r] = q]
        /\ UNCHANGED <<sess, lastID, now, user, grants, escaped>>
    BY <1>0, <1>2 DEF RefreshReadUser, StepOf
  <2> HIDE DEF q
  <2> QED BY <2>1, <2>2, <2>3, QuietStep
<1>3. CASE GetByID(r) /\ ~Finish(r)
  <2> DEFINE q == [req[r] EXCEPT !.pc = AfterRead(req[r].op), !.snap = user[req[r].userID]]
  <2>1. req[r].op \in {"impersonate", "update", "deactivate", "delete", "forceLogout", "roles"}
    BY <1>0, <1>3 DEF GetByID, StepOf, RequestOK, StepMatchesOp
  <2>2. /\ q \in Request /\ q.op = req[r].op
        /\ q.pc = AfterRead(q.op)
    BY <1>0, <2>1 DEF Request, Steps, AfterRead
  <2>3. RequestOK(q)
    BY <2>1, <2>2 DEF RequestOK, StepMatchesOp, RefreshOwnsSession, RefreshRoleOK, AfterRead
  <2>4. ~StepOf(r, "sweep") /\ req' = [req EXCEPT ![r] = q]
        /\ UNCHANGED <<sess, lastID, now, user, grants, escaped>>
    BY <1>0, <1>3 DEF GetByID, StepOf
  <2> HIDE DEF q
  <2> QED BY <2>2, <2>3, <2>4, QuietStep
<1>4. CASE OwnerCheck(r) /\ ~Finish(r)
  <2> DEFINE q == [Idle EXCEPT !.pc = "revoke", !.op = req[r].op,
                               !.userID = req[r].userID, !.sid = req[r].sid]
  <2>1. /\ q \in Request /\ q.pc = "revoke" /\ q.op = req[r].op /\ q.sid = req[r].sid
        /\ q.userID = req[r].userID
    BY <1>0, IdleFacts DEF Request, Steps
  <2>2. RequestOK(q)
    BY <2>1, <1>0 DEF RequestOK, StepMatchesOp, RefreshOwnsSession, RefreshRoleOK
  <2>3. ~StepOf(r, "sweep") /\ req' = [req EXCEPT ![r] = q]
        /\ UNCHANGED <<sess, lastID, now, user, grants, escaped>>
    BY <1>4 DEF OwnerCheck, StepOf, Goto
  <2> HIDE DEF q
  <2> QED BY <2>1, <2>2, <2>3, QuietStep
<1> QED
  BY <1>1, <1>2, <1>3, <1>4

\* Goto reaches the given statement with the operation of the request.
LEMMA GotoFacts ==
    ASSUME AuthInv, NEW r \in Requests, NEW pc \in Steps, Goto(r, pc)
    PROVE  /\ req' \in [Requests -> Request]
           /\ req'[r].pc = pc /\ req'[r].op = req[r].op /\ req'[r].userID = req[r].userID
           /\ req'[r].sid = req[r].sid
           /\ \A p \in Requests : p # r => req'[p] = req[p]
<1>1. req \in [Requests -> Request]
  BY DEF AuthInv, TypeOK
<1> QED
  BY <1>1, IdleFacts DEF Goto, Request

\* Finish empties the slot and leaves the other slots alone.
LEMMA FinishFacts ==
    ASSUME AuthInv, NEW r \in Requests, Finish(r)
    PROVE  /\ req' \in [Requests -> Request]
           /\ req'[r] = Idle
           /\ \A p \in Requests : p # r => req'[p] = req[p]
BY IdleFacts DEF AuthInv, TypeOK, Finish

\* The full-row save of Update, Activate and Deactivate.
LEMMA SaveUserStep ==
    ASSUME AuthInv, NEW r \in Requests, SaveUser(r) PROVE AuthInv'
<1> DEFINE u == req[r].userID
           saved == Save(user[u], req[r].snap, req[r].val)
<1>0. /\ req[r] \in Request /\ u \in Users /\ user[u] \in User /\ req[r].snap \in User
      /\ req[r].val \in BOOLEAN /\ RequestOK(req[r]) /\ req[r].pc = "save"
      /\ req[r].op \in {"update", "deactivate"} /\ saved \in User
  BY DEF AuthInv, TypeOK, Request, SaveUser, StepOf, RequestOK, StepMatchesOp, Save, User
<1>1. /\ req' \in [Requests -> Request]
      /\ \A p \in Requests : p # r => req'[p] = req[p]
      /\ req'[r] = Idle \/ (req'[r].pc = "sweep" /\ req'[r].op = req[r].op /\ req'[r].userID = u)
  BY GotoFacts, FinishFacts DEF SaveUser, Steps
<1>2. TypeOK'
  BY <1>0, <1>1 DEF AuthInv, TypeOK, SessionTypeOK, SaveUser, ActiveOf
<1>3. \A v \in Users : SweepDue(v) => SweepDue(v)'
  BY <1>0, <1>1 DEF SweepDue, StepOf, SweepingOps
<1>4. \A i : Active(i)' <=> Active(i)
  BY DEF SaveUser, Active
<1>5. \A v \in Users : ActiveOf(v)' = ActiveOf(v)
  BY <1>4 DEF ActiveOf, SaveUser
<1>6. \A v \in Users : user[v].admin => user'[v].admin
  BY <1>0 DEF AuthInv, TypeOK, User, SaveUser, Save
<1>7. \A p \in Requests : req'[p] = req[p] \/ RequestOK(req'[p])
  BY <1>0, <1>1, IdleOK DEF RequestOK, StepMatchesOp, RefreshOwnsSession, RefreshRoleOK
<1>8. ASSUME NEW v \in Users, Gone(v)', ~Gone(v)
      PROVE  SweepDue(v)' \/ ActiveOf(v)' \subseteq escaped'
  <2>1. v = u
    BY <1>8 DEF Gone, SaveUser
  <2>2. ~saved.enabled
    BY <1>0, <1>8, <2>1 DEF Gone, SaveUser, Save, AuthInv, TypeOK
  <2>3. CASE req'[r].pc = "sweep"
    BY <1>0, <1>1, <2>1, <2>3, IdleFacts DEF SweepDue, StepOf, SweepingOps
  <2>4. CASE req'[r].pc # "sweep"
    <3>1. ~(req[r].op = "deactivate" \/ (req[r].snap.enabled /\ ~saved.enabled))
      BY <2>4, GotoFacts DEF SaveUser, Steps
    <3>2. escaped' = escaped \cup ActiveOf(u)
      BY <1>8, <2>1, <2>2, <3>1 DEF SaveUser
    <3> QED BY <3>2, <2>1, <1>5, <1>0
  <2> QED BY <2>3, <2>4
<1>9. /\ lastID' = lastID /\ grants' \subseteq grants /\ sess' = sess
      /\ escaped \subseteq escaped'
  BY DEF SaveUser
<1> QED
  BY <1>2, <1>3, <1>4, <1>6, <1>7, <1>8, <1>9, FrameStep

\* Delete and ReplaceRoles change the row and go on to revoke.
LEMMA RowChangeStep ==
    ASSUME AuthInv, NEW r \in Requests, DeleteUser(r) \/ ReplaceRoles(r) PROVE AuthInv'
<1> DEFINE u == req[r].userID
<1>0. /\ req[r] \in Request /\ u \in Users /\ user[u] \in User /\ req[r].val \in BOOLEAN
      /\ RequestOK(req[r]) /\ req[r].pc # "sweep" /\ req[r].op \in {"delete", "roles"}
  BY DEF AuthInv, TypeOK, Request, DeleteUser, ReplaceRoles, StepOf, RequestOK, StepMatchesOp
<1>1. /\ req' \in [Requests -> Request]
      /\ \A p \in Requests : p # r => req'[p] = req[p]
      /\ req'[r].pc = "sweep" /\ req'[r].op = req[r].op /\ req'[r].userID = u
  BY GotoFacts DEF DeleteUser, ReplaceRoles, Steps
<1>2. TypeOK'
  <2>1. user' \in [Users -> User]
    <3>1. user \in [Users -> User]
      BY DEF AuthInv, TypeOK
    <3>2. CASE DeleteUser(r)
      BY <1>0, <3>1, <3>2 DEF DeleteUser, User
    <3>3. CASE ReplaceRoles(r)
      BY <1>0, <3>1, <3>3 DEF ReplaceRoles, User
    <3> QED BY <3>2, <3>3
  <2> QED
    BY <1>1, <2>1 DEF AuthInv, TypeOK, SessionTypeOK, DeleteUser, ReplaceRoles
<1>3. \A v \in Users : v = u \/ SweepDue(v) => SweepDue(v)'
  BY <1>0, <1>1 DEF SweepDue, StepOf, SweepingOps
<1>4. \A i : Active(i)' <=> Active(i)
  BY DEF DeleteUser, ReplaceRoles, Active
<1>5. \A v \in Users : v # u => user'[v] = user[v]
  BY DEF AuthInv, TypeOK, DeleteUser, ReplaceRoles
<1>6. /\ \A v \in Users : user[v].admin => user'[v].admin \/ SweepDue(v)'
      /\ \A v \in Users : Gone(v)' => Gone(v) \/ SweepDue(v)'
  BY <1>3, <1>5 DEF Gone
<1>7. \A p \in Requests : req'[p] = req[p] \/ RequestOK(req'[p])
  BY <1>0, <1>1 DEF RequestOK, StepMatchesOp, RefreshOwnsSession, RefreshRoleOK
<1>8. /\ lastID' = lastID /\ grants' \subseteq grants /\ sess' = sess
      /\ escaped \subseteq escaped'
  BY DEF DeleteUser, ReplaceRoles
<1> QED
  BY <1>2, <1>3, <1>4, <1>6, <1>7, <1>8, FrameStep

\* RevokeAllForUser on behalf of a request.
LEMMA SweepStep ==
    ASSUME AuthInv, NEW r \in Requests, SweepSessions(r) PROVE AuthInv'
<1> DEFINE u == req[r].userID
<1>0. /\ req[r] \in Request /\ u \in Users /\ RequestOK(req[r]) /\ req[r].pc = "sweep"
      /\ SessionTypeOK
  BY DEF AuthInv, TypeOK, Request, SweepSessions, StepOf
<1>1. /\ req' \in [Requests -> Request]
      /\ \A p \in Requests : p # r => req'[p] = req[p]
      /\ \/ req'[r] = Idle
         \/ /\ req'[r].pc = "bump" /\ req'[r].op = req[r].op
            /\ req'[r].userID = u /\ req'[r].sid = req[r].sid
  BY GotoFacts, FinishFacts DEF SweepSessions, Steps
<1>2. /\ lastID' = lastID /\ now' = now /\ DOMAIN sess' = DOMAIN sess /\ user' = user
      /\ grants' = grants /\ escaped' = escaped
      /\ \A i \in DOMAIN sess : sess'[i].userID = sess[i].userID
      /\ \A i \in DOMAIN sess : sess[i].revokedAt # Nil => sess'[i] = sess[i]
      /\ \A i \in DOMAIN sess : sess'[i].expiresAt = sess[i].expiresAt
      /\ \A i \in DOMAIN sess : sess[i].userID = u => sess'[i].revokedAt # Nil
  BY <1>0 DEF SweepSessions, RevokeAllForUser, SessionTypeOK, UserSession, Nil
<1>3. SessionTypeOK'
  BY <1>0 DEF SweepSessions, RevokeAllForUser, SessionTypeOK, UserSession, Nil
<1>4. TypeOK'
  BY <1>1, <1>2, <1>3 DEF AuthInv, TypeOK
<1>5. \A i : Active(i)' => Active(i)
  BY <1>2 DEF Active
<1>6. \A v \in Users : v = u => ActiveOf(v)' = {}
  BY <1>2 DEF ActiveOf, Active
<1>7. \A v \in Users : SweepDue(v) => SweepDue(v)' \/ ActiveOf(v)' \subseteq escaped'
  <2>1. \A v \in Users : v # u /\ SweepDue(v) => SweepDue(v)'
    BY <1>1 DEF SweepDue, StepOf
  <2> QED BY <2>1, <1>6
<1>8. \A p \in Requests : req'[p] = req[p] \/ RequestOK(req'[p])
  <2>1. CASE req'[r] = Idle
    BY <2>1, <1>1, IdleOK
  <2>2. CASE req'[r].pc = "bump" /\ req'[r].op = req[r].op
             /\ req'[r].userID = u /\ req'[r].sid = req[r].sid
    <3>1. RequestOK(req'[r])
      BY <2>2, <1>0 DEF RequestOK, StepMatchesOp, RefreshOwnsSession, RefreshRoleOK
    <3> QED BY <3>1, <1>1
  <2> QED BY <1>1, <2>1, <2>2
<1>9. \A v \in Users : Gone(v)' <=> Gone(v)
  BY <1>2 DEF Gone
<1> QED
  BY <1>2, <1>4, <1>5, <1>7, <1>8, <1>9, FrameStep

\* IncrementTokenVersion on behalf of a request.
LEMMA BumpStep ==
    ASSUME AuthInv, NEW r \in Requests, BumpTokenVersion(r) PROVE AuthInv'
<1> DEFINE u == req[r].userID
<1>0. u \in Users /\ user[u] \in User /\ user \in [Users -> User] /\ req[r].pc = "bump"
  BY DEF AuthInv, TypeOK, Request, BumpTokenVersion, StepOf
<1>1. /\ req' \in [Requests -> Request] /\ req'[r] = Idle
      /\ \A p \in Requests : p # r => req'[p] = req[p]
  BY FinishFacts DEF BumpTokenVersion
<1>2. /\ user' \in [Users -> User]
      /\ \A v \in Users : /\ user'[v].admin = user[v].admin
                          /\ user'[v].enabled = user[v].enabled
                          /\ user'[v].deleted = user[v].deleted
  BY <1>0 DEF BumpTokenVersion, User
<1>3. TypeOK'
  BY <1>1, <1>2 DEF AuthInv, TypeOK, SessionTypeOK, BumpTokenVersion
<1>4. \A v \in Users : SweepDue(v) => SweepDue(v)'
  BY <1>0, <1>1 DEF SweepDue, StepOf
<1>5. \A i : Active(i)' <=> Active(i)
  BY DEF BumpTokenVersion, Active
<1>6. \A v \in Users : Gone(v)' <=> Gone(v)
  BY <1>2 DEF Gone
<1>7. /\ lastID' = lastID /\ grants' = grants /\ sess' = sess /\ escaped' = escaped
  BY DEF BumpTokenVersion
<1> QED
  BY <1>1, <1>2, <1>3, <1>4, <1>5, <1>6, <1>7, IdleOK, FrameStep

\* The single-session revocations.
LEMMA RevokeStep ==
    ASSUME AuthInv, NEW r \in Requests, RevokeSession(r) PROVE AuthInv'
<1>0. SessionTypeOK /\ req[r].pc = "revoke"
  BY DEF AuthInv, TypeOK, RevokeSession, StepOf
<1>1. /\ req' \in [Requests -> Request] /\ req'[r] = Idle
      /\ \A p \in Requests : p # r => req'[p] = req[p]
  BY FinishFacts DEF RevokeSession
<1>2. /\ lastID' = lastID /\ now' = now /\ DOMAIN sess' = DOMAIN sess /\ user' = user
      /\ grants' = grants /\ escaped' = escaped
      /\ \A i \in DOMAIN sess : sess'[i].userID = sess[i].userID
      /\ \A i \in DOMAIN sess : sess[i].revokedAt # Nil => sess'[i] = sess[i]
      /\ \A i \in DOMAIN sess : sess'[i].expiresAt = sess[i].expiresAt
  BY <1>0 DEF RevokeSession, Revoke, SessionTypeOK, UserSession, Nil
<1>3. SessionTypeOK'
  BY <1>0 DEF RevokeSession, Revoke, SessionTypeOK, UserSession, Nil
<1>4. TypeOK'
  BY <1>1, <1>2, <1>3 DEF AuthInv, TypeOK
<1>5. \A i : Active(i)' => Active(i)
  BY <1>2 DEF Active
<1>6. \A v \in Users : SweepDue(v) => SweepDue(v)'
  BY <1>0, <1>1 DEF SweepDue, StepOf
<1>7. \A v \in Users : Gone(v)' <=> Gone(v)
  BY <1>2 DEF Gone
<1> QED
  BY <1>1, <1>2, <1>4, <1>5, <1>6, <1>7, IdleOK, FrameStep

\* A cancelled request context loses the remaining statements.
LEMMA AbortStep ==
    ASSUME AuthInv, NEW r \in Requests, Abort(r) PROVE AuthInv'
<1> DEFINE u == req[r].userID
<1>0. SessionTypeOK /\ u \in Users
  BY DEF AuthInv, TypeOK, Request
<1>1. /\ req' \in [Requests -> Request] /\ req'[r] = Idle
      /\ \A p \in Requests : p # r => req'[p] = req[p]
  BY FinishFacts DEF Abort
<1>2. /\ lastID' = lastID /\ now' = now /\ sess' = sess /\ user' = user /\ grants' = grants
      /\ escaped \subseteq escaped' /\ escaped' \subseteq escaped \cup ActiveOf(u)
  BY DEF Abort
<1>3. TypeOK'
  BY <1>0, <1>1, <1>2 DEF AuthInv, TypeOK, SessionTypeOK, ActiveOf
<1>4. \A i : Active(i)' <=> Active(i)
  BY <1>2 DEF Active
<1>5. \A v \in Users : ActiveOf(v)' = ActiveOf(v)
  BY <1>2, <1>4 DEF ActiveOf
<1>6. ASSUME NEW v \in Users, SweepDue(v), ~SweepDue(v)' PROVE ActiveOf(v)' \subseteq escaped'
  <2>1. StepOf(r, "sweep") /\ v = u /\ req[r].op \in SweepingOps
    BY <1>6, <1>1 DEF SweepDue, StepOf
  <2> QED BY <2>1, <1>5 DEF Abort
<1>7. \A v \in Users : Gone(v)' <=> Gone(v)
  BY <1>2 DEF Gone
<1> QED
  BY <1>1, <1>2, <1>3, <1>4, <1>6, <1>7, IdleOK, FrameStep

\* The cleanup job and the clock.
LEMMA BackgroundStep ==
    ASSUME AuthInv, SessionCleanup \/ ClockTick PROVE AuthInv'
<1>0. SessionTypeOK
  BY DEF AuthInv, TypeOK
<1>1. /\ lastID' = lastID /\ user' = user /\ req' = req /\ grants' \subseteq grants
      /\ escaped' = escaped
  BY DEF SessionCleanup, ClockTick, CleanupExpired, Tick, authVars
<1>2. /\ DOMAIN sess' \subseteq DOMAIN sess /\ now' \in Nat /\ now' >= now
      /\ \A i \in DOMAIN sess' : sess'[i] = sess[i]
  BY <1>0 DEF SessionCleanup, ClockTick, CleanupExpired, Tick, SessionTypeOK
<1>3. SessionTypeOK'
  BY <1>0 DEF SessionCleanup, ClockTick, CleanupExpired, Tick, SessionTypeOK
<1>4. TypeOK'
  BY <1>1, <1>3 DEF AuthInv, TypeOK
<1>5. \A i : Active(i)' => Active(i)
  BY <1>0, <1>2 DEF Active, SessionTypeOK, UserSession
<1>6. \A v \in Users : SweepDue(v) => SweepDue(v)'
  BY <1>1 DEF SweepDue, StepOf
<1>7. \A v \in Users : Gone(v)' <=> Gone(v)
  BY <1>1 DEF Gone
<1> QED
  BY <1>1, <1>2, <1>4, <1>5, <1>6, <1>7, FrameStep

\* Every step preserves the invariant.
LEMMA AuthNextOK == AuthInv /\ [Next]_vars => AuthInv'
<1> SUFFICES ASSUME AuthInv, [Next]_vars PROVE AuthInv'
  OBVIOUS
<1>1. ASSUME NEW r \in Requests, Proceed(r) PROVE AuthInv'
  BY <1>1, IssueTokensStep, RefreshIssueStep, ReadStep, SaveUserStep, RowChangeStep, SweepStep,
     BumpStep, RevokeStep, AbortStep DEF Proceed
<1>2. CASE UNCHANGED vars
  <2>1. /\ lastID' = lastID /\ user' = user /\ req' = req /\ grants' = grants
        /\ escaped' = escaped /\ sess' = sess /\ now' = now
    BY <1>2 DEF vars
  <2>2. TypeOK'
    BY <2>1 DEF AuthInv, TypeOK, SessionTypeOK
  <2>3. \A i : Active(i)' <=> Active(i)
    BY <2>1 DEF Active
  <2>4. /\ \A u \in Users : SweepDue(u)' <=> SweepDue(u)
        /\ \A u \in Users : Gone(u)' <=> Gone(u)
    BY <2>1 DEF SweepDue, StepOf, Gone
  <2> QED BY <2>1, <2>2, <2>3, <2>4, FrameStep
<1> QED
  BY <1>1, <1>2, ArriveStep, BackgroundStep DEF Next

\* Type correctness of the whole sign-in lifecycle.
THEOREM AuthTypeCorrect == Spec => []TypeOK
<1>1. AuthInv => TypeOK
  BY DEF AuthInv
<1> QED
  BY <1>1, AuthInitOK, AuthNextOK, PTL DEF Spec

\* A deactivated or deleted account keeps a usable session only in the three
\* ways GoneMeansSignedOut lists, for any number of accounts and of requests
\* interleaved at statement level, with any of them lost at any point.
THEOREM SignedOutWhenGone == Spec => []GoneMeansSignedOut
<1>1. AuthInv => GoneMeansSignedOut
  BY DEF AuthInv
<1> QED
  BY <1>1, AuthInitOK, AuthNextOK, PTL DEF Spec

\* Authorities that have been taken away survive only in tokens of sessions
\* that were issued from the old row or whose revocation was lost.
THEOREM TokensFollowRoles == Spec => []RolesTrackTokens
<1>1. AuthInv => RolesTrackTokens
  BY DEF AuthInv
<1> QED
  BY <1>1, AuthInitOK, AuthNextOK, PTL DEF Spec

\* No token ever names a session of another user.
THEOREM TokensOwnTheirSession == Spec => []TokensNameOwnSession
<1>1. AuthInv => TokensNameOwnSession
  BY DEF AuthInv
<1> QED
  BY <1>1, AuthInitOK, AuthNextOK, PTL DEF Spec

\* What a step of the handlers does to the table is a step of the store.
LEMMA AuthStepIsStoreStep ==
    ASSUME AuthInv, [Next]_vars PROVE [SessionNext]_storeVars
<1>0. SessionTypeOK /\ req \in [Requests -> Request]
  BY DEF AuthInv, TypeOK
<1>1. ASSUME NEW r \in Requests, Arrive(r) PROVE UNCHANGED storeVars
  BY <1>1, ZenonT(60) DEF Arrive, Login, Refresh, Logout, LogoutAll, RevokeMySession,
     RevokeSessionAsAdmin, Impersonate, Activate, Deactivate, Delete, ForceLogout, Update,
     AssignRoles, AdminRequest, JWTAuth, storeVars
<1>2. ASSUME NEW r \in Requests, IssueTokens(r) PROVE SessionNext
  BY <1>0, <1>2 DEF IssueTokens, Request, SessionNext
<1>3. ASSUME NEW r \in Requests, SweepSessions(r) PROVE SessionNext
  BY <1>0, <1>3 DEF SweepSessions, Request, SessionNext
<1>4. ASSUME NEW r \in Requests, RevokeSession(r) PROVE [SessionNext]_storeVars
  <2>1. CASE req[r].sid \in 1..lastID
    BY <1>4, <2>1 DEF RevokeSession, SessionNext
  <2>2. CASE req[r].sid \notin 1..lastID
    BY <1>0, <1>4, <2>2 DEF RevokeSession, Revoke, SessionTypeOK, storeVars
  <2> QED BY <2>1, <2>2
<1>5. ASSUME NEW r \in Requests,
             \/ RefreshReadUser(r) \/ RefreshIssue(r) \/ GetByID(r) \/ SaveUser(r) \/ DeleteUser(r)
             \/ ReplaceRoles(r) \/ BumpTokenVersion(r) \/ OwnerCheck(r) \/ Abort(r)
      PROVE UNCHANGED storeVars
  BY <1>5 DEF RefreshReadUser, RefreshIssue, GetByID, SaveUser, DeleteUser, ReplaceRoles,
     BumpTokenVersion, OwnerCheck, Abort, storeVars
<1>6. CASE SessionCleanup \/ ClockTick
  BY <1>6 DEF SessionCleanup, ClockTick, SessionNext
<1>7. CASE UNCHANGED vars
  BY <1>7 DEF vars, storeVars
<1> QED
  BY <1>1, <1>2, <1>3, <1>4, <1>5, <1>6, <1>7 DEF Next, Proceed

\* The handlers of the auth and user modules use the session table only through
\* the statements of the session service: every behaviour of AuthSessions is,
\* on the table, a behaviour of SessionStore.
THEOREM AuthImplementsStore == Spec => SessionSpec
<1>1. Init => SessionInit
  BY DEF Init
<1> QED
  BY <1>1, AuthInitOK, AuthNextOK, AuthStepIsStoreStep, PTL DEF Spec, SessionSpec

\* The promises of the session service hold in the whole program: no
\* interleaving of handlers makes a dead session usable again, moves the date of
\* a revocation, or ends a session other than by revocation or expiry.
THEOREM HandlersKeepGuarantees == Spec => SessionGuarantees
BY AuthImplementsStore, StoreKeepsGuarantees, PTL
=============================================================================
