------------------------ MODULE PasswordReset_proofs ------------------------
(***************************************************************************)
(* Proofs about PasswordReset for any set of users, any number of requests *)
(* in flight and any number of tokens.  ResetSignsOut is not inductive: a  *)
(* request that saves the users row under a reset must be known to go on   *)
(* to the sign-out, and for a token that has been issued.  RequestOK says  *)
(* so, and ResetInv is the conjunction that every step keeps.              *)
(***************************************************************************)
EXTENDS PasswordReset, TLAPS

\* Only a reset is at the statements between its token check and its sign-out.
RequestOK(q) ==
    q.pc \in {"readUser", "saveUser", "consume", "bump"} =>
        q.op = "reset" /\ q.id \in 1..lastToken

ResetInv ==
    /\ TypeOK
    /\ \A r \in Requests : RequestOK(req[r])
    /\ ResetSignsOut

USE StoreAssumption, ResetAssumption DEF Nil

\* The two statements on user_sessions keep the table well typed.
LEMMA StoreTyped ==
    ASSUME SessionTypeOK, NEW u \in Users,
           RevokeAllForUser(u) \/ Create(u, now + RefreshTTL)
    PROVE  SessionTypeOK'
<1> USE DEF SessionTypeOK, UserSession
<1>1. CASE RevokeAllForUser(u)
  BY <1>1 DEF RevokeAllForUser
<1>2. CASE Create(u, now + RefreshTTL)
  BY <1>2 DEF Create
<1> QED BY <1>1, <1>2

\* The idle slot is a well-formed request that holds nothing.
LEMMA IdleFacts ==
    /\ Idle \in Request
    /\ Idle.pc = "idle"
    /\ Idle.op = "none"
BY DEF Idle, Request, Steps, Ops, User, Token

\* The invariant holds before the first request.
LEMMA ResetInitOK == Init => ResetInv
<1> SUFFICES ASSUME Init PROVE ResetInv
  OBVIOUS
<1>1. TypeOK
  <2>1. \A u \in Users : user[u] \in User
    BY DEF Init, User
  <2> QED
    BY <2>1, IdleFacts DEF Init, SessionInit, TypeOK, SessionTypeOK
<1>2. ResetSignsOut
  BY DEF Init, SessionInit, ResetSignsOut
<1>3. \A r \in Requests : RequestOK(req[r])
  BY IdleFacts DEF Init, RequestOK
<1> QED
  BY <1>1, <1>2, <1>3 DEF ResetInv

\* What TypeOK says of the data a request holds.
LEMMA RequestFacts ==
    ASSUME TypeOK, NEW r \in Requests
    PROVE  /\ req[r] \in Request /\ req[r].userID \in Users /\ req[r].id \in Nat
           /\ req[r].row \in Token /\ req[r].snap \in User /\ req[r].snap.password \in Nat
           /\ req[r].password \in Nat /\ user[req[r].userID] \in User
BY DEF TypeOK, Request, User

\* Going to another statement keeps a request well formed.
LEMMA MoveTyped ==
    ASSUME TypeOK, NEW r \in Requests, NEW pc \in Steps
    PROVE  [req EXCEPT ![r].pc = pc] \in [Requests -> Request]
<1>1. [req[r] EXCEPT !.pc = pc] \in Request
  <2>1. PICK q \in Request : q = req[r]
    BY DEF TypeOK
  <2> QED BY <2>1 DEF Request
<1> QED
  BY <1>1 DEF TypeOK

\* A save writes a well-formed row.
LEMMA SaveIsRow ==
    ASSUME NEW row \in User, NEW snap \in User PROVE Save(row, snap) \in User
BY Zenon DEF Save, User

\* A step that leaves the tables and histories alone and moves one slot.
LEMMA LocalTypeOK ==
    ASSUME TypeOK, req' \in [Requests -> Request],
           UNCHANGED <<sess, lastID, now, user, token, lastToken, lastPassword, born, uses,
                       escaped>>
    PROVE  TypeOK'
BY DEF TypeOK, SessionTypeOK

\* Every step keeps the types.
LEMMA StepTypeOK ==
    ASSUME ResetInv, [Next]_vars PROVE TypeOK'
<1> USE DEF ResetInv
<1>0. TypeOK
  OBVIOUS
<1> HIDE DEF ResetInv
<1>1. ASSUME NEW r \in Requests, NEW u \in Users, ForgotPassword(r, u) PROVE TypeOK'
  <2>1. req' \in [Requests -> Request]
    BY <1>0, <1>1, IdleFacts DEF ForgotPassword, TypeOK, Request, Steps
  <2> QED BY <1>0, <1>1, <2>1, LocalTypeOK DEF ForgotPassword
<1>2. ASSUME NEW r \in Requests, NEW u \in Users, Login(r, u) PROVE TypeOK'
  <2>1. req' \in [Requests -> Request]
    BY <1>0, <1>2, IdleFacts DEF Login, TypeOK, Request, Steps
  <2> QED BY <1>0, <1>2, <2>1, LocalTypeOK DEF Login
<1>3. ASSUME NEW r \in Requests, NEW u \in Users,
             Update(r, u) \/ Activate(r, u) \/ Deactivate(r, u) \/ Delete(r, u)
      PROVE TypeOK'
  <2>1. PICK op \in Ops, pc \in Steps : AdminRead(r, u, op, pc)
    BY <1>3 DEF Update, Activate, Deactivate, Delete, Ops, Steps
  <2>2. req' \in [Requests -> Request]
    BY <1>0, <2>1, IdleFacts DEF AdminRead, TypeOK, Request
  <2> QED BY <1>0, <2>1, <2>2, LocalTypeOK DEF AdminRead
<1>4. ASSUME NEW r \in Requests, NEW t \in 1..lastToken, ResetPassword(r, t) PROVE TypeOK'
  <2>1. t \in Nat /\ token[t] \in Token /\ token[t].userID \in Users
    BY <1>0, <1>4 DEF ResetPassword, Accepted, TypeOK, Token
  <2>2. req' \in [Requests -> Request]
    <3> DEFINE q == [Idle EXCEPT !.pc = "readUser", !.op = "reset",
                                 !.userID = token[t].userID, !.id = t, !.row = token[t],
                                 !.password = lastPassword + 1]
    <3>0. lastPassword + 1 \in Nat
      BY <1>0 DEF TypeOK
    <3>1. q \in Request
      BY <2>1, <3>0, IdleFacts DEF Request, Steps, Ops
    <3>2. req' = [req EXCEPT ![r] = q]
      BY <1>4 DEF ResetPassword
    <3> HIDE DEF q
    <3> QED BY <1>0, <3>1, <3>2 DEF TypeOK
  <2>3. /\ lastPassword' = lastPassword + 1
        /\ UNCHANGED <<sess, lastID, now, user, token, lastToken, born, uses, escaped>>
    BY <1>4 DEF ResetPassword
  <2> QED BY <1>0, <2>2, <2>3, SMTT(30) DEF TypeOK, SessionTypeOK
<1>5. ASSUME NEW r \in Requests, CreateToken(r) PROVE TypeOK'
  <2>1. req' \in [Requests -> Request]
    BY <1>0, <1>5, IdleFacts DEF CreateToken, Finish, TypeOK
  <2>2. now + ResetTTL \in Nat
    BY <1>0 DEF TypeOK, SessionTypeOK
  <2>3. PICK row \in Token :
            token' = [i \in DOMAIN token \cup {lastToken + 1} |->
                          IF i = lastToken + 1 THEN row ELSE token[i]]
    <3>1. [userID |-> req[r].userID, expiresAt |-> now + ResetTTL, consumed |-> FALSE] \in Token
      BY <1>0, <2>2, RequestFacts DEF Token
    <3> QED BY <1>5, <3>1 DEF CreateToken
  <2>4. lastToken' = lastToken + 1 /\ lastToken' \in 0..MaxTokens
    BY <1>0, <1>5, ResetAssumption DEF CreateToken, TypeOK
  <2>5. /\ lastToken' \in 0..MaxTokens /\ DOMAIN token' \subseteq 1..lastToken'
        /\ \A t \in DOMAIN token' : token'[t] \in Token
        /\ token' = [t \in DOMAIN token' |-> token'[t]]
    BY <1>0, <2>3, <2>4 DEF TypeOK
  <2> QED BY <1>0, <1>5, <2>1, <2>5 DEF CreateToken, TypeOK, SessionTypeOK
<1>6. ASSUME NEW r \in Requests, ReadUser(r) PROVE TypeOK'
  <2>1. req' \in [Requests -> Request]
    <3> DEFINE q == [req[r] EXCEPT !.pc = "saveUser", !.snap = user[req[r].userID]]
    <3>1. q \in Request
      BY <1>0, RequestFacts DEF Request, Steps
    <3>2. req' = [req EXCEPT ![r] = q] \/ req' = [req EXCEPT ![r] = Idle]
      BY <1>6 DEF ReadUser, Finish
    <3> HIDE DEF q
    <3> QED BY <1>0, <3>1, <3>2, IdleFacts DEF TypeOK
  <2> QED BY <1>0, <1>6, <2>1, LocalTypeOK DEF ReadUser
<1>7. ASSUME NEW r \in Requests, SaveUser(r) PROVE TypeOK'
  <2>1. req' \in [Requests -> Request]
    BY <1>0, <1>7, MoveTyped DEF SaveUser, Steps
  <2>2. [req[r].snap EXCEPT !.password = req[r].password] \in User
    BY <1>0, RequestFacts DEF User
  <2>3. user' \in [Users -> User]
    BY <1>0, <1>7, <2>2, RequestFacts, SaveIsRow DEF SaveUser, TypeOK
  <2>4. uses' \in [1..MaxTokens -> Nat]
    <3>1. PICK id : id = req[r].id
      OBVIOUS
    <3>2. uses' = [uses EXCEPT ![id] = uses[id] + 1] /\ id \in 1..lastToken
      BY <1>7, <3>1 DEF SaveUser, ResetInv, RequestOK, StepOf
    <3>3. uses \in [1..MaxTokens -> Nat] /\ id \in 1..MaxTokens
      BY <1>0, <3>2, ResetAssumption DEF TypeOK
    <3> QED BY <3>2, <3>3
  <2> QED BY <1>0, <1>7, <2>1, <2>3, <2>4 DEF SaveUser, TypeOK, SessionTypeOK
<1>8. ASSUME NEW r \in Requests, ConsumeToken(r) PROVE TypeOK'
  <2>1. req' \in [Requests -> Request]
    BY <1>0, <1>8, MoveTyped DEF ConsumeToken, Steps
  <2>2. [req[r].row EXCEPT !.consumed = TRUE] \in Token
    BY <1>0, RequestFacts DEF Token
  <2>3. req[r].id \in 1..lastToken
    BY <1>8 DEF ConsumeToken, ResetInv, RequestOK, StepOf
  <2>4. /\ DOMAIN token' \subseteq 1..lastToken
        /\ \A t \in DOMAIN token' : token'[t] \in Token
        /\ token' = [t \in DOMAIN token' |-> token'[t]]
    BY <1>0, <1>8, <2>2, <2>3 DEF ConsumeToken, TypeOK
  <2>5. UNCHANGED <<sess, lastID, now, user, lastToken, lastPassword, born, uses, escaped>>
    BY <1>8 DEF ConsumeToken
  <2>6. SessionTypeOK'
    BY <1>0, <2>5 DEF TypeOK, SessionTypeOK
  <2> QED BY <1>0, <2>1, <2>4, <2>5, <2>6 DEF TypeOK
<1>9. ASSUME NEW r \in Requests, BumpTokenVersion(r) PROVE TypeOK'
  <2>1. req' \in [Requests -> Request]
    BY <1>0, <1>9, MoveTyped DEF BumpTokenVersion, Steps
  <2> QED BY <1>0, <1>9, <2>1, LocalTypeOK DEF BumpTokenVersion
<1>10. ASSUME NEW r \in Requests, SweepSessions(r) PROVE TypeOK'
  <2>1. req' \in [Requests -> Request]
    BY <1>0, <1>10, IdleFacts DEF SweepSessions, Finish, TypeOK
  <2>2. SessionTypeOK'
    BY <1>0, <1>10, RequestFacts, StoreTyped DEF SweepSessions, TypeOK
  <2> QED BY <1>0, <1>10, <2>1, <2>2 DEF SweepSessions, RevokeAllForUser, TypeOK
<1>11. ASSUME NEW r \in Requests, IssueTokens(r) PROVE TypeOK'
  <2>1. req' \in [Requests -> Request]
    BY <1>0, <1>11, IdleFacts DEF IssueTokens, Finish, TypeOK
  <2>2. SessionTypeOK' /\ lastID' = lastID + 1 /\ lastID \in Nat
    <3>1. SessionTypeOK'
      BY <1>0, <1>11, RequestFacts, StoreTyped DEF IssueTokens, TypeOK
    <3> QED BY <1>0, <1>11, <3>1 DEF IssueTokens, Create, TypeOK, SessionTypeOK
  <2>3. born' \in [1..lastID' -> Nat]
    <3>1. req[r].snap.password \in Nat
      BY <1>0, RequestFacts DEF User
    <3>2. born' = [i \in 1..lastID' |-> IF i = lastID' THEN req[r].snap.password ELSE born[i]]
      BY <1>11 DEF IssueTokens
    <3>3. born \in [1..lastID -> Nat]
      BY <1>0 DEF TypeOK
    <3> QED BY <2>2, <3>1, <3>2, <3>3
  <2>4. escaped' \subseteq 1..lastID'
    <3>1. escaped' \subseteq escaped \cup {lastID'}
      BY <1>11 DEF IssueTokens
    <3>2. escaped \subseteq 1..lastID
      BY <1>0 DEF TypeOK
    <3> QED BY <2>2, <3>1, <3>2
  <2> QED BY <1>0, <1>11, <2>1, <2>2, <2>3, <2>4 DEF IssueTokens, TypeOK
<1>12. ASSUME NEW r \in Requests, AdminSave(r) PROVE TypeOK'
  <2>1. req' \in [Requests -> Request]
    <3>1. "sweep" \in Steps
      BY DEF Steps
    <3>2. [req EXCEPT ![r].pc = "sweep"] \in [Requests -> Request]
      BY <1>0, <3>1, MoveTyped
    <3>3. [req EXCEPT ![r] = Idle] \in [Requests -> Request]
      BY <1>0, IdleFacts DEF TypeOK
    <3> QED BY <1>12, <3>2, <3>3, Zenon DEF AdminSave, Finish
  <2>2. \A b \in BOOLEAN : [req[r].snap EXCEPT !.enabled = b] \in User
    BY <1>0, RequestFacts DEF User
  <2>3. user' \in [Users -> User]
    <3>1. PICK b \in BOOLEAN : user' = [user EXCEPT ![req[r].userID] =
              Save(user[req[r].userID], [req[r].snap EXCEPT !.enabled = b])]
      <4> DEFINE b == req[r].op = "activate" \/ (req[r].op = "update" /\ req[r].snap.enabled)
      <4>1. b \in BOOLEAN
        BY Zenon
      <4> QED BY <1>12, <4>1, Zenon DEF AdminSave
    <3> QED BY <1>0, <2>2, <3>1, RequestFacts, SaveIsRow DEF TypeOK
  <2>4. escaped' \subseteq 1..lastID
    BY <1>0, <1>12 DEF AdminSave, TypeOK, SessionTypeOK, ActiveOf
  <2> QED BY <1>0, <1>12, <2>1, <2>3, <2>4 DEF AdminSave, TypeOK, SessionTypeOK
<1>13. ASSUME NEW r \in Requests, DeleteUser(r) PROVE TypeOK'
  <2>1. req' \in [Requests -> Request]
    BY <1>0, <1>13, MoveTyped DEF DeleteUser, Steps
  <2>2. user' \in [Users -> User]
    BY <1>0, <1>13, ZenonT(60) DEF DeleteUser, TypeOK, User
  <2> QED BY <1>0, <1>13, <2>1, <2>2 DEF DeleteUser, TypeOK, SessionTypeOK
<1>14. ASSUME NEW r \in Requests, Abort(r) PROVE TypeOK'
  <2>1. req' \in [Requests -> Request]
    BY <1>0, <1>14, IdleFacts DEF Abort, Finish, TypeOK
  <2>2. escaped' \subseteq 1..lastID
    BY <1>0, <1>14 DEF Abort, TypeOK, SessionTypeOK, ActiveOf
  <2> QED BY <1>0, <1>14, <2>1, <2>2 DEF Abort, TypeOK, SessionTypeOK
<1>15. CASE CleanupExpiredResetTokens
  BY <1>0, <1>15, SMTT(30) DEF CleanupExpiredResetTokens, TypeOK, SessionTypeOK
<1>16. CASE ClockTick
  BY <1>0, <1>16, SMTT(30) DEF ClockTick, Tick, resetVars, TypeOK, SessionTypeOK
<1>17. CASE UNCHANGED vars
  BY <1>0, <1>17 DEF vars, TypeOK, SessionTypeOK
<1> QED
  BY <1>1, <1>2, <1>3, <1>4, <1>5, <1>6, <1>7, <1>8, <1>9, <1>10, <1>11, <1>12, <1>13,
     <1>14, <1>15, <1>16, <1>17 DEF Next

\* No statement before the sign-out is reached by anything but a reset.
LEMMA StepRequestOK ==
    ASSUME ResetInv, [Next]_vars PROVE \A p \in Requests : RequestOK(req[p])'
<1>0. /\ lastToken \in Nat /\ req \in [Requests -> Request]
      /\ \A p \in Requests : RequestOK(req[p])
  BY DEF ResetInv, TypeOK
<1>1. /\ lastToken' \in Nat /\ req' \in [Requests -> Request] /\ lastToken' >= lastToken
  <2>1. lastToken' \in Nat /\ req' \in [Requests -> Request]
    BY StepTypeOK DEF TypeOK
  <2>2. lastToken' = lastToken \/ lastToken' = lastToken + 1
    BY ZenonT(60) DEF Next, ForgotPassword, Login, Update, Activate, Deactivate, Delete, AdminRead,
           ResetPassword, CreateToken, ReadUser, SaveUser, ConsumeToken, BumpTokenVersion,
           SweepSessions, IssueTokens, AdminSave, DeleteUser, Abort,
           CleanupExpiredResetTokens, ClockTick, resetVars, vars
  <2> QED BY <1>0, <2>1, <2>2
<1>2. ASSUME NEW r \in Requests, NEW q \in Request, req' = [req EXCEPT ![r] = q],
             q.pc \in {"readUser", "saveUser", "consume", "bump"} =>
                 q.op = "reset" /\ q.id \in 1..lastToken
      PROVE  \A p \in Requests : RequestOK(req[p])'
  BY <1>0, <1>1, <1>2 DEF RequestOK
<1>3. ASSUME req' = req PROVE \A p \in Requests : RequestOK(req[p])'
  BY <1>0, <1>1, <1>3 DEF RequestOK
<1>4. ASSUME NEW r \in Requests, Finish(r) PROVE \A p \in Requests : RequestOK(req[p])'
  BY <1>2, <1>4, IdleFacts DEF Finish
<1>5. ASSUME NEW r \in Requests, NEW pc \in Steps, req' = [req EXCEPT ![r].pc = pc],
             pc \notin {"consume", "bump", "saveUser", "readUser"}
                 \/ req[r].pc \in {"readUser", "saveUser", "consume", "bump"}
      PROVE  \A p \in Requests : RequestOK(req[p])'
  BY <1>0, <1>1, <1>5 DEF RequestOK, Request
<1>6. ASSUME NEW r \in Requests, NEW u \in Users,
             \/ ForgotPassword(r, u) \/ Login(r, u)
             \/ Update(r, u) \/ Activate(r, u) \/ Deactivate(r, u) \/ Delete(r, u)
      PROVE  \A p \in Requests : RequestOK(req[p])'
  <2>1. /\ req'[r].pc \notin {"consume", "bump", "saveUser", "readUser"}
        /\ \A p \in Requests \ {r} : req'[p] = req[p]
    <3>1. CASE ForgotPassword(r, u)
      BY <1>0, <3>1, IdleFacts DEF ForgotPassword, Request
    <3>2. CASE Login(r, u)
      BY <1>0, <3>2, IdleFacts DEF Login, Request
    <3>3. ASSUME NEW op, NEW pc \in {"adminSave", "delete"}, AdminRead(r, u, op, pc)
          PROVE  /\ req'[r].pc \notin {"consume", "bump", "saveUser", "readUser"}
                 /\ \A p \in Requests \ {r} : req'[p] = req[p]
      BY <1>0, <3>3, IdleFacts DEF AdminRead, Request
    <3> QED BY <1>6, <3>1, <3>2, <3>3, Zenon DEF Update, Activate, Deactivate, Delete
  <2> QED BY <1>0, <1>1, <2>1 DEF RequestOK
<1>7. ASSUME NEW r \in Requests, NEW t \in 1..lastToken, ResetPassword(r, t)
      PROVE  \A p \in Requests : RequestOK(req[p])'
  <2>1. /\ req'[r].op = "reset" /\ req'[r].id = t
        /\ \A p \in Requests \ {r} : req'[p] = req[p]
    BY <1>0, <1>7, IdleFacts DEF ResetPassword, Request
  <2> QED BY <1>0, <1>1, <2>1 DEF RequestOK
<1>8. ASSUME NEW r \in Requests, ReadUser(r) PROVE \A p \in Requests : RequestOK(req[p])'
  <2>1. CASE Finish(r)
    BY <2>1, <1>4
  <2>2. CASE req' = [req EXCEPT ![r].pc = "saveUser", ![r].snap = user[req[r].userID]]
    <3>1. /\ req'[r].op = req[r].op /\ req'[r].id = req[r].id /\ req[r].pc = "readUser"
          /\ \A p \in Requests \ {r} : req'[p] = req[p]
      BY <1>0, <1>8, <2>2 DEF ReadUser, StepOf, Request
    <3> QED BY <1>0, <1>1, <3>1 DEF RequestOK
  <2> QED BY <1>8, <2>1, <2>2 DEF ReadUser
<1>9. ASSUME NEW r \in Requests,
             SaveUser(r) \/ ConsumeToken(r) \/ BumpTokenVersion(r) \/ DeleteUser(r)
      PROVE  \A p \in Requests : RequestOK(req[p])'
  BY <1>5, <1>9 DEF SaveUser, ConsumeToken, BumpTokenVersion, DeleteUser, StepOf, Steps
<1>10. ASSUME NEW r \in Requests, AdminSave(r) PROVE \A p \in Requests : RequestOK(req[p])'
  BY <1>4, <1>5, <1>10 DEF AdminSave, Steps
<1>11. ASSUME NEW r \in Requests, CreateToken(r) \/ SweepSessions(r) \/ IssueTokens(r) \/ Abort(r)
       PROVE  \A p \in Requests : RequestOK(req[p])'
  BY <1>4, <1>11 DEF CreateToken, SweepSessions, IssueTokens, Abort
<1>12. CASE CleanupExpiredResetTokens \/ ClockTick \/ UNCHANGED vars
  BY <1>3, <1>12 DEF CleanupExpiredResetTokens, ClockTick, resetVars, vars
<1> QED
  BY <1>6, <1>7, <1>8, <1>9, <1>10, <1>11, <1>12 DEF Next

\* A step keeps ResetSignsOut when it opens no session, changes no password and
\* drops a pending sign-out only where nothing usable is left behind.
LEMMA SignsOutFrame ==
    ASSUME ResetInv,
           DOMAIN sess' \subseteq DOMAIN sess,
           \A i \in DOMAIN sess' : sess'[i].userID = sess[i].userID /\ born'[i] = born[i],
           \A i \in DOMAIN sess' : Active(i)' => Active(i),
           \A u \in Users : user'[u].password = user[u].password,
           \A u \in Users : SignOutDue(u) => SignOutDue(u)' \/ ActiveOf(u)' \subseteq escaped',
           escaped \subseteq escaped'
    PROVE  ResetSignsOut'
<1>1. SUFFICES ASSUME NEW i \in DOMAIN sess', NEW u, u = sess'[i].userID, Active(i)',
                      born'[i] # user'[u].password
               PROVE  SignOutDue(u)' \/ i \in escaped'
  BY DEF ResetSignsOut
<1>2. i \in DOMAIN sess /\ u = sess[i].userID /\ Active(i) /\ u \in Users
  BY <1>1 DEF ResetInv, TypeOK, SessionTypeOK, UserSession
<1>3. SignOutDue(u) \/ i \in escaped
  BY <1>1, <1>2 DEF ResetInv, ResetSignsOut
<1>4. i \in ActiveOf(u)'
  BY <1>1, <1>2 DEF ActiveOf
<1> QED
  BY <1>1, <1>2, <1>3, <1>4

\* A slot that was not due to sign anybody out may change as it likes.
LEMMA DueKept ==
    ASSUME req \in [Requests -> Request], NEW r \in Requests,
           req[r].op # "reset" \/ req[r].pc \notin {"consume", "bump", "sweep"},
           \A p \in Requests \ {r} : req'[p] = req[p]
    PROVE  \A u : SignOutDue(u) => SignOutDue(u)'
BY DEF SignOutDue

\* Every step keeps ResetSignsOut.
LEMMA StepSignsOut ==
    ASSUME ResetInv, [Next]_vars PROVE ResetSignsOut'
<1>0. /\ req \in [Requests -> Request] /\ SessionTypeOK /\ user \in [Users -> User]
      /\ \A r \in Requests : RequestOK(req[r])
  BY DEF ResetInv, TypeOK
<1>1. ASSUME UNCHANGED <<sess, lastID, now, born, escaped>>,
             \A u \in Users : user'[u].password = user[u].password,
             \A u \in Users : SignOutDue(u) => SignOutDue(u)'
      PROVE  ResetSignsOut'
  BY <1>1, SignsOutFrame DEF Active
<1>2. ASSUME NEW r \in Requests, NEW u \in Users,
             \/ ForgotPassword(r, u) \/ Login(r, u)
             \/ Update(r, u) \/ Activate(r, u) \/ Deactivate(r, u) \/ Delete(r, u)
      PROVE  ResetSignsOut'
  <2>1. /\ UNCHANGED <<sess, lastID, now, born, escaped, user>> /\ req[r].pc = "idle"
        /\ \A p \in Requests \ {r} : req'[p] = req[p]
    BY <1>0, <1>2 DEF ForgotPassword, Login, Update, Activate, Deactivate, Delete, AdminRead, StepOf
  <2> QED BY <1>0, <1>1, <2>1, DueKept
<1>3. ASSUME NEW r \in Requests, NEW t \in 1..lastToken, ResetPassword(r, t)
      PROVE  ResetSignsOut'
  <2>1. /\ UNCHANGED <<sess, lastID, now, born, escaped, user>> /\ req[r].pc = "idle"
        /\ \A p \in Requests \ {r} : req'[p] = req[p]
    BY <1>0, <1>3 DEF ResetPassword, StepOf
  <2> QED BY <1>0, <1>1, <2>1, DueKept
<1>4. ASSUME NEW r \in Requests, CreateToken(r) \/ ReadUser(r) PROVE ResetSignsOut'
  <2>1. /\ UNCHANGED <<sess, lastID, now, born, escaped, user>>
        /\ req[r].pc \in {"createToken", "readUser"}
        /\ \A p \in Requests \ {r} : req'[p] = req[p]
    BY <1>0, <1>4 DEF CreateToken, ReadUser, Finish, StepOf
  <2> QED BY <1>0, <1>1, <2>1, DueKept
<1>5. ASSUME NEW r \in Requests, SaveUser(r) PROVE ResetSignsOut'
  <2>0. PICK u \in Users : u = req[r].userID
    BY <1>0 DEF Request
  <2>1. /\ UNCHANGED <<sess, lastID, now, born, escaped>> /\ req[r].pc = "saveUser"
        /\ req[r].op = "reset"
    BY <1>0, <1>5 DEF SaveUser, StepOf, RequestOK, Request
  <2>2. /\ req'[r].pc = "consume" /\ req'[r].op = "reset" /\ req'[r].userID = u
        /\ \A p \in Requests \ {r} : req'[p] = req[p]
    BY <1>0, <1>5, <2>0, <2>1 DEF SaveUser, Request
  <2>3. SignOutDue(u)' /\ \A v \in Users : SignOutDue(v) => SignOutDue(v)'
    BY <2>1, <2>2 DEF SignOutDue
  <2>4. \A v \in Users \ {u} : user'[v] = user[v]
    BY <1>0, <1>5, <2>0 DEF SaveUser
  <2> QED BY <1>0, <2>1, <2>3, <2>4
          DEF ResetInv, ResetSignsOut, Active, SessionTypeOK, UserSession
<1>6. ASSUME NEW r \in Requests, ConsumeToken(r) \/ BumpTokenVersion(r) PROVE ResetSignsOut'
  <2>1. /\ UNCHANGED <<sess, lastID, now, born, escaped, user>>
        /\ req[r].op = "reset" /\ req'[r].op = "reset" /\ req'[r].userID = req[r].userID
        /\ req'[r].pc \in {"bump", "sweep"}
        /\ \A p \in Requests \ {r} : req'[p] = req[p]
    BY <1>0, <1>6 DEF ConsumeToken, BumpTokenVersion, StepOf, RequestOK, Request
  <2>2. \A v \in Users : SignOutDue(v) => SignOutDue(v)'
    BY <2>1 DEF SignOutDue
  <2> QED BY <1>1, <2>1, <2>2
<1>7. ASSUME NEW r \in Requests, SweepSessions(r) PROVE ResetSignsOut'
  <2>0. PICK u \in Users : u = req[r].userID
    BY <1>0 DEF Request
  <2>1. /\ DOMAIN sess' = DOMAIN sess /\ now' = now
        /\ \A i \in DOMAIN sess : sess'[i] =
               IF sess[i].userID = u /\ sess[i].revokedAt = Nil
               THEN [sess[i] EXCEPT !.revokedAt = now] ELSE sess[i]
        /\ UNCHANGED <<born, escaped, user>>
        /\ \A p \in Requests \ {r} : req'[p] = req[p]
    BY <1>0, <1>7, <2>0 DEF SweepSessions, RevokeAllForUser, Finish
  <2>2. \A i \in DOMAIN sess : /\ sess'[i].userID = sess[i].userID
                               /\ Active(i)' => Active(i) /\ sess[i].userID # u
    BY <1>0, <2>1 DEF Active, SessionTypeOK, UserSession, Nil
  <2>3. \A v : SignOutDue(v) => SignOutDue(v)' \/ v = u
    BY <2>0, <2>1 DEF SignOutDue
  <2>4. ActiveOf(u)' \subseteq escaped'
    BY <2>1, <2>2 DEF ActiveOf
  <2> QED BY <2>1, <2>2, <2>3, <2>4, SignsOutFrame
<1>8. ASSUME NEW r \in Requests, IssueTokens(r) PROVE ResetSignsOut'
  <2> DEFINE u == req[r].userID
             n == lastID + 1
  <2>1. /\ lastID \in Nat /\ lastID' = n /\ now' = now /\ user' = user
        /\ DOMAIN sess \subseteq 1..lastID /\ DOMAIN sess' = DOMAIN sess \cup {n}
        /\ sess'[n].userID = u /\ \A i \in DOMAIN sess : sess'[i] = sess[i]
    BY <1>0, <1>8 DEF IssueTokens, Create, SessionTypeOK
  <2>2. /\ born'[n] = req[r].snap.password /\ \A i \in DOMAIN sess : born'[i] = born[i]
        /\ escaped \subseteq escaped'
        /\ req[r].snap.password # user[u].password => n \in escaped'
    BY <2>1, <1>8 DEF IssueTokens
  <2>3. \A v : SignOutDue(v) => SignOutDue(v)'
    BY <1>0, <1>8, DueKept DEF IssueTokens, StepOf, Finish
  <2> HIDE DEF n
  <2> QED BY <2>1, <2>2, <2>3 DEF ResetInv, ResetSignsOut, Active
<1>9. ASSUME NEW r \in Requests, AdminSave(r) PROVE ResetSignsOut'
  <2> DEFINE u == req[r].userID
  <2>1. /\ UNCHANGED <<sess, lastID, now, born>> /\ req[r].pc = "adminSave"
        /\ \A p \in Requests \ {r} : req'[p] = req[p]
        /\ \A v \in Users \ {u} : user'[v] = user[v]
        /\ escaped \subseteq escaped'
    BY <1>0, <1>9 DEF AdminSave, Finish, StepOf
  <2>2. \A v : SignOutDue(v) => SignOutDue(v)'
    BY <1>0, <2>1, DueKept
  <2>3. user'[u].password = user[u].password \/ ActiveOf(u) \subseteq escaped'
    <3>1. u \in Users /\ req[r].snap \in User
      BY <1>0 DEF Request
    <3>2. user'[u].password = req[r].snap.password
      BY <1>0, <1>9, <3>1 DEF AdminSave, Save, User
    <3> QED BY <1>9, <3>2 DEF AdminSave
  <2> QED BY <1>0, <2>1, <2>2, <2>3
          DEF ResetInv, ResetSignsOut, Active, ActiveOf, SessionTypeOK, UserSession
<1>10. ASSUME NEW r \in Requests, DeleteUser(r) PROVE ResetSignsOut'
  <2>1. /\ UNCHANGED <<sess, lastID, now, born, escaped>> /\ req[r].pc = "delete"
        /\ \A p \in Requests \ {r} : req'[p] = req[p]
    BY <1>0, <1>10 DEF DeleteUser, StepOf
  <2>2. \A v \in Users : user'[v].password = user[v].password
    BY <1>0, <1>10 DEF DeleteUser, User
  <2> QED BY <1>0, <1>1, <2>1, <2>2, DueKept
<1>11. ASSUME NEW r \in Requests, Abort(r) PROVE ResetSignsOut'
  <2> DEFINE u == req[r].userID
  <2>1. /\ UNCHANGED <<sess, lastID, now, born, user>> /\ escaped \subseteq escaped'
        /\ \A p \in Requests \ {r} : req'[p] = req[p]
        /\ req[r].op = "reset" /\ req[r].pc \in {"consume", "bump", "sweep"}
               => ActiveOf(u) \subseteq escaped'
    BY <1>0, <1>11 DEF Abort, Finish
  <2>2. \A v : SignOutDue(v) => SignOutDue(v)' \/ (v = u /\ ActiveOf(u) \subseteq escaped')
    BY <2>1 DEF SignOutDue
  <2>3. \A v : ActiveOf(v)' = ActiveOf(v)
    BY <2>1 DEF ActiveOf, Active
  <2> QED BY <2>1, <2>2, <2>3, SignsOutFrame DEF Active
<1>12. CASE CleanupExpiredResetTokens \/ UNCHANGED vars
  <2>1. UNCHANGED <<sess, lastID, now, born, escaped, user, req>>
    BY <1>12 DEF CleanupExpiredResetTokens, vars
  <2> QED BY <1>1, <2>1 DEF SignOutDue
<1>13. CASE ClockTick
  <2>1. /\ UNCHANGED <<sess, born, escaped, user, req>> /\ now' = now + 1
    BY <1>13 DEF ClockTick, Tick, resetVars
  <2>2. \A i \in DOMAIN sess : Active(i)' => Active(i)
    BY <1>0, <2>1 DEF Active, SessionTypeOK, UserSession
  <2> QED BY <2>1, <2>2, SignsOutFrame DEF SignOutDue
<1> QED
  BY <1>2, <1>3, <1>4, <1>5, <1>6, <1>7, <1>8, <1>9, <1>10, <1>11, <1>12, <1>13 DEF Next

\* The invariant of the module holds in every reachable state.
LEMMA ResetInvariant == Spec => []ResetInv
<1>1. ResetInv /\ [Next]_vars => ResetInv'
  BY StepTypeOK, StepRequestOK, StepSignsOut DEF ResetInv
<1> QED
  BY <1>1, ResetInitOK, PTL DEF Spec

\* Every variable keeps its type and every stored id has been handed out.
THEOREM ResetTypeCorrect == Spec => []TypeOK
BY ResetInvariant, PTL DEF ResetInv

\* After a reset no device that signed in with the old password stays signed
\* in, except through the stale reads and lost requests that escaped records;
\* for any number of concurrent resets, logins, saves and deletions.
THEOREM ResetSignsDevicesOut == Spec => []ResetSignsOut
BY ResetInvariant, PTL DEF ResetInv

\* No step makes a refused token acceptable.
LEMMA StepKeepsTokenDead ==
    ASSUME ResetInv, [Next]_vars, NEW t \in 1..lastToken, ~Accepted(t)
    PROVE  ~Accepted(t)'
<1>0. /\ lastToken \in Nat /\ now \in Nat /\ DOMAIN token \subseteq 1..lastToken
      /\ \A i \in DOMAIN token : token[i] \in Token
      /\ \A r \in Requests : req[r] \in Request
  BY DEF ResetInv, TypeOK, SessionTypeOK
<1>1. CASE token' = token /\ now' = now
  BY <1>1 DEF Accepted
<1>2. ASSUME NEW r \in Requests, CreateToken(r) PROVE ~Accepted(t)'
  BY <1>0, <1>2 DEF CreateToken, Accepted
<1>3. ASSUME NEW r \in Requests, ConsumeToken(r) PROVE ~Accepted(t)'
  <2>1. [req[r].row EXCEPT !.consumed = TRUE].consumed
    BY <1>0 DEF Request, Token
  <2> QED BY <1>3, <2>1 DEF ConsumeToken, Accepted
<1>4. CASE CleanupExpiredResetTokens
  BY <1>4 DEF CleanupExpiredResetTokens, Accepted
<1>5. CASE ClockTick
  BY <1>0, <1>5 DEF ClockTick, Tick, resetVars, Accepted, Token
<1>6. ASSUME NEW r \in Requests, NEW u \in Users,
             \/ ForgotPassword(r, u) \/ Login(r, u)
             \/ Update(r, u) \/ Activate(r, u) \/ Deactivate(r, u) \/ Delete(r, u)
      PROVE  ~Accepted(t)'
  BY <1>1, <1>6 DEF ForgotPassword, Login, Update, Activate, Deactivate, Delete, AdminRead
<1>7. ASSUME NEW r \in Requests, NEW i \in 1..lastToken, ResetPassword(r, i)
      PROVE  ~Accepted(t)'
  BY <1>1, <1>7 DEF ResetPassword
<1>8. ASSUME NEW r \in Requests,
             \/ ReadUser(r) \/ SaveUser(r) \/ BumpTokenVersion(r) \/ SweepSessions(r)
             \/ IssueTokens(r) \/ AdminSave(r) \/ DeleteUser(r) \/ Abort(r)
      PROVE  ~Accepted(t)'
  BY <1>1, <1>8 DEF ReadUser, SaveUser, BumpTokenVersion, SweepSessions, RevokeAllForUser,
                    IssueTokens, Create, AdminSave, DeleteUser, Abort
<1>9. CASE UNCHANGED vars
  BY <1>1, <1>9 DEF vars
<1> QED
  BY <1>2, <1>3, <1>4, <1>5, <1>6, <1>7, <1>8, <1>9 DEF Next

\* A reset token that has been refused once is refused for ever: consumption,
\* expiry and purging are final although a purged row can be written back.
THEOREM RefusedTokensStayRefused == Spec => DeadTokensStayDead
<1>1. ResetInv /\ [Next]_vars
        => [\A t \in 1..lastToken : ~Accepted(t) => ~Accepted(t)']_vars
  BY StepKeepsTokenDead
<1> QED
  BY <1>1, ResetInvariant, PTL DEF Spec, DeadTokensStayDead
=============================================================================
