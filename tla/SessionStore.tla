---------------------------- MODULE SessionStore ----------------------------
(***************************************************************************)
(* The per-device session table (internal/modules/session) as one service: *)
(* the user_sessions rows, the AUTO_INCREMENT counter of the table and the *)
(* wall clock its predicates read.  Every SQL statement of the service is  *)
(* one action.  AuthSessions builds the handlers of the auth and user      *)
(* modules from these actions, so SessionSpec is also the promise that the *)
(* rest of the program relies on.                                          *)
(*                                                                         *)
(* last_used_at, device name, user agent and the revocation reason are     *)
(* left out: nothing but presentation reads them.                          *)
(***************************************************************************)
EXTENDS Integers

CONSTANTS
    Users,          \* user ids
    RefreshTTL,     \* JWT_REFRESH_TTL, in ticks
    Retention,      \* retention of dead rows, in ticks
    MaxSessions,    \* bound: rows ever inserted
    MaxTime         \* bound: last instant of the clock

ASSUME StoreAssumption ==
    /\ RefreshTTL \in Nat \ {0}
    /\ Retention \in Nat
    /\ MaxSessions \in Nat
    /\ MaxTime \in Nat

VARIABLES
    sess,           \* the rows, a function on the ids that are in the table
    lastID,         \* the last id the table handed out
    now             \* time.Now()

storeVars == <<sess, lastID, now>>

Nil == -1           \* RevokedAt == nil

UserSession == [userID : Users, expiresAt : Nat, revokedAt : Nat \cup {Nil}]

\* UserSession.Active at the current instant, for a row that may be absent.
Active(i) ==
    /\ i \in DOMAIN sess
    /\ sess[i].revokedAt = Nil
    /\ now < sess[i].expiresAt

ActiveOf(u) == {i \in DOMAIN sess : sess[i].userID = u /\ Active(i)}

\* Service.Validate returns nil.
Validate(i, u) == Active(i) /\ sess[i].userID = u

-----------------------------------------------------------------------------
CreateReusingFreeID(u, exp) ==
    LET i == CHOOSE j \in 1..(lastID + 1) :
                 /\ j \notin DOMAIN sess
                 /\ \A k \in 1..(j - 1) : k \in DOMAIN sess
        row == [userID |-> u, expiresAt |-> exp, revokedAt |-> Nil]
    IN /\ lastID < MaxSessions
       /\ lastID' = IF i > lastID THEN i ELSE lastID
       /\ sess' = [j \in DOMAIN sess \cup {i} |-> IF j = i THEN row ELSE sess[j]]
       /\ UNCHANGED now

\* INSERT INTO user_sessions: a fresh id, never one of a purged row.
Create(u, exp) ==
    LET row == [userID |-> u, expiresAt |-> exp, revokedAt |-> Nil]
    IN /\ lastID < MaxSessions
       /\ lastID' = lastID + 1
       /\ sess' = [j \in DOMAIN sess \cup {lastID + 1} |->
                       IF j = lastID + 1 THEN row ELSE sess[j]]
       /\ UNCHANGED now

RevokeAnyState(i) ==
    /\ sess' = [j \in DOMAIN sess |->
                    IF j = i THEN [sess[j] EXCEPT !.revokedAt = now] ELSE sess[j]]
    /\ UNCHANGED <<lastID, now>>

\* UPDATE ... WHERE id = ? AND revoked_at IS NULL: no row, or an already
\* revoked one, is left alone without an error.
Revoke(i) ==
    /\ sess' = [j \in DOMAIN sess |->
                    IF j = i /\ sess[j].revokedAt = Nil
                    THEN [sess[j] EXCEPT !.revokedAt = now] ELSE sess[j]]
    /\ UNCHANGED <<lastID, now>>

\* UPDATE ... WHERE user_id = ? AND revoked_at IS NULL.
RevokeAllForUser(u) ==
    /\ sess' = [j \in DOMAIN sess |->
                    IF sess[j].userID = u /\ sess[j].revokedAt = Nil
                    THEN [sess[j] EXCEPT !.revokedAt = now] ELSE sess[j]]
    /\ UNCHANGED <<lastID, now>>

PurgeableCutoffAhead(i) ==
    LET cutoff == now + Retention
    IN \/ sess[i].expiresAt <= cutoff
       \/ sess[i].revokedAt # Nil /\ sess[i].revokedAt <= cutoff

\* The rows CleanupExpired selects: dead for at least the retention.
Purgeable(i) ==
    LET cutoff == now - Retention
    IN \/ sess[i].expiresAt <= cutoff
       \/ sess[i].revokedAt # Nil /\ sess[i].revokedAt <= cutoff

CleanupExpiredOnly ==
    /\ sess' = [j \in {i \in DOMAIN sess : sess[i].expiresAt > now - Retention} |-> sess[j]]
    /\ UNCHANGED <<lastID, now>>

\* DELETE of those rows (UserSession has no soft delete).
CleanupExpired ==
    /\ sess' = [j \in {i \in DOMAIN sess : ~Purgeable(i)} |-> sess[j]]
    /\ UNCHANGED <<lastID, now>>

Tick ==
    /\ now < MaxTime
    /\ now' = now + 1
    /\ UNCHANGED <<sess, lastID>>

SessionInit ==
    /\ sess = [i \in {} |-> Nil]
    /\ lastID = 0
    /\ now = 0

SessionNext ==
    \/ \E u \in Users : Create(u, now + RefreshTTL)
    \/ \E i \in 1..lastID : Revoke(i)
    \/ \E u \in Users : RevokeAllForUser(u)
    \/ CleanupExpired
    \/ Tick

SessionSpec == SessionInit /\ [][SessionNext]_storeVars

-----------------------------------------------------------------------------
\* The rows are well formed and no row has an id the table has not handed out.
SessionTypeOK ==
    /\ lastID \in Nat
    /\ now \in Nat
    /\ DOMAIN sess \subseteq 1..lastID
    /\ \A i \in DOMAIN sess : sess[i] \in UserSession
    /\ sess = [i \in DOMAIN sess |-> sess[i]]

\* A session that is not active at some instant (revoked, expired or purged)
\* is never active again, so a token carrying its id stays refused: Revoke,
\* expiry and CleanupExpired are final and ids are not reused.
DeadSessionsStayDead ==
    [][\A i \in 1..lastID : ~Active(i) => ~Active(i)']_storeVars

\* The first revocation of a row is the one on record: a second Revoke or
\* RevokeAllForUser leaves revoked_at (and with it the purge date) alone.
FirstRevocationStands ==
    [][\A i \in DOMAIN sess \cap DOMAIN sess' :
          sess[i].revokedAt # Nil => sess'[i].revokedAt = sess[i].revokedAt]_storeVars

\* A usable session ends only by a recorded revocation or by reaching its
\* expiry: the purge job, whose cutoff is computed from the same clock, never
\* logs a device out by deleting its row.
EndsOnlyByRevocationOrExpiry ==
    [][\A i \in DOMAIN sess :
          Active(i) /\ ~Active(i)' =>
              /\ i \in DOMAIN sess'
              /\ sess'[i].revokedAt = now \/ now' >= sess[i].expiresAt]_storeVars

\* What the session service promises its callers, in every interleaving of its
\* statements: dead sessions stay dead, the first revocation stays on record,
\* and a usable session ends in no other way than by revocation or expiry.
SessionGuarantees ==
    /\ DeadSessionsStayDead
    /\ FirstRevocationStands
    /\ EndsOnlyByRevocationOrExpiry

\* Rows past their retention do not pile up: the cleanup job removes them.
DeadRowsArePurged ==
    \A i \in 1..MaxSessions :
        (i \in DOMAIN sess /\ Purgeable(i)) ~> (i \notin DOMAIN sess)
=============================================================================
