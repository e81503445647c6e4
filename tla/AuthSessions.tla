----------------------------- MODULE AuthSessions -----------------------------
(***************************************************************************)
(* auth.service.ts: registration, login, refresh, authentication, password *)
(* change and logout.                                                      *)
(*                                                                         *)
(* Every request reads first and writes in a later statement or            *)
(* transaction, so what it has read may be out of date.  The requests that *)
(* have read are kept as sets of what they read, from which any number of  *)
(* them may write, or none: requests are sent twice, abandoned and late.   *)
(*                                                                         *)
(* Password writers, login and the issuing of tokens take the advisory     *)
(* lock "password-flow".  Their transactions are one step each, except the *)
(* one of requestPasswordReset (AuthRecovery), which reads the status under*)
(* the lock and writes afterwards: `resetting` says that it holds the lock.*)
(***************************************************************************)
EXTENDS AuthAccount, FiniteSets

CONSTANT MaxReads   \* bound: different things that requests have read

ASSUME ReadsAssumption == MaxReads \in Nat

VARIABLES verified,     \* passwords logins have verified for an ACTIVE member
          principals,   \* sessions that requests were let in with
          changing,     \* <<session, password>> password changes have verified
          presented,    \* <<session, pair>> refreshes have found valid
          accepting,    \* tokens that requests have found consumable (AuthRecovery)
          answered,     \* history: <<session, pair presented, pair returned>>
          resetting     \* a password reset request is inside its transaction

requestVars == <<verified, principals, changing, presented, accepting>>
authVars == <<requestVars, answered, resetting>>

SessionsTypeOK ==
  /\ verified \subseteq Passwords
  /\ principals \subseteq Sessions
  /\ changing \subseteq Sessions \X Passwords
  /\ presented \subseteq Sessions \X Pairs
  /\ accepting \subseteq Tokens
  /\ answered \subseteq Sessions \X Pairs \X Pairs
  /\ resetting \in BOOLEAN

SessionsInit ==
  /\ verified = {} /\ principals = {} /\ changing = {} /\ presented = {}
  /\ accepting = {} /\ answered = {} /\ resetting = FALSE

PasswordFlow == ~resetting

MoreReads ==
  Cardinality(verified) + Cardinality(principals) + Cardinality(changing)
    + Cardinality(presented) + Cardinality(accepting) < MaxReads

\* registerTenant: the first owner, with a session.
Register ==
  /\ status = "NONE"
  /\ status' = "ACTIVE" /\ employment' = "ACTIVE" /\ mustChange' = FALSE
  /\ SetPassword /\ CreateSession(1, password')
  /\ UNCHANGED <<tokenVars, authVars>>

-----------------------------------------------------------------------------
\* login: the first transaction reads the member and the hash, and the password
\* is verified against it.  The status is not read again.
LoginVerify ==
  /\ MoreReads
  /\ status = "ACTIVE" /\ password # Placeholder
  /\ verified' = verified \cup {password}
  /\ UNCHANGED <<accountVars, principals, changing, presented, accepting, answered, resetting>>

\* Bug: the hash is not compared under the lock.
BugUnchangedHash(h) == h \in verified

\* The hash under the lock is the verified one.
UnchangedHash(h) == h = password

\* login: the second transaction, under the lock.
LoginCommit(h, s) ==
  /\ h \in verified /\ PasswordFlow /\ UnchangedHash(h)
  /\ CreateSession(s, h)
  /\ UNCHANGED <<memberVars, tokenVars, authVars>>

-----------------------------------------------------------------------------
\* refresh: the read.
RefreshRead(s) ==
  /\ MoreReads
  /\ Live(s) /\ age[s] # "EXPIRED" /\ status = "ACTIVE"
  /\ presented' = presented \cup {<<s, pair[s]>>}
  /\ UNCHANGED <<accountVars, verified, principals, changing, accepting, answered, resetting>>

\* Bug: the row is updated by its id alone.
BugStillPresented(s, n) == Live(s)

\* The row still has the presented token's hash and is not revoked.
StillPresented(s, n) == Live(s) /\ pair[s] = n

\* refresh: the update.  It compares refresh_expires_at with the time of the
\* read, and a new access token never outlives the session.
RefreshRotate(s, n) ==
  /\ <<s, n>> \in presented /\ StillPresented(s, n) /\ pair[s] < MaxPairs
  /\ pair' = [pair EXCEPT ![s] = @ + 1]
  /\ age' = [age EXCEPT ![s] = IF @ = "STALE" THEN "FRESH" ELSE @]
  /\ answered' = answered \cup {<<s, n, pair[s] + 1>>}
  /\ UNCHANGED <<memberVars, sessionRow, under, tokenVars, requestVars, resetting>>

-----------------------------------------------------------------------------
\* authenticateAccessToken, for a request that goes on to change the password
\* or to log out.
Authenticate(s) ==
  /\ MoreReads
  /\ Live(s) /\ age[s] = "FRESH" /\ status = "ACTIVE"
  /\ principals' = principals \cup {s}
  /\ UNCHANGED <<accountVars, verified, changing, presented, accepting, answered, resetting>>

\* changePassword: the hash is read and the current password verified.
ChangeVerify(s) ==
  /\ MoreReads
  /\ s \in principals /\ password # Placeholder
  /\ changing' = changing \cup {<<s, password>>}
  /\ UNCHANGED <<accountVars, verified, principals, presented, accepting, answered, resetting>>

\* Bug: the credential is updated whatever its hash.
BugSameHash(h) == h \in Passwords

\* The update matches the verified hash.
SameHash(h) == h = password

\* changePassword: the second transaction, under the lock.  It keeps the
\* session it is made from.
ChangeCommit(s, h) ==
  /\ <<s, h>> \in changing /\ PasswordFlow /\ SameHash(h)
  /\ SetPassword /\ mustChange' = FALSE
  /\ RevokeSessions(Sessions \ {s})
  /\ under' = [under EXCEPT ![s] = IF Live(s) THEN password' ELSE @]
  /\ RevokeTokens
  /\ UNCHANGED <<status, employment, age, pair, authVars>>

Logout(s) ==
  /\ s \in principals
  /\ RevokeSessions({s})
  /\ UNCHANGED <<memberVars, age, pair, under, tokenVars, authVars>>
=============================================================================
