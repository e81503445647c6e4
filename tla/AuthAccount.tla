------------------------------ MODULE AuthAccount ------------------------------
(***************************************************************************)
(* One member's account: the rows of users, employments,                   *)
(* password_credentials, auth_sessions and auth_action_tokens that belong  *)
(* to it, and what the statements on them do.                              *)
(*                                                                         *)
(* Every password hash has a fresh salt, so passwords are numbered in the  *)
(* order they are set, and comparing hashes is comparing numbers.  A       *)
(* session's refresh and access tokens are always written together: pair   *)
(* number n is the one that replaced number n - 1.                         *)
(*                                                                         *)
(* The tenant is taken to be ACTIVE, and the member a local one: those     *)
(* bound to the Feishu directory have their status from there.             *)
(***************************************************************************)
EXTENDS Naturals

CONSTANTS MaxSessions,    \* bound: logins
          MaxTokens,      \* bound: recovery links and invitations
          MaxPasswords,   \* bound: passwords the member has had
          MaxPairs        \* bound: token pairs of a session

ASSUME AccountAssumption ==
  /\ MaxSessions \in Nat \ {0} /\ MaxTokens \in Nat \ {0}
  /\ MaxPasswords \in Nat \ {0} /\ MaxPairs \in Nat \ {0}

Sessions == 1 .. MaxSessions
Tokens == 1 .. MaxTokens
Passwords == 1 .. MaxPasswords
Pairs == 1 .. MaxPairs

Placeholder == 0   \* the random password of an invited member, which nobody knows

VARIABLES status,       \* users.status, "NONE" before the insert
          employment,   \* employments.status
          password,     \* password_credentials.password_hash
          mustChange,   \* must_change_password
          sessionRow,   \* auth_sessions: "ABSENT", "LIVE", "REVOKED" (revoked_at)
          age,          \* "STALE" past access_expires_at, "EXPIRED" past refresh_expires_at
          pair,         \* the pair in access_token_hash and refresh_token_hash
          under,        \* history: the password a session was opened or kept under
          tokenRow,     \* auth_action_tokens: "ABSENT", "OPEN", "CONSUMED", "REVOKED"
          purpose,      \* "PASSWORD_RESET" or "MEMBER_INVITATION"
          lapsed,       \* expires_at has passed
          issuedUnder   \* history: the password a token was issued under

memberVars == <<status, employment, password, mustChange>>
sessionVars == <<sessionRow, age, pair, under>>
tokenVars == <<tokenRow, purpose, lapsed, issuedUnder>>
accountVars == <<memberVars, sessionVars, tokenVars>>

Purposes == {"PASSWORD_RESET", "MEMBER_INVITATION"}

AccountTypeOK ==
  /\ status \in {"NONE", "ACTIVE", "INACTIVE", "LOCKED"}
  /\ employment \in {"NONE", "PENDING", "ACTIVE", "SUSPENDED"}
  /\ password \in Passwords \cup {Placeholder}
  /\ mustChange \in BOOLEAN
  /\ sessionRow \in [Sessions -> {"ABSENT", "LIVE", "REVOKED"}]
  /\ age \in [Sessions -> {"FRESH", "STALE", "EXPIRED"}]
  /\ pair \in [Sessions -> Pairs]
  /\ under \in [Sessions -> Passwords \cup {Placeholder}]
  /\ tokenRow \in [Tokens -> {"ABSENT", "OPEN", "CONSUMED", "REVOKED"}]
  /\ purpose \in [Tokens -> Purposes]
  /\ lapsed \in [Tokens -> BOOLEAN]
  /\ issuedUnder \in [Tokens -> Passwords \cup {Placeholder}]

AccountInit ==
  /\ status = "NONE" /\ employment = "NONE" /\ password = Placeholder /\ mustChange = FALSE
  /\ sessionRow = [s \in Sessions |-> "ABSENT"]
  /\ age = [s \in Sessions |-> "FRESH"]
  /\ pair = [s \in Sessions |-> 1]
  /\ under = [s \in Sessions |-> Placeholder]
  /\ tokenRow = [t \in Tokens |-> "ABSENT"]
  /\ purpose = [t \in Tokens |-> "PASSWORD_RESET"]
  /\ lapsed = [t \in Tokens |-> FALSE]
  /\ issuedUnder = [t \in Tokens |-> Placeholder]

-----------------------------------------------------------------------------
(* Passwords.                                                              *)

SetPassword == password < MaxPasswords /\ password' = password + 1

-----------------------------------------------------------------------------
(* Sessions.                                                               *)

Live(s) == sessionRow[s] = "LIVE"

\* Sessions get their numbers in the order of their rows.
IsNextSession(s) ==
  sessionRow[s] = "ABSENT" /\ \A r \in Sessions : r < s => sessionRow[r] # "ABSENT"

\* A session for someone who has shown password h.
CreateSession(s, h) ==
  /\ IsNextSession(s)
  /\ sessionRow' = [sessionRow EXCEPT ![s] = "LIVE"]
  /\ under' = [under EXCEPT ![s] = h]
  /\ UNCHANGED <<age, pair>>

\* Bug: only sessions with a usable access token are revoked.
BugRevokeSessions(S) ==
  sessionRow' = [s \in Sessions |->
    IF s \in S /\ Live(s) /\ age[s] = "FRESH" THEN "REVOKED" ELSE sessionRow[s]]

\* Sets revoked_at of the live sessions among S.
RevokeSessions(S) ==
  sessionRow' = [s \in Sessions |-> IF s \in S /\ Live(s) THEN "REVOKED" ELSE sessionRow[s]]

\* The clock passes access_expires_at, and later refresh_expires_at.
AccessExpires(s) ==
  /\ Live(s) /\ age[s] = "FRESH"
  /\ age' = [age EXCEPT ![s] = "STALE"]
  /\ UNCHANGED <<memberVars, sessionRow, pair, under, tokenVars>>

RefreshExpires(s) ==
  /\ Live(s) /\ age[s] = "STALE"
  /\ age' = [age EXCEPT ![s] = "EXPIRED"]
  /\ UNCHANGED <<memberVars, sessionRow, pair, under, tokenVars>>

-----------------------------------------------------------------------------
(* Action tokens.                                                          *)

Open(t) == tokenRow[t] = "OPEN"

IsNextToken(t) ==
  tokenRow[t] = "ABSENT" /\ \A r \in Tokens : r < t => tokenRow[r] # "ABSENT"

TokensLeft == \E t \in Tokens : tokenRow[t] = "ABSENT"

\* Revokes the open tokens of purpose p and inserts another one.  The index
\* auth_action_tokens_active_user_purpose_key would refuse a second open one;
\* that it never has to is OneOpenTokenPerPurpose.
ReplaceToken(p) ==
  \E t \in Tokens :
    /\ IsNextToken(t)
    /\ tokenRow' = [r \in Tokens |->
         IF r = t THEN "OPEN"
         ELSE IF Open(r) /\ purpose[r] = p THEN "REVOKED" ELSE tokenRow[r]]
    /\ purpose' = [purpose EXCEPT ![t] = p]
    /\ issuedUnder' = [issuedUnder EXCEPT ![t] = password']
    /\ UNCHANGED lapsed

\* Sets revoked_at of the open tokens.
RevokeTokens ==
  /\ tokenRow' = [t \in Tokens |-> IF Open(t) THEN "REVOKED" ELSE tokenRow[t]]
  /\ UNCHANGED <<purpose, lapsed, issuedUnder>>

\* Consumes one token and revokes the other open ones.
SpendToken(t) ==
  /\ tokenRow' = [r \in Tokens |->
       IF r = t THEN "CONSUMED" ELSE IF Open(r) THEN "REVOKED" ELSE tokenRow[r]]
  /\ UNCHANGED <<purpose, lapsed, issuedUnder>>

\* The clock passes expires_at.
TokenExpires(t) ==
  /\ Open(t) /\ ~lapsed[t]
  /\ lapsed' = [lapsed EXCEPT ![t] = TRUE]
  /\ UNCHANGED <<memberVars, sessionVars, tokenRow, purpose, issuedUnder>>
=============================================================================
