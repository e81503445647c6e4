------------------------------- MODULE AuthSystem -------------------------------
(***************************************************************************)
(* A member's account with everyone who works on it: the member's own      *)
(* requests, links, administrators and the clock.                          *)
(***************************************************************************)
EXTENDS AuthMembers

vars == <<accountVars, authVars>>

Init == AccountInit /\ SessionsInit

SessionStep ==
  \/ Register
  \/ LoginVerify
  \/ \E h \in Passwords, s \in Sessions : LoginCommit(h, s)
  \/ \E s \in Sessions : RefreshRead(s)
  \/ \E s \in Sessions, n \in Pairs : RefreshRotate(s, n)
  \/ \E s \in Sessions : Authenticate(s)
  \/ \E s \in Sessions : ChangeVerify(s)
  \/ \E s \in Sessions, h \in Passwords : ChangeCommit(s, h)
  \/ \E s \in Sessions : Logout(s)

RecoveryStep ==
  \/ ResetLock
  \/ ResetIssue
  \/ \E t \in Tokens : AcceptRead(t)
  \/ \E t \in Tokens : AcceptCommit(t)
  \/ Invite
  \/ Resend

AdminStep ==
  \/ CreateMember
  \/ \E s \in {"ACTIVE", "INACTIVE", "LOCKED"} : UpdateMember(s)
  \/ ResetMemberPassword

Clock ==
  \/ \E s \in Sessions : AccessExpires(s)
  \/ \E s \in Sessions : RefreshExpires(s)
  \/ \E t \in Tokens : TokenExpires(t)

Next ==
  \/ SessionStep
  \/ RecoveryStep
  \/ AdminStep
  \/ Clock /\ UNCHANGED authVars

Spec == Init /\ [][Next]_vars

-----------------------------------------------------------------------------
(* Type correctness of the account's rows and of what requests have read. *)
TypeOK == AccountTypeOK /\ SessionsTypeOK

(* Whoever still has a session or an open link got it under the password the
   account has now: a change, a reset or an invitation that races with a login, a
   refresh or another link leaves nothing of the old one behind. *)
NothingOutlivesPassword ==
  /\ \A s \in Sessions : Live(s) => under[s] = password
  /\ \A t \in Tokens : Open(t) => issuedUnder[t] = password

(* A member never has two open links of a purpose, so an earlier mail is worthless
   once a later one is sent, and the unique index never refuses an insert. *)
OneOpenTokenPerPurpose ==
  \A t, u \in Tokens : Open(t) /\ Open(u) /\ purpose[t] = purpose[u] => t = u

(* Nobody is employed who may not sign in, and a member whose employment is still
   pending has never signed in and has a password of somebody else's choice. *)
EmploymentFollows ==
  /\ employment = "ACTIVE" => status = "ACTIVE"
  /\ employment = "PENDING" => 
       status = "INACTIVE" /\ mustChange /\ \A s \in Sessions : sessionRow[s] = "ABSENT"

(* A refresh token buys one new pair: of two requests that present it, also when
   both have found it valid, only one is answered. *)
ExchangedOnce ==
  \A a, b \in answered : a[1] = b[1] /\ a[2] = b[2] => a = b

\* Token t, which has been open until now, sets the password.
Spends(t) == Open(t) /\ tokenRow'[t] = "CONSUMED"

(* A disabled member becomes active again through an administrator, or by an
   invitation that is still open then: never by a link from before. *)
ReactivatedOnPurpose ==
  [][(status \in {"INACTIVE", "LOCKED"}) /\ status' = "ACTIVE" =>
       (UNCHANGED <<password, tokenVars>>
         \/ \E t \in Tokens : Spends(t) /\ purpose[t] = "MEMBER_INVITATION")]_vars

(* A password is replaced only by an administrator, who leaves it to be changed, or
   by someone who has shown that very password or a link sent while it was valid. *)
ReplacedByProof ==
  [][password' # password =>
       (mustChange' \/ status = "NONE"
         \/ (\E s \in Sessions : <<s, password>> \in changing)
         \/ (\E t \in accepting : Spends(t) /\ issuedUnder[t] = password))]_vars

(* The account implements AccountAccess. *)
Access == INSTANCE AccountAccess
  WITH Doors <- Sessions, Links <- Tokens, secret <- password,
       doors <- {s \in Sessions : Live(s)},
       shut <- {s \in Sessions : sessionRow[s] = "REVOKED"},
       links <- {t \in Tokens : Open(t)},
       spent <- {t \in Tokens : tokenRow[t] \in {"CONSUMED", "REVOKED"}}

ImplementsAccess == Access!AccessSpec

(* Disabling a member ends all of the member's sessions (docs/adr/0005 section 4.3),
   so a disabled member has none. *)
DisabledHasNoSession == status # "ACTIVE" => \A s \in Sessions : ~Live(s)
=============================================================================
