----------------------------- MODULE AuthRecovery -----------------------------
(***************************************************************************)
(* auth-recovery.service.ts and member-invitation.service.ts: links that   *)
(* let a member set a password, to recover an account or to join.          *)
(*                                                                         *)
(* Sending the link and recording how that went touch no column a decision *)
(* reads and are left out.                                                 *)
(***************************************************************************)
EXTENDS AuthSessions

-----------------------------------------------------------------------------
\* findEligibleIdentity: by the member's own address, else by a work address
\* that one member alone uses; either way the status decides.
EligibleIdentity == status = "ACTIVE"

\* requestPasswordReset, up to the check of the status under the lock.
ResetLock ==
  /\ PasswordFlow /\ EligibleIdentity /\ TokensLeft
  /\ resetting' = TRUE
  /\ UNCHANGED <<accountVars, requestVars, answered>>

\* requestPasswordReset, the rest.  Disabling the member takes another lock and
\* may have come in between.
ResetIssue ==
  /\ resetting /\ resetting' = FALSE
  /\ UNCHANGED password
  /\ ReplaceToken("PASSWORD_RESET")
  /\ UNCHANGED <<status, employment, mustChange, sessionVars, requestVars, answered>>

-----------------------------------------------------------------------------
\* isConsumable.
Consumable(t) ==
  /\ Open(t) /\ ~lapsed[t]
  /\ status \in (IF purpose[t] = "PASSWORD_RESET" THEN {"ACTIVE"} ELSE {"ACTIVE", "INACTIVE"})

\* consumeActionToken: the token is found consumable, before the lock.
AcceptRead(t) ==
  /\ MoreReads /\ Consumable(t)
  /\ accepting' = accepting \cup {t}
  /\ UNCHANGED <<accountVars, verified, principals, changing, presented, answered, resetting>>

\* Bug: the token is consumed by its id alone.
BugStillOpen(t) == tokenRow[t] # "ABSENT"

\* The update under the lock finds it neither consumed nor revoked; it compares
\* expires_at with the time of the read.
StillOpen(t) == Open(t)

\* Bug: only the token itself is ended.
BugEndLinks(t) ==
  /\ tokenRow' = [tokenRow EXCEPT ![t] = "CONSUMED"]
  /\ UNCHANGED <<purpose, lapsed, issuedUnder>>

EndLinks(t) == SpendToken(t)

\* consumeActionToken: under the lock.  A reset does not look at the status
\* again; an invitation makes an INACTIVE member ACTIVE and fails for a LOCKED
\* one.
AcceptCommit(t) ==
  /\ t \in accepting /\ PasswordFlow /\ StillOpen(t)
  /\ SetPassword /\ mustChange' = FALSE
  /\ IF purpose[t] = "MEMBER_INVITATION"
       THEN /\ status \in {"ACTIVE", "INACTIVE"} /\ status' = "ACTIVE"
            /\ employment' = IF employment = "PENDING" THEN "ACTIVE" ELSE employment
       ELSE UNCHANGED <<status, employment>>
  /\ RevokeSessions(Sessions) /\ UNCHANGED <<age, pair, under>>
  /\ EndLinks(t)
  /\ UNCHANGED <<authVars>>

-----------------------------------------------------------------------------
\* MemberInvitationService.invite.
Invite ==
  /\ status = "NONE"
  /\ status' = "INACTIVE" /\ employment' = "PENDING" /\ mustChange' = TRUE
  /\ UNCHANGED password
  /\ ReplaceToken("MEMBER_INVITATION")
  /\ UNCHANGED <<sessionVars, authVars>>

IsInvitation(t) == tokenRow[t] # "ABSENT" /\ purpose[t] = "MEMBER_INVITATION"

\* The latest invitation has not been accepted.
CanResend ==
  \E t \in Tokens :
    /\ IsInvitation(t) /\ tokenRow[t] # "CONSUMED"
    /\ \A r \in Tokens : r > t => ~IsInvitation(r)

\* Bug: the earlier invitation stays open.
BugReplaceInvitation ==
  \E t \in Tokens :
    /\ IsNextToken(t)
    /\ tokenRow' = [tokenRow EXCEPT ![t] = "OPEN"]
    /\ purpose' = [purpose EXCEPT ![t] = "MEMBER_INVITATION"]
    /\ issuedUnder' = [issuedUnder EXCEPT ![t] = password]
    /\ UNCHANGED lapsed

ReplaceInvitation == ReplaceToken("MEMBER_INVITATION")

\* MemberInvitationService.resend, whatever the member's status.
Resend ==
  /\ PasswordFlow /\ CanResend
  /\ UNCHANGED password
  /\ ReplaceInvitation
  /\ UNCHANGED <<status, employment, mustChange, sessionVars, authVars>>
=============================================================================
