------------------------------ MODULE AuthMembers ------------------------------
(***************************************************************************)
(* The commands of organization-admin.service.ts on a member's account.    *)
(* They take the lock of the organization's directory; resetMemberPassword *)
(* takes the password lock as well, updateMember does not.                 *)
(*                                                                         *)
(* Whether the administrator may manage this member, and whether another   *)
(* active owner remains, is left open here.                                *)
(***************************************************************************)
EXTENDS AuthRecovery

CreateMember ==
  /\ status = "NONE"
  /\ status' = "ACTIVE" /\ employment' = "ACTIVE" /\ mustChange' = TRUE
  /\ SetPassword
  /\ UNCHANGED <<sessionVars, tokenVars, authVars>>

\* Bug: the links of a disabled member stay open.
BugDisable == RevokeSessions(Sessions) /\ UNCHANGED tokenVars

Disable == RevokeSessions(Sessions) /\ RevokeTokens

EmploymentFor(s) == IF s = "ACTIVE" THEN "ACTIVE" ELSE "SUSPENDED"

\* updateMember with a status; the other fields are not modelled.
UpdateMember(s) ==
  /\ status # "NONE"
  /\ status' = s /\ employment' = EmploymentFor(s)
  /\ IF s = "ACTIVE"
       THEN UNCHANGED <<sessionRow, tokenVars>>
       ELSE Disable
  /\ UNCHANGED <<password, mustChange, age, pair, under, authVars>>

ResetMemberPassword ==
  /\ status # "NONE" /\ PasswordFlow
  /\ SetPassword /\ mustChange' = TRUE
  /\ RevokeSessions(Sessions) /\ RevokeTokens
  /\ UNCHANGED <<status, employment, age, pair, under, authVars>>
=============================================================================
