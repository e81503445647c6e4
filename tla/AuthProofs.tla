------------------------------ MODULE AuthProofs ------------------------------
(***************************************************************************)
(* Theorems about AuthSystem for every number of sessions, links,          *)
(* passwords, token pairs and outstanding requests, and about RateLimits,  *)
(* for any buckets, limits and requests at once.                           *)
(***************************************************************************)
EXTENDS AuthSystem, RateLimits, FiniteSetTheorems, TLAPS

-----------------------------------------------------------------------------
(* Members, sessions, passwords and recovery.                              *)

\* Before the insert there is nothing at all.
Unborn ==
  /\ status = "NONE" <=> employment = "NONE"
  /\ status = "NONE" => password = Placeholder /\ \A t \in Tokens : tokenRow[t] = "ABSENT"

\* Until the member has been active nobody can have signed in, be changing the
\* password or have asked for a reset: the only links are invitations.
Untouched ==
  employment \in {"NONE", "PENDING"} =>
    /\ verified = {} /\ principals = {} /\ changing = {} /\ ~resetting
    /\ \A s \in Sessions : sessionRow[s] = "ABSENT"
    /\ \A t \in Tokens : Open(t) => purpose[t] = "MEMBER_INVITATION"

\* Pairs are answered in order and a pair that has been exchanged is past.
InOrder == \A a \in answered : a[3] = a[2] + 1 /\ a[2] < pair[a[1]]

AuthInv ==
  /\ TypeOK /\ Unborn /\ Untouched /\ InOrder
  /\ NothingOutlivesPassword /\ OneOpenTokenPerPurpose /\ EmploymentFollows

-----------------------------------------------------------------------------

USE DEF memberVars, sessionVars, tokenVars, accountVars, requestVars, authVars, vars

LEMMA ConstantsFit ==
  /\ 1 \in Sessions /\ 1 \in Pairs /\ 1 \in Passwords
  /\ \A h \in Passwords : h \in Nat /\ h # Placeholder
  /\ \A n \in Pairs : n \in Nat
  /\ MaxPasswords \in Nat /\ MaxPairs \in Nat
BY AccountAssumption DEF Sessions, Pairs, Passwords, Placeholder

LEMMA NextPassword ==
  ASSUME password \in Passwords \cup {Placeholder}, SetPassword
  PROVE  password' \in Passwords /\ password' # password /\ password' = password + 1
BY AccountAssumption DEF Passwords, Placeholder, SetPassword

LEMMA InitHolds == Init => AuthInv
<1> SUFFICES ASSUME Init PROVE AuthInv
  OBVIOUS
<1> USE ConstantsFit DEF Init, AccountInit, SessionsInit
<1>1. TypeOK
  BY DEF TypeOK, AccountTypeOK, SessionsTypeOK, Purposes
<1>2. Unborn /\ Untouched /\ InOrder
  BY DEF Unborn, Untouched, InOrder, Open
<1>3. NothingOutlivesPassword /\ OneOpenTokenPerPurpose /\ EmploymentFollows
  BY DEF NothingOutlivesPassword, OneOpenTokenPerPurpose, EmploymentFollows, Live, Open
<1> QED BY <1>1, <1>2, <1>3 DEF AuthInv

-----------------------------------------------------------------------------
(* Requests that read.                                                     *)

\* Reading leaves the account alone, and happens to a member who is or was active.
Reads ==
  /\ UNCHANGED <<accountVars, answered, resetting>>
  /\ SessionsTypeOK'
  /\ \/ UNCHANGED <<verified, principals, changing>>
     \/ employment \notin {"NONE", "PENDING"}

LEMMA ReadersRead ==
  ASSUME AuthInv,
         \/ LoginVerify \/ (\E s \in Sessions : RefreshRead(s) \/ Authenticate(s) \/ ChangeVerify(s))
         \/ \E t \in Tokens : AcceptRead(t)
  PROVE  Reads
<1> USE ConstantsFit DEF AuthInv, TypeOK, AccountTypeOK, SessionsTypeOK, Reads
<1>1. CASE LoginVerify
  BY <1>1 DEF LoginVerify, Unborn, EmploymentFollows
<1>2. ASSUME NEW s \in Sessions, RefreshRead(s)
      PROVE  Reads
  BY <1>2 DEF RefreshRead
<1>3. ASSUME NEW s \in Sessions, Authenticate(s)
      PROVE  Reads
  BY <1>3 DEF Authenticate, EmploymentFollows, Untouched, Live
<1>4. ASSUME NEW s \in Sessions, ChangeVerify(s)
      PROVE  Reads
  BY <1>4 DEF ChangeVerify, Untouched
<1>5. ASSUME NEW t \in Tokens, AcceptRead(t)
      PROVE  Reads
  BY <1>5 DEF AcceptRead
<1> QED BY <1>1, <1>2, <1>3, <1>4, <1>5

LEMMA ReadsKeep ==
  ASSUME AuthInv, Reads
  PROVE  AuthInv'
<1> USE DEF AuthInv, Reads
<1>1. TypeOK'
  BY DEF TypeOK, AccountTypeOK
<1>2. Unborn' /\ Untouched' /\ InOrder'
  BY DEF Unborn, Untouched, InOrder, Open
<1>3. NothingOutlivesPassword' /\ OneOpenTokenPerPurpose' /\ EmploymentFollows'
  BY DEF NothingOutlivesPassword, OneOpenTokenPerPurpose, EmploymentFollows, Live, Open
<1> QED BY <1>1, <1>2, <1>3

-----------------------------------------------------------------------------
(* Requests that write, links and administrators.  One lemma an action.    *)

LEMMA RegisterKeeps ==
  ASSUME AuthInv, Register
  PROVE  AuthInv'
<1> USE ConstantsFit, NextPassword DEF AuthInv, Register, CreateSession
<1>1. TypeOK'
  BY DEF TypeOK, AccountTypeOK, SessionsTypeOK
<1>2. Unborn' /\ Untouched' /\ InOrder'
  BY DEF Unborn, Untouched, InOrder, Open
<1>3. NothingOutlivesPassword' /\ OneOpenTokenPerPurpose' /\ EmploymentFollows'
  BY DEF Unborn, Untouched, NothingOutlivesPassword, OneOpenTokenPerPurpose, EmploymentFollows,
         Live, Open, TypeOK, AccountTypeOK
<1> QED BY <1>1, <1>2, <1>3

LEMMA LoginKeeps ==
  ASSUME AuthInv, NEW h \in Passwords, NEW s \in Sessions, LoginCommit(h, s)
  PROVE  AuthInv'
<1> USE DEF AuthInv, LoginCommit, CreateSession
<1>1. TypeOK'
  BY DEF TypeOK, AccountTypeOK, SessionsTypeOK
<1>2. Unborn' /\ Untouched' /\ InOrder'
  BY DEF Unborn, Untouched, InOrder, Open
<1>3. NothingOutlivesPassword' /\ OneOpenTokenPerPurpose'
  BY DEF NothingOutlivesPassword, OneOpenTokenPerPurpose, UnchangedHash, Live, Open, TypeOK, AccountTypeOK
<1>4. EmploymentFollows'
  BY DEF EmploymentFollows, Untouched
<1> QED BY <1>1, <1>2, <1>3, <1>4

LEMMA RotateKeeps ==
  ASSUME AuthInv, NEW s \in Sessions, NEW n \in Pairs, RefreshRotate(s, n)
  PROVE  AuthInv'
<1> USE ConstantsFit DEF AuthInv, RefreshRotate, StillPresented
<1>0. pair[s] \in Pairs /\ pair[s] + 1 \in Pairs
  BY AccountAssumption DEF TypeOK, AccountTypeOK, Pairs
<1>1. TypeOK'
  BY <1>0 DEF TypeOK, AccountTypeOK, SessionsTypeOK
<1>2. Unborn' /\ Untouched'
  BY DEF Unborn, Untouched, Open
<1>3. InOrder'
  <2> SUFFICES ASSUME NEW a \in answered'
               PROVE  a[3] = a[2] + 1 /\ a[2] < pair'[a[1]]
    BY DEF InOrder
  <2>1. CASE a \in answered
    BY <1>0, <2>1 DEF InOrder, TypeOK, AccountTypeOK, SessionsTypeOK
  <2>2. CASE a = <<s, n, pair[s] + 1>>
    BY <1>0, <2>2 DEF TypeOK, AccountTypeOK
  <2> QED BY <2>1, <2>2
<1>4. NothingOutlivesPassword' /\ OneOpenTokenPerPurpose' /\ EmploymentFollows'
  BY DEF NothingOutlivesPassword, OneOpenTokenPerPurpose, EmploymentFollows, Live, Open
<1> QED BY <1>1, <1>2, <1>3, <1>4

LEMMA ChangeKeeps ==
  ASSUME AuthInv, NEW s \in Sessions, NEW h \in Passwords, ChangeCommit(s, h)
  PROVE  AuthInv'
<1> USE ConstantsFit, NextPassword DEF AuthInv, ChangeCommit, RevokeSessions, RevokeTokens
<1>0. employment \notin {"NONE", "PENDING"}
  BY DEF Untouched
<1>1. TypeOK'
  BY DEF TypeOK, AccountTypeOK, SessionsTypeOK
<1>2. Unborn' /\ Untouched' /\ InOrder'
  BY <1>0 DEF Unborn, Untouched, InOrder
<1>3. NothingOutlivesPassword' /\ OneOpenTokenPerPurpose' /\ EmploymentFollows'
  BY <1>0 DEF NothingOutlivesPassword, OneOpenTokenPerPurpose, EmploymentFollows,
              Live, Open, TypeOK, AccountTypeOK
<1> QED BY <1>1, <1>2, <1>3

LEMMA LogoutKeeps ==
  ASSUME AuthInv, NEW s \in Sessions, Logout(s)
  PROVE  AuthInv'
<1> USE DEF AuthInv, Logout, RevokeSessions
<1>1. TypeOK'
  BY DEF TypeOK, AccountTypeOK, SessionsTypeOK
<1>2. Unborn' /\ Untouched' /\ InOrder'
  BY DEF Unborn, Untouched, InOrder, Live, Open
<1>3. NothingOutlivesPassword' /\ OneOpenTokenPerPurpose' /\ EmploymentFollows'
  BY DEF NothingOutlivesPassword, OneOpenTokenPerPurpose, EmploymentFollows, Untouched, Live, Open
<1> QED BY <1>1, <1>2, <1>3

LEMMA ResetLockKeeps ==
  ASSUME AuthInv, ResetLock
  PROVE  AuthInv'
<1> USE DEF AuthInv, ResetLock, EligibleIdentity
<1>1. TypeOK'
  BY DEF TypeOK, AccountTypeOK, SessionsTypeOK
<1>2. Unborn' /\ Untouched' /\ InOrder'
  BY DEF Unborn, Untouched, InOrder, EmploymentFollows, Open
<1>3. NothingOutlivesPassword' /\ OneOpenTokenPerPurpose' /\ EmploymentFollows'
  BY DEF NothingOutlivesPassword, OneOpenTokenPerPurpose, EmploymentFollows, Live, Open
<1> QED BY <1>1, <1>2, <1>3

\* A new link takes the place of the open one of its purpose.
LEMMA Replaced ==
  ASSUME AuthInv, NEW p \in Purposes, ReplaceToken(p), UNCHANGED password
  PROVE  /\ tokenRow' \in [Tokens -> {"ABSENT", "OPEN", "CONSUMED", "REVOKED"}]
         /\ purpose' \in [Tokens -> Purposes]
         /\ lapsed' \in [Tokens -> BOOLEAN]
         /\ issuedUnder' \in [Tokens -> Passwords \cup {Placeholder}]
         /\ OneOpenTokenPerPurpose'
         /\ \A t \in Tokens : Open(t)' => issuedUnder'[t] = password
         /\ \A t \in Tokens : Open(t)' => purpose'[t] = p \/ (Open(t) /\ purpose'[t] = purpose[t])
<1> PICK t \in Tokens :
      /\ IsNextToken(t)
      /\ tokenRow' = [r \in Tokens |->
           IF r = t THEN "OPEN"
           ELSE IF Open(r) /\ purpose[r] = p THEN "REVOKED" ELSE tokenRow[r]]
      /\ purpose' = [purpose EXCEPT ![t] = p]
      /\ issuedUnder' = [issuedUnder EXCEPT ![t] = password']
      /\ UNCHANGED lapsed
  BY DEF ReplaceToken
<1> USE DEF AuthInv, TypeOK, AccountTypeOK
<1>1. OneOpenTokenPerPurpose'
  BY DEF OneOpenTokenPerPurpose, Open
<1>2. \A r \in Tokens : Open(r)' => issuedUnder'[r] = password
  BY DEF NothingOutlivesPassword, Open
<1>3. \A r \in Tokens : Open(r)' => purpose'[r] = p \/ (Open(r) /\ purpose'[r] = purpose[r])
  BY DEF Open
<1>4. tokenRow' \in [Tokens -> {"ABSENT", "OPEN", "CONSUMED", "REVOKED"}]
  BY DEF Open
<1>5. /\ purpose' \in [Tokens -> Purposes] /\ lapsed' \in [Tokens -> BOOLEAN]
      /\ issuedUnder' \in [Tokens -> Passwords \cup {Placeholder}]
  OBVIOUS
<1> HIDE DEF AuthInv
<1> QED BY ONLY <1>1, <1>2, <1>3, <1>4, <1>5

LEMMA ResetIssueKeeps ==
  ASSUME AuthInv, ResetIssue
  PROVE  AuthInv'
<1> USE DEF AuthInv, ResetIssue
<1>0. employment \notin {"NONE", "PENDING"} /\ "PASSWORD_RESET" \in Purposes
  BY DEF Untouched, Purposes
<1>1. TypeOK'
  BY <1>0, Replaced DEF TypeOK, AccountTypeOK, SessionsTypeOK
<1>2. Unborn' /\ Untouched' /\ InOrder'
  BY <1>0 DEF Unborn, Untouched, InOrder
<1>3. NothingOutlivesPassword' /\ OneOpenTokenPerPurpose' /\ EmploymentFollows'
  BY <1>0, Replaced DEF NothingOutlivesPassword, EmploymentFollows, Live, Open
<1> QED BY <1>1, <1>2, <1>3

LEMMA AcceptKeeps ==
  ASSUME AuthInv, NEW t \in Tokens, AcceptCommit(t)
  PROVE  AuthInv'
<1> USE ConstantsFit, NextPassword
    DEF AuthInv, AcceptCommit, StillOpen, EndLinks, SpendToken, RevokeSessions
<1>0. status # "NONE" /\ employment # "NONE" /\ employment' # "PENDING"
  BY DEF Unborn, Untouched, EmploymentFollows, Open, TypeOK, AccountTypeOK
<1>1. TypeOK'
  BY DEF TypeOK, AccountTypeOK, SessionsTypeOK
<1>2. Unborn' /\ Untouched' /\ InOrder'
  BY <1>0 DEF Unborn, Untouched, InOrder
<1>3. NothingOutlivesPassword' /\ OneOpenTokenPerPurpose' /\ EmploymentFollows'
  BY <1>0 DEF NothingOutlivesPassword, OneOpenTokenPerPurpose, EmploymentFollows,
              Live, Open, TypeOK, AccountTypeOK
<1> QED BY <1>1, <1>2, <1>3

LEMMA InviteKeeps ==
  ASSUME AuthInv, Invite
  PROVE  AuthInv'
<1> USE DEF AuthInv, Invite
<1>0. "MEMBER_INVITATION" \in Purposes /\ \A t \in Tokens : ~Open(t)
  BY DEF Purposes, Unborn, Open
<1>1. TypeOK'
  BY <1>0, Replaced DEF TypeOK, AccountTypeOK, SessionsTypeOK
<1>2. Unborn' /\ InOrder'
  BY DEF Unborn, InOrder
<1>3. Untouched'
  BY <1>0, Replaced DEF Unborn, Untouched, Open
<1>4. NothingOutlivesPassword' /\ OneOpenTokenPerPurpose' /\ EmploymentFollows'
  BY <1>0, Replaced DEF NothingOutlivesPassword, EmploymentFollows, Unborn, Untouched, Live, Open
<1> QED BY <1>1, <1>2, <1>3, <1>4

LEMMA ResendKeeps ==
  ASSUME AuthInv, Resend
  PROVE  AuthInv'
<1> USE DEF AuthInv, Resend, ReplaceInvitation
<1>0. "MEMBER_INVITATION" \in Purposes /\ status # "NONE"
  BY DEF Purposes, Unborn, CanResend, IsInvitation
<1>1. TypeOK'
  BY <1>0, Replaced DEF TypeOK, AccountTypeOK, SessionsTypeOK
<1>2. Unborn' /\ InOrder'
  BY <1>0 DEF Unborn, InOrder
<1>3. Untouched'
  BY <1>0, Replaced DEF Untouched, Open
<1>4. NothingOutlivesPassword' /\ OneOpenTokenPerPurpose' /\ EmploymentFollows'
  BY <1>0, Replaced DEF NothingOutlivesPassword, EmploymentFollows, Live, Open
<1> QED BY <1>1, <1>2, <1>3, <1>4

LEMMA CreateMemberKeeps ==
  ASSUME AuthInv, CreateMember
  PROVE  AuthInv'
<1> USE ConstantsFit, NextPassword DEF AuthInv, CreateMember
<1>1. TypeOK'
  BY DEF TypeOK, AccountTypeOK, SessionsTypeOK
<1>2. Unborn' /\ Untouched' /\ InOrder'
  BY DEF Unborn, Untouched, InOrder
<1>3. NothingOutlivesPassword' /\ OneOpenTokenPerPurpose' /\ EmploymentFollows'
  BY DEF NothingOutlivesPassword, OneOpenTokenPerPurpose, EmploymentFollows, Unborn, Untouched, Live, Open
<1> QED BY <1>1, <1>2, <1>3

LEMMA UpdateMemberKeeps ==
  ASSUME AuthInv, NEW s \in {"ACTIVE", "INACTIVE", "LOCKED"}, UpdateMember(s)
  PROVE  AuthInv'
<1> USE DEF AuthInv, UpdateMember, EmploymentFor, Disable, RevokeSessions, RevokeTokens
<1>1. TypeOK'
  BY DEF TypeOK, AccountTypeOK, SessionsTypeOK
<1>2. Unborn' /\ Untouched' /\ InOrder'
  BY DEF Unborn, Untouched, InOrder
<1>3. NothingOutlivesPassword' /\ OneOpenTokenPerPurpose' /\ EmploymentFollows'
  BY DEF NothingOutlivesPassword, OneOpenTokenPerPurpose, EmploymentFollows, Live, Open
<1> QED BY <1>1, <1>2, <1>3

LEMMA ResetMemberKeeps ==
  ASSUME AuthInv, ResetMemberPassword
  PROVE  AuthInv'
<1> USE ConstantsFit, NextPassword DEF AuthInv, ResetMemberPassword, RevokeSessions, RevokeTokens
<1>1. TypeOK'
  BY DEF TypeOK, AccountTypeOK, SessionsTypeOK
<1>2. Unborn' /\ Untouched' /\ InOrder'
  BY DEF Unborn, Untouched, InOrder, Live, Open
<1>3. NothingOutlivesPassword' /\ OneOpenTokenPerPurpose' /\ EmploymentFollows'
  BY DEF NothingOutlivesPassword, OneOpenTokenPerPurpose, EmploymentFollows, Live, Open
<1> QED BY <1>1, <1>2, <1>3

LEMMA ClockKeeps ==
  ASSUME AuthInv, Clock, UNCHANGED authVars
  PROVE  AuthInv'
<1> USE DEF AuthInv
<1>1. /\ age' \in [Sessions -> {"FRESH", "STALE", "EXPIRED"}]
      /\ lapsed' \in [Tokens -> BOOLEAN]
      /\ UNCHANGED <<memberVars, sessionRow, pair, under, tokenRow, purpose, issuedUnder>>
  BY DEF Clock, AccessExpires, RefreshExpires, TokenExpires, TypeOK, AccountTypeOK
<1>2. TypeOK'
  BY <1>1 DEF TypeOK, AccountTypeOK, SessionsTypeOK
<1>3. Unborn' /\ Untouched' /\ InOrder'
  BY <1>1 DEF Unborn, Untouched, InOrder, Open
<1>4. NothingOutlivesPassword' /\ OneOpenTokenPerPurpose' /\ EmploymentFollows'
  BY <1>1 DEF NothingOutlivesPassword, OneOpenTokenPerPurpose, EmploymentFollows, Live, Open
<1> QED BY <1>2, <1>3, <1>4

-----------------------------------------------------------------------------
(* Theorems.                                                               *)

LEMMA NextKeeps ==
  ASSUME AuthInv, [Next]_vars
  PROVE  AuthInv'
<1>1. CASE SessionStep
  BY <1>1, ReadersRead, ReadsKeep, RegisterKeeps, LoginKeeps, RotateKeeps, ChangeKeeps, LogoutKeeps
     DEF SessionStep
<1>2. CASE RecoveryStep
  BY <1>2, ReadersRead, ReadsKeep, ResetLockKeeps, ResetIssueKeeps, AcceptKeeps, InviteKeeps, ResendKeeps
     DEF RecoveryStep
<1>3. CASE AdminStep
  BY <1>3, CreateMemberKeeps, UpdateMemberKeeps, ResetMemberKeeps DEF AdminStep
<1>4. CASE Clock /\ UNCHANGED authVars
  BY <1>4, ClockKeeps
<1>5. CASE UNCHANGED vars
  <2> USE <1>5 DEF AuthInv
  <2>1. TypeOK'
    BY DEF TypeOK, AccountTypeOK, SessionsTypeOK
  <2>2. Unborn' /\ Untouched' /\ InOrder'
    BY DEF Unborn, Untouched, InOrder, Open
  <2>3. NothingOutlivesPassword' /\ OneOpenTokenPerPurpose' /\ EmploymentFollows'
    BY DEF NothingOutlivesPassword, OneOpenTokenPerPurpose, EmploymentFollows, Live, Open
  <2> QED BY <2>1, <2>2, <2>3
<1> QED BY <1>1, <1>2, <1>3, <1>4, <1>5 DEF Next

(* The invariant behind the other theorems. *)
THEOREM AuthInvariant == Spec => []AuthInv
<1>1. AuthInv /\ [Next]_vars => AuthInv'
  BY NextKeeps
<1> QED BY InitHolds, <1>1, PTL DEF Spec

(* The tables keep their types. *)
THEOREM AccountTypes == Spec => []TypeOK
BY AuthInvariant, PTL DEF AuthInv

(* Nothing that was opened under an old password survives the next. *)
THEOREM OldPasswordsEnd == Spec => []NothingOutlivesPassword
BY AuthInvariant, PTL DEF AuthInv

(* A member never has two open links of a purpose. *)
THEOREM LinksAreSingle == Spec => []OneOpenTokenPerPurpose
BY AuthInvariant, PTL DEF AuthInv

(* The employment follows the member's status. *)
THEOREM EmploymentIsMeant == Spec => []EmploymentFollows
BY AuthInvariant, PTL DEF AuthInv

(* A refresh token is exchanged once. *)
THEOREM RefreshedOnce == Spec => []ExchangedOnce
<1>1. AuthInv => ExchangedOnce
  <2> SUFFICES ASSUME AuthInv, NEW a \in answered, NEW b \in answered, a[1] = b[1], a[2] = b[2]
               PROVE  a = b
    BY DEF ExchangedOnce
  <2>1. a \in Sessions \X Pairs \X Pairs /\ b \in Sessions \X Pairs \X Pairs
    BY DEF AuthInv, TypeOK, SessionsTypeOK
  <2>2. a[3] = b[3]
    BY DEF AuthInv, InOrder
  <2> QED BY <2>1, <2>2
<1> QED BY <1>1, AuthInvariant, PTL

\* Passwords, statuses and links do not move in the other steps.
LEMMA OthersKeep ==
  ASSUME Next
  PROVE  \/ UNCHANGED <<status, password, tokenRow, issuedUnder, purpose>>
         \/ status = "NONE" \/ ResetMemberPassword
         \/ ResetIssue \/ Resend
         \/ \E s \in {"ACTIVE", "INACTIVE", "LOCKED"} : UpdateMember(s)
         \/ \E s \in Sessions, h \in Passwords : ChangeCommit(s, h)
         \/ \E t \in Tokens : AcceptCommit(t)
<1>1. CASE SessionStep
  BY <1>1 DEF SessionStep, Register, LoginVerify, LoginCommit, RefreshRead, RefreshRotate,
              Authenticate, ChangeVerify, Logout
<1>2. CASE RecoveryStep
  BY <1>2 DEF RecoveryStep, ResetLock, EligibleIdentity, AcceptRead, Invite
<1>3. CASE AdminStep
  BY <1>3 DEF AdminStep, CreateMember
<1>4. CASE Clock
  BY <1>4 DEF Clock, AccessExpires, RefreshExpires, TokenExpires
<1> QED BY <1>1, <1>2, <1>3, <1>4 DEF Next

LEMMA AcceptSpends ==
  ASSUME AuthInv, NEW t \in Tokens, AcceptCommit(t)
  PROVE  t \in accepting /\ Spends(t) /\ issuedUnder[t] = password
BY DEF AuthInv, NothingOutlivesPassword, AcceptCommit, StillOpen, EndLinks, SpendToken, Spends, Open

(* A disabled member becomes active only through an administrator or an open
   invitation. *)
THEOREM ComesBackOnPurpose == Spec => ReactivatedOnPurpose
<1> DEFINE Kept ==
      (status \in {"INACTIVE", "LOCKED"}) /\ status' = "ACTIVE" =>
        (UNCHANGED <<password, tokenVars>>
          \/ \E t \in Tokens : Spends(t) /\ purpose[t] = "MEMBER_INVITATION")
<1>1. AuthInv /\ [Next]_vars => Kept
  <2> SUFFICES ASSUME AuthInv, Next, status \in {"INACTIVE", "LOCKED"}, status' = "ACTIVE"
               PROVE  \/ UNCHANGED <<password, tokenVars>>
                      \/ \E t \in Tokens : Spends(t) /\ purpose[t] = "MEMBER_INVITATION"
    OBVIOUS
  <2>1. ASSUME NEW t \in Tokens, AcceptCommit(t)
        PROVE  Spends(t) /\ purpose[t] = "MEMBER_INVITATION"
    BY <2>1, AcceptSpends DEF AcceptCommit
  <2>2. ASSUME NEW s \in {"ACTIVE", "INACTIVE", "LOCKED"}, UpdateMember(s)
        PROVE  UNCHANGED <<password, tokenVars>>
    BY <2>2 DEF UpdateMember
  <2> QED BY <2>1, <2>2, OthersKeep DEF ResetMemberPassword, ResetIssue, Resend, ChangeCommit
<1> QED BY <1>1, AuthInvariant, PTL DEF Spec, ReactivatedOnPurpose

(* A password is replaced by an administrator, who leaves it to be changed, or by
   someone who has shown it or a link sent while it was valid. *)
THEOREM ReplacedRightly == Spec => ReplacedByProof
<1> DEFINE Proved ==
      password' # password =>
        (mustChange' \/ status = "NONE"
          \/ (\E s \in Sessions : <<s, password>> \in changing)
          \/ (\E t \in accepting : Spends(t) /\ issuedUnder[t] = password))
<1>1. AuthInv /\ [Next]_vars => Proved
  <2> SUFFICES ASSUME AuthInv, Next, password' # password, status # "NONE", ~mustChange'
               PROVE  \/ \E s \in Sessions : <<s, password>> \in changing
                      \/ \E t \in accepting : Spends(t) /\ issuedUnder[t] = password
    BY DEF AuthInv, TypeOK, AccountTypeOK
  <2>1. ASSUME NEW s \in Sessions, NEW h \in Passwords, ChangeCommit(s, h)
        PROVE  <<s, password>> \in changing
    BY <2>1 DEF ChangeCommit, SameHash
  <2>2. ASSUME NEW t \in Tokens, AcceptCommit(t)
        PROVE  t \in accepting /\ Spends(t) /\ issuedUnder[t] = password
    BY <2>2, AcceptSpends
  <2> QED BY <2>1, <2>2, OthersKeep DEF ResetMemberPassword, ResetIssue, Resend, UpdateMember
<1> QED BY <1>1, AuthInvariant, PTL DEF Spec, ReplacedByProof

-----------------------------------------------------------------------------
(* The refinement.                                                         *)

USE DEF Access!accessVars

LiveSessions == {s \in Sessions : Live(s)}
EndedSessions == {s \in Sessions : sessionRow[s] = "REVOKED"}
OpenLinks == {t \in Tokens : Open(t)}
SpentLinks == {t \in Tokens : tokenRow[t] \in {"CONSUMED", "REVOKED"}}

LEMMA SendIsStep ==
  ASSUME NEW t \in Tokens, NEW old \in SUBSET OpenLinks, Access!Send(t, old)
  PROVE  Access!AccessNext
BY Zenon DEF Access!AccessNext, OpenLinks

LEMMA EndIsStep ==
  ASSUME NEW S \in SUBSET LiveSessions, NEW old \in SUBSET OpenLinks, Access!End(S, old)
  PROVE  Access!AccessNext
BY Zenon DEF Access!AccessNext, LiveSessions, OpenLinks

LEMMA RenewIsStep ==
  ASSUME NEW kept \in SUBSET LiveSessions, Access!Renew(kept)
  PROVE  Access!AccessNext
BY Zenon DEF Access!AccessNext, LiveSessions

LEMMA RevokedEnd ==
  ASSUME AuthInv, NEW S \in SUBSET Sessions, RevokeSessions(S)
  PROVE  /\ LiveSessions' = LiveSessions \ S
         /\ EndedSessions' = EndedSessions \cup (LiveSessions \cap S)
BY DEF AuthInv, TypeOK, AccountTypeOK, RevokeSessions, LiveSessions, EndedSessions, Live

LEMMA RevokedLinksEnd ==
  ASSUME AuthInv, RevokeTokens \/ \E t \in Tokens : Open(t) /\ SpendToken(t)
  PROVE  OpenLinks' = {} /\ SpentLinks' = SpentLinks \cup OpenLinks
BY DEF AuthInv, TypeOK, AccountTypeOK, RevokeTokens, SpendToken, OpenLinks, SpentLinks, Open

LEMMA ReplacedIsSent ==
  ASSUME AuthInv, NEW p \in Purposes, ReplaceToken(p), UNCHANGED <<password, sessionRow>>
  PROVE  Access!AccessNext
<1> PICK t \in Tokens :
      /\ IsNextToken(t)
      /\ tokenRow' = [r \in Tokens |->
           IF r = t THEN "OPEN"
           ELSE IF Open(r) /\ purpose[r] = p THEN "REVOKED" ELSE tokenRow[r]]
  BY DEF ReplaceToken
<1> USE DEF AuthInv, TypeOK, AccountTypeOK, OpenLinks, SpentLinks, Open
<1> PICK old \in SUBSET OpenLinks : old = {r \in OpenLinks : purpose[r] = p}
  OBVIOUS
<1>1. t \notin OpenLinks \cup SpentLinks
  BY DEF IsNextToken
<1>2. OpenLinks' = (OpenLinks \ old) \cup {t}
  BY DEF IsNextToken
<1>3. SpentLinks' = SpentLinks \cup old
  BY DEF IsNextToken
<1>4. Access!Send(t, old)
  BY <1>1, <1>2, <1>3 DEF Access!Send, Live
<1> HIDE DEF OpenLinks
<1> QED BY <1>4, SendIsStep

LEMMA StutterIsStutter ==
  ASSUME UNCHANGED <<password, sessionRow, tokenRow>>
  PROVE  UNCHANGED Access!accessVars
BY DEF Live, Open

LEMMA AccessStep ==
  ASSUME AuthInv, Next
  PROVE  Access!AccessNext \/ UNCHANGED Access!accessVars
<1> USE DEF LiveSessions, EndedSessions, OpenLinks, SpentLinks
<1>1. CASE Register
  <2>1. sessionRow = [s \in Sessions |-> "ABSENT"]
    BY <1>1 DEF AuthInv, TypeOK, AccountTypeOK, Unborn, Untouched, Register
  <2>2. LiveSessions' = {1} /\ UNCHANGED EndedSessions
    BY <1>1, <2>1, ConstantsFit DEF Register, CreateSession, Live
  <2>3. Access!Begin(1)
    BY <1>1, <2>1, <2>2 DEF Access!Begin, Register, SetPassword, AuthInv, Unborn, Placeholder, Live, Open
  <2> QED BY <2>3, ConstantsFit DEF Access!AccessNext
<1>2. ASSUME NEW h \in Passwords, NEW s \in Sessions, LoginCommit(h, s)
      PROVE  Access!AccessNext
  <2>1. s \notin LiveSessions \cup EndedSessions
    BY <1>2 DEF LoginCommit, CreateSession, IsNextSession, Live
  <2>2. LiveSessions' = LiveSessions \cup {s} /\ UNCHANGED EndedSessions
    BY <1>2 DEF LoginCommit, CreateSession, IsNextSession, Live, AuthInv, TypeOK, AccountTypeOK
  <2>3. Access!Enter(s)
    BY <1>2, <2>1, <2>2 DEF Access!Enter, LoginCommit, CreateSession, Open
  <2> QED BY <2>3 DEF Access!AccessNext
<1>3. ASSUME NEW s \in Sessions, NEW h \in Passwords, ChangeCommit(s, h)
      PROVE  Access!AccessNext
  <2> PICK kept \in SUBSET LiveSessions : kept = LiveSessions \cap {s}
    OBVIOUS
  <2>1. LiveSessions' = kept /\ EndedSessions' = EndedSessions \cup (LiveSessions \ kept)
    BY <1>3, RevokedEnd, Sessions \ {s} \in SUBSET Sessions DEF ChangeCommit
  <2>2. OpenLinks' = {} /\ SpentLinks' = SpentLinks \cup OpenLinks
    BY <1>3, RevokedLinksEnd DEF ChangeCommit
  <2>3. Access!Renew(kept)
    BY <1>3, <2>1, <2>2 DEF Access!Renew, ChangeCommit, SetPassword
  <2> HIDE DEF LiveSessions
  <2> QED BY <2>3, RenewIsStep
<1>4. ASSUME NEW s \in Sessions, Logout(s)
      PROVE  Access!AccessNext
  <2>1. LiveSessions' = LiveSessions \ {s} /\ EndedSessions' = EndedSessions \cup (LiveSessions \cap {s})
    BY <1>4, RevokedEnd DEF Logout
  <2>2. Access!End(LiveSessions \cap {s}, {})
    BY <1>4, <2>1 DEF Access!End, Logout, Open
  <2> QED BY <2>2 DEF Access!AccessNext
<1>5. CASE ResetIssue \/ Resend \/ Invite
  BY <1>5, ReplacedIsSent DEF ResetIssue, Resend, Invite, ReplaceInvitation, Purposes
<1>6. ASSUME NEW t \in Tokens, AcceptCommit(t)
      PROVE  Access!AccessNext
  <2>1. LiveSessions' = {} /\ EndedSessions' = EndedSessions \cup LiveSessions
    BY <1>6, RevokedEnd DEF AcceptCommit
  <2>2. OpenLinks' = {} /\ SpentLinks' = SpentLinks \cup OpenLinks
    BY <1>6, RevokedLinksEnd DEF AcceptCommit, StillOpen, EndLinks
  <2>3. Access!Renew({})
    BY <1>6, <2>1, <2>2 DEF Access!Renew, AcceptCommit, SetPassword
  <2> QED BY <2>3 DEF Access!AccessNext
<1>7. CASE ResetMemberPassword
  <2>1. LiveSessions' = {} /\ EndedSessions' = EndedSessions \cup LiveSessions
    BY <1>7, RevokedEnd DEF ResetMemberPassword
  <2>2. OpenLinks' = {} /\ SpentLinks' = SpentLinks \cup OpenLinks
    BY <1>7, RevokedLinksEnd DEF ResetMemberPassword
  <2>3. Access!Renew({})
    BY <1>7, <2>1, <2>2 DEF Access!Renew, ResetMemberPassword, SetPassword
  <2> QED BY <2>3 DEF Access!AccessNext
<1>8. CASE CreateMember
  <2>1. LiveSessions = {} /\ OpenLinks = {}
    BY <1>8 DEF CreateMember, AuthInv, Unborn, Untouched, Live, Open
  <2>2. Access!Renew({})
    BY <1>8, <2>1 DEF Access!Renew, CreateMember, SetPassword, Live, Open
  <2> QED BY <2>2 DEF Access!AccessNext
<1>9. ASSUME NEW s \in {"ACTIVE", "INACTIVE", "LOCKED"}, UpdateMember(s)
      PROVE  Access!AccessNext \/ UNCHANGED Access!accessVars
  <2>1. CASE s = "ACTIVE"
    BY <1>9, <2>1, StutterIsStutter DEF UpdateMember
  <2>2. CASE s # "ACTIVE"
    <3>1. LiveSessions' = {} /\ EndedSessions' = EndedSessions \cup LiveSessions
      BY <1>9, <2>2, RevokedEnd DEF UpdateMember, Disable
    <3>2. OpenLinks' = {} /\ SpentLinks' = SpentLinks \cup OpenLinks
      BY <1>9, <2>2, RevokedLinksEnd DEF UpdateMember, Disable
    <3> PICK S \in SUBSET LiveSessions, old \in SUBSET OpenLinks : S = LiveSessions /\ old = OpenLinks
      OBVIOUS
    <3>3. Access!End(S, old)
      BY <1>9, <3>1, <3>2 DEF Access!End, UpdateMember
    <3> HIDE DEF LiveSessions, OpenLinks
    <3> QED BY <3>3, EndIsStep
  <2> QED BY <2>1, <2>2
<1>10. CASE UNCHANGED <<password, sessionRow, tokenRow>>
  BY <1>10, StutterIsStutter
<1>11. \/ Register \/ (\E h \in Passwords, s \in Sessions : LoginCommit(h, s))
       \/ (\E s \in Sessions, h \in Passwords : ChangeCommit(s, h))
       \/ (\E s \in Sessions : Logout(s))
       \/ ResetIssue \/ Resend \/ Invite \/ (\E t \in Tokens : AcceptCommit(t))
       \/ ResetMemberPassword \/ CreateMember
       \/ (\E s \in {"ACTIVE", "INACTIVE", "LOCKED"} : UpdateMember(s))
       \/ UNCHANGED <<password, sessionRow, tokenRow>>
  <2>1. CASE SessionStep
    BY <2>1 DEF SessionStep, LoginVerify, RefreshRead, RefreshRotate, Authenticate, ChangeVerify
  <2>2. CASE RecoveryStep
    BY <2>2 DEF RecoveryStep, ResetLock, EligibleIdentity, AcceptRead
  <2>3. CASE AdminStep
    BY <2>3 DEF AdminStep
  <2>4. CASE Clock
    BY <2>4 DEF Clock, AccessExpires, RefreshExpires, TokenExpires
  <2> QED BY <2>1, <2>2, <2>3, <2>4 DEF Next
<1> QED BY <1>1, <1>2, <1>3, <1>4, <1>5, <1>6, <1>7, <1>8, <1>9, <1>10, <1>11

(* The account implements AccountAccess. *)
THEOREM AuthImplementsAccess == Spec => ImplementsAccess
<1>1. Init => Access!AccessInit
  BY DEF Init, AccountInit, Access!AccessInit, Placeholder, Live, Open
<1>2. AuthInv /\ [Next]_vars => [Access!AccessNext]_(Access!accessVars)
  BY AccessStep, StutterIsStutter
<1> QED BY <1>1, <1>2, AuthInvariant, PTL DEF Spec, ImplementsAccess, Access!AccessSpec

-----------------------------------------------------------------------------
(* The limiters of logins and recoveries.                                  *)

BucketRows == [count : Int, started : Int, blocked : Int, updated : Int]
Writes == UNION {[K -> BucketRows] : K \in SUBSET Buckets}
AdmissionPlaces == {"idle", "reserve", "prune", "delete", "insert", "commit", "verify", "clear", "cleared"}
Admissions == [at : AdmissionPlaces, now : Nat, keys : SUBSET Buckets, writes : Writes,
               missed : {"none", "network", "account"}, stale : SUBSET Buckets, refused : BOOLEAN]

RateTypes ==
  /\ tick \in Nat /\ bucket \in [Buckets -> BucketRows] /\ admission \in [Clients -> Admissions]
  /\ scopeLock \in [{"network", "account"} -> Clients \cup {Unlocked}]

ScopeOf(n) == IF n = "network" THEN Networks ELSE Accounts
Committed(S) == {k \in S : bucket[k] # NoBucket}
Rows(c, S) == {k \in S : Row(c, k) # NoBucket}

\* A row is written by one transaction at a time.
WritesApart == \A c, d \in Clients : c # d => Written(c) \cap Written(d) = {}

\* Who prunes or inserts holds the scope of the bucket.
ScopeKnown(c) ==
  /\ admission[c].at \in {"idle", "verify"} => Written(c) = {}
  /\ admission[c].at \in {"reserve", "prune", "delete", "insert"} => admission[c].keys # {}
  /\ admission[c].at \in {"reserve", "prune", "delete", "insert"} /\ admission[c].missed # "none" =>
       admission[c].missed = ScopeName(NextKey(c))
  /\ admission[c].at \in {"prune", "delete", "insert"} =>
       admission[c].missed # "none" /\ scopeLock[admission[c].missed] = c
ScopesKnown == \A c \in Clients : ScopeKnown(c)

\* The rows a transaction sees fit a scope it has locked; without the lock it
\* makes no bucket.
FitsScope(c, n) ==
  /\ scopeLock[n] = c => Cardinality(Rows(c, ScopeOf(n))) <= BucketCapacity
  /\ scopeLock[n] # c => Rows(c, ScopeOf(n)) \subseteq Committed(ScopeOf(n))
AllFit == \A c \in Clients, n \in {"network", "account"} : FitsScope(c, n)

CapacityInv == \A n \in {"network", "account"} : Cardinality(Committed(ScopeOf(n))) <= BucketCapacity

RateInv == RateTypes /\ WritesApart /\ ScopesKnown /\ AllFit /\ CapacityInv

USE DEF rateVars

LEMMA SubsetsCount ==
  ASSUME NEW n \in {"network", "account"}, NEW S \in SUBSET ScopeOf(n)
  PROVE  /\ IsFiniteSet(S) /\ Cardinality(S) \in Nat
         /\ \A T \in SUBSET S : Cardinality(T) <= Cardinality(S)
<1>1. S \subseteq Buckets
  BY DEF ScopeOf, Buckets
<1>2. IsFiniteSet(S)
  BY <1>1, RateAssumption, FS_Subset
<1> QED BY <1>2, FS_Subset, FS_CardinalityType

LEMMA WriteParts ==
  ASSUME NEW r \in Admissions, NEW k \in Buckets, NEW row \in BucketRows
  PROVE  LET w == Write(r, k, row)
         IN  /\ w \in Admissions /\ DOMAIN w.writes = DOMAIN r.writes \cup {k}
             /\ w.writes[k] = row /\ \A l \in DOMAIN r.writes \ {k} : w.writes[l] = r.writes[l]
             /\ w.keys = r.keys /\ w.at = r.at /\ w.missed = r.missed /\ w.now = r.now
<1> DEFINE x == [l \in DOMAIN r.writes \cup {k} |-> IF l = k THEN row ELSE r.writes[l]]
<1>1. PICK K \in SUBSET Buckets : r.writes \in [K -> BucketRows]
  BY DEF Admissions, Writes
<1>2. x \in [K \cup {k} -> BucketRows]
  BY <1>1
<1>3. x \in Writes
  BY <1>2 DEF Writes
<1>4. DOMAIN x = DOMAIN r.writes \cup {k} /\ x[k] = row /\ \A l \in DOMAIN r.writes \ {k} : x[l] = r.writes[l]
  OBVIOUS
<1> HIDE DEF x
<1>5. Write(r, k, row) = [r EXCEPT !.writes = x]
  BY DEF Write, x
<1> QED BY <1>3, <1>4, <1>5 DEF Admissions

LEMMA ReservedParts ==
  ASSUME NEW row \in BucketRows, NEW now \in Nat, NEW limit \in Nat
  PROVE  Reserved(row, now, limit) \in BucketRows
BY RateAssumption DEF Reserved, BucketRows

\* A request that has not begun has written nothing.
LEMMA NothingWritten == NoBucket \in BucketRows /\ NoRequestYet \in Admissions /\ DOMAIN NoRequestYet.writes = {}
<1>1. NoBucket \in BucketRows
  BY DEF NoBucket, BucketRows
<1> DEFINE w == [k \in {} |-> NoBucket]
<1>2. w \in [{} -> BucketRows] /\ DOMAIN w = {}
  OBVIOUS
<1>3. w \in Writes
  BY <1>2 DEF Writes
<1> HIDE DEF w
<1>4. NoRequestYet = [at |-> "idle", now |-> 0, keys |-> {}, writes |-> w, missed |-> "none", stale |-> {},
                     refused |-> FALSE]
  BY DEF NoRequestYet, w
<1>5. NoRequestYet \in Admissions
  BY <1>3, <1>4 DEF Admissions, AdmissionPlaces
<1> QED BY <1>1, <1>2, <1>4, <1>5

LEMMA RateStarts == RateInit => RateInv
<1> SUFFICES ASSUME RateInit PROVE RateInv
  OBVIOUS
<1>1. NoBucket \in BucketRows /\ NoRequestYet \in Admissions /\ DOMAIN NoRequestYet.writes = {}
  BY NothingWritten
<1>2. RateTypes
  BY <1>1 DEF RateInit, RateTypes
<1>3. \A c \in Clients : Written(c) = {}
  BY <1>1 DEF RateInit, Written
<1>4. WritesApart
  BY <1>3 DEF WritesApart
<1>5. ScopesKnown
  BY <1>3 DEF RateInit, ScopesKnown, ScopeKnown, NoRequestYet
<1>6. \A n \in {"network", "account"} : Committed(ScopeOf(n)) = {}
  BY DEF RateInit, Committed, ScopeOf, Buckets
<1>7. CapacityInv
  BY <1>6, RateAssumption, FS_EmptySet DEF CapacityInv
<1>8. AllFit
  BY <1>3, RateAssumption DEF AllFit, FitsScope, Rows, Committed, Row, RateInit
<1> QED BY <1>2, <1>4, <1>5, <1>7, <1>8 DEF RateInv

\* What a request sees of a bucket, and which one it reserves next.
LEMMA RowParts ==
  ASSUME RateTypes, NEW c \in Clients
  PROVE  /\ admission[c] \in Admissions /\ Written(c) \subseteq Buckets
         /\ \A k \in Buckets : Row(c, k) \in BucketRows
         /\ \A k \in Written(c) : admission[c].writes[k] \in BucketRows
<1>1. admission[c] \in Admissions
  BY DEF RateTypes
<1>2. PICK K \in SUBSET Buckets : admission[c].writes \in [K -> BucketRows]
  BY <1>1 DEF Admissions, Writes
<1> QED BY <1>1, <1>2 DEF RateTypes, Written, Row

LEMMA NextKeyParts ==
  ASSUME RateTypes, NEW c \in Clients, admission[c].keys # {}
  PROVE  NextKey(c) \in admission[c].keys /\ NextKey(c) \in Buckets
BY DEF RateTypes, Admissions, NextKey

\* Only the request's own transaction moves: what another one sees stays.
LEMMA OwnStep ==
  ASSUME RateInv, NEW c \in Clients, NEW r \in Admissions, admission' = [admission EXCEPT ![c] = r],
         tick' = tick, bucket' = bucket,
         scopeLock' = scopeLock,
         \A k \in DOMAIN r.writes \ Written(c) : ~Held(c, k),
         ScopeKnown(c)', \A n \in {"network", "account"} : FitsScope(c, n)'
  PROVE  RateInv'
<1>1. RateTypes'
  BY DEF RateInv, RateTypes
<1>2. Written(c)' = DOMAIN r.writes /\ \A d \in Clients \ {c} : admission'[d] = admission[d] /\ Written(d)' = Written(d)
  BY DEF RateInv, RateTypes, Written
<1>3. \A d \in Clients \ {c} : Written(c)' \cap Written(d)' = {}
  BY <1>2 DEF RateInv, WritesApart, Held
<1>4. WritesApart'
  BY <1>2, <1>3 DEF RateInv, WritesApart
<1>5. ASSUME NEW d \in Clients \ {c} PROVE ScopeKnown(d)'
  BY <1>2 DEF RateInv, ScopesKnown, ScopeKnown, NextKey
<1>6. ScopesKnown'
  BY <1>5 DEF ScopesKnown
<1>7. ASSUME NEW d \in Clients \ {c}, NEW n \in {"network", "account"} PROVE FitsScope(d, n)'
  <2>1. \A k : Row(d, k)' = Row(d, k)
    BY <1>2 DEF Row
  <2> QED BY <2>1 DEF RateInv, AllFit, FitsScope, Rows, Committed
<1>8. AllFit'
  BY <1>7 DEF AllFit
<1>9. CapacityInv'
  BY DEF RateInv, CapacityInv, Committed
<1> QED BY <1>1, <1>4, <1>6, <1>8, <1>9 DEF RateInv

\* A transaction that makes no bucket keeps within the scopes.
LEMMA RowsShrink ==
  ASSUME RateInv, NEW c \in Clients, bucket' = bucket, scopeLock' = scopeLock,
         \A k \in Buckets : Row(c, k)' # NoBucket => Row(c, k) # NoBucket,
         NEW n \in {"network", "account"}
  PROVE  FitsScope(c, n)'
<1>1. ScopeOf(n) \subseteq Buckets
  BY DEF ScopeOf, Buckets
<1>2. Rows(c, ScopeOf(n))' \subseteq Rows(c, ScopeOf(n)) /\ Committed(ScopeOf(n))' = Committed(ScopeOf(n))
  BY <1>1 DEF Rows, Committed
<1>3. Rows(c, ScopeOf(n)) \in SUBSET ScopeOf(n)
  BY DEF Rows
<1>4. Cardinality(Rows(c, ScopeOf(n))') <= Cardinality(Rows(c, ScopeOf(n)))
  BY <1>2, <1>3, SubsetsCount
<1>5. Cardinality(Rows(c, ScopeOf(n))) \in Nat /\ Cardinality(Rows(c, ScopeOf(n))') \in Nat
  BY <1>2, <1>3, SubsetsCount
<1> QED BY <1>2, <1>4, <1>5, RateAssumption DEF RateInv, AllFit, FitsScope

\* One row is written, and it was there before if it is afterwards.
LEMMA OneRowWritten ==
  ASSUME RateInv, NEW c \in Clients, NEW k \in Buckets, NEW row \in BucketRows, NEW r \in Admissions,
         r.writes = Write(admission[c], k, row).writes, admission' = [admission EXCEPT ![c] = r],
         tick' = tick, bucket' = bucket, scopeLock' = scopeLock, ~Held(c, k),
         row # NoBucket => Row(c, k) # NoBucket, ScopeKnown(c)'
  PROVE  RateInv'
<1>1. admission[c] \in Admissions /\ admission \in [Clients -> Admissions]
  BY RowParts DEF RateInv, RateTypes
<1>2. /\ DOMAIN r.writes = Written(c) \cup {k} /\ r.writes[k] = row
      /\ \A l \in Written(c) \ {k} : r.writes[l] = admission[c].writes[l]
  BY <1>1, WriteParts DEF Written
<1>3. Row(c, k)' = row /\ \A l \in Buckets \ {k} : Row(c, l)' = Row(c, l)
  BY <1>1, <1>2 DEF Row, Written
<1>4. \A n \in {"network", "account"} : FitsScope(c, n)'
  BY <1>3, RowsShrink
<1> QED BY <1>2, <1>4, OwnStep

\* No row is written.
LEMMA NoRowWritten ==
  ASSUME RateInv, NEW c \in Clients, NEW r \in Admissions, r.writes = admission[c].writes,
         admission' = [admission EXCEPT ![c] = r], tick' = tick,
         bucket' = bucket, scopeLock' = scopeLock, ScopeKnown(c)'
  PROVE  RateInv'
<1>1. admission \in [Clients -> Admissions]
  BY DEF RateInv, RateTypes
<1>2. \A k \in Buckets : Row(c, k)' = Row(c, k)
  BY <1>1 DEF Row, Written
<1>3. \A n \in {"network", "account"} : FitsScope(c, n)'
  BY <1>2, RowsShrink
<1> QED BY <1>3, OwnStep DEF Written

\* The transaction ends; the rows it leaves behind are its own or the old ones.
LEMMA TransactionEnds ==
  ASSUME RateInv, NEW c \in Clients, NEW r \in Admissions, admission' = [admission EXCEPT ![c] = r],
         DOMAIN r.writes = {}, r.at \in {"idle", "verify"},
         tick' = tick, FreeScopes(c), bucket' \in [Buckets -> BucketRows],
         bucket' = bucket \/ \A k \in Buckets : bucket'[k] = Row(c, k)
  PROVE  RateInv'
<1> USE DEF RateInv
<1>1. \A n \in {"network", "account"} : scopeLock'[n] = IF scopeLock[n] = c THEN Unlocked ELSE scopeLock[n]
  BY DEF FreeScopes, RateTypes
<1>2. RateTypes'
  BY <1>1 DEF RateTypes, FreeScopes
<1>3. admission'[c] = r /\ Written(c)' = {} /\ \A d \in Clients \ {c} : admission'[d] = admission[d] /\ Written(d)' = Written(d)
  BY DEF RateTypes, Written
<1>4. WritesApart'
  BY <1>3 DEF WritesApart
<1>5. ASSUME NEW d \in Clients PROVE ScopeKnown(d)'
  <2>1. CASE d = c
    BY <1>3, <2>1 DEF ScopeKnown
  <2>2. CASE d # c
    BY <1>1, <1>3, <2>2 DEF RateTypes, Admissions, ScopesKnown, ScopeKnown, NextKey
  <2> QED BY <2>1, <2>2
<1>6. ScopesKnown'
  BY <1>5 DEF ScopesKnown
<1>7. ASSUME NEW n \in {"network", "account"}
      PROVE  /\ Cardinality(Committed(ScopeOf(n))') <= BucketCapacity
             /\ scopeLock[n] # c => Committed(ScopeOf(n))' \subseteq Committed(ScopeOf(n))
  <2>1. ScopeOf(n) \subseteq Buckets
    BY DEF ScopeOf, Buckets
  <2>2. Committed(ScopeOf(n))' = Committed(ScopeOf(n)) \/ Committed(ScopeOf(n))' = Rows(c, ScopeOf(n))
    BY <2>1 DEF Committed, Rows
  <2>3. FitsScope(c, n) /\ Committed(ScopeOf(n)) \in SUBSET ScopeOf(n)
    BY DEF AllFit, Committed
  <2>4. scopeLock[n] # c => Cardinality(Rows(c, ScopeOf(n))) <= Cardinality(Committed(ScopeOf(n)))
    BY <2>3, SubsetsCount DEF FitsScope
  <2>5. Rows(c, ScopeOf(n)) \in SUBSET ScopeOf(n)
    BY DEF Rows
  <2>6. Cardinality(Rows(c, ScopeOf(n))) \in Nat /\ Cardinality(Committed(ScopeOf(n))) \in Nat
    BY <2>3, <2>5, SubsetsCount
  <2>7. Cardinality(Committed(ScopeOf(n))) <= BucketCapacity
    BY DEF CapacityInv
  <2> QED BY <2>2, <2>3, <2>4, <2>6, <2>7, RateAssumption DEF FitsScope
<1>8. CapacityInv'
  BY <1>7 DEF CapacityInv
<1>9. ASSUME NEW d \in Clients, NEW n \in {"network", "account"} PROVE FitsScope(d, n)'
  <2>1. ScopeOf(n) \subseteq Buckets
    BY DEF ScopeOf, Buckets
  <2>2. CASE d = c
    <3>1. Rows(c, ScopeOf(n))' = Committed(ScopeOf(n))'
      BY <1>3 DEF Rows, Committed, Row
    <3>2. scopeLock'[n] # c
      BY <1>1, RateAssumption
    <3> QED BY <2>2, <3>1, <3>2 DEF FitsScope
  <2>3. CASE d # c
    <3>1. \A k \in Written(d) : Row(d, k)' = Row(d, k) /\ k \notin Written(c)
      BY <1>3, <2>3 DEF Row, WritesApart
    <3>2. \A k \in Buckets \ Written(d) : Row(d, k)' = bucket'[k] /\ Row(d, k) = bucket[k]
      BY <1>3, <2>3 DEF Row
    <3>3. \A k \in Buckets \cap Written(d) : bucket'[k] = bucket[k]
      BY <3>1 DEF Row
    <3>4. CASE scopeLock[n] = d
      <4>1. Committed(ScopeOf(n))' \subseteq Committed(ScopeOf(n))
        BY <1>7, <2>3, <3>4
      <4>2. Rows(d, ScopeOf(n))' \subseteq Rows(d, ScopeOf(n))
        <5> SUFFICES ASSUME NEW k \in ScopeOf(n), Row(d, k)' # NoBucket PROVE Row(d, k) # NoBucket
          BY DEF Rows
        <5>1. CASE k \in Written(d)
          BY <3>1, <5>1
        <5>2. CASE k \notin Written(d)
          <6>1. k \in Committed(ScopeOf(n))'
            BY <2>1, <3>2, <5>2 DEF Committed
          <6> QED BY <2>1, <3>2, <4>1, <5>2, <6>1 DEF Committed
        <5> QED BY <5>1, <5>2
      <4>3. Rows(d, ScopeOf(n)) \in SUBSET ScopeOf(n)
        BY DEF Rows
      <4>4. Cardinality(Rows(d, ScopeOf(n))') <= Cardinality(Rows(d, ScopeOf(n)))
        BY <4>2, <4>3, SubsetsCount
      <4>5. Cardinality(Rows(d, ScopeOf(n))) \in Nat /\ Cardinality(Rows(d, ScopeOf(n))') \in Nat
        BY <4>2, <4>3, SubsetsCount
      <4>6. Cardinality(Rows(d, ScopeOf(n))) <= BucketCapacity
        BY <3>4 DEF AllFit, FitsScope
      <4>7. scopeLock'[n] = d
        BY <1>1, <2>3, <3>4
      <4> QED BY <4>4, <4>5, <4>6, <4>7, RateAssumption DEF FitsScope
    <3>5. CASE scopeLock[n] # d
      <4>1. Rows(d, ScopeOf(n)) \subseteq Committed(ScopeOf(n))
        BY <3>5 DEF AllFit, FitsScope
      <4>2. Rows(d, ScopeOf(n))' \subseteq Committed(ScopeOf(n))'
        <5> SUFFICES ASSUME NEW k \in ScopeOf(n), Row(d, k)' # NoBucket PROVE bucket'[k] # NoBucket
          BY DEF Rows, Committed
        <5>1. CASE k \in Written(d)
          <6>1. k \in Rows(d, ScopeOf(n))
            BY <3>1, <5>1 DEF Rows
          <6> QED BY <2>1, <3>3, <4>1, <5>1, <6>1 DEF Committed
        <5>2. CASE k \notin Written(d)
          BY <2>1, <3>2, <5>2
        <5> QED BY <5>1, <5>2
      <4>3. scopeLock'[n] # d
        BY <1>1, <3>5, RateAssumption
      <4> QED BY <4>2, <4>3 DEF FitsScope
    <3> QED BY <3>4, <3>5
  <2> QED BY <2>2, <2>3
<1>10. AllFit'
  BY <1>9 DEF AllFit
<1> QED BY <1>2, <1>4, <1>6, <1>8, <1>10

-----------------------------------------------------------------------------
LEMMA BeginsAttempt ==
  ASSUME RateInv, NEW c \in Clients, BeginAttempt(c)
  PROVE  RateInv'
<1>0. PICK a \in Accounts, networks \in {{}} \cup {{n} : n \in Networks} :
        admission' = [admission EXCEPT ![c] = [NoRequestYet EXCEPT !.at = "reserve", !.now = tick, !.keys = {a} \cup networks]]
  BY DEF BeginAttempt
<1> DEFINE K == {a} \cup networks
<1>1. K \in SUBSET Buckets /\ K # {}
      /\ admission' = [admission EXCEPT ![c] = [NoRequestYet EXCEPT !.at = "reserve", !.now = tick, !.keys = K]]
  BY <1>0 DEF Buckets
<1> HIDE DEF K
<1> DEFINE r == [NoRequestYet EXCEPT !.at = "reserve", !.now = tick, !.keys = K]
<1>2. r \in Admissions
  BY <1>1, NothingWritten DEF RateInv, RateTypes, Admissions, AdmissionPlaces
<1>3. DOMAIN r.writes = {} /\ r.at = "reserve" /\ r.missed = "none" /\ r.keys = K
  BY NothingWritten DEF NoRequestYet
<1> HIDE DEF r
<1>4. admission' = [admission EXCEPT ![c] = r] /\ tick' = tick /\ bucket' = bucket /\ scopeLock' = scopeLock
  BY <1>1 DEF BeginAttempt, r
<1>5. admission'[c] = r /\ Written(c) = {}
  BY <1>4 DEF BeginAttempt, RateInv, RateTypes, ScopesKnown, ScopeKnown
<1>6. ScopeKnown(c)'
  BY <1>1, <1>3, <1>5 DEF ScopeKnown
<1>7. \A k \in Buckets : Row(c, k)' = Row(c, k)
  BY <1>3, <1>4, <1>5 DEF Row, Written
<1>8. \A n \in {"network", "account"} : FitsScope(c, n)'
  BY <1>4, <1>7, RowsShrink
<1> QED BY <1>2, <1>3, <1>4, <1>6, <1>8, OwnStep

\* What a reservation does to the request.
LEMMA ReservesParts ==
  ASSUME RateTypes, NEW c \in Clients, NEW k \in admission[c].keys, k \in Buckets, NEW row \in BucketRows,
         Reserve(c, k, row)
  PROVE  \E r \in Admissions :
           /\ admission' = [admission EXCEPT ![c] = r] /\ r.writes = Write(admission[c], k, row).writes
           /\ ScopeKnown(c)'
<1> DEFINE w == Write(admission[c], k, row)
           refused == row.blocked > admission[c].now
           at == IF refused \/ w.keys = {k} THEN "commit" ELSE "reserve"
           r == [w EXCEPT !.keys = @ \ {k}, !.missed = "none", !.refused = refused, !.at = at]
<1>1. admission[c] \in Admissions /\ admission \in [Clients -> Admissions]
  BY DEF RateTypes
<1>2. w \in Admissions /\ w.keys = admission[c].keys
  BY <1>1, WriteParts
<1>3. admission' = [admission EXCEPT ![c] = r]
  BY DEF Reserve
<1> HIDE DEF w
<1>4. refused \in BOOLEAN /\ at \in AdmissionPlaces
  BY DEF AdmissionPlaces
<1>5. at = "reserve" => admission[c].keys \ {k} # {}
  BY <1>2
<1>6. at \in {"commit", "reserve"}
  OBVIOUS
<1> HIDE DEF at, refused
<1>7. r \in Admissions /\ r.keys = admission[c].keys \ {k} /\ r.missed = "none" /\ r.at = at
      /\ r.writes = w.writes
  BY <1>2, <1>4 DEF Admissions
<1> HIDE DEF r
<1>8. admission'[c] = r
  BY <1>1, <1>3
<1>9. ScopeKnown(c)'
  BY <1>5, <1>6, <1>7, <1>8 DEF ScopeKnown
<1> QED BY <1>3, <1>7, <1>9 DEF w

LEMMA UpdatesExisting ==
  ASSUME RateInv, NEW c \in Clients, UpdateExisting(c)
  PROVE  RateInv'
<1> DEFINE k == NextKey(c)
           row == Reserved(Row(c, k), admission[c].now, Limit(k))
<1>1. RateTypes /\ admission[c] \in Admissions /\ admission[c].keys # {} /\ tick' = tick /\ bucket' = bucket
      /\ scopeLock' = scopeLock /\ admission \in [Clients -> Admissions]
  BY RowParts DEF RateInv, RateTypes, UpdateExisting, ScopesKnown, ScopeKnown
<1>2. k \in Buckets /\ k \in admission[c].keys
  BY <1>1, NextKeyParts
<1>3. CASE Row(c, k) # NoBucket /\ ~Held(c, k) /\ Reserve(c, k, row)
  <2>1. Row(c, k) \in BucketRows /\ admission[c].now \in Nat /\ Limit(k) \in Nat
    BY <1>1, <1>2, RowParts, RateAssumption DEF Admissions, Limit
  <2>2. row \in BucketRows
    BY <2>1, ReservedParts
  <2>3. PICK r \in Admissions :
          /\ admission' = [admission EXCEPT ![c] = r] /\ r.writes = Write(admission[c], k, row).writes
          /\ ScopeKnown(c)'
    BY <1>1, <1>2, <1>3, <2>2, ReservesParts
  <2> QED BY <1>1, <1>2, <1>3, <2>2, <2>3, OneRowWritten
<1>4. CASE admission' = [admission EXCEPT ![c].missed = ScopeName(k)]
  <2> DEFINE r == [admission[c] EXCEPT !.missed = ScopeName(k)]
  <2>1. r \in Admissions /\ r.writes = admission[c].writes /\ r.keys = admission[c].keys /\ r.missed = ScopeName(k)
        /\ r.at = "reserve"
    BY <1>1 DEF Admissions, ScopeName, UpdateExisting
  <2>2. admission' = [admission EXCEPT ![c] = r]
    BY <1>4
  <2> HIDE DEF r
  <2>3. admission'[c] = r
    BY <1>1, <2>2
  <2>4. ScopeKnown(c)'
    BY <1>1, <2>1, <2>3 DEF ScopeKnown, NextKey
  <2> QED BY <1>1, <2>1, <2>2, <2>4, NoRowWritten
<1> QED BY <1>3, <1>4 DEF UpdateExisting

LEMMA LocksScope ==
  ASSUME RateInv, NEW c \in Clients, LockScope(c)
  PROVE  RateInv'
<1> DEFINE m == admission[c].missed
<1>1. m \in {"network", "account"} /\ admission[c].at = "reserve" /\ admission[c].keys # {} /\ m = ScopeName(NextKey(c))
  BY DEF LockScope, RateInv, RateTypes, Admissions, ScopesKnown, ScopeKnown
<1>2. scopeLock[m] \in {Unlocked, c} /\ scopeLock' = [scopeLock EXCEPT ![m] = c]
      /\ admission' = [admission EXCEPT ![c].at = "prune"] /\ tick' = tick /\ bucket' = bucket
  BY DEF LockScope, TakeScope
<1> HIDE DEF m
<1>3. scopeLock'[m] = c /\ \A n \in {"network", "account"} \ {m} : scopeLock'[n] = scopeLock[n]
  BY <1>1, <1>2 DEF RateInv, RateTypes
<1>4. /\ admission'[c] = [admission[c] EXCEPT !.at = "prune"]
      /\ \A d \in Clients \ {c} : admission'[d] = admission[d]
  BY <1>2 DEF RateInv, RateTypes
<1>5. RateTypes'
  <2>1. admission'[c] \in Admissions
    BY <1>4 DEF RateInv, RateTypes, Admissions, AdmissionPlaces
  <2>2. admission' \in [Clients -> Admissions]
    BY <1>2, <1>4, <2>1 DEF RateInv, RateTypes
  <2> QED BY <1>2, <2>2 DEF RateInv, RateTypes
<1>6. admission'[c].writes = admission[c].writes /\ admission'[c].keys = admission[c].keys /\ admission'[c].missed = m
      /\ admission'[c].at = "prune"
  BY <1>4 DEF RateInv, RateTypes, Admissions, m
<1>7. \A d \in Clients : Written(d)' = Written(d) /\ \A k : Row(d, k)' = Row(d, k)
  BY <1>2, <1>4, <1>6 DEF Written, Row
<1>8. WritesApart'
  BY <1>7 DEF RateInv, WritesApart
<1>9. ASSUME NEW d \in Clients PROVE ScopeKnown(d)'
  <2>1. CASE d = c
    BY <1>1, <1>3, <1>6, <2>1 DEF ScopeKnown, NextKey
  <2>2. CASE d # c
    <3>1. ScopeKnown(d) /\ admission[d].missed \in {"none", "network", "account"} /\ admission'[d] = admission[d]
      BY <1>4, <2>2 DEF RateInv, RateTypes, Admissions, ScopesKnown
    <3>2. admission[d].at \in {"prune", "delete", "insert"} => scopeLock'[admission[d].missed] = d
      BY <1>2, <1>3, <2>2, <3>1, RateAssumption DEF ScopeKnown
    <3> QED BY <1>7, <3>1, <3>2 DEF ScopeKnown, NextKey
  <2> QED BY <2>1, <2>2
<1>10. ScopesKnown'
  BY <1>9 DEF ScopesKnown
<1>11. \A n \in {"network", "account"} : Committed(ScopeOf(n))' = Committed(ScopeOf(n))
  BY <1>2 DEF Committed
<1>12. CapacityInv'
  BY <1>11 DEF RateInv, CapacityInv
<1>13. ASSUME NEW d \in Clients, NEW n \in {"network", "account"} PROVE FitsScope(d, n)'
  <2>1. Rows(d, ScopeOf(n))' = Rows(d, ScopeOf(n)) /\ FitsScope(d, n)
    BY <1>7 DEF Rows, RateInv, AllFit
  <2>2. CASE d = c /\ n = m
    <3>1. CASE scopeLock[m] = c
      BY <1>3, <2>1, <2>2, <3>1 DEF FitsScope
    <3>2. CASE scopeLock[m] # c
      <4>1. Rows(c, ScopeOf(m)) \subseteq Committed(ScopeOf(m)) /\ Committed(ScopeOf(m)) \in SUBSET ScopeOf(m)
        BY <2>1, <2>2, <3>2 DEF FitsScope, Committed
      <4>2. Cardinality(Rows(c, ScopeOf(m))) <= Cardinality(Committed(ScopeOf(m)))
        BY <1>1, <4>1, SubsetsCount
      <4>3. Cardinality(Rows(c, ScopeOf(m))) \in Nat /\ Cardinality(Committed(ScopeOf(m))) \in Nat
        BY <1>1, <4>1, SubsetsCount
      <4>4. Cardinality(Committed(ScopeOf(m))) <= BucketCapacity
        BY <1>1 DEF RateInv, CapacityInv
      <4>5. Cardinality(Rows(c, ScopeOf(m))) <= BucketCapacity
        BY <4>2, <4>3, <4>4, RateAssumption
      <4> QED BY <1>3, <2>1, <2>2, <4>5 DEF FitsScope
    <3> QED BY <3>1, <3>2
  <2>3. CASE d # c /\ n = m
    <3>1. scopeLock[m] # d /\ scopeLock'[m] # d
      BY <1>2, <1>3, <2>3, RateAssumption
    <3> QED BY <1>11, <2>1, <2>3, <3>1 DEF FitsScope
  <2>4. CASE n # m
    BY <1>3, <1>11, <2>1, <2>4 DEF FitsScope
  <2> QED BY <2>2, <2>3, <2>4
<1>14. AllFit'
  BY <1>13 DEF AllFit
<1> QED BY <1>5, <1>8, <1>10, <1>12, <1>14 DEF RateInv

LEMMA ClearsAccount ==
  ASSUME RateInv, NEW c \in Clients, ClearAccount(c)
  PROVE  RateInv'
<1>0. PICK k \in admission[c].keys \cap Accounts :
        /\ ~Held(c, k)
        /\ admission' = [admission EXCEPT ![c] = [Write(admission[c], k, NoBucket) EXCEPT
             !.keys = @ \ {k}, !.at = IF admission[c].keys = {k} THEN "cleared" ELSE "clear"]]
  BY DEF ClearAccount
<1> DEFINE w == Write(admission[c], k, NoBucket)
           r == [w EXCEPT !.keys = @ \ {k}, !.at = IF admission[c].keys = {k} THEN "cleared" ELSE "clear"]
<1>1. admission[c] \in Admissions /\ admission \in [Clients -> Admissions]
  BY DEF RateInv, RateTypes
<1>2. k \in Buckets /\ k \in admission[c].keys
  BY <1>0 DEF Buckets
<1>3. admission' = [admission EXCEPT ![c] = r] /\ ~Held(c, k) /\ tick' = tick /\ bucket' = bucket
      /\ scopeLock' = scopeLock
  BY <1>0 DEF ClearAccount
<1>4. w \in Admissions
  BY <1>1, <1>2, NothingWritten, WriteParts
<1> HIDE DEF w
<1>5. r \in Admissions /\ r.writes = w.writes /\ r.at \in {"clear", "cleared"}
  BY <1>4 DEF Admissions, AdmissionPlaces
<1> HIDE DEF r
<1>6. ScopeKnown(c)'
  BY <1>1, <1>3, <1>5 DEF ScopeKnown
<1> QED BY <1>2, <1>3, <1>5, <1>6, NothingWritten, OneRowWritten DEF w

LEMMA ClearsNetwork ==
  ASSUME RateInv, NEW c \in Clients, ClearNetwork(c)
  PROVE  RateInv'
<1> DEFINE k == NextKey(c)
           row == Row(c, k)
           count == IF row.count > 0 THEN row.count - 1 ELSE 0
           left == IF row = NoBucket \/ (count = 0 /\ row.blocked <= admission[c].now) THEN NoBucket
                   ELSE [row EXCEPT !.count = count, !.updated = admission[c].now]
           w == Write(admission[c], k, left)
           r == [w EXCEPT !.keys = {}, !.at = "cleared"]
<1>1. admission[c] \in Admissions /\ admission \in [Clients -> Admissions] /\ admission[c].now \in Nat /\ RateTypes
  BY DEF RateInv, RateTypes, Admissions
<1>2. k \in Buckets
  BY <1>1, NextKeyParts DEF ClearNetwork
<1>3. admission' = [admission EXCEPT ![c] = r] /\ ~Held(c, k) /\ tick' = tick /\ bucket' = bucket
      /\ scopeLock' = scopeLock
  BY DEF ClearNetwork
<1> HIDE DEF k
<1>4. row \in BucketRows
  BY <1>1, <1>2, RowParts
<1>5. left \in BucketRows /\ (left # NoBucket => Row(c, k) # NoBucket)
  <2>1. count \in Int
    BY <1>4 DEF BucketRows
  <2> HIDE DEF count, row
  <2>a. PICK now \in Int : now = admission[c].now
    BY <1>1
  <2>2. [row EXCEPT !.count = count, !.updated = now] \in BucketRows
    BY <1>1, <1>4, <2>1 DEF BucketRows
  <2>3. left = NoBucket \/ (row # NoBucket /\ left = [row EXCEPT !.count = count, !.updated = now])
    BY <2>a
  <2> HIDE DEF left
  <2> QED BY <2>2, <2>3, NothingWritten DEF row
<1> HIDE DEF left
<1>6. w \in Admissions
  BY <1>1, <1>2, <1>5, WriteParts
<1> HIDE DEF w
<1>7. r \in Admissions /\ r.writes = w.writes /\ r.at = "cleared"
  BY <1>6 DEF Admissions, AdmissionPlaces
<1> HIDE DEF r
<1>8. ScopeKnown(c)'
  BY <1>1, <1>3, <1>7 DEF ScopeKnown
<1> QED BY <1>2, <1>3, <1>5, <1>7, <1>8, OneRowWritten DEF w

LEMMA PasswordIsRight ==
  ASSUME RateInv, NEW c \in Clients, PasswordRight(c)
  PROVE  RateInv'
<1> DEFINE r == [admission[c] EXCEPT !.at = "clear", !.now = tick]
<1>1. r \in Admissions /\ r.writes = admission[c].writes /\ r.at = "clear"
  BY DEF RateInv, RateTypes, Admissions, AdmissionPlaces
<1>2. admission' = [admission EXCEPT ![c] = r] /\ tick' = tick /\ bucket' = bucket /\ scopeLock' = scopeLock
  BY DEF PasswordRight
<1> HIDE DEF r
<1>3. ScopeKnown(c)'
  BY <1>1, <1>2 DEF ScopeKnown, RateInv, RateTypes
<1> QED BY <1>1, <1>2, <1>3, NoRowWritten

LEMMA CommitsRequest ==
  ASSUME RateInv, NEW c \in Clients, CommitRequest(c)
  PROVE  RateInv'
<1>1. PICK r \in {NoRequestYet, [NoRequestYet EXCEPT !.at = "verify", !.keys = Written(c)]} :
        admission' = [admission EXCEPT ![c] = r]
  BY DEF CommitRequest
<1>2. Written(c) \subseteq Buckets /\ \A k \in Buckets : Row(c, k) \in BucketRows
  BY RowParts DEF RateInv
<1>3. r \in Admissions /\ DOMAIN r.writes = {} /\ r.at \in {"idle", "verify"}
  BY <1>1, <1>2, NothingWritten DEF Admissions, AdmissionPlaces, NoRequestYet
<1>4. bucket' \in [Buckets -> BucketRows] /\ (\A k \in Buckets : bucket'[k] = Row(c, k))
      /\ FreeScopes(c) /\ tick' = tick
  BY <1>2 DEF CommitRequest
<1> QED BY <1>1, <1>3, <1>4, TransactionEnds

LEMMA AbortsRequest ==
  ASSUME RateInv, NEW c \in Clients, RequestAborts(c)
  PROVE  RateInv'
<1>1. NoRequestYet.at = "idle"
  BY DEF NoRequestYet
<1> QED BY <1>1, NothingWritten, TransactionEnds DEF RequestAborts, RateInv, RateTypes

-----------------------------------------------------------------------------
\* Rows are chosen, then deleted, under the scope's lock.
LEMMA PrunesScope ==
  ASSUME RateInv, NEW c \in Clients, PruneScope(c)
  PROVE  RateInv'
<1>1. admission[c] \in Admissions /\ admission \in [Clients -> Admissions] /\ ScopeKnown(c) /\ RateTypes
      /\ admission[c].at = "prune" /\ tick' = tick /\ bucket' = bucket /\ scopeLock' = scopeLock
  BY DEF RateInv, RateTypes, ScopesKnown, PruneScope
<1>2. PICK chosen \in SUBSET Scope(NextKey(c)) :
        admission' = [admission EXCEPT ![c].at = "delete", ![c].stale = chosen]
  BY DEF PruneScope
<1> DEFINE r == [admission[c] EXCEPT !.at = "delete", !.stale = chosen]
<1>3. chosen \in SUBSET Buckets
  BY <1>2 DEF Scope, Buckets
<1>4. /\ r \in Admissions /\ r.writes = admission[c].writes /\ r.at = "delete" /\ r.keys = admission[c].keys
      /\ r.missed = admission[c].missed
  BY <1>1, <1>3 DEF Admissions, AdmissionPlaces
<1>5. admission' = [admission EXCEPT ![c] = r]
  BY <1>1, <1>2
<1> HIDE DEF r
<1>6. admission'[c] = r
  BY <1>1, <1>5
<1>7. ScopeKnown(c)'
  BY <1>1, <1>4, <1>6 DEF ScopeKnown, NextKey
<1> QED BY <1>1, <1>4, <1>5, <1>7, NoRowWritten

LEMMA DeletesStale ==
  ASSUME RateInv, NEW c \in Clients, DeleteStale(c)
  PROVE  RateInv'
<1>1. RateTypes /\ admission \in [Clients -> Admissions] /\ admission[c] \in Admissions /\ ScopeKnown(c)
      /\ admission[c].at = "delete" /\ tick' = tick /\ bucket' = bucket /\ scopeLock' = scopeLock
  BY DEF RateInv, RateTypes, ScopesKnown, DeleteStale
<1>2. PICK gone \in SUBSET admission[c].stale :
        /\ \A l \in gone : ~Held(c, l)
        /\ admission' = [admission EXCEPT ![c] = [@ EXCEPT !.at = "insert", !.stale = {},
             !.writes = [l \in Written(c) \cup gone |-> IF l \in gone THEN NoBucket ELSE Row(c, l)]]]
  BY DEF DeleteStale
<1> DEFINE pruned == [l \in Written(c) \cup gone |-> IF l \in gone THEN NoBucket ELSE Row(c, l)]
           r == [admission[c] EXCEPT !.at = "insert", !.stale = {}, !.writes = pruned]
<1>3. gone \subseteq Buckets /\ Written(c) \subseteq Buckets /\ \A l \in Buckets : Row(c, l) \in BucketRows
  BY <1>1, <1>2, RowParts DEF Admissions
<1>4. DOMAIN pruned = Written(c) \cup gone /\ pruned \in Writes
      /\ \A l \in DOMAIN pruned : pruned[l] = IF l \in gone THEN NoBucket ELSE Row(c, l)
  <2>1. pruned \in [Written(c) \cup gone -> BucketRows]
    BY <1>3, NothingWritten
  <2>2. Written(c) \cup gone \in SUBSET Buckets
    BY <1>3
  <2> QED BY <2>1, <2>2 DEF Writes
<1>5. admission' = [admission EXCEPT ![c] = r]
  BY <1>2
<1> HIDE DEF pruned
<1>6. /\ r \in Admissions /\ r.writes = pruned /\ r.at = "insert" /\ r.keys = admission[c].keys
      /\ r.missed = admission[c].missed
  BY <1>1, <1>4 DEF Admissions, AdmissionPlaces
<1> HIDE DEF r
<1>7. admission'[c] = r
  BY <1>1, <1>5
<1>8. ScopeKnown(c)'
  BY <1>1, <1>6, <1>7 DEF ScopeKnown, NextKey
<1>9. \A l \in Buckets : Row(c, l)' # NoBucket => Row(c, l) # NoBucket
  BY <1>1, <1>4, <1>6, <1>7 DEF Row, Written
<1>10. \A n \in {"network", "account"} : FitsScope(c, n)'
  BY <1>1, <1>9, RowsShrink
<1>11. \A l \in DOMAIN r.writes \ Written(c) : ~Held(c, l)
  BY <1>2, <1>4, <1>6
<1> QED BY <1>1, <1>5, <1>6, <1>8, <1>10, <1>11, OwnStep

\* A bucket is inserted under the scope's lock, while its rows leave room.
LEMMA InsertsBucket ==
  ASSUME RateInv, NEW c \in Clients, InsertBucket(c)
  PROVE  RateInv'
<1> DEFINE k == NextKey(c)
           now == admission[c].now
<1>1. RateTypes /\ admission \in [Clients -> Admissions] /\ admission[c] \in Admissions /\ now \in Nat
      /\ admission[c].at = "insert" /\ tick' = tick /\ bucket' = bucket /\ scopeLock' = scopeLock
  BY DEF RateInv, RateTypes, Admissions, InsertBucket
<1>2. PICK m \in {"network", "account"} : admission[c].keys # {} /\ m = ScopeName(k) /\ scopeLock[m] = c
  BY <1>1 DEF RateInv, Admissions, ScopesKnown, ScopeKnown
<1> DEFINE S == ScopeOf(m)
<1>3. k \in Buckets /\ k \in admission[c].keys
  BY <1>1, <1>2, NextKeyParts
<1>4. Scope(k) = S /\ k \in S /\ S \subseteq Buckets
      /\ \A n \in {"network", "account"} \ {m} : ScopeOf(n) \cap S = {} /\ ScopeOf(n) \subseteq Buckets
  BY <1>2, <1>3, RateAssumption DEF Scope, ScopeOf, ScopeName, Buckets
<1> DEFINE first == [count |-> 1, started |-> now, blocked |-> 0, updated |-> now]
           row == IF Row(c, k) = NoBucket THEN first ELSE Reserved(Row(c, k), now, Limit(k))
           refused == [admission[c] EXCEPT !.refused = TRUE, !.at = "commit"]
           room == Cardinality(Rows(c, S)) < BucketCapacity
<1>5. \/ room /\ ~Held(c, k) /\ Reserve(c, k, row)
      \/ ~room /\ admission' = [admission EXCEPT ![c] = refused]
  BY <1>4 DEF InsertBucket, Rows
<1>6. row \in BucketRows
  <2>1. Row(c, k) \in BucketRows /\ Limit(k) \in Nat
    BY <1>1, <1>3, RowParts, RateAssumption DEF Limit
  <2>2. Reserved(Row(c, k), now, Limit(k)) \in BucketRows
    BY <1>1, <2>1, ReservedParts
  <2>3. first \in BucketRows
    BY <1>1 DEF BucketRows
  <2> QED BY <2>2, <2>3
<1> HIDE DEF row
<1>7. CASE ~room
  <2>1. refused \in Admissions /\ refused.writes = admission[c].writes /\ refused.at = "commit"
    BY <1>1 DEF Admissions, AdmissionPlaces
  <2> HIDE DEF refused
  <2>2. admission' = [admission EXCEPT ![c] = refused] /\ admission'[c] = refused
    BY <1>1, <1>5, <1>7
  <2>3. ScopeKnown(c)'
    BY <2>1, <2>2 DEF ScopeKnown
  <2> QED BY <1>1, <2>1, <2>2, <2>3, NoRowWritten
<1>8. CASE room
  <2>1. ~Held(c, k) /\ Reserve(c, k, row)
    BY <1>5, <1>8
  <2>2. PICK r \in Admissions :
          /\ admission' = [admission EXCEPT ![c] = r] /\ r.writes = Write(admission[c], k, row).writes
          /\ ScopeKnown(c)'
    BY <1>1, <1>3, <1>6, <2>1, ReservesParts
  <2>3. DOMAIN r.writes = Written(c) \cup {k} /\ \A l \in Written(c) \ {k} : r.writes[l] = admission[c].writes[l]
    BY <1>1, <1>3, <1>6, <2>2, WriteParts DEF Written
  <2>4. admission'[c] = r
    BY <1>1, <2>2
  <2>5. \A l \in Buckets \ {k} : Row(c, l)' = Row(c, l)
    BY <1>1, <2>3, <2>4 DEF Row, Written
  <2>6. \A l \in DOMAIN r.writes \ Written(c) : ~Held(c, l)
    BY <2>1, <2>3
  <2>7. ASSUME NEW n \in {"network", "account"} PROVE FitsScope(c, n)'
    <3> DEFINE here == Rows(c, S)
    <3>1. CASE n = m
      <4>1. Rows(c, S)' \subseteq here \cup {k}
        BY <1>4, <2>5 DEF Rows
      <4>2. here \in SUBSET S /\ here \cup {k} \in SUBSET S
        BY <1>4 DEF Rows
      <4>3. Cardinality(here) < BucketCapacity
        BY <1>8
      <4> HIDE DEF here, k
      <4>4. IsFiniteSet(here) /\ Cardinality(here) \in Nat
        BY <1>2, <4>2, SubsetsCount
      <4>5. Cardinality(here \cup {k}) <= Cardinality(here) + 1
        <5>1. Cardinality(here \cup {k}) = IF k \in here THEN Cardinality(here) ELSE Cardinality(here) + 1
          BY <4>4, FS_AddElement
        <5> QED BY <4>4, <5>1
      <4>6. Cardinality(Rows(c, S)') <= Cardinality(here \cup {k}) /\ Cardinality(here \cup {k}) \in Nat
            /\ Cardinality(Rows(c, S)') \in Nat
        BY <1>2, <4>1, <4>2, SubsetsCount
      <4>7. Cardinality(Rows(c, S)') <= BucketCapacity
        BY <4>3, <4>4, <4>5, <4>6, RateAssumption
      <4>8. scopeLock'[n] = c
        BY <1>1, <1>2, <3>1
      <4> QED BY <3>1, <4>7, <4>8 DEF FitsScope
    <3>2. CASE n # m
      <4>1. \A l \in ScopeOf(n) : l \in Buckets /\ l # k
        BY <1>4, <3>2
      <4>2. \A l \in ScopeOf(n) : Row(c, l)' = Row(c, l)
        BY <2>5, <4>1
      <4>3. Rows(c, ScopeOf(n))' = Rows(c, ScopeOf(n)) /\ Committed(ScopeOf(n))' = Committed(ScopeOf(n))
        BY <1>1, <4>2 DEF Rows, Committed
      <4> QED BY <1>1, <4>3 DEF RateInv, AllFit, FitsScope
    <3> QED BY <3>1, <3>2
  <2> QED BY <1>1, <2>2, <2>6, <2>7, OwnStep
<1> QED BY <1>7, <1>8

LEMMA TimeGoesOn ==
  ASSUME RateInv, TimePasses \/ UNCHANGED rateVars
  PROVE  RateInv'
<1>1. tick' \in Nat /\ bucket' = bucket /\ admission' = admission /\ scopeLock' = scopeLock
  BY DEF TimePasses, RateInv, RateTypes
<1>2. RateTypes'
  BY <1>1 DEF RateInv, RateTypes
<1>3. \A c \in Clients : Written(c)' = Written(c) /\ \A k : Row(c, k)' = Row(c, k)
  BY <1>1 DEF Written, Row
<1>4. WritesApart' /\ ScopesKnown'
  BY <1>1, <1>3 DEF RateInv, WritesApart, ScopesKnown, ScopeKnown, NextKey
<1>5. AllFit' /\ CapacityInv'
  BY <1>1, <1>3 DEF RateInv, AllFit, FitsScope, Rows, Committed, CapacityInv
<1> QED BY <1>2, <1>4, <1>5 DEF RateInv

-----------------------------------------------------------------------------
(* Every step of the limiters preserves the inductive invariant. *)
THEOREM RateInvariant == RateSpec => []RateInv
<1>1. ASSUME RateInv, [RateNext]_rateVars PROVE RateInv'
  <2>1. CASE UNCHANGED rateVars
    BY <1>1, <2>1, TimeGoesOn
  <2>2. CASE RateNext
    BY <1>1, <2>2, TimeGoesOn, BeginsAttempt, UpdatesExisting, LocksScope, PrunesScope, DeletesStale, InsertsBucket, ClearsAccount,
       ClearsNetwork, CommitsRequest, PasswordIsRight, AbortsRequest DEF RateNext
  <2> QED BY <1>1, <2>1, <2>2
<1> QED BY <1>1, RateStarts, PTL DEF RateSpec

(* A scope never holds more buckets than its capacity. *)
THEOREM BucketsBounded == RateSpec => []WithinBucketCapacity
<1>1. RateInv => WithinBucketCapacity
  <2> SUFFICES ASSUME RateInv, NEW scope \in {Networks, Accounts}
               PROVE  Cardinality({k \in scope : bucket[k] # NoBucket}) <= BucketCapacity
    BY DEF WithinBucketCapacity
  <2>1. scope = ScopeOf("network") \/ scope = ScopeOf("account")
    BY DEF ScopeOf
  <2> QED BY <2>1 DEF RateInv, CapacityInv, Committed
<1> QED BY <1>1, RateInvariant, PTL
=============================================================================
