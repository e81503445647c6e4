----------------------------- MODULE AccountAccess -----------------------------
(***************************************************************************)
(* What an account promises its owner, without rows, locks or requests: a  *)
(* new secret ends every way in that the old one has opened, except at     *)
(* most the session it is set from, and what has ended never comes back.   *)
(***************************************************************************)
EXTENDS Naturals

CONSTANTS Doors,   \* sessions
          Links    \* recovery links and invitations

VARIABLES secret,        \* number of the current secret
          doors, shut,   \* open and ended sessions
          links, spent   \* open and ended links

accessVars == <<secret, doors, shut, links, spent>>

AccessInit ==
  /\ secret = 0
  /\ doors = {} /\ shut = {} /\ links = {} /\ spent = {}

\* Someone comes in.
Enter(s) ==
  /\ s \notin doors \cup shut
  /\ doors' = doors \cup {s}
  /\ UNCHANGED <<secret, shut, links, spent>>

\* A link is sent, in place of some of those before it.
Send(t, old) ==
  /\ t \notin links \cup spent
  /\ links' = (links \ old) \cup {t}
  /\ spent' = spent \cup old
  /\ UNCHANGED <<secret, doors, shut>>

\* Sessions and links end.
End(S, old) ==
  /\ doors' = doors \ S /\ shut' = shut \cup S
  /\ links' = links \ old /\ spent' = spent \cup old
  /\ UNCHANGED secret

\* A new secret is set: from the session in `kept`, from a link or by someone else.
Renew(kept) ==
  /\ \A r, s \in kept : r = s
  /\ secret' = secret + 1
  /\ doors' = kept /\ shut' = shut \cup (doors \ kept)
  /\ links' = {} /\ spent' = spent \cup links

\* The account begins with a secret and a session.
Begin(s) ==
  /\ secret = 0 /\ doors \cup shut = {} /\ links = {}
  /\ secret' = 1 /\ doors' = {s}
  /\ UNCHANGED <<shut, links, spent>>

AccessNext ==
  \/ \E s \in Doors : Enter(s) \/ Begin(s)
  \/ \E t \in Links : \E old \in SUBSET links : Send(t, old)
  \/ \E S \in SUBSET doors : \E old \in SUBSET links : End(S, old)
  \/ \E kept \in SUBSET doors : Renew(kept)

AccessSpec == AccessInit /\ [][AccessNext]_accessVars
=============================================================================
